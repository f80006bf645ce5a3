---------------------------- MODULE WinWriteBack ----------------------------
\* The Windows mount (cdwinfs/src/fs.rs): WinFSP calls its handlers from several
\* dispatcher threads, each with the handle (FileCtx) it is about; a close starts
\* a thread that saves; the TUI has a save key.
\*
\* Contents are sets of edits: a write adds one, an overwrite starts from none, 0
\* is what the game ships.  Rendering a view and converting it back keep the set.
\* What happens on disk in one save is the subject of RepackChain, how threads share
\* a decode that of ReadPath.  The shipped files lie in one PAZ.  That reload_group
\* fails on index files just written, and renames of views, are left out.
EXTENDS Integers, FiniteSets

CONSTANTS
  None,
  Shipped,    \* files of the game
  Views,      \* writable files of virtual roots, as virtual_files::resolve knows them
  User,       \* paths without a shipped file
  SourceOf,   \* [Views -> Shipped]
  Handles,
  Threads,    \* that save
  Evictable,  \* what the decode cache may drop
  MaxEdits,   \* bound: creates, overwrites, writes, resizes and renames
  Unsaid,     \* where a flush may give up with a line in the log at most
  Habits      \* of the clients, see May

Paths == Shipped \cup Views \cup User
Bases == Shipped \cup User
Base(p) == IF p \in Views THEN SourceOf[p] ELSE p

ASSUME WinAssumption ==
  /\ Shipped \cap Views = {} /\ Shipped \cap User = {} /\ Views \cap User = {}
  /\ SourceOf \in [Views -> Shipped]
  /\ MaxEdits \in Nat
  /\ None \notin Paths /\ \A d \in SUBSET (0..MaxEdits) : d # None
  /\ Unsaid \subseteq {"convert", "put", "store"}
  /\ Habits \subseteq {"hasty", "two names", "manual", "resize only", "rename over",
                      "on report", "blind edit"}

VARIABLES
  overlay,   \* write_overlay
  pending,   \* pending_paths
  cache,     \* decode_cache
  disk,      \* what a lookup leads to, or None
  short,     \* files stored behind the end of the map of their PAZ
  handle,    \* the open FileCtx, each with the call it is in
  job,       \* the threads in flush_path_sync
  batch,     \* flush_all_pending, and what it took
  intended,  \* observation: what the clients left in each file
  excused,   \* bases whose last save failed or was given up
  raced,     \* bases a decode of which overlapped a change of them
  nameOf,    \* the name clients write a shipped file by
  bare,      \* handles that only resized
  torn,      \* a save took what another handle was still writing
  edits

client == <<handle, nameOf, bare, edits>>
ghosts == <<intended, excused, raced, torn>>
stores == <<overlay, pending, cache, disk, short>>
vars == <<stores, client, job, batch, ghosts>>

Closed == [at |-> "closed", path |-> None, wrote |-> FALSE, snap |-> None]
Idle == [at |-> "idle", path |-> None, data |-> {}]
Nothing == [p \in Paths |-> None]
NoBatch == [at |-> "idle", todo |-> {}, snap |-> Nothing]

Init ==
  /\ overlay = Nothing
  /\ pending = {}
  /\ cache = Nothing
  /\ disk = [p \in Paths |-> IF p \in Shipped THEN {0} ELSE None]
  /\ short = {}
  /\ handle = [h \in Handles |-> Closed]
  /\ job = [w \in Threads |-> Idle]
  /\ batch = NoBatch
  /\ intended = [b \in Bases |-> disk[b]]
  /\ excused = {}
  /\ raced = {}
  /\ nameOf = [b \in Shipped |-> None]
  /\ bare = {}
  /\ torn = FALSE
  /\ edits = 0

-----------------------------------------------------------------------------
\* Reading

\* The map of a PAZ is made by the first decode of one of its files.  Saves drop that
\* of the game's PAZ before they append, that of the user PAZ nobody drops: what is
\* stored while there is one can be read from the cache only.
OutOfReach(p) == cache[p] = None /\ cache[Base(p)] = None /\ Base(p) \in short

\* Whether there is one when p is stored, the other files of its PAZ decide.
Appends(p) ==
  \/ short' = short \cup {p}
  \/ short' = short /\ (p \notin Shipped => short \subseteq Shipped)

\* decode and decode_inner: the cache, else the entry; a view is rendered from its
\* source, decoded the same way.  The overlay is not looked at.
Decoded(p) ==
  IF OutOfReach(p) THEN None
  ELSE IF cache[p] # None THEN cache[p]
  ELSE IF cache[Base(p)] # None THEN cache[Base(p)] ELSE disk[Base(p)]

\* ... and both land in the cache.
CacheWith(p, content) ==
  [q \in Paths |-> IF q = p \/ (q = Base(p) /\ cache[q] = None) THEN content ELSE cache[q]]

Exists(p) == p \in User => disk[p] # None \/ overlay[p] # None

\* read: the snapshot for a handle that has not written, the overlay for one that has,
\* else a decode.  None is an error.
Delivered(h) ==
  LET f == handle[h] IN
  IF ~f.wrote /\ f.snap # None THEN f.snap
  ELSE IF f.wrote /\ overlay[f.path] # None THEN overlay[f.path]
  ELSE Decoded(f.path)

\* Two files have the same size when one is rendered from the other's content, or not
\* even then: a size is the name and the content it is the length of.
SizeOf(p) ==
  IF overlay[p] # None THEN <<p, overlay[p]>>
  ELSE IF cache[p] # None THEN <<p, cache[p]>>
  ELSE <<Base(p), disk[Base(p)]>>

\* (Slip: reported_size is file_size_for.)
ReportedOfPath(h) == SizeOf(handle[h].path)

Reported(h) ==
  LET f == handle[h] IN
  IF ~f.wrote /\ f.snap # None THEN <<f.path, f.snap>> ELSE SizeOf(f.path)

-----------------------------------------------------------------------------
\* The clients.  Anyone may open, read and close anything at any time, as thumbnail
\* providers do.  Those who write have a file to themselves, wait until its save is
\* over before they write it again, and leave the mount alone while [s] saves.
\* Other habits:
\*   "hasty"       files are written, renamed and removed while they are being saved
\*   "two names"   a file is written by its own name and by that of a view
\*   "manual"      the mount runs with --no-auto-repack
\*   "resize only" a handle resizes the file, writes nothing and closes
\*   "rename over" a new file is renamed over a view (and not removed again)
\*   "on report"   a file is written once [ok] or [err] is there, before the flush has
\*                 reloaded the index and dropped the overlay or filled the cache
\*   "blind edit"  a file is edited that cannot be read

Open(h) == handle[h].at = "open"
Writing(b) == {h \in Handles : handle[h].wrote /\ Base(handle[h].path) = b}
Saving(b) == \E w \in Threads : job[w].at # "idle" /\ Base(job[w].path) = b
Reports == {"reload", "drop", "cache", "stored"}
Awaited(b) == \E w \in Threads : /\ job[w].at # "idle" /\ Base(job[w].path) = b
                                 /\ "on report" \in Habits => job[w].at \notin Reports
Batching == batch.at # "idle"
Decoding(b) == \E h \in Handles : handle[h].at = "put" /\ Base(handle[h].path) = b

\* A change of what decodes of b read.
Disturbs(b) == raced' = IF Decoding(b) THEN raced \cup {b} ELSE raced

\* (A file that a racing decode may have left old bytes of is not changed again.)
May(h, p) ==
  /\ Base(p) \notin raced
  /\ Writing(Base(p)) \subseteq {h}
  /\ "hasty" \in Habits \/ (~Awaited(Base(p)) /\ ~Batching)
  /\ Base(p) \in Shipped /\ "two names" \notin Habits => nameOf[Base(p)] \in {None, p}

Named(p) == IF Base(p) \in Shipped THEN [nameOf EXCEPT ![Base(p)] = p] ELSE nameOf

Counts == edits < MaxEdits /\ edits' = edits + 1

Sets(h, f) == handle' = [handle EXCEPT ![h] = f]

\* WinFSP holds its namespace lock, shared in open, exclusively in create, rename and a
\* cleanup that deletes.  (No other call is guarded.)
NamesShared == \A h \in Handles : handle[h].at # "forget"
NamesExclusive == \A h \in Handles : handle[h].at \notin {"put", "forget"}

\* open: lookup, then decode and pin.
OpenHit(h, p) ==
  /\ handle[h].at = "closed"
  /\ NamesShared
  /\ Exists(p)
  /\ cache[p] # None \/ Decoded(p) = None
  /\ Sets(h, [Closed EXCEPT !.at = "open", !.path = p, !.snap = cache[p]])
  /\ UNCHANGED <<stores, job, batch, ghosts, nameOf, bare, edits>>

OpenDecode(h, p) ==
  /\ handle[h].at = "closed"
  /\ NamesShared
  /\ Exists(p)
  /\ cache[p] = None
  /\ Decoded(p) # None
  /\ Sets(h, [Closed EXCEPT !.at = "put", !.path = p, !.snap = Decoded(p)])
  /\ UNCHANGED <<stores, job, batch, ghosts, nameOf, bare, edits>>

OpenPut(h) ==
  /\ handle[h].at = "put"
  /\ cache' = CacheWith(handle[h].path, handle[h].snap)
  /\ Sets(h, [handle[h] EXCEPT !.at = "open"])
  /\ raced' = IF Saving(Base(handle[h].path)) THEN raced \cup {Base(handle[h].path)} ELSE raced
  /\ UNCHANGED <<overlay, pending, disk, short, job, batch, intended, excused, torn, nameOf, bare, edits>>

Evict(p) ==
  /\ p \in Evictable
  /\ cache[p] # None
  /\ cache' = [cache EXCEPT ![p] = None]
  /\ UNCHANGED <<overlay, pending, disk, short, client, job, batch, ghosts>>

\* create of a file that is neither in the tree nor in the overlay.  The mark is set,
\* the handle counts as one that has not written, and has no snapshot.
Create(h, p) ==
  /\ handle[h].at = "closed"
  /\ NamesExclusive
  /\ p \in User
  /\ ~Exists(p)
  /\ May(h, p)
  /\ Counts
  /\ overlay' = [overlay EXCEPT ![p] = {}]
  /\ pending' = pending \cup {p}
  /\ Sets(h, [Closed EXCEPT !.at = "open", !.path = p])
  /\ intended' = [intended EXCEPT ![p] = {}]
  /\ excused' = excused \ {p}
  /\ UNCHANGED <<cache, disk, short, job, batch, raced, torn, nameOf, bare>>

\* overwrite: an empty overlay, then the mark.
Overwrite(h) ==
  LET p == handle[h].path IN
  /\ Open(h)
  /\ May(h, p)
  /\ Counts
  /\ overlay' = [overlay EXCEPT ![p] = {}]
  /\ Sets(h, [handle[h] EXCEPT !.wrote = TRUE, !.at = "mark"])
  /\ intended' = [intended EXCEPT ![Base(p)] = {}]
  /\ excused' = excused \ {Base(p)}
  /\ nameOf' = Named(p)
  /\ UNCHANGED <<pending, cache, disk, short, job, batch, raced, torn, bare>>

\* write and set_file_size: note_writing and seed_overlay, which decodes unless the
\* path is there, with an empty file where that fails.  (Nobody else writes the file in
\* between, and readers look at neither.)
Seed(h, kind) ==
  LET p    == handle[h].path
      seed == IF Decoded(p) = None THEN {} ELSE Decoded(p)
  IN /\ Open(h)
     /\ May(h, p)
     /\ edits < MaxEdits
     /\ "blind edit" \notin Habits => overlay[p] # None \/ ~OutOfReach(p)
     /\ overlay' = IF overlay[p] # None THEN overlay ELSE [overlay EXCEPT ![p] = seed]
     /\ cache' = IF overlay[p] # None \/ Decoded(p) = None THEN cache
                 ELSE CacheWith(p, Decoded(p))
     /\ Sets(h, [handle[h] EXCEPT !.wrote = TRUE, !.at = kind])
     /\ nameOf' = Named(p)
     /\ UNCHANGED <<pending, disk, short, job, batch, ghosts, bare, edits>>

\* write: `entry().or_insert_with(Vec::new)`, should the overlay be gone by now.
WriteApply(h) ==
  LET p == handle[h].path
      was == IF overlay[p] = None THEN {} ELSE overlay[p]
  IN /\ handle[h].at = "write"
     /\ Counts
     /\ overlay' = [overlay EXCEPT ![p] = was \cup {edits + 1}]
     /\ intended' = [intended EXCEPT ![Base(p)] =
                       (IF @ = None THEN {} ELSE @) \cup {edits + 1}]
     /\ Sets(h, [handle[h] EXCEPT !.at = "mark"])
     /\ UNCHANGED <<pending, cache, disk, short, job, batch, excused, raced, torn, nameOf, bare>>

\* set_file_size sets no mark.
ResizeApply(h) ==
  LET p == handle[h].path IN
  /\ handle[h].at = "resize"
  /\ Counts
  /\ overlay' = IF overlay[p] = None THEN overlay ELSE [overlay EXCEPT ![p] = {edits + 1}]
  /\ intended' = [intended EXCEPT ![Base(p)] = {edits + 1}]
  /\ Sets(h, [handle[h] EXCEPT !.at = "open"])
  /\ bare' = IF p \in pending THEN bare ELSE bare \cup {h}
  /\ UNCHANGED <<pending, cache, disk, short, job, batch, excused, raced, torn, nameOf>>

\* The mark is set last, after the bytes.
Mark(h) ==
  /\ handle[h].at = "mark"
  /\ pending' = pending \cup {handle[h].path}
  /\ Sets(h, [handle[h] EXCEPT !.at = "open"])
  /\ bare' = bare \ {h}
  /\ UNCHANGED <<overlay, cache, disk, short, job, batch, ghosts, nameOf, edits>>

\* close by a handle that has not written does nothing.
Close(h) ==
  /\ handle[h].at \in {"open", "cleaned"}
  /\ ~handle[h].wrote
  /\ Sets(h, Closed)
  /\ UNCHANGED <<stores, job, batch, ghosts, nameOf, bare, edits>>

\* (Slip: any handle claims the mark.)
CloseClaimAny(h) ==
  LET p == handle[h].path IN
  /\ handle[h].at \in {"open", "cleaned"}
  /\ h \in bare /\ Open(h) => "resize only" \in Habits
  /\ pending' = pending \ {p}
  /\ Sets(h, IF p \in pending /\ "manual" \notin Habits
             THEN [handle[h] EXCEPT !.at = "claimed"] ELSE Closed)
  /\ bare' = bare \ {h}
  /\ UNCHANGED <<overlay, cache, disk, short, job, batch, ghosts, nameOf, edits>>

\* One that has claims the mark, with or without auto repack ...
CloseClaim(h) ==
  LET p == handle[h].path IN
  /\ handle[h].at \in {"open", "cleaned"}
  /\ handle[h].wrote
  /\ h \in bare /\ Open(h) => "resize only" \in Habits
  /\ pending' = pending \ {p}
  /\ Sets(h, IF p \in pending /\ "manual" \notin Habits
             THEN [handle[h] EXCEPT !.at = "claimed"] ELSE Closed)
  /\ bare' = bare \ {h}
  /\ UNCHANGED <<overlay, cache, disk, short, job, batch, ghosts, nameOf, edits>>

\* ... and with it starts a thread with a copy of the overlay as it then is.
CloseSpawn(h) ==
  LET p == handle[h].path IN
  /\ handle[h].at = "claimed"
  /\ Sets(h, Closed)
  /\ IF overlay[p] = None THEN UNCHANGED <<job, torn>>
     ELSE /\ \E w \in Threads :
               /\ job[w] = Idle
               /\ job' = [job EXCEPT ![w] = [Idle EXCEPT !.at = "begin", !.path = p,
                                                         !.data = overlay[p]]]
          /\ torn' = (torn \/ \E g \in Handles \ {h} :
                                handle[g].wrote /\ handle[g].path = p)
  /\ UNCHANGED <<stores, batch, intended, excused, raced, nameOf, bare, edits>>

-----------------------------------------------------------------------------
\* cleanup with FspCleanupDelete, which the driver sends for the last handle of a name
\* and follows by close.  Shipped files and views are refused.

Last(h) == \A g \in Handles \ {h} : handle[g].path # handle[h].path

\* (Slip: what was never stored is kept.)
CleanupNothing(h) ==
  LET p == handle[h].path IN
  /\ Open(h)
  /\ Last(h)
  /\ NamesExclusive
  /\ May(h, p)
  /\ p \in User
  /\ disk[p] = None
  /\ Sets(h, [handle[h] EXCEPT !.at = "cleaned"])
  /\ intended' = [intended EXCEPT ![p] = None]
  /\ excused' = excused \ {p}
  /\ UNCHANGED <<stores, job, batch, raced, torn, nameOf, bare, edits>>

\* A path that is in the overlay only.  (The FBX of a prefab, a view that
\* virtual_files::resolve does not know, loses its overlay and mark here too.)
CleanupOverlay(h) ==
  LET p == handle[h].path IN
  /\ Open(h)
  /\ Last(h)
  /\ NamesExclusive
  /\ May(h, p)
  /\ p \in User
  /\ disk[p] = None
  /\ overlay' = [overlay EXCEPT ![p] = None]
  /\ pending' = pending \ {p}
  /\ Sets(h, [handle[h] EXCEPT !.at = "cleaned"])
  /\ intended' = [intended EXCEPT ![p] = None]
  /\ excused' = excused \ {p}
  /\ UNCHANGED <<cache, disk, short, job, batch, raced, torn, nameOf, bare, edits>>

\* A user file: the record goes, or an error is reported, ...
CleanupRemove(h) ==
  LET p == handle[h].path IN
  /\ Open(h)
  /\ Last(h)
  /\ NamesExclusive
  /\ May(h, p)
  /\ p \in User
  /\ disk[p] # None
  /\ \/ /\ disk' = [disk EXCEPT ![p] = None]
        /\ intended' = [intended EXCEPT ![p] = None]
        /\ excused' = excused \ {p}
        /\ Sets(h, [handle[h] EXCEPT !.at = "forget"])
     \/ /\ excused' = excused \cup {p}
        /\ Sets(h, [handle[h] EXCEPT !.at = "cleaned"])
        /\ UNCHANGED <<disk, intended>>
  /\ UNCHANGED <<overlay, pending, cache, short, job, batch, raced, torn, nameOf, bare, edits>>

\* (Slip: the mark of a removed file stays.)
CleanupForgetBytes(h) ==
  LET p == handle[h].path IN
  /\ handle[h].at = "forget"
  /\ cache' = [cache EXCEPT ![p] = None]
  /\ Sets(h, [handle[h] EXCEPT !.at = "cleaned"])
  /\ UNCHANGED <<overlay, pending, disk, short, job, batch, ghosts, nameOf, bare, edits>>

\* ... then what the mount knows of the path.
CleanupForget(h) ==
  LET p == handle[h].path IN
  /\ handle[h].at = "forget"
  /\ cache' = [cache EXCEPT ![p] = None]
  /\ overlay' = [overlay EXCEPT ![p] = None]
  /\ pending' = pending \ {p}
  /\ Sets(h, [handle[h] EXCEPT !.at = "cleaned"])
  /\ UNCHANGED <<disk, short, job, batch, ghosts, nameOf, bare, edits>>

\* The driver refuses to rename what others have open.  The path in the handle is not
\* updated; clients only close it.
Renames(h, q) ==
  LET p == handle[h].path IN
  /\ Open(h)
  /\ Last(h)
  /\ NamesExclusive
  /\ \A g \in Handles : handle[g].path # q
  /\ ~handle[h].wrote
  /\ p # q
  /\ p \in User
  /\ q \in User \/ (q \in Views /\ "rename over" \in Habits)
  /\ Exists(p)
  /\ May(h, p)
  /\ May(h, q)

\* rename of a stored file: bytes, record, cache, overlay and mark move one by one;
\* the target is stored, as a user file even where it names a view, and has no mark.
RenameUser(h, q) ==
  LET p    == handle[h].path
      data == IF overlay[p] # None THEN overlay[p] ELSE disk[p]
  IN /\ Renames(h, q)
     /\ Counts
     /\ disk[p] # None
     /\ \/ /\ disk' = [disk EXCEPT ![p] = None, ![q] = data]
           /\ excused' = excused \ {p, Base(q)}
        \/ /\ disk' = [disk EXCEPT ![q] = data]     \* remove_user_file failed
           /\ excused' = (excused \ {Base(q)}) \cup {p}
     /\ Appends(q)
     /\ overlay' = [overlay EXCEPT ![p] = None, ![q] = data]
     /\ cache' = [cache EXCEPT ![p] = data, ![q] = data]
     /\ pending' = pending \ {p}
     /\ intended' = [intended EXCEPT ![p] = None, ![Base(q)] = data]
     /\ nameOf' = Named(q)
     /\ Sets(h, [handle[h] EXCEPT !.at = "cleaned"])
     /\ UNCHANGED <<job, batch, raced, torn, bare>>

\* Not stored yet: overlay and mark move.
RenameOverlay(h, q) ==
  LET p == handle[h].path IN
  /\ Renames(h, q)
  /\ Counts
  /\ disk[p] = None
  /\ overlay' = [overlay EXCEPT ![p] = None, ![q] = overlay[p]]
  /\ pending' = (pending \ {p}) \cup {q}
  /\ intended' = [intended EXCEPT ![p] = None, ![Base(q)] = overlay[p]]
  /\ excused' = (excused \ {p, Base(q)}) \cup (IF p \in excused THEN {Base(q)} ELSE {})
  /\ nameOf' = Named(q)
  /\ Sets(h, [handle[h] EXCEPT !.at = "cleaned"])
  /\ UNCHANGED <<cache, disk, short, job, batch, raced, torn, bare>>

-----------------------------------------------------------------------------
\* flush_path_sync

Steps(w, j) == job' = [job EXCEPT ![w] = j]
At(w, step) == job[w].at = step
Goes(w, step) == Steps(w, [job[w] EXCEPT !.at = step])
Touched(w) == Disturbs(Base(job[w].path))

Fails(w) == excused' = excused \cup {Base(job[w].path)}

FlushBegin(w) ==
  LET p == job[w].path IN
  /\ At(w, "begin")
  /\ pending' = pending \ {p}
  /\ Goes(w, IF p \in Views THEN "convert" ELSE IF p \in Shipped THEN "put" ELSE "store")
  /\ Touched(w)
  /\ UNCHANGED <<overlay, cache, disk, short, client, batch, intended, excused, torn>>

\* The save of the source of a view is over, that of the view goes on.
AfterSource(w) == IF job[w].path \in Views THEN Goes(w, "drop") ELSE Steps(w, Idle)

\* A view is converted back, or an error is reported and nothing changed; the save
\* of the source that follows takes the source's mark.
FlushConvert(w) ==
  /\ At(w, "convert")
  /\ \/ /\ pending' = pending \ {Base(job[w].path)}
        /\ Goes(w, "put")
        /\ UNCHANGED excused
     \/ Fails(w) /\ Steps(w, Idle) /\ UNCHANGED pending
  /\ Touched(w)
  /\ UNCHANGED <<overlay, cache, disk, short, client, batch, intended, torn>>

\* Some ways out report nothing.  "convert": the source or its archive cannot be read,
\* the temporary file not written, the prefab not resolved, or the view has no way
\* back.  "put": no cached PAMT.  "store": no entry, and no user group.
GivesUp(w) ==
  /\ job[w].at \in Unsaid
  /\ Fails(w)
  /\ IF At(w, "put") THEN AfterSource(w) ELSE Steps(w, Idle)
  /\ Touched(w)
  /\ UNCHANGED <<overlay, pending, cache, disk, short, client, batch, intended, torn>>

\* The bytes are cached under the name of the shipped file; the map of its PAZ goes; ...
FlushPut(w) ==
  /\ At(w, "put")
  /\ cache' = [cache EXCEPT ![Base(job[w].path)] = job[w].data]
  /\ Goes(w, "unmap")
  /\ Touched(w)
  /\ UNCHANGED <<overlay, pending, disk, short, client, batch, intended, excused, torn>>

FlushUnmap(w) ==
  /\ At(w, "unmap")
  /\ short' = short \ Shipped
  /\ Goes(w, "repack")
  /\ Touched(w)
  /\ UNCHANGED <<overlay, pending, cache, disk, client, batch, intended, excused, torn>>

\* ... it is repacked, [ok], or an error is reported; ...
FlushRepack(w) ==
  /\ At(w, "repack")
  /\ \/ Goes(w, "reload") /\ UNCHANGED excused
     \/ Fails(w) /\ AfterSource(w)
  /\ Touched(w)
  /\ UNCHANGED <<overlay, pending, cache, disk, short, client, batch, intended, torn>>

\* ... and lookups lead to it once the group is reloaded.  A decode may have mapped the
\* PAZ again before it had grown.
FlushReload(w) ==
  /\ At(w, "reload")
  /\ disk' = [disk EXCEPT ![Base(job[w].path)] = job[w].data]
  /\ Appends(Base(job[w].path))
  /\ AfterSource(w)
  /\ Touched(w)
  /\ UNCHANGED <<overlay, pending, cache, client, batch, intended, excused, torn>>

\* commit_virtual_path, whatever the save of the source came to: the overlay goes,
\* then the saved bytes become the rendering.
CommitDrop(w) ==
  /\ At(w, "drop")
  /\ overlay' = [overlay EXCEPT ![job[w].path] = None]
  /\ Goes(w, "cache")
  /\ Touched(w)
  /\ UNCHANGED <<pending, cache, disk, short, client, batch, intended, excused, torn>>

\* (Slip: the rendering of before the save stays in the cache.)
CommitKeep(w) ==
  /\ At(w, "cache")
  /\ Steps(w, Idle)
  /\ Touched(w)
  /\ UNCHANGED <<overlay, pending, cache, disk, short, client, batch, intended, excused, torn>>

CommitCache(w) ==
  /\ At(w, "cache")
  /\ cache' = [cache EXCEPT ![job[w].path] = job[w].data]
  /\ Steps(w, Idle)
  /\ Touched(w)
  /\ UNCHANGED <<overlay, pending, disk, short, client, batch, intended, excused, torn>>

\* Other files go to the user group, [ok], and to the cache once they are there.
FlushStore(w) ==
  LET p == job[w].path IN
  /\ At(w, "store")
  /\ \/ /\ disk' = [disk EXCEPT ![p] = job[w].data]
        /\ Appends(p)
        /\ Goes(w, "stored")
        /\ UNCHANGED excused
     \/ Fails(w) /\ Steps(w, Idle) /\ UNCHANGED <<disk, short>>
  /\ Touched(w)
  /\ UNCHANGED <<overlay, pending, cache, client, batch, intended, torn>>

FlushStored(w) ==
  /\ At(w, "stored")
  /\ cache' = [cache EXCEPT ![job[w].path] = job[w].data]
  /\ Steps(w, Idle)
  /\ Touched(w)
  /\ UNCHANGED <<overlay, pending, disk, short, client, batch, intended, excused, torn>>

-----------------------------------------------------------------------------
\* The TUI

\* [s], which is offered when something is marked: flush_all_pending takes the whole
\* overlay, marked or not, ...
SaveTake ==
  /\ batch = NoBatch
  /\ pending # {}
  /\ "hasty" \in Habits \/ \A h \in Handles : ~handle[h].wrote /\ handle[h].at # "forget"
  /\ batch' = [NoBatch EXCEPT !.at = "marks", !.snap = overlay]
  /\ overlay' = Nothing
  /\ UNCHANGED <<pending, cache, disk, short, client, job, ghosts>>

\* ... then the marks, ...
SaveMarks ==
  /\ batch.at = "marks"
  /\ batch' = [batch EXCEPT !.at = "work", !.todo = {p \in pending : batch.snap[p] # None}]
  /\ pending' = {}
  /\ UNCHANGED <<overlay, cache, disk, short, client, job, ghosts>>

\* ... and saves one after the other (on a thread of its own).
SaveNext(w) ==
  /\ batch.at = "work"
  /\ \A v \in Threads : job[v] = Idle
  /\ IF batch.todo = {}
     THEN batch' = NoBatch /\ UNCHANGED job
     ELSE \E p \in batch.todo :
            /\ batch' = [batch EXCEPT !.todo = @ \ {p}]
            /\ Steps(w, [Idle EXCEPT !.at = "begin", !.path = p, !.data = batch.snap[p]])
  /\ UNCHANGED <<stores, client, ghosts>>

\* What a lookup will lead to: repacked files whose index was not reloaded (of two such
\* threads for a file, one) are on disk.
Landed(p) ==
  LET at == {w \in Threads : job[w].at = "reload" /\ Base(job[w].path) = p}
  IN IF at = {} THEN disk[p] ELSE job[CHOOSE w \in at : TRUE].data

\* Esc, "quit without saving": discard_pending, and the process ends with whatever
\* runs in it.  Another mount starts from the disk, and drops user files whose path
\* lies in a virtual root.  (Clients have closed their files and saw no save under way.)
Quit ==
  /\ \A h \in Handles : handle[h] = Closed
  /\ "hasty" \in Habits \/ \A w \in Threads : job[w] = Idle
  /\ batch = NoBatch
  /\ overlay' = Nothing
  /\ pending' = {}
  /\ cache' = Nothing
  /\ job' = [w \in Threads |-> Idle]
  /\ disk' = [p \in Paths |-> IF p \in Views THEN None ELSE Landed(p)]
  /\ short' = {}
  /\ intended' = [b \in Bases |-> IF b \in pending THEN disk'[b] ELSE intended[b]]
  /\ excused' = excused \cup {Base(p) : p \in pending}
  /\ UNCHANGED <<client, batch, raced, torn>>

-----------------------------------------------------------------------------
FlushStep(w) ==
  \/ FlushBegin(w)
  \/ FlushConvert(w)
  \/ GivesUp(w)
  \/ FlushPut(w)
  \/ FlushUnmap(w)
  \/ FlushRepack(w)
  \/ FlushReload(w)
  \/ CommitDrop(w)
  \/ CommitCache(w)
  \/ FlushStore(w)
  \/ FlushStored(w)
  \/ SaveNext(w)

Next ==
  \/ \E h \in Handles :
       \/ \E p \in Paths : OpenHit(h, p) \/ OpenDecode(h, p) \/ Create(h, p)
       \/ OpenPut(h)
       \/ Overwrite(h)
       \/ \E kind \in {"write", "resize"} : Seed(h, kind)
       \/ WriteApply(h)
       \/ ResizeApply(h)
       \/ Mark(h)
       \/ Close(h)
       \/ CloseClaim(h)
       \/ CloseSpawn(h)
       \/ CleanupOverlay(h)
       \/ CleanupRemove(h)
       \/ CleanupForget(h)
       \/ \E q \in Paths : RenameUser(h, q) \/ RenameOverlay(h, q)
  \/ \E w \in Threads : FlushStep(w)
  \/ SaveTake
  \/ SaveMarks
  \/ Quit
  \/ \E p \in Paths : Evict(p)

Spec == Init /\ [][Next]_vars

-----------------------------------------------------------------------------
\* Somebody still has to save it, or has it in hand.
Underway(b) ==
  \/ Writing(b) # {}
  \/ Saving(b)
  \/ \E p \in pending \cup batch.todo : Base(p) = b
  \/ \E h \in Handles : handle[h].at \in {"forget", "claimed"} /\ Base(handle[h].path) = b

\* Once its writer has closed it and no save of it is under way, a file is on disk as
\* the writer left it: no edit is dropped between overlay, mark, claim and save thread,
\* and nothing removed or renamed comes back, unless the save was reported failed (or,
\* where Unsaid lets a flush give up, a line in the log says so) or the user quit
\* without saving.  (fs.rs: write, close, cleanup, rename, flush_path_sync)
SavesKept == \A b \in Bases : Underway(b) \/ b \in excused \/ disk[b] = intended[b]

\* ... and a handle opened then reads it, by the file's name as by that of the view
\* it was written by: no copy in the cache is older.  Excluded are a rendering of before
\* a save by another of the file's names, which nothing drops, what a decode that
\* overlapped a save puts back, and what lies out of reach of the map of its PAZ: that
\* is an error.  (fs.rs: open, decode_inner, get_mmap, commit_virtual_path, rename)
ReadsBack ==
  \A p \in Paths :
    LET b == Base(p) IN
    \/ Underway(b) \/ Batching
    \/ p \in Views /\ nameOf[b] \notin {None, p}
    \/ b \in excused \cup raced
    \/ intended[b] = None
    \/ OutOfReach(p)
    \/ Decoded(p) = intended[b]

\* A save never puts an older state of a file over a newer one, nor brings a removed
\* file back: whatever reaches the disk, from a close, [s] or a rename, is what the
\* clients left last.  (fs.rs: close, cleanup, rename, flush_all_pending)
StoresLatest ==
  [][\A b \in Bases : disk'[b] # disk[b] /\ b \notin excused => disk'[b] = intended'[b]]_disk

\* A save never takes what another handle is in the middle of writing: readers that
\* close do not claim it.  (fs.rs: FileCtx::had_writes, close)
NoTornSave == ~torn

\* The size a handle is told is that of what it reads, though overlay, cache and
\* source all have sizes of their own.  Excluded are handles opened before a new file
\* had any bytes to pin: they are told the size of the overlay and read the stored
\* file.  (fs.rs: reported_size, file_size_for, read)
SizesAgree ==
  \A h \in Handles :
    Open(h) /\ (handle[h].wrote \/ handle[h].snap # None)
      => Reported(h) = <<handle[h].path, Delivered(h)>>

=============================================================================
