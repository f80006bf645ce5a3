------------------------------ MODULE WriteBack ------------------------------
(***************************************************************************)
(* The write-back cache of the Linux mount (cdfuse/src/fs.rs).  An editor's *)
(* writes collect in `write_overlay`; `pending_paths` says which of them    *)
(* still have to be saved.  They are saved by                              *)
(*   - a job on the decode pool, spawned by release() (auto repack);        *)
(*   - the TUI's [s] thread, flush_all_pending();                           *)
(*   - destroy(), on the session thread, when the mount goes away.         *)
(* All three run flush_path_sync, which converts a file of a virtual root   *)
(* (`.paloc.jsonl/...`) back to its source, repacks shipped files and       *)
(* stores the others in the user group.  Every mutex is held for one map    *)
(* operation only, so the steps below interleave.  What happens on disk in  *)
(* one save is the subject of RepackChain; here it succeeds or fails.  That *)
(* reload_group fails on index files just written is left out.              *)
(*                                                                         *)
(* Contents are sets of edits: a write adds an edit to what the buffer was  *)
(* seeded with, a truncation empties it; 0 is what the game shipped.        *)
(* Conversions keep the set of edits, or fail.                             *)
(***************************************************************************)
EXTENDS Naturals, FiniteSets

CONSTANTS
  Shipped,    \* files of the game
  Synth,      \* writable files of virtual roots
  User,       \* paths without a shipped file
  SourceOf,   \* the shipped file a virtual one is rendered from
  Pool,       \* bound: flush jobs queued or running at the same time
  MaxEdits,   \* bound: writes in a behaviour
  Evictable,  \* bound: files the decode cache may drop
  Stubbed,    \* the views probe() answers with a made-up header: PNG, FBX, Ogg
  Unsaid,     \* where a flush may give up with a line in the log at most
  Habits,     \* what the clients do besides editing one file at a time
  None

Paths == Shipped \cup Synth \cup User
Bases == Shipped \cup User
Base(p) == IF p \in Synth THEN SourceOf[p] ELSE p

Batches == {"save", "destroy"}
Workers == Pool \cup Batches
Bytes   == SUBSET (0..MaxEdits)

ASSUME PathsAssumption ==
  /\ Shipped \cap Synth = {} /\ Shipped \cap User = {} /\ Synth \cap User = {}
  /\ SourceOf \in [Synth -> Shipped]
  /\ Stubbed \subseteq Synth /\ Unsaid \subseteq {"convert", "store"}
  /\ None \notin Paths /\ (\A d \in Bytes : d # None) /\ (\A s \in SUBSET User : s # None)
  /\ Pool \cap Batches = {}
  /\ MaxEdits \in Nat
  /\ Habits \subseteq {"hasty", "edit while [s]", "early exit", "two names", "rename over",
                      "truncate only", "on report", "blind edit"}

VARIABLES
  autoRepack,  \* unless --no-auto-repack
  mode,        \* "up", "discarding", "unmounting", "down"; "poisoned" after a panic
  overlay,     \* write_overlay
  pending,     \* pending_paths
  cache,       \* decode_cache
  disk,        \* what a lookup in the VFS leads to; None: no entry
  beyond,      \* the user files stored since the user PAZ was mapped; None: it is not
  opened,      \* files clients hold open
  op,          \* what the session thread is in the middle of
  jobs,        \* worker -> its flush_path_sync
  batch,       \* save, destroy -> the maps it took and has not worked off
  intended,    \* observation: what the clients left in each file
  excused,     \* files whose last save was reported failed or given up
  nameOf,      \* the name clients edit a shipped file by
  bare,        \* files truncated, unmarked, and not written since
  edits        \* number of writes so far

client == <<autoRepack, mode, opened, op>>
ghosts == <<intended, excused, nameOf, bare, edits>>
vars   == <<autoRepack, mode, overlay, pending, cache, disk, beyond, opened, op, jobs, batch,
            intended, excused, nameOf, bare, edits>>

Ready   == [kind |-> "none", path |-> None, at |-> "idle"]
NoJob   == [at |-> "none", path |-> None, to |-> None, data |-> {}]
Nothing == [p \in Paths |-> None]
NoBatch == [at |-> "none", todo |-> {}, snap |-> Nothing]

Init ==
  /\ autoRepack \in BOOLEAN
  /\ mode = "up"
  /\ overlay = Nothing
  /\ pending = {}
  /\ cache = Nothing
  /\ disk = [p \in Paths |-> IF p \in Shipped THEN {0} ELSE None]
  /\ beyond = None
  /\ opened = {}
  /\ op = Ready
  /\ jobs = [w \in Workers |-> NoJob]
  /\ batch = [b \in Batches |-> NoBatch]
  /\ intended = [b \in Bases |-> disk[b]]
  /\ excused = {}
  /\ nameOf = [b \in Shipped |-> None]
  /\ bare = {}
  /\ edits = 0

----------------------------------------------------------------------------
(* Reading *)

\* The map of the user PAZ is made by the first reader and never dropped: what
\* is stored after that lies beyond its end and can be read from the cache only.
OutOfReach(p) == cache[p] = None /\ beyond # None /\ p \in beyond

Mapped(p) ==
  IF p \in User /\ cache[p] = None /\ disk[p] # None /\ beyond = None THEN {} ELSE beyond

Grown(p) == IF beyond = None THEN None ELSE beyond \cup ({p} \cap User)

\* decode: the decode cache, or the entry; a virtual file is rendered from
\* its source, decoded the same way.  The overlay of the source is not read.
\* None is an error (EIO).
Decoded(p) ==
  IF cache[p] # None THEN cache[p]
  ELSE IF OutOfReach(p) THEN None
  ELSE IF cache[Base(p)] # None THEN cache[Base(p)] ELSE disk[Base(p)]

Caches(p) ==
  IF cache[p] # None \/ Decoded(p) = None THEN cache
  ELSE [q \in Paths |-> IF q \in {p, Base(p)} THEN Decoded(p) ELSE cache[q]]

\* probe() answers the first read of a file that is in neither overlay nor
\* cache: of a Stubbed view any read at offset 0, with a made-up header; of a
\* file that is no view one for less than its size, with its raw bytes.
Probed(p) == overlay[p] = None /\ cache[p] = None /\ p \notin Synth \ Stubbed

\* What a client gets that reads the whole of p; None: an error, or the header.
Visible(p) ==
  IF overlay[p] # None THEN overlay[p]
  ELSE IF Probed(p) /\ p \in Stubbed THEN None ELSE Decoded(p)

Exists(p) == p \in User => disk[p] # None \/ overlay[p] # None

----------------------------------------------------------------------------
(* The clients.  Patient ones edit one file at a time, look at the TUI's    *)
(* list, leave a file alone until its flush is over and everything while    *)
(* [s] saves.  The other habits:                                            *)
(*   "hasty"          a file is edited while the pool is saving it          *)
(*   "edit while [s]" files are edited while [s] saves                      *)
(*   "early exit"     the mount goes away while saves are running           *)
(*   "two names"      a file is edited under its own name and a virtual one *)
(*   "rename over"    a temporary file is renamed over the virtual file     *)
(*   "truncate only"  a file is truncated, not written, and closed          *)
(*   "on report"      a file is edited once [ok] is there, before the flush  *)
(*                    has reloaded the index and dropped or filled the cache *)
(*   "blind edit"     a file is edited that cannot be read                   *)

Working(w) == jobs[w].at # "none"
InJob(b)   == \E w \in Workers : Working(w) /\ Base(jobs[w].path) = b
Reported   == {"reload", "cache", "invalidate"}
Awaited(b) == \E w \in Workers : /\ Working(w) /\ Base(jobs[w].path) = b
                                 /\ "on report" \in Habits => jobs[w].at \notin Reported
InBatch(b) == \E k \in Batches : \E p \in batch[k].todo : Base(p) = b
Quiet      == op = Ready /\ \A k \in Batches : batch[k].at = "none" /\ ~Working(k)

Patient == "hasty" \notin Habits

May(p) ==
  /\ mode = "up" /\ op = Ready
  /\ "edit while [s]" \notin Habits => Quiet
  /\ Patient => ~Awaited(Base(p))
  /\ "two names" \notin Habits /\ Base(p) \in Shipped => nameOf[Base(p)] \in {None, p}

Names(p) == IF Base(p) \in Shipped THEN [nameOf EXCEPT ![Base(p)] = p] ELSE nameOf

\* A view that is opened for writing is decoded.
Open(p) ==
  /\ May(p) /\ p \notin opened /\ Exists(p)
  /\ Patient => opened = {}
  /\ opened' = opened \cup {p}
  /\ nameOf' = Names(p)
  /\ cache' \in IF p \in Synth THEN {cache, Caches(p)} ELSE {cache}
  /\ UNCHANGED <<autoRepack, mode, overlay, pending, disk, beyond, op, jobs, batch,
                 intended, excused, bare, edits>>

\* A read that neither the overlay nor probe() answers, if only because it goes
\* on behind offset 0, decodes and fills the cache.
Read(p) ==
  /\ May(p) /\ p \in opened
  /\ overlay[p] = None
  /\ cache' = Caches(p) /\ beyond' = Mapped(p)
  /\ UNCHANGED <<client, overlay, pending, disk, jobs, batch, ghosts>>

\* One that probe() answers fills nothing.
Probe(p) ==
  /\ May(p) /\ p \in opened /\ Probed(p)
  /\ beyond' = Mapped(p)
  /\ UNCHANGED <<client, overlay, pending, cache, disk, jobs, batch, ghosts>>

\* The cache is bounded in entries and in bytes.
Evict(p) ==
  /\ p \in Evictable /\ cache[p] # None
  /\ cache' = [cache EXCEPT ![p] = None]
  /\ UNCHANGED <<client, overlay, pending, disk, beyond, jobs, batch, ghosts>>

\* write() and setattr(size): seed the overlay if the path is not in it, with
\* an empty file where it cannot be decoded.
Seed(kind, p) ==
  /\ May(p) /\ p \in opened
  /\ kind = "write" => edits < MaxEdits
  /\ "blind edit" \notin Habits => overlay[p] # None \/ ~OutOfReach(p)
  /\ overlay' = IF overlay[p] # None THEN overlay
                ELSE [overlay EXCEPT ![p] = IF Decoded(p) = None THEN {} ELSE Decoded(p)]
  /\ cache' = IF overlay[p] # None THEN cache ELSE Caches(p)
  /\ beyond' = IF overlay[p] # None THEN beyond ELSE Mapped(p)
  /\ op' = [kind |-> kind, path |-> p, at |-> IF kind = "write" THEN "mark" ELSE "apply"]
  /\ UNCHANGED <<autoRepack, mode, opened, pending, disk, jobs, batch, ghosts>>

\* (Slip: write marks nothing, as setattr does.)
WriteUnmarked ==
  /\ op.at = "mark"
  /\ op' = [op EXCEPT !.at = "apply"]
  /\ UNCHANGED <<autoRepack, mode, opened, overlay, pending, cache, disk, beyond, jobs, batch, ghosts>>

WriteMark ==
  /\ op.at = "mark"
  /\ pending' = pending \cup {op.path}
  /\ op' = [op EXCEPT !.at = "apply"]
  /\ UNCHANGED <<autoRepack, mode, opened, overlay, cache, disk, beyond, jobs, batch, ghosts>>

\* `overlay.get_mut(&path).unwrap()`: a panic with the mutex held if the
\* entry went away since it was seeded.
Apply ==
  /\ op.at = "apply"
  /\ op' = Ready
  /\ LET p == op.path
         e == edits + 1
         new == IF op.kind = "write" THEN overlay[p] \cup {e} ELSE {}
     IN IF overlay[p] = None
        THEN mode' = "poisoned" /\ UNCHANGED <<overlay, intended, edits>>
        ELSE /\ overlay' = [overlay EXCEPT ![p] = new]
             /\ intended' = [intended EXCEPT ![Base(p)] =
                               IF op.kind = "write" /\ @ # None THEN @ \cup {e} ELSE new]
             /\ edits' = IF op.kind = "write" THEN e ELSE edits
             /\ UNCHANGED mode
  /\ bare' = IF op.kind = "cut" /\ op.path \notin pending THEN bare \cup {op.path}
             ELSE bare \ {op.path}
  /\ UNCHANGED <<autoRepack, opened, pending, cache, disk, beyond, jobs, batch, excused, nameOf>>

Create(p) ==
  /\ May(p) /\ p \in User /\ ~Exists(p)
  /\ Patient => opened = {}
  /\ overlay' = [overlay EXCEPT ![p] = {}]
  /\ pending' = pending \cup {p}
  /\ opened' = opened \cup {p}
  /\ intended' = [intended EXCEPT ![p] = {}]
  /\ excused' = excused \ {p}
  /\ UNCHANGED <<autoRepack, mode, cache, disk, beyond, op, jobs, batch, nameOf, bare, edits>>

NewJob(p, data) == [at |-> "begin", path |-> p, to |-> None, data |-> data]

Closes(p) ==
  /\ mode = "up" /\ op = Ready /\ p \in opened
  /\ "truncate only" \notin Habits => p \notin bare
  /\ opened' = opened \ {p}

\* (Slip: the decoded bytes are preferred to the overlay.)
ReleaseFromCache(p) ==
  /\ Closes(p)
  /\ IF p \in pending /\ autoRepack /\ overlay[p] # None
     THEN /\ \E w \in Pool : /\ ~Working(w)
                             /\ jobs' = [jobs EXCEPT ![w] = NewJob(p,
                                  IF cache[p] # None THEN cache[p] ELSE overlay[p])]
          /\ UNCHANGED cache
     ELSE /\ cache' = IF overlay[p] # None THEN [cache EXCEPT ![p] = overlay[p]] ELSE cache
          /\ UNCHANGED jobs
  /\ UNCHANGED <<autoRepack, mode, op, overlay, pending, disk, beyond, batch, ghosts>>

\* (Slip: a file of a virtual root is not saved on close.)
ReleaseNotSynth(p) ==
  /\ Closes(p)
  /\ IF p \in pending /\ autoRepack /\ overlay[p] # None /\ p \notin Synth
     THEN /\ \E w \in Pool : ~Working(w) /\ jobs' = [jobs EXCEPT ![w] = NewJob(p, overlay[p])]
          /\ UNCHANGED cache
     ELSE /\ cache' = IF overlay[p] # None THEN [cache EXCEPT ![p] = overlay[p]] ELSE cache
          /\ UNCHANGED jobs
  /\ UNCHANGED <<autoRepack, mode, op, overlay, pending, disk, beyond, batch, ghosts>>

\* The job is given a copy of the overlay as it is now.
Release(p) ==
  /\ Closes(p)
  /\ IF p \in pending /\ autoRepack /\ overlay[p] # None
     THEN /\ \E w \in Pool : ~Working(w) /\ jobs' = [jobs EXCEPT ![w] = NewJob(p, overlay[p])]
          /\ UNCHANGED cache
     ELSE /\ cache' = IF overlay[p] # None THEN [cache EXCEPT ![p] = overlay[p]] ELSE cache
          /\ UNCHANGED jobs
  /\ UNCHANGED <<autoRepack, mode, op, overlay, pending, disk, beyond, batch, ghosts>>

\* A rename that follows the client's view: q now has what p had.
Moves(p, q) ==
  /\ May(p) /\ May(q) /\ p # q /\ {p, q} \cap opened = {}
  /\ p \in User /\ Exists(p) /\ q \in Synth \cup User
  /\ q \in Synth => "rename over" \in Habits
  /\ Patient => opened = {}
  /\ nameOf' = Names(q)

\* (Slip: what was known of the target is kept.)
RenameKeepsTarget(p, q) ==
  /\ Moves(p, q) /\ disk[p] # None
  /\ LET data == IF overlay[p] # None THEN overlay[p] ELSE disk[p] IN
     /\ overlay' = [overlay EXCEPT ![p] = None]
     /\ cache' = [cache EXCEPT ![p] = None]
     /\ intended' = [intended EXCEPT ![p] = None, ![Base(q)] = data]
     /\ disk' = [disk EXCEPT ![p] = None, ![q] = data]
     /\ excused' = excused \ {p, Base(q)}
  /\ pending' = pending \ {p}
  /\ beyond' = Grown(q)
  /\ UNCHANGED <<client, jobs, batch, bare, edits>>

\* The target of a rename is a user file even where it names a virtual one.
RenameUser(p, q) ==
  /\ Moves(p, q) /\ disk[p] # None
  /\ LET data == IF overlay[p] # None THEN overlay[p] ELSE disk[p] IN
     /\ overlay' = [overlay EXCEPT ![p] = None, ![q] = data]
     /\ cache' = [cache EXCEPT ![p] = data, ![q] = data]
     /\ intended' = [intended EXCEPT ![p] = None, ![Base(q)] = data]
     /\ \/ /\ disk' = [disk EXCEPT ![p] = None, ![q] = data]
           /\ excused' = excused \ {p, Base(q)}
        \/ /\ disk' = [disk EXCEPT ![q] = data]   \* remove_user_file failed
           /\ excused' = (excused \ {Base(q)}) \cup {p}
  /\ pending' = pending \ {p}
  /\ beyond' = Grown(q)
  /\ UNCHANGED <<client, jobs, batch, bare, edits>>

\* (Slip: the mark does not move with the bytes.)
RenameUnmarked(p, q) ==
  /\ Moves(p, q) /\ disk[p] = None
  /\ overlay' = [overlay EXCEPT ![p] = None, ![q] = overlay[p]]
  /\ cache' = [cache EXCEPT ![p] = overlay[p], ![q] = overlay[p]]
  /\ pending' = pending \ {p}
  /\ intended' = [intended EXCEPT ![p] = None, ![Base(q)] = overlay[p]]
  /\ excused' = (excused \ {p, Base(q)}) \cup (IF p \in excused THEN {Base(q)} ELSE {})
  /\ UNCHANGED <<client, disk, beyond, jobs, batch, bare, edits>>

\* Not stored yet: only the maps move.
RenameOverlay(p, q) ==
  /\ Moves(p, q) /\ disk[p] = None
  /\ overlay' = [overlay EXCEPT ![p] = None, ![q] = overlay[p]]
  /\ cache' = [cache EXCEPT ![p] = overlay[p], ![q] = overlay[p]]
  /\ pending' = (pending \ {p}) \cup {q}
  /\ intended' = [intended EXCEPT ![p] = None, ![Base(q)] = overlay[p]]
  /\ excused' = (excused \ {p, Base(q)}) \cup (IF p \in excused THEN {Base(q)} ELSE {})
  /\ UNCHANGED <<client, disk, beyond, jobs, batch, bare, edits>>

\* (Slip: a removed user file keeps its overlay and its mark.)
UnlinkKeepsMark(p) ==
  /\ May(p) /\ p \notin opened /\ Exists(p)
  /\ Patient => opened = {}
  /\ p \in User
  /\ disk' = [disk EXCEPT ![p] = None]
  /\ cache' = [cache EXCEPT ![p] = None]
  /\ intended' = [intended EXCEPT ![p] = None]
  /\ excused' = excused \ {p}
  /\ UNCHANGED <<client, overlay, pending, beyond, jobs, batch, nameOf, bare, edits>>

\* A user file is removed; removing a virtual one drops its unsaved edits;
\* a shipped one is refused.
Unlink(p) ==
  /\ May(p) /\ p \notin opened /\ Exists(p)
  /\ Patient => opened = {}
  /\ p \in Synth \cup User
  /\ overlay' = [overlay EXCEPT ![p] = None]
  /\ pending' = pending \ {p}
  /\ IF p \in Synth
     THEN excused' = excused \cup {Base(p)} /\ UNCHANGED <<cache, disk, intended>>
     ELSE /\ disk' = [disk EXCEPT ![p] = None]
          /\ cache' = IF disk[p] # None THEN [cache EXCEPT ![p] = None] ELSE cache
          /\ intended' = [intended EXCEPT ![p] = None]
          /\ excused' = excused \ {p}
  /\ UNCHANGED <<client, beyond, jobs, batch, nameOf, bare, edits>>

----------------------------------------------------------------------------
(* flush_path_sync, run by the worker w *)

Step(w, from, to) == jobs[w].at = from /\ jobs' = [jobs EXCEPT ![w].at = to]
Ends(w, from)     == jobs[w].at = from /\ jobs' = [jobs EXCEPT ![w] = NoJob]

\* (Slip: the path is stored as it is, also that of a virtual root.)
FlushUnresolved(w) ==
  /\ mode # "poisoned" /\ jobs[w].at = "begin"
  /\ pending' = pending \ {jobs[w].path}
  /\ jobs' = [jobs EXCEPT ![w].at = "store", ![w].to = jobs[w].path]
  /\ UNCHANGED <<client, overlay, cache, disk, beyond, batch, ghosts>>

\* The mark goes first.
FlushBegin(w) ==
  /\ mode # "poisoned" /\ jobs[w].at = "begin"
  /\ pending' = pending \ {jobs[w].path}
  /\ jobs' = IF jobs[w].path \in Synth THEN [jobs EXCEPT ![w].at = "convert"]
             ELSE [jobs EXCEPT ![w].at = "store", ![w].to = jobs[w].path]
  /\ UNCHANGED <<client, overlay, cache, disk, beyond, batch, ghosts>>

Fails(w) == excused' = excused \cup {Base(jobs[w].path)}

\* The flush of a source is over, that of its view goes on.
AfterSource(w, from) ==
  IF jobs[w].path \in Synth THEN Step(w, from, "invalidate") ELSE Ends(w, from)

\* flush_synth_to_source and the recursive call for the source.
Convert(w) ==
  /\ mode # "poisoned" /\ jobs[w].at = "convert"
  /\ LET s == SourceOf[jobs[w].path] IN
     /\ pending' = pending \ {s}
     /\ jobs' = [jobs EXCEPT ![w].at = "store", ![w].to = s]
  /\ UNCHANGED <<client, overlay, cache, disk, beyond, batch, ghosts>>

\* The bytes do not parse or do not fit the original: reported, the overlay
\* stays.
ConvertFails(w) ==
  /\ Ends(w, "convert") /\ Fails(w)
  /\ UNCHANGED <<client, overlay, pending, cache, disk, beyond, batch, intended, nameOf, bare, edits>>

\* Some ways out report nothing.  "convert": the source or its archive cannot be
\* read, the temporary file not written, the prefab not resolved, or the view
\* has no way back.  "store": no entry (and no user group) or no cached PAMT.
GivesUp(w) ==
  /\ jobs[w].at \in Unsaid /\ Fails(w)
  /\ IF jobs[w].at = "store" THEN AfterSource(w, "store") ELSE Ends(w, "convert")
  /\ UNCHANGED <<client, overlay, pending, cache, disk, beyond, batch, intended, nameOf, bare, edits>>

\* A shipped file enters the cache before it is repacked.
CacheFirst(w) ==
  /\ jobs[w].to \in Shipped /\ Step(w, "store", "repack")
  /\ cache' = [cache EXCEPT ![jobs[w].to] = jobs[w].data]
  /\ UNCHANGED <<client, overlay, pending, disk, beyond, batch, ghosts>>

Stored(w) == disk' = [disk EXCEPT ![jobs[w].to] = jobs[w].data]

\* [ok]: a save that succeeds after a failure sets what the clients go on from.
Reports(w) ==
  LET b == jobs[w].to IN
  /\ excused' = excused \ {b}
  /\ intended' = IF b \in excused THEN [intended EXCEPT ![b] = jobs[w].data] ELSE intended

\* Lookups lead to the old record until the group is reloaded.
Repack(w) ==
  /\ Step(w, "repack", "reload") /\ Reports(w)
  /\ UNCHANGED <<client, overlay, pending, cache, disk, beyond, batch, nameOf, bare, edits>>

RepackFails(w) ==
  /\ AfterSource(w, "repack") /\ Fails(w)
  /\ UNCHANGED <<client, overlay, pending, cache, disk, beyond, batch, intended, nameOf, bare, edits>>

Reload(w) ==
  /\ AfterSource(w, "reload") /\ Stored(w)
  /\ UNCHANGED <<client, overlay, pending, cache, beyond, batch, ghosts>>

\* create_user_file, [ok], and then the cache.
StoreUser(w) ==
  /\ jobs[w].to \in User /\ Step(w, "store", "cache") /\ Stored(w) /\ Reports(w)
  /\ beyond' = Grown(jobs[w].to)
  /\ UNCHANGED <<client, overlay, pending, cache, batch, nameOf, bare, edits>>

StoreUserFails(w) ==
  /\ jobs[w].to \in User /\ Ends(w, "store") /\ Fails(w)
  /\ UNCHANGED <<client, overlay, pending, cache, disk, beyond, batch, intended, nameOf, bare, edits>>

CacheUser(w) ==
  /\ Ends(w, "cache")
  /\ cache' = [cache EXCEPT ![jobs[w].to] = jobs[w].data]
  /\ UNCHANGED <<client, overlay, pending, disk, beyond, batch, ghosts>>

\* (Slip: the rendered output stays in the cache.)
InvalidateOverlay(w) ==
  /\ mode # "poisoned" /\ Ends(w, "invalidate")
  /\ overlay' = [overlay EXCEPT ![jobs[w].path] = None]
  /\ UNCHANGED <<client, pending, cache, disk, beyond, batch, ghosts>>

\* invalidate_virtual_path, whatever became of the source.
Invalidate(w) ==
  /\ mode # "poisoned" /\ Ends(w, "invalidate")
  /\ overlay' = [overlay EXCEPT ![jobs[w].path] = None]
  /\ cache' = [cache EXCEPT ![jobs[w].path] = None]
  /\ UNCHANGED <<client, pending, disk, beyond, batch, ghosts>>

----------------------------------------------------------------------------
(* flush_all_pending and destroy: take both maps, work off the first *)

TakePending(k) ==
  /\ batch[k].at = "none"
  /\ batch' = [batch EXCEPT ![k].at = "overlay", ![k].todo = pending]
  /\ pending' = {}

\* [s] is ignored while nothing is pending or a save is running.
SavePressed ==
  /\ mode = "up" /\ pending # {} /\ ~Working("save")
  /\ "edit while [s]" \notin Habits => Quiet /\ opened = {} /\ \A b \in Bases : ~InJob(b)
  /\ TakePending("save")
  /\ UNCHANGED <<client, overlay, cache, disk, beyond, jobs, ghosts>>

TakeOverlay(k) ==
  /\ mode # "poisoned" /\ batch[k].at = "overlay"
  /\ batch' = [batch EXCEPT ![k] =
                 IF @.todo = {} THEN NoBatch ELSE [@ EXCEPT !.at = "flush", !.snap = overlay]]
  /\ overlay' = Nothing
  /\ UNCHANGED <<client, pending, cache, disk, beyond, jobs, ghosts>>

\* A marked path without bytes is skipped.
NextPath(k) ==
  /\ batch[k].at = "flush" /\ ~Working(k)
  /\ \E p \in batch[k].todo :
       /\ batch' = [batch EXCEPT ![k] = IF @.todo = {p} THEN NoBatch
                                        ELSE [@ EXCEPT !.todo = batch[k].todo \ {p}]]
       /\ jobs' = IF batch[k].snap[p] = None THEN jobs
                  ELSE [jobs EXCEPT ![k] = NewJob(p, batch[k].snap[p])]
  /\ UNCHANGED <<client, overlay, pending, cache, disk, beyond, ghosts>>

MayExit == "early exit" \notin Habits => Quiet /\ \A b \in Bases : ~InJob(b)

\* Esc: discard_pending, and then the session is dropped.
DiscardOverlay ==
  /\ mode = "up" /\ op = Ready
  /\ MayExit
  /\ mode' = "discarding"
  /\ overlay' = Nothing
  /\ excused' = excused \cup {b \in Bases : disk[b] # intended[b]}
  /\ opened' = {}
  /\ UNCHANGED <<autoRepack, pending, cache, disk, beyond, op, jobs, batch, intended, nameOf, bare, edits>>

DiscardPending ==
  /\ mode = "discarding" /\ pending # {}
  /\ pending' = {}
  /\ UNCHANGED <<client, overlay, cache, disk, beyond, jobs, batch, ghosts>>

\* The kernel unmounts when nothing is open; destroy() is called.
Unmount ==
  /\ op = Ready /\ \/ mode = "up" /\ opened = {}
                   \/ mode = "discarding" /\ pending = {}
  /\ MayExit
  /\ mode' = "unmounting"
  /\ TakePending("destroy")
  /\ UNCHANGED <<autoRepack, opened, op, overlay, cache, disk, beyond, jobs, ghosts>>

\* What a lookup will lead to: repacked files whose index was not reloaded (of
\* two such jobs of a file, one) are on disk.
Landed(p) ==
  LET at == {w \in Workers : jobs[w].at = "reload" /\ jobs[w].to = p} IN
  IF at = {} THEN disk[p] ELSE jobs[CHOOSE w \in at : TRUE].data

\* The process ends when destroy() is through; jobs still running die.
Exit ==
  /\ mode = "unmounting" /\ batch["destroy"].at = "none" /\ ~Working("destroy")
  /\ mode' = "down"
  /\ jobs' = [w \in Workers |-> NoJob]
  /\ batch' = [k \in Batches |-> NoBatch]
  /\ overlay' = Nothing /\ cache' = Nothing /\ pending' = {} /\ bare' = {}
  /\ disk' = [p \in Paths |-> Landed(p)] /\ beyond' = None
  /\ UNCHANGED <<autoRepack, opened, op, intended, excused, nameOf, edits>>

\* A mount drops user files whose path lies in a virtual root.
Remount ==
  /\ mode = "down" /\ mode' = "up"
  /\ disk' = [p \in Paths |-> IF p \in Synth THEN None ELSE disk[p]]
  /\ intended' = [b \in Bases |-> IF b \in excused THEN disk[b] ELSE intended[b]]
  /\ excused' = {}
  /\ nameOf' = [b \in Shipped |-> None]
  /\ UNCHANGED <<autoRepack, overlay, pending, cache, beyond, opened, op, jobs, batch, bare, edits>>

----------------------------------------------------------------------------
Client ==
  \/ \E p \in Paths :
       \/ Open(p) \/ Read(p) \/ Probe(p) \/ Create(p) \/ Release(p) \/ Unlink(p)
       \/ \E kind \in {"write", "cut"} : Seed(kind, p)
       \/ \E q \in Paths : RenameUser(p, q) \/ RenameOverlay(p, q)
  \/ SavePressed \/ DiscardOverlay \/ Unmount \/ Remount

Session == WriteMark \/ Apply \/ DiscardPending \/ Exit

Flush(w) ==
  \/ FlushBegin(w) \/ Convert(w) \/ ConvertFails(w) \/ GivesUp(w)
  \/ CacheFirst(w) \/ Repack(w) \/ RepackFails(w) \/ Reload(w)
  \/ StoreUser(w) \/ StoreUserFails(w) \/ CacheUser(w) \/ Invalidate(w)

Batch(k) == TakeOverlay(k) \/ NextPath(k)

Next ==
  \/ Client \/ Session
  \/ \E p \in Paths : Evict(p)
  \/ \E w \in Workers : Flush(w)
  \/ \E k \in Batches : Batch(k)

\* The session thread, the workers of the pool and the save thread are
\* operating-system threads that never wait for a client.
Fairness ==
  /\ WF_vars(Session)
  /\ \A w \in Workers : WF_vars(Flush(w))
  /\ \A k \in Batches : WF_vars(Batch(k))

Spec == Init /\ [][Next]_vars /\ Fairness

----------------------------------------------------------------------------
(* Properties *)

Content == Bytes \cup {None}
Edit    == [kind : {"none", "write", "cut"}, path : Paths \cup {None},
            at : {"idle", "mark", "apply"}]
Job     == [at : {"none", "begin", "convert", "store", "repack", "reload", "cache", "invalidate"},
            path : Paths \cup {None}, to : Bases \cup {None}, data : Bytes]
Batched == [at : {"none", "overlay", "flush"}, todo : SUBSET Paths, snap : [Paths -> Content]]

\* A flush job stores under a source or a user path, never a virtual one.
TypeOK ==
  /\ autoRepack \in BOOLEAN
  /\ mode \in {"up", "discarding", "unmounting", "down", "poisoned"}
  /\ overlay \in [Paths -> Content] /\ cache \in [Paths -> Content]
  /\ disk \in [Paths -> Content] /\ (beyond # None => beyond \subseteq User)
  /\ pending \subseteq Paths /\ opened \subseteq Paths
  /\ op \in Edit /\ jobs \in [Workers -> Job] /\ batch \in [Batches -> Batched]
  /\ intended \in [Bases -> Content] /\ excused \subseteq Bases
  /\ nameOf \in [Shipped -> Paths \cup {None}] /\ bare \subseteq Paths /\ edits \in 0..MaxEdits

\* What the clients left in b is still in memory and will be saved.
Carried(b) ==
  \E p \in Paths :
    /\ Base(p) = b
    /\ \/ p \in opened
       \/ p \in pending /\ overlay[p] = intended[b]
       \/ \E w \in Workers : Working(w) /\ jobs[w].path = p /\ jobs[w].data = intended[b]
       \/ \E k \in Batches :
            /\ p \in batch[k].todo
            /\ intended[b] = IF batch[k].at = "overlay" THEN overlay[p] ELSE batch[k].snap[p]

\* cdfuse/README.md:4: "save, and the change is repacked into the game".  Once
\* a file is closed its content is on disk, on the way there, or its save was
\* reported as failed or given up by the user; where Unsaid lets a flush give up,
\* there may be a line in the log instead of a report.
SavesKept == \A b \in Bases : b \in excused \/ disk[b] = intended[b] \/ Carried(b)

\* Clients that read the whole of a file read what they wrote, from whichever of
\* overlay, cache, rendered source or disk it comes.  Not while it is being saved,
\* nor where the code fails them: a Stubbed view that is not cached (a header),
\* a user file stored after the user PAZ was mapped and evicted since (an error).
\* A read of less than an uncached file may get its raw bytes.
ReadsBack ==
  \A p \in Paths :
    LET b == Base(p) IN
    /\ mode \in {"up", "down"}
    /\ intended[b] # None /\ b \notin excused /\ (b \in Shipped => nameOf[b] = p)
    /\ op.path # p /\ ~InJob(b) /\ ~InBatch(b)
    => \/ Visible(p) = intended[b]
       \/ overlay[p] = None /\ (OutOfReach(p) \/ (Probed(p) /\ p \in Stubbed))

\* A save never puts an older state of a file over a newer one, nor brings a
\* removed file back: what reaches the disk is what the clients left last.
StoresLatest ==
  [][\A b \in Bases : disk'[b] # disk[b] /\ b \notin excused => disk'[b] = intended'[b]]_disk

\* With auto repack a closed file does not stay unsaved, without a report (or,
\* where Unsaid lets a flush give up, a line in the log).
AutoSaved ==
  \A b \in Bases :
    (autoRepack /\ disk[b] # intended[b])
      ~> (disk[b] = intended[b] \/ b \in excused \/ \E p \in opened : Base(p) = b)

=============================================================================
