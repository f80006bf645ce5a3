------------------------------ MODULE ReadPath ------------------------------
\* How the Linux mount answers read(): write overlay, decode cache, in-flight
\* slots, mapped PAZ files and the index, while saves of the same files go on.
\* (cdfuse/src/fs.rs: read, probe, decode, get_mmap, cache_put, flush_path_sync.)
\*
\* A content is the number of the save it comes from; a rendering of a virtual
\* file is the number of the source it was rendered from.  A blob that a map does not
\* hold entirely is as good as one beyond it, so a PAZ grows by whole blobs here.
EXTENDS Integers, FiniteSets, FiniteSetsExt

CONSTANTS
  None,
  Files,      \* shipped files of one group
  Virtual,    \* virtual files
  SourceOf,   \* [Virtual -> Files]
  Saved,      \* the files, virtual or not, that clients save
  Readers,    \* threads of the decode pool
  Slots,      \* identities of OnceLock slots
  Size,       \* bytes of each content of a file, [Entries -> Nat]
  MaxBytes, MaxEntries,   \* MAX_CACHED_BYTES, MAX_CACHE_ENTRIES
  MaxSaves, MaxCounted, MaxPanics    \* bounds

Paths == Files \cup Virtual

\* What the cache may hold: a file with one of its contents.
Entries == Paths \X (0 .. MaxSaves)

Source(p) == IF p \in Virtual THEN SourceOf[p] ELSE p

ASSUME ReadAssumption ==
  /\ SourceOf \in [Virtual -> Files]
  /\ Files \cap Virtual = {} /\ Saved \subseteq Paths
  /\ MaxBytes \in Nat /\ MaxSaves \in Nat
  /\ \A e \in Entries : Size[e] \in Nat
  /\ IsFiniteSet(Paths) /\ IsFiniteSet(Readers) /\ IsFiniteSet(Slots)
  /\ Cardinality(Slots) > Cardinality(Paths) + 2 * Cardinality(Readers)
  /\ MaxEntries > 0
  /\ None \notin Paths \cup Readers \cup Slots /\ None \notin 0 .. MaxSaves + 1

VARIABLES
  overlay,   \* [Paths -> content or None]
  cache,     \* decode_cache, by inode, that is by path here
  counted,   \* cached_bytes
  inFlight,  \* [Paths -> slot or None]
  slot,      \* the OnceLocks: who runs the initialiser, and the value it left
  map,       \* paz_maps of the PAZ: the number of blobs mapped, or None
  length,    \* blobs of the PAZ on disk
  index,     \* [Files -> blob]: what a lookup in the tree leads to
  blob,      \* the content of each blob of it
  rd,        \* the readers
  fl,        \* the flush that runs, if any
  saves, panics,     \* so far
  saved,             \* last save of each file whose flush is over
  raced, shortMap, stale    \* observation: see the properties

disk == <<length, blob>>
caching == <<cache, counted>>
flights == <<inFlight, slot>>
Reading == <<flights, rd>>
ghosts == <<panics, saved, raced, shortMap, stale>>
vars == <<overlay, caching, flights, map, disk, index, rd, fl, saves, ghosts>>

Quiet == [pc |-> "idle", path |-> None, slot |-> None, outer |-> None,
          outerSlot |-> None, entry |-> 0, len |-> 0, got |-> None, floor |-> 0]

NoFlush == [pc |-> "idle", path |-> None, v |-> 0, b |-> 0]

Unset == [by |-> None, done |-> FALSE, val |-> None]

Init ==
  /\ overlay = [p \in Paths |-> None]
  /\ cache = [p \in Paths |-> None]
  /\ counted = 0
  /\ inFlight = [p \in Paths |-> None]
  /\ slot = [i \in Slots |-> Unset]
  /\ map = None
  /\ length = 1
  /\ blob = [b \in 0 .. MaxSaves |-> 0]
  /\ index = [p \in Files |-> 0]
  /\ rd = [t \in Readers |-> Quiet]
  /\ fl = NoFlush
  /\ saves = 0
  /\ panics = 0
  /\ saved = [p \in Files |-> 0]
  /\ raced = {}
  /\ shortMap = FALSE
  /\ stale = {}

-----------------------------------------------------------------------------
\* cache_put

Cached(c) == {e \in Entries : c[e[1]] = e[2]}
Bytes(S) == MapThenSumSet(LAMBDA e : Size[e], S)

\* (Slip: the loop leaves no room for what comes.)
PoppedLate(new) ==
  LET room(S) == counted - Bytes(S) <= MaxBytes
  IN {S \in SUBSET Cached(cache) :
        \/ room(S) /\ (S = {} \/ \E e \in S : ~room(S \ {e}))
        \/ ~room(S) /\ S = Cached(cache)}

\* The while loop pops entries, whichever are least recently used, until the
\* count leaves room or nothing is left.
Popped(new) ==
  LET room(S) == counted - Bytes(S) + Size[new] <= MaxBytes
  IN {S \in SUBSET Cached(cache) :
        \/ room(S) /\ (S = {} \/ \E e \in S : ~room(S \ {e}))
        \/ ~room(S) /\ S = Cached(cache)}

\* LruCache::put drops one more when it is full, which the count does not see.
CachePut(p, content) ==
  \E S \in Popped(<<p, content>>) :
    LET left == Cached(cache) \ S
        full == (\A e \in left : e[1] # p) /\ Cardinality(left) >= MaxEntries
    IN \E lost \in IF full THEN {{e} : e \in left} ELSE {{}} :
         /\ cache' = [q \in Paths |-> IF q = p THEN content
                                      ELSE IF \E e \in S \cup lost : e[1] = q THEN None
                                      ELSE cache[q]]
         /\ counted' = counted - Bytes(S) + Size[<<p, content>>]

-----------------------------------------------------------------------------
\* read() and decode()

Go(t, r) == rd' = [rd EXCEPT ![t] = r]

\* What a read sent now must not be older than.
Floor(p) == IF Source(p) \in raced THEN 0 ELSE saved[Source(p)]

\* What the client gets.  None is EIO.
Fresh(r, content) ==
  \/ Source(r.path) \in raced
  \/ content = None /\ shortMap
  \/ content # None /\ content >= r.floor

Answer(t, r, content) ==
  /\ Go(t, Quiet)
  /\ stale' = IF Fresh(r, content) THEN stale ELSE stale \cup {r.path}

\* read(): overlay, then cache, on the session thread.
ReadMemory(t, p) ==
  /\ rd[t].pc = "idle"
  /\ overlay[p] # None \/ cache[p] # None
  /\ Answer(t, [Quiet EXCEPT !.path = p, !.floor = Floor(p)],
            IF overlay[p] # None THEN overlay[p] ELSE cache[p])
  /\ UNCHANGED <<overlay, caching, flights, map, disk, index, fl, saves, panics, saved, raced, shortMap>>

\* Otherwise a decode is spawned on the pool.
ReadDecode(t, p) ==
  /\ rd[t].pc = "idle"
  /\ overlay[p] = None
  /\ cache[p] = None
  /\ counted <= MaxCounted
  /\ Go(t, [Quiet EXCEPT !.pc = "cache", !.path = p, !.floor = Floor(p)])
  /\ UNCHANGED <<overlay, caching, flights, map, disk, index, fl, saves, ghosts>>

\* probe(): a short read at offset 0 of a shipped file that is neither written nor
\* cached is answered on the session thread with the raw bytes of its blob, still
\* compressed and encrypted, unless they lie beyond the map.  It maps the PAZ (at
\* once: MapOpen and MapKeep have the steps in which others can interfere).  A view
\* with a made-up header is answered with that, whatever was saved.
Probe(p) ==
  /\ overlay[p] = None
  /\ cache[p] = None
  /\ map' = IF map = None THEN length ELSE map
  /\ index[p] < map'
  /\ stale' = IF Fresh([Quiet EXCEPT !.path = p, !.floor = Floor(p)], blob[index[p]])
              THEN stale ELSE stale \cup {p}
  /\ UNCHANGED <<overlay, caching, Reading, disk, index, fl, saves, panics, saved, raced, shortMap>>

\* The caller of a nested decode resumes with its result; the outermost replies.
Return(t, content) ==
  LET r == rd[t] IN
  IF r.outer = None THEN Answer(t, r, content)
  ELSE /\ Go(t, [r EXCEPT !.pc = "render", !.path = r.outer, !.slot = r.outerSlot,
                          !.outer = None, !.outerSlot = None, !.got = content])
       /\ UNCHANGED stale

DecodeCached(t) ==
  /\ rd[t].pc = "cache"
  /\ cache[rd[t].path] # None
  /\ Return(t, cache[rd[t].path])
  /\ UNCHANGED <<overlay, caching, flights, map, disk, index, fl, saves, panics, saved, raced, shortMap>>

Held == {inFlight[p] : p \in Paths} \cup {rd[t].slot : t \in Readers}
        \cup {rd[t].outerSlot : t \in Readers}

\* The slot of the path in in_flight, or a new one.
DecodeJoin(t) ==
  LET p == rd[t].path
      s == IF inFlight[p] # None THEN inFlight[p]
           ELSE CHOOSE i \in Slots : i \notin Held
  IN /\ rd[t].pc = "cache"
     /\ cache[p] = None
     /\ inFlight' = [inFlight EXCEPT ![p] = s]
     /\ slot' = IF inFlight[p] # None THEN slot ELSE [slot EXCEPT ![s] = Unset]
     /\ Go(t, [rd[t] EXCEPT !.pc = "once", !.slot = s])
     /\ UNCHANGED <<overlay, caching, map, disk, index, fl, saves, ghosts>>

\* (Slip: the source is decoded under the inode of the virtual file.)
DecodeRunOwn(t) ==
  LET p == rd[t].path IN
  /\ rd[t].pc = "once"
  /\ ~slot[rd[t].slot].done
  /\ slot[rd[t].slot].by = None
  /\ slot' = [slot EXCEPT ![rd[t].slot].by = t]
  /\ IF p \in Virtual
     THEN Go(t, [rd[t] EXCEPT !.pc = "cache", !.outer = p,
                              !.outerSlot = rd[t].slot, !.slot = None])
     ELSE Go(t, [rd[t] EXCEPT !.pc = "map", !.entry = index[p]])
  /\ UNCHANGED <<overlay, caching, inFlight, map, disk, index, fl, saves, ghosts>>

\* get_or_init: the first caller runs the initialiser.  For a virtual file that
\* is a decode of its source, for a shipped one a lookup.
DecodeRun(t) ==
  LET p == rd[t].path IN
  /\ rd[t].pc = "once"
  /\ ~slot[rd[t].slot].done
  /\ slot[rd[t].slot].by = None
  /\ slot' = [slot EXCEPT ![rd[t].slot].by = t]
  /\ IF p \in Virtual
     THEN Go(t, [rd[t] EXCEPT !.pc = "cache", !.path = SourceOf[p], !.outer = p,
                              !.outerSlot = rd[t].slot, !.slot = None])
     ELSE Go(t, [rd[t] EXCEPT !.pc = "map", !.entry = index[p]])
  /\ UNCHANGED <<overlay, caching, inFlight, map, disk, index, fl, saves, ghosts>>

\* A blob that begins beyond the map, or does not decompress because the map ends
\* in it, is None.  What the initialiser returns is in the slot from then on.
Sliced(t, r, len) ==
  /\ slot' = [slot EXCEPT ![r.slot] =
       [by |-> None, done |-> TRUE,
        val |-> IF r.entry < len THEN blob[r.entry] ELSE None]]
  /\ Go(t, [r EXCEPT !.pc = "once", !.len = 0, !.entry = 0])

\* get_mmap: the map in the pool ...
MapShared(t) ==
  /\ rd[t].pc = "map"
  /\ map # None
  /\ Sliced(t, rd[t], map)
  /\ UNCHANGED <<overlay, caching, inFlight, map, disk, index, fl, saves, ghosts>>

\* ... or a new one, of the length the PAZ has now ...
MapOpen(t) ==
  /\ rd[t].pc = "map"
  /\ map = None
  /\ Go(t, [rd[t] EXCEPT !.pc = "keep", !.len = length])
  /\ UNCHANGED <<overlay, caching, flights, map, disk, index, fl, saves, ghosts>>

\* ... which is put in the pool unless another is there by now.
MapKeep(t) ==
  /\ rd[t].pc = "keep"
  /\ map' = IF map = None THEN rd[t].len ELSE map
  /\ Sliced(t, rd[t], rd[t].len)
  /\ UNCHANGED <<overlay, caching, inFlight, disk, index, fl, saves, ghosts>>

\* A virtual file is rendered from the bytes its nested decode returned.
DecodeRender(t) ==
  /\ rd[t].pc = "render"
  /\ slot' = [slot EXCEPT ![rd[t].slot] = [by |-> None, done |-> TRUE, val |-> rd[t].got]]
  /\ Go(t, [rd[t] EXCEPT !.pc = "once", !.got = None])
  /\ UNCHANGED <<overlay, caching, inFlight, map, disk, index, fl, saves, ghosts>>

\* A panic in the initialiser, while it decompresses or renders, leaves the slots
\* of the thread unset, in in_flight.  read() catches it and replies EIO.
DecodePanics(t) ==
  /\ rd[t].pc \in {"map", "render"}
  /\ panics < MaxPanics
  /\ panics' = panics + 1
  /\ slot' = [i \in Slots |-> IF slot[i].by = t THEN Unset ELSE slot[i]]
  /\ Go(t, Quiet)
  /\ UNCHANGED <<overlay, caching, inFlight, map, disk, index, fl, saves, saved, raced, shortMap, stale>>

\* The initialising thread, and whoever waited for the value, takes the path out of
\* in_flight, whichever slot is there by then.
DecodeUnslot(t) ==
  LET got == slot[rd[t].slot].val
      s   == rd[t].slot
      referred == \E u \in Readers \ {t} : rd[u].slot = s \/ rd[u].outerSlot = s
  IN
  /\ rd[t].pc = "once"
  /\ slot[s].done
  /\ slot' = IF referred THEN slot ELSE [slot EXCEPT ![s] = Unset]
  /\ inFlight' = [inFlight EXCEPT ![rd[t].path] = None]
  /\ IF got = None THEN Return(t, None)
     ELSE /\ Go(t, [rd[t] EXCEPT !.pc = "put", !.slot = None, !.got = got])
          /\ UNCHANGED stale
  /\ UNCHANGED <<overlay, caching, map, disk, index, fl, saves,
                 panics, saved, raced, shortMap>>

Saving(p) == fl.pc # "idle" /\ Source(fl.path) = Source(p)

DecodePut(t) ==
  /\ rd[t].pc = "put"
  /\ CachePut(rd[t].path, rd[t].got)
  /\ Return(t, rd[t].got)
  /\ raced' = IF Saving(rd[t].path) THEN raced \cup {Source(rd[t].path)} ELSE raced
  /\ UNCHANGED <<overlay, flights, map, disk, index, fl, saves, panics, saved, shortMap>>

-----------------------------------------------------------------------------
\* flush_path_sync.  Flushes of one group do not overlap here (RepackChain is
\* about those that do), reads overlap with every step.

\* Readers that are inside a decode of the file being saved.
Decoding(p) ==
  \E t \in Readers :
    /\ rd[t].pc # "idle"
    /\ Source(rd[t].path) = Source(p)
    /\ rd[t].pc = "cache" => rd[t].outer # None

Flush(rec) ==
  /\ fl' = rec
  /\ raced' = IF Decoding(fl.path) THEN raced \cup {Source(fl.path)} ELSE raced

\* A client has written and closed p; release or [s] starts the flush.
Save(p) ==
  /\ fl.pc = "idle"
  /\ saves < MaxSaves
  /\ saves' = saves + 1
  /\ overlay' = [overlay EXCEPT ![p] = saves + 1]
  /\ fl' = [pc |-> "put", path |-> p, v |-> saves + 1, b |-> 0]
  /\ UNCHANGED <<caching, Reading, map, disk, index, ghosts>>

\* [s] takes the overlay along, Esc drops it.
TakeOverlay ==
  /\ overlay # [p \in Paths |-> None]
  /\ overlay' = [p \in Paths |-> None]
  /\ UNCHANGED <<caching, Reading, map, disk, index, fl, saves, ghosts>>

\* The conversion of an edited virtual file fails, and nothing is saved.
FlushConvertFails ==
  /\ fl.pc = "put"
  /\ fl.path \in Virtual
  /\ Flush(NoFlush)
  /\ UNCHANGED <<overlay, caching, Reading, map, disk, index, saves, panics, saved, shortMap, stale>>

\* The bytes to be saved are put in the cache under the name of the source.
FlushPut ==
  /\ fl.pc = "put"
  /\ CachePut(Source(fl.path), fl.v)
  /\ Flush([fl EXCEPT !.pc = "append"])
  /\ UNCHANGED <<overlay, Reading, map, disk, index, saves, panics, saved, shortMap, stale>>

FlushAppend ==
  /\ fl.pc = "append"
  /\ length' = length + 1
  /\ blob' = [blob EXCEPT ![length] = fl.v]
  /\ Flush([fl EXCEPT !.pc = "unmap", !.b = length])
  /\ UNCHANGED <<overlay, caching, Reading, map, index, saves, panics, saved, shortMap, stale>>

\* flush_synth_to_source invalidates the virtual path whatever the recursive
\* flush of the source came to.
AfterSource == IF fl.path \in Virtual THEN [fl EXCEPT !.pc = "invalidate"] ELSE NoFlush

\* repack reports an error, before or after the append.
FlushFails ==
  /\ fl.pc \in {"append", "unmap"}
  /\ Flush([AfterSource EXCEPT !.v = 0])
  /\ UNCHANGED <<overlay, caching, Reading, map, disk, index, saves, panics, saved, shortMap, stale>>

\* (Slip: the map is not dropped.)
FlushKeepsMap ==
  /\ fl.pc = "unmap"
  /\ Flush([fl EXCEPT !.pc = "reload"])
  /\ UNCHANGED <<overlay, caching, Reading, map, disk, index, saves, panics, saved, shortMap, stale>>

\* The index on disk is written: drop the map, then reload the group.
FlushUnmap ==
  /\ fl.pc = "unmap"
  /\ map' = None
  /\ shortMap' = (shortMap \/ \E t \in Readers : rd[t].pc = "keep")
  /\ Flush([fl EXCEPT !.pc = "reload"])
  /\ UNCHANGED <<overlay, caching, Reading, disk, index, saves, panics, saved, stale>>

SaveDone == saved' = [saved EXCEPT ![Source(fl.path)] = fl.v]

FlushReload ==
  /\ fl.pc = "reload"
  /\ index' = [index EXCEPT ![Source(fl.path)] = fl.b]
  /\ Flush(AfterSource)
  /\ IF fl.path \in Virtual THEN UNCHANGED saved ELSE SaveDone
  /\ UNCHANGED <<overlay, caching, Reading, map, disk, saves, panics, shortMap, stale>>

\* reload_group fails, which is logged; the file is as it was for readers.
FlushReloadFails ==
  /\ fl.pc = "reload"
  /\ Flush([AfterSource EXCEPT !.v = 0])
  /\ UNCHANGED <<overlay, caching, Reading, map, disk, index, saves, panics, saved, shortMap, stale>>

\* invalidate_virtual_path drops the overlay and the cached rendering, whose bytes
\* stay in the count.
FlushInvalidate ==
  /\ fl.pc = "invalidate"
  /\ overlay' = [overlay EXCEPT ![fl.path] = None]
  /\ cache' = [cache EXCEPT ![fl.path] = None]
  /\ IF fl.v = 0 THEN UNCHANGED saved ELSE SaveDone
  /\ Flush(NoFlush)
  /\ UNCHANGED <<counted, Reading, map, disk, index, saves, panics, shortMap, stale>>

-----------------------------------------------------------------------------
DecodeStep(t) ==
  \/ DecodeCached(t)
  \/ DecodeJoin(t)
  \/ DecodeRun(t)
  \/ MapShared(t)
  \/ MapOpen(t)
  \/ MapKeep(t)
  \/ DecodeRender(t)
  \/ DecodeUnslot(t)
  \/ DecodePut(t)

Next ==
  \/ \E t \in Readers :
       \/ \E p \in Paths : ReadMemory(t, p) \/ ReadDecode(t, p)
       \/ DecodeStep(t)
       \/ DecodePanics(t)
  \/ \E p \in Files : Probe(p)
  \/ \E p \in Saved : Save(p)
  \/ TakeOverlay
  \/ FlushConvertFails
  \/ FlushPut
  \/ FlushAppend
  \/ FlushFails
  \/ FlushUnmap
  \/ FlushReload
  \/ FlushReloadFails
  \/ FlushInvalidate

\* The pool runs every decode it was given; clients and saves come as they like.
Fairness == \A t \in Readers : WF_vars(DecodeStep(t))

Spec == Init /\ [][Next]_vars /\ Fairness

-----------------------------------------------------------------------------
\* A read sent after a flush is over returns what it saved, or something newer,
\* whatever copies lie in overlay, cache, slots, rendered views and old maps; one
\* that probe() answers gets the raw bytes of such a version.  The flush is over a
\* little after its [ok]: in between the index is reloaded and the view dropped, and
\* a read may still return what was there before.  Excluded are the two races the
\* code has: a decode of the file that overlaps a step of its save (the old bytes
\* may then stay in the cache), and EIO from a map that a reader put back after the
\* save dropped it.
\* (fs.rs: decode, probe, get_mmap, cache_put, invalidate_virtual_path, flush_path_sync)
Coherent == stale = {}

\* The decode cache holds more than MAX_CACHED_BYTES only while a single entry does
\* so alone: the count errs upwards only (replaced, displaced and invalidated
\* entries stay in it), an entry that was popped is subtracted once, and one for
\* which there is no room comes after all others went.
\* (fs.rs: cache_put, invalidate_virtual_path)
CacheBounded ==
  /\ Bytes(Cached(cache)) <= counted
  /\ Bytes(Cached(cache)) > MaxBytes => \E e \in Entries : Cached(cache) = {e}

\* Every read is answered: no reader waits for ever on an in-flight slot, nested
\* decodes, panics and slots removed by others included.  (fs.rs: decode, read)
Answered == \A t \in Readers : rd[t].pc # "idle" ~> rd[t].pc = "idle"

=============================================================================
