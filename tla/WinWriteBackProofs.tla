-------------------------- MODULE WinWriteBackProofs --------------------------
(***************************************************************************)
(* What the clients of the Windows mount left in a file is on disk, on its *)
(* way there, or its save failed or was given up; they read it back or get *)
(* an error; and no save takes half a file or an old one.  For any files,  *)
(* views, handles, save threads, silent ways out and number of edits, when *)
(* clients are patient (Habits = {}).                                      *)
(***************************************************************************)
EXTENDS WinWriteBack, TLAPS

(* The inductive invariant *)

Bytes   == SUBSET (0..MaxEdits)
Content == Bytes \cup {None}
Ctx     == [at : {"closed", "put", "open", "write", "resize", "mark", "claimed", "cleaned", "forget"},
            path : Paths \cup {None}, wrote : BOOLEAN, snap : Content]
Task    == [at : {"idle", "begin", "convert", "put", "unmap", "repack", "reload", "drop",
                  "cache", "store", "stored"},
            path : Paths \cup {None}, data : Bytes]
Taken   == [at : {"idle", "marks", "work"}, todo : SUBSET Paths, snap : [Paths -> Content]]

Types ==
  /\ overlay \in [Paths -> Content] /\ cache \in [Paths -> Content] /\ disk \in [Paths -> Content]
  /\ pending \subseteq Paths
  /\ handle \in [Handles -> Ctx] /\ job \in [Threads -> Task] /\ batch \in Taken
  /\ intended \in [Bases -> Content] /\ excused \subseteq Bases /\ raced \subseteq Bases
  /\ nameOf \in [Shipped -> Paths \cup {None}] /\ bare \subseteq Handles
  /\ torn \in BOOLEAN /\ edits \in 0..MaxEdits

\* A handle is about a file while it is not closed, and a task while it is not idle.
HandleShape(f) ==
  /\ f.at # "closed" => f.path \in Paths
  /\ f.wrote => f.at \notin {"closed", "put"}
  /\ f.at \in {"write", "resize", "mark", "claimed"} => f.wrote
  /\ f.at = "forget" => f.path \in User

JobShape(j) ==
  /\ j.at # "idle" => j.path \in Paths
  /\ j.at \in {"convert", "drop", "cache"} => j.path \in Views
  /\ j.at \in {"put", "unmap", "repack", "reload"} => j.path \in Shipped \cup Views
  /\ j.at \in {"store", "stored"} => j.path \in User

TInv ==
  /\ Types
  /\ \A h \in Handles : HandleShape(handle[h])
  /\ \A w \in Threads : JobShape(job[w])
  /\ batch.at = "idle" => batch = NoBatch
  /\ batch.at = "marks" => batch.todo = {}

About(h, b) == handle[h].at # "closed" /\ Base(handle[h].path) = b
Saves(w, b) == job[w].at # "idle" /\ Base(job[w].path) = b

\* The name clients write the base of p by, if they write it at all.
Owned(p) == Base(p) \in Shipped => nameOf[Base(p)] = p
\* What is cached under p is rendered anew by every save of its base.
Fresh(p) == p = Base(p) \/ nameOf[Base(p)] \in {None, p}

\* d is what the clients left in the base of p, unless its save went wrong.
Latest(p, d) == d # None /\ Owned(p) /\ (Base(p) \notin excused => d = intended[Base(p)])

Forgotten(p) == \E h \in Handles : handle[h].at = "forget" /\ handle[h].path = p

\* A handle that has written has its base to itself: no save of it runs and its bytes
\* are in the overlay, marked unless it is in the middle of a call.
WriterOK(h) ==
  LET f == handle[h]
      p == f.path
      b == Base(p)
  IN f.wrote =>
       /\ Owned(p) /\ ~Saving(b) /\ ~Batching /\ Writing(b) = {h}
       /\ f.at \in {"open", "write", "resize", "mark", "claimed"} => overlay[p] # None
       /\ f.at = "open" => p \in pending \/ h \in bare
       /\ f.at = "claimed" => p \notin pending
       /\ f.at = "cleaned" /\ b \notin excused =>
            disk[b] = None /\ intended[b] = None /\ overlay[p] = None /\ p \notin pending

\* Any handle: an open file has content, what a decode is about to cache is what the
\* clients left unless a change overlapped it, and a removed file is gone for good.
ReaderOK(h) ==
  LET f == handle[h]
      p == f.path
      b == Base(p)
  IN /\ f.at \in {"put", "open", "write", "resize", "mark", "claimed"} /\ b \notin excused
          => intended[b] # None
     /\ f.at = "put" => f.snap # None
     /\ f.at = "put" /\ b \notin excused /\ b \notin raced /\ ~Underway(b) => f.snap = intended[b]
     /\ f.at = "forget" =>
          /\ disk[p] = None /\ intended[p] = None
          /\ ~Saving(p) /\ ~Batching
          /\ \A g \in Handles : About(g, p) => g = h

HandlesOK(b) == \A h \in Handles : About(h, b) => WriterOK(h) /\ ReaderOK(h)

\* The overlay holds the latest bytes, under the name in use; a mark has bytes to save
\* in the overlay or in what a save of everything took, until it is on the list.
PathOK(p) ==
  /\ overlay[p] # None => Latest(p, overlay[p]) \/ Forgotten(p)
  /\ p \in pending => /\ ~Saving(Base(p))
                      /\ batch.at = "idle" => overlay[p] # None
                      /\ batch.at = "marks" => Latest(p, batch.snap[p])
                      /\ batch.at # "work"
  /\ p \in batch.todo => Latest(p, batch.snap[p]) /\ ~Saving(Base(p))

PathsOK(b) == \A p \in Paths : Base(p) = b => PathOK(p)

\* A thread that saves is the only one for its base and has the latest bytes; past the
\* step that stores them they are on disk, and in the cache unless a decode overlapped.
JobOK(w) ==
  LET j == job[w]
      b == Base(j.path)
  IN /\ Latest(j.path, j.data)
     /\ \A v \in Threads : Saves(v, b) => v = w
     /\ j.at \in {"drop", "cache", "stored"} /\ b \notin excused => disk[b] = j.data
     /\ j.at \in {"unmap", "repack", "reload", "drop", "cache"} /\ b \notin excused /\ b \notin raced
          => cache[b] \in {None, j.data}

JobsOK(b) == \A w \in Threads : Saves(w, b) => JobOK(w)

\* A base that nobody has in hand: SavesKept, and the cache for ReadsBack.
CleanOK(b) ==
  b \notin excused /\ ~Underway(b) =>
    /\ disk[b] = intended[b]
    /\ b \notin raced /\ intended[b] # None =>
         \A p \in Paths : Base(p) = b /\ Fresh(p) => cache[p] \in {None, intended[b]}

ShippedOK(b) == b \in Shipped => intended[b] # None /\ disk[b] # None

BaseOK(b) == HandlesOK(b) /\ PathsOK(b) /\ JobsOK(b) /\ CleanOK(b) /\ ShippedOK(b)

WInv == TInv /\ ~torn /\ \A b \in Bases : BaseOK(b)

(* Types *)

LEMMA BaseFacts ==
  /\ \A p \in Paths : Base(p) \in Bases /\ Base(p) \in Paths
  /\ \A p \in User : Base(p) = p /\ p \notin Views /\ p \notin Shipped
  /\ \A p \in Shipped : Base(p) = p /\ p \notin Views /\ p \notin User
  /\ \A p \in Views : Base(p) = SourceOf[p] /\ Base(p) \in Shipped /\ p \notin Bases
  /\ \A p \in Bases : Base(p) = p
  /\ Shipped \subseteq Bases /\ User \subseteq Bases /\ Bases \subseteq Paths /\ Views \subseteq Paths
  /\ None \notin Paths /\ None \notin Bases /\ Base(None) = None
  BY WinAssumption DEF Base, Paths, Bases

LEMMA ContentFacts ==
  /\ None \in Content /\ \A d \in Content : d = None \/ d \in Bytes
  /\ {} \in Bytes /\ \A d \in Bytes : d \in Content /\ d # None
  /\ \A d \in Bytes, e \in 0..MaxEdits : d \cup {e} \in Bytes
  /\ {0} \in Bytes /\ 0 \in 0..MaxEdits
  /\ \A e \in 0..MaxEdits : e < MaxEdits => e + 1 \in 0..MaxEdits
  <1>1. MaxEdits \in Nat /\ \A d \in Bytes : d # None
    BY WinAssumption DEF Bytes
  <1>2. 0 \in 0..MaxEdits /\ \A e \in 0..MaxEdits : e < MaxEdits => e + 1 \in 0..MaxEdits
    BY <1>1, SMT
  <1> QED
    BY <1>1, <1>2 DEF Content, Bytes

LEMMA RestFacts ==
  /\ Closed \in Ctx /\ HandleShape(Closed) /\ Closed.at = "closed" /\ ~Closed.wrote
  /\ Idle \in Task /\ JobShape(Idle) /\ Idle.at = "idle"
  /\ Nothing \in [Paths -> Content] /\ \A p \in Paths : Nothing[p] = None
  /\ NoBatch \in Taken /\ NoBatch.at = "idle" /\ NoBatch.todo = {}
  <1>1. None \in Content /\ {} \in Bytes
    BY ContentFacts
  <1> QED
    BY <1>1 DEF Closed, Ctx, HandleShape, Idle, Task, JobShape, Nothing, NoBatch, Taken

LEMMA InitTypes == Init => TInv
  <1> SUFFICES ASSUME Init PROVE TInv
    OBVIOUS
  <1>1. disk \in [Paths -> Content]
    BY ContentFacts DEF Init
  <1>2. intended \in [Bases -> Content]
    BY <1>1, BaseFacts DEF Init
  <1>3. edits \in 0..MaxEdits /\ batch = NoBatch
    BY ContentFacts DEF Init
  <1> QED
    BY <1>1, <1>2, <1>3, RestFacts DEF Init, TInv, Types

\* A step that concerns one handle, or one thread that saves.
HandleStep(h, f) == handle' = [handle EXCEPT ![h] = f] /\ f \in Ctx /\ HandleShape(f)
JobStep(w, j) == job' = [job EXCEPT ![w] = j] /\ j \in Task /\ JobShape(j)

LEMMA DecodedTypes ==
  ASSUME Types, NEW p \in Paths
  PROVE  Decoded(p) \in Content /\ \A d \in Content : CacheWith(p, d) \in [Paths -> Content]
  BY BaseFacts, ContentFacts DEF Decoded, CacheWith, Types

LEMMA HandleTypes ==
  ASSUME TInv, NEW h \in Handles, NEW f, HandleStep(h, f), UNCHANGED <<job, batch>>,
         overlay' \in [Paths -> Content], cache' \in [Paths -> Content], disk' \in [Paths -> Content],
         pending' \subseteq Paths, intended' \in [Bases -> Content],
         excused' \subseteq Bases, raced' \subseteq Bases,
         nameOf' \in [Shipped -> Paths \cup {None}], bare' \subseteq Handles,
         torn' \in BOOLEAN, edits' \in 0..MaxEdits
  PROVE  TInv'
  <1>1. handle' \in [Handles -> Ctx] /\ \A g \in Handles : HandleShape(handle'[g])
    BY DEF TInv, Types, HandleStep
  <1> QED
    BY <1>1 DEF TInv, Types

\* What the action of a handle makes of it.
LEMMA HandleSteps ==
  ASSUME TInv, NEW h \in Handles
  PROVE  /\ \A p \in Paths :
              /\ OpenHit(h, p) =>
                   HandleStep(h, [at |-> "open", path |-> p, wrote |-> FALSE, snap |-> cache[p]])
              /\ OpenDecode(h, p) =>
                   HandleStep(h, [at |-> "put", path |-> p, wrote |-> FALSE, snap |-> Decoded(p)])
              /\ Create(h, p) =>
                   HandleStep(h, [at |-> "open", path |-> p, wrote |-> FALSE, snap |-> None])
         /\ OpenPut(h) \/ ResizeApply(h) \/ Mark(h) =>
              HandleStep(h, [handle[h] EXCEPT !.at = "open"])
         /\ Overwrite(h) => HandleStep(h, [handle[h] EXCEPT !.wrote = TRUE, !.at = "mark"])
         /\ \A kind \in {"write", "resize"} :
              Seed(h, kind) => HandleStep(h, [handle[h] EXCEPT !.wrote = TRUE, !.at = kind])
         /\ WriteApply(h) => HandleStep(h, [handle[h] EXCEPT !.at = "mark"])
         /\ Close(h) \/ CloseSpawn(h) => HandleStep(h, Closed)
         /\ CloseClaim(h) => HandleStep(h, IF handle[h].path \in pending /\ "manual" \notin Habits
                                           THEN [handle[h] EXCEPT !.at = "claimed"] ELSE Closed)
         /\ CleanupOverlay(h) \/ CleanupForget(h) =>
              HandleStep(h, [handle[h] EXCEPT !.at = "cleaned"])
         /\ CleanupRemove(h) =>
              \/ HandleStep(h, [handle[h] EXCEPT !.at = "forget"])
              \/ HandleStep(h, [handle[h] EXCEPT !.at = "cleaned"])
         /\ \A q \in User : RenameUser(h, q) \/ RenameOverlay(h, q) =>
              HandleStep(h, [handle[h] EXCEPT !.at = "cleaned"])
  <1>1. handle[h] \in Ctx /\ HandleShape(handle[h]) /\ cache \in [Paths -> Content]
    BY DEF TInv, Types
  <1>2. \A p \in Paths : Decoded(p) \in Content
    BY DecodedTypes DEF TInv
  <1>3. Closed \in Ctx /\ HandleShape(Closed) /\ None \in Content
    BY RestFacts, ContentFacts
  <1>4. ASSUME NEW p \in Paths
        PROVE  /\ OpenHit(h, p) =>
                    HandleStep(h, [at |-> "open", path |-> p, wrote |-> FALSE, snap |-> cache[p]])
               /\ OpenDecode(h, p) =>
                    HandleStep(h, [at |-> "put", path |-> p, wrote |-> FALSE, snap |-> Decoded(p)])
               /\ Create(h, p) =>
                    HandleStep(h, [at |-> "open", path |-> p, wrote |-> FALSE, snap |-> None])
    <2>1. \A at \in {"open", "put"}, d \in Content :
            LET f == [at |-> at, path |-> p, wrote |-> FALSE, snap |-> d]
            IN f \in Ctx /\ HandleShape(f)
      BY DEF Ctx, HandleShape
    <2>2. cache[p] \in Content /\ Decoded(p) \in Content
      BY <1>1, <1>2
    <2>3. OpenHit(h, p) =>
            handle' = [handle EXCEPT ![h] = [at |-> "open", path |-> p, wrote |-> FALSE, snap |-> cache[p]]]
      BY DEF OpenHit, Sets, Closed
    <2>4. OpenDecode(h, p) =>
            handle' = [handle EXCEPT ![h] = [at |-> "put", path |-> p, wrote |-> FALSE, snap |-> Decoded(p)]]
      BY DEF OpenDecode, Sets, Closed
    <2>5. Create(h, p) =>
            handle' = [handle EXCEPT ![h] = [at |-> "open", path |-> p, wrote |-> FALSE, snap |-> None]]
      BY DEF Create, Sets, Closed
    <2> QED
      BY <1>3, <2>1, <2>2, <2>3, <2>4, <2>5 DEF HandleStep
  <1>5. OpenPut(h) \/ ResizeApply(h) \/ Mark(h) =>
          HandleStep(h, [handle[h] EXCEPT !.at = "open"])
    BY <1>1 DEF OpenPut, ResizeApply, Mark, Sets, HandleStep, Ctx, HandleShape
  <1>6. Overwrite(h) => HandleStep(h, [handle[h] EXCEPT !.wrote = TRUE, !.at = "mark"])
    BY <1>1 DEF Overwrite, Open, Sets, HandleStep, Ctx, HandleShape
  <1>7. \A kind \in {"write", "resize"} :
          Seed(h, kind) => HandleStep(h, [handle[h] EXCEPT !.wrote = TRUE, !.at = kind])
    BY <1>1 DEF Seed, Open, Sets, HandleStep, Ctx, HandleShape
  <1>8. WriteApply(h) => HandleStep(h, [handle[h] EXCEPT !.at = "mark"])
    BY <1>1 DEF WriteApply, Sets, HandleStep, Ctx, HandleShape
  <1>9. Close(h) \/ CloseSpawn(h) => HandleStep(h, Closed)
    BY <1>3 DEF Close, CloseSpawn, Sets, HandleStep
  <1>10. CloseClaim(h) => HandleStep(h, IF handle[h].path \in pending /\ "manual" \notin Habits
                                        THEN [handle[h] EXCEPT !.at = "claimed"] ELSE Closed)
    <2> SUFFICES ASSUME CloseClaim(h)
                 PROVE  HandleStep(h, IF handle[h].path \in pending /\ "manual" \notin Habits
                                        THEN [handle[h] EXCEPT !.at = "claimed"] ELSE Closed)
      OBVIOUS
    <2>1. [handle[h] EXCEPT !.at = "claimed"] \in Ctx /\ HandleShape([handle[h] EXCEPT !.at = "claimed"])
      BY <1>1 DEF CloseClaim, HandleShape, Ctx
    <2> QED
      BY <1>3, <2>1 DEF CloseClaim, Sets, HandleStep
  <1>11. CleanupOverlay(h) \/ CleanupForget(h) \/ (\E q \in User : RenameUser(h, q) \/ RenameOverlay(h, q))
           => HandleStep(h, [handle[h] EXCEPT !.at = "cleaned"])
    <2>1. CleanupOverlay(h) \/ CleanupForget(h) \/ (\E q \in User : RenameUser(h, q) \/ RenameOverlay(h, q))
            => Sets(h, [handle[h] EXCEPT !.at = "cleaned"]) /\ handle[h].at \in {"open", "forget"}
      BY DEF CleanupOverlay, CleanupForget, RenameUser, RenameOverlay, Renames, Open
    <2> QED
      BY <1>1, <2>1 DEF Sets, HandleStep, Ctx, HandleShape
  <1>12. CleanupRemove(h) =>
           \/ HandleStep(h, [handle[h] EXCEPT !.at = "forget"])
           \/ HandleStep(h, [handle[h] EXCEPT !.at = "cleaned"])
    BY <1>1 DEF CleanupRemove, Open, Sets, HandleStep, Ctx, HandleShape
  <1> QED
    BY <1>4, <1>5, <1>6, <1>7, <1>8, <1>9, <1>10, <1>11, <1>12

LEMMA HandleActionTypes ==
  ASSUME TInv, NEW h \in Handles
  PROVE  /\ \A p \in Paths : OpenHit(h, p) \/ OpenDecode(h, p) \/ Create(h, p) => TInv'
         /\ OpenPut(h) \/ Overwrite(h) \/ WriteApply(h) \/ ResizeApply(h) \/ Mark(h) => TInv'
         /\ \A kind \in {"write", "resize"} : Seed(h, kind) => TInv'
         /\ Close(h) \/ CloseClaim(h) => TInv'
         /\ CleanupOverlay(h) \/ CleanupRemove(h) \/ CleanupForget(h) => TInv'
         /\ \A q \in User : RenameUser(h, q) \/ RenameOverlay(h, q) => TInv'
  <1> USE DEF TInv, Types
  <1>1. \A p \in Paths : Decoded(p) \in Content /\ \A d \in Content : CacheWith(p, d) \in [Paths -> Content]
    BY DecodedTypes
  <1>2. handle[h] \in Ctx /\ (handle[h].at # "closed" => handle[h].path \in Paths)
    BY DEF HandleShape
  <1>3. Counts => edits' \in 0..MaxEdits
    BY ContentFacts DEF Counts
  <1>4. \A p \in Paths : Named(p) \in [Shipped -> Paths \cup {None}]
    BY DEF Named
  <1>5. ASSUME NEW p \in Paths, OpenHit(h, p) \/ OpenDecode(h, p) PROVE TInv'
    <2>1. UNCHANGED <<stores, job, batch, ghosts, nameOf, bare, edits>>
      BY <1>5 DEF OpenHit, OpenDecode
    <2>2. PICK f : HandleStep(h, f)
      BY <1>5, HandleSteps
    <2> QED
      BY <2>1, <2>2, HandleTypes DEF stores, ghosts
  <1>6. ASSUME NEW p \in Paths, Create(h, p) PROVE TInv'
    <2>1. overlay' \in [Paths -> Content] /\ intended' \in [Bases -> Content]
      BY <1>6, ContentFacts DEF Create
    <2> QED
      BY <1>3, <1>6, <2>1, HandleTypes, HandleSteps DEF Create
  <1>7. ASSUME OpenPut(h) PROVE TInv'
    <2>1. handle[h].path \in Paths /\ handle[h].snap \in Content
      BY <1>2, <1>7 DEF OpenPut, Ctx
    <2>2. cache' \in [Paths -> Content] /\ raced' \subseteq Bases
      BY <1>1, <1>7, <2>1, BaseFacts DEF OpenPut
    <2> QED
      BY <1>7, <2>2, HandleTypes, HandleSteps DEF OpenPut
  <1>8. ASSUME Overwrite(h) PROVE TInv'
    <2>1. handle[h].path \in Paths
      BY <1>2, <1>8 DEF Overwrite, Open
    <2>2. overlay' \in [Paths -> Content] /\ intended' \in [Bases -> Content]
      BY <1>8, ContentFacts DEF Overwrite
    <2>3. edits' \in 0..MaxEdits /\ nameOf' \in [Shipped -> Paths \cup {None}] /\ excused' \subseteq Bases
      BY <1>3, <1>4, <1>8, <2>1 DEF Overwrite
    <2> QED
      BY <1>8, <2>2, <2>3, HandleTypes, HandleSteps DEF Overwrite
  <1>9. ASSUME NEW kind \in {"write", "resize"}, Seed(h, kind) PROVE TInv'
    <2>1. handle[h].path \in Paths
      BY <1>2, <1>9 DEF Seed, Open
    <2>2. overlay' \in [Paths -> Content]
      BY <1>1, <1>9, <2>1, ContentFacts DEF Seed
    <2>3. cache' \in [Paths -> Content] /\ nameOf' \in [Shipped -> Paths \cup {None}]
      BY <1>1, <1>4, <1>9, <2>1 DEF Seed
    <2> QED
      BY <1>9, <2>2, <2>3, HandleTypes, HandleSteps DEF Seed, ghosts
  <1>10. ASSUME WriteApply(h) \/ ResizeApply(h) PROVE TInv'
    <2>1. handle[h].path \in Paths /\ edits' \in 0..MaxEdits /\ edits + 1 \in 0..MaxEdits
      BY <1>2, <1>3, <1>10, ContentFacts DEF WriteApply, ResizeApply, Counts
    <2>2. \A d \in Content : (IF d = None THEN {} ELSE d) \cup {edits + 1} \in Content
      BY <2>1, ContentFacts
    <2>3. {edits + 1} \in Content
      BY <2>1, ContentFacts DEF Bytes
    <2>4. overlay' \in [Paths -> Content]
      BY <1>10, <2>1, <2>2, <2>3 DEF WriteApply, ResizeApply
    <2>5. intended' \in [Bases -> Content]
      BY <1>10, <2>1, <2>2, <2>3 DEF WriteApply, ResizeApply
    <2> QED
      BY <1>10, <2>1, <2>4, <2>5, HandleTypes, HandleSteps DEF WriteApply, ResizeApply
  <1>11. ASSUME Mark(h) \/ Close(h) \/ CloseClaim(h) PROVE TInv'
    <2>1. PICK f : HandleStep(h, f)
      BY <1>11, HandleSteps
    <2>2. /\ UNCHANGED <<overlay, cache, disk, job, batch, ghosts, nameOf, edits>>
          /\ pending' \subseteq Paths /\ bare' \subseteq Handles
      BY <1>2, <1>11 DEF Mark, Close, CloseClaim, stores
    <2> QED
      BY <2>1, <2>2, HandleTypes DEF ghosts
  <1>12. ASSUME CleanupOverlay(h) \/ CleanupRemove(h) \/ CleanupForget(h) PROVE TInv'
    <2>1. PICK f : HandleStep(h, f)
      BY <1>12, HandleSteps
    <2>2. handle[h].path \in User /\ None \in Content
      BY <1>2, <1>12, ContentFacts DEF CleanupOverlay, CleanupRemove, CleanupForget, HandleShape
    <2>3. overlay' \in [Paths -> Content] /\ cache' \in [Paths -> Content] /\ disk' \in [Paths -> Content]
      BY <1>12, <2>2 DEF CleanupOverlay, CleanupRemove, CleanupForget
    <2>4. intended' \in [Bases -> Content] /\ pending' \subseteq Paths
      BY <1>12, <2>2 DEF CleanupOverlay, CleanupRemove, CleanupForget, ghosts
    <2>5. excused' \subseteq Bases /\ UNCHANGED <<job, batch, raced, torn, nameOf, bare, edits>>
      BY <1>12, <2>2, BaseFacts DEF CleanupOverlay, CleanupRemove, CleanupForget, ghosts
    <2> QED
      BY <2>1, <2>3, <2>4, <2>5, HandleTypes
  <1>13. ASSUME NEW q \in User, RenameUser(h, q) \/ RenameOverlay(h, q) PROVE TInv'
    <2>1. PICK f : HandleStep(h, f)
      BY <1>13, HandleSteps
    <2>2. PICK p : p = handle[h].path
      OBVIOUS
    <2>3. p \in User /\ p \in Paths /\ q \in Paths /\ None \in Content
      BY <1>13, <2>2, BaseFacts, ContentFacts DEF RenameUser, RenameOverlay, Renames
    <2>4. overlay[p] \in Content /\ (IF overlay[p] # None THEN overlay[p] ELSE disk[p]) \in Content
      BY <2>3
    <2>5. overlay' \in [Paths -> Content] /\ cache' \in [Paths -> Content] /\ disk' \in [Paths -> Content]
      BY <1>13, <2>2, <2>3, <2>4 DEF RenameUser, RenameOverlay
    <2>6. intended' \in [Bases -> Content] /\ pending' \subseteq Paths /\ excused' \subseteq Bases
      BY <1>13, <2>2, <2>3, <2>4, BaseFacts DEF RenameUser, RenameOverlay
    <2>7. edits' \in 0..MaxEdits /\ UNCHANGED <<job, batch, raced, torn, nameOf, bare>>
      BY <1>3, <1>13, BaseFacts DEF RenameUser, RenameOverlay, Named
    <2> QED
      BY <2>1, <2>5, <2>6, <2>7, HandleTypes
  <1> QED
    BY <1>5, <1>6, <1>7, <1>8, <1>9, <1>10, <1>11, <1>12, <1>13

LEMMA JobTypes ==
  ASSUME TInv, NEW w \in Threads, NEW j, JobStep(w, j), UNCHANGED client,
         overlay' \in [Paths -> Content], cache' \in [Paths -> Content], disk' \in [Paths -> Content],
         pending' \subseteq Paths, intended' \in [Bases -> Content],
         excused' \subseteq Bases, raced' \subseteq Bases, torn' \in BOOLEAN, UNCHANGED batch
  PROVE  TInv'
  <1>1. job' \in [Threads -> Task] /\ \A v \in Threads : JobShape(job'[v])
    BY DEF TInv, Types, JobStep
  <1> QED
    BY <1>1 DEF TInv, Types, client

\* What a step of flush_path_sync makes of its thread.
LEMMA JobSteps ==
  ASSUME TInv, NEW w \in Threads
  PROVE  /\ FlushBegin(w) =>
              JobStep(w, [job[w] EXCEPT !.at = IF job[w].path \in Views THEN "convert"
                                               ELSE IF job[w].path \in Shipped THEN "put" ELSE "store"])
         /\ FlushConvert(w) => JobStep(w, [job[w] EXCEPT !.at = "put"]) \/ JobStep(w, Idle)
         /\ GivesUp(w) => JobStep(w, [job[w] EXCEPT !.at = "drop"]) \/ JobStep(w, Idle)
         /\ FlushPut(w) => JobStep(w, [job[w] EXCEPT !.at = "unmap"])
         /\ FlushUnmap(w) => JobStep(w, [job[w] EXCEPT !.at = "repack"])
         /\ FlushRepack(w) \/ FlushReload(w) =>
              \/ JobStep(w, [job[w] EXCEPT !.at = "reload"])
              \/ JobStep(w, [job[w] EXCEPT !.at = "drop"])
              \/ JobStep(w, Idle)
         /\ CommitDrop(w) => JobStep(w, [job[w] EXCEPT !.at = "cache"])
         /\ CommitCache(w) \/ FlushStored(w) => JobStep(w, Idle)
         /\ FlushStore(w) => JobStep(w, [job[w] EXCEPT !.at = "stored"]) \/ JobStep(w, Idle)
  <1>1. job[w] \in Task /\ JobShape(job[w]) /\ Idle \in Task /\ JobShape(Idle)
    BY RestFacts DEF TInv, Types
  <1>2. \A p \in Paths : p \in Views \/ p \in Shipped \/ p \in User
    BY DEF Paths
  <1> USE DEF Goes, Steps, At, JobStep, Task, JobShape
  <1>3. FlushBegin(w) =>
          JobStep(w, [job[w] EXCEPT !.at = IF job[w].path \in Views THEN "convert"
                                           ELSE IF job[w].path \in Shipped THEN "put" ELSE "store"])
    BY <1>1, <1>2 DEF FlushBegin
  <1>4. FlushConvert(w) => JobStep(w, [job[w] EXCEPT !.at = "put"]) \/ JobStep(w, Idle)
    BY <1>1 DEF FlushConvert
  <1>5. FlushPut(w) => JobStep(w, [job[w] EXCEPT !.at = "unmap"])
    BY <1>1 DEF FlushPut
  <1>6. FlushRepack(w) \/ FlushReload(w) =>
          \/ JobStep(w, [job[w] EXCEPT !.at = "reload"])
          \/ JobStep(w, [job[w] EXCEPT !.at = "drop"])
          \/ JobStep(w, Idle)
    BY <1>1 DEF FlushRepack, FlushReload, AfterSource
  <1>7. CommitDrop(w) => JobStep(w, [job[w] EXCEPT !.at = "cache"])
    BY <1>1 DEF CommitDrop
  <1>8. CommitCache(w) \/ FlushStored(w) => JobStep(w, Idle)
    BY <1>1 DEF CommitCache, FlushStored
  <1>9. FlushStore(w) => JobStep(w, [job[w] EXCEPT !.at = "stored"]) \/ JobStep(w, Idle)
    BY <1>1 DEF FlushStore
  <1>10. FlushUnmap(w) => JobStep(w, [job[w] EXCEPT !.at = "repack"])
    BY <1>1 DEF FlushUnmap
  <1>11. GivesUp(w) => JobStep(w, [job[w] EXCEPT !.at = "drop"]) \/ JobStep(w, Idle)
    BY <1>1 DEF GivesUp, AfterSource
  <1> QED
    BY <1>3, <1>4, <1>5, <1>6, <1>7, <1>8, <1>9, <1>10, <1>11

Flushing(w) ==
  \/ FlushBegin(w) \/ FlushConvert(w) \/ GivesUp(w) \/ FlushPut(w) \/ FlushUnmap(w)
  \/ FlushRepack(w) \/ FlushReload(w) \/ CommitDrop(w) \/ CommitCache(w)
  \/ FlushStore(w) \/ FlushStored(w)

LEMMA FlushRuns ==
  ASSUME NEW w \in Threads, Flushing(w)
  PROVE  job[w].at # "idle" /\ Touched(w) /\ UNCHANGED <<client, batch, intended, torn>>
  BY WinAssumption DEF Flushing, FlushBegin, FlushConvert, GivesUp, FlushPut, FlushUnmap, FlushRepack,
         FlushReload, CommitDrop, CommitCache, FlushStore, FlushStored, At

LEMMA FlushTypes ==
  ASSUME TInv, NEW w \in Threads, Flushing(w)
  PROVE  TInv'
  <1>1. PICK j : JobStep(w, j)
    BY JobSteps DEF Flushing
  <1>2. job[w] \in Task /\ (job[w].at # "idle" => job[w].path \in Paths)
    BY DEF TInv, Types, JobShape
  <1>3. job[w].at # "idle" /\ Touched(w) /\ UNCHANGED <<client, batch, intended, torn>>
    BY FlushRuns
  <1>4. PICK p : p = job[w].path
    OBVIOUS
  <1>5. p \in Paths /\ Base(p) \in Bases /\ Base(p) \in Paths /\ job[w].data \in Content /\ None \in Content
    BY <1>2, <1>3, <1>4, BaseFacts, ContentFacts DEF Task
  <1>6. raced' \subseteq Bases
    BY <1>3, <1>4, <1>5 DEF Touched, Disturbs, TInv, Types
  <1>7. excused' = excused \/ Fails(w)
    BY DEF Flushing, FlushBegin, FlushConvert, GivesUp, FlushPut, FlushUnmap,
           FlushRepack, FlushReload, CommitDrop, CommitCache,
           FlushStore, FlushStored
  <1>8. excused' \subseteq Bases
    BY <1>4, <1>5, <1>7 DEF Fails, TInv, Types
  <1>9. pending' \subseteq Paths
    BY DEF Flushing, FlushBegin, FlushConvert, GivesUp, FlushPut, FlushUnmap,
           FlushRepack, FlushReload, CommitDrop, CommitCache,
           FlushStore, FlushStored, TInv, Types
  <1>10. overlay' = overlay \/ overlay' = [overlay EXCEPT ![p] = None]
    BY <1>4 DEF Flushing, FlushBegin, FlushConvert, GivesUp, FlushPut, FlushUnmap,
           FlushRepack, FlushReload, CommitDrop, CommitCache,
           FlushStore, FlushStored
  <1>11. cache' = cache \/ \E q \in Paths : cache' = [cache EXCEPT ![q] = job[w].data]
    BY <1>4, <1>5 DEF Flushing, FlushBegin, FlushConvert, GivesUp, FlushPut, FlushUnmap,
           FlushRepack, FlushReload, CommitDrop, CommitCache,
           FlushStore, FlushStored
  <1>12. disk' = disk \/ \E q \in Paths : disk' = [disk EXCEPT ![q] = job[w].data]
    BY <1>4, <1>5 DEF Flushing, FlushBegin, FlushConvert, GivesUp, FlushPut, FlushUnmap,
           FlushRepack, FlushReload, CommitDrop, CommitCache,
           FlushStore, FlushStored
  <1>13. overlay' \in [Paths -> Content] /\ cache' \in [Paths -> Content] /\ disk' \in [Paths -> Content]
    BY <1>5, <1>10, <1>11, <1>12 DEF TInv, Types
  <1>14. intended' \in [Bases -> Content] /\ torn' \in BOOLEAN
    BY <1>3 DEF TInv, Types
  <1> QED
    BY <1>1, <1>3, <1>6, <1>8, <1>9, <1>13, <1>14, JobTypes

LEMMA SpawnTypes ==
  ASSUME TInv, NEW h \in Handles, CloseSpawn(h)
  PROVE  TInv'
  <1>1. handle' = [handle EXCEPT ![h] = Closed] /\ Closed \in Ctx /\ HandleShape(Closed)
    BY RestFacts DEF CloseSpawn, Sets
  <1>2. handle[h].path \in Paths
    BY DEF CloseSpawn, TInv, HandleShape
  <1>3. PICK p : p = handle[h].path
    OBVIOUS
  <1>4. job' = job \/ \E w \in Threads : overlay[p] # None /\
          job' = [job EXCEPT ![w] = [Idle EXCEPT !.at = "begin", !.path = p, !.data = overlay[p]]]
    BY <1>3 DEF CloseSpawn
  <1>5. overlay[p] # None => overlay[p] \in Bytes
    BY <1>2, <1>3, ContentFacts DEF TInv, Types
  <1>6. overlay[p] # None =>
          LET j == [Idle EXCEPT !.at = "begin", !.path = p, !.data = overlay[p]]
          IN j \in Task /\ JobShape(j)
    BY <1>2, <1>3, <1>5 DEF Task, JobShape, Idle
  <1>7. job' \in [Threads -> Task] /\ \A w \in Threads : JobShape(job'[w])
    BY <1>4, <1>6 DEF TInv, Types
  <1>8. handle' \in [Handles -> Ctx] /\ \A g \in Handles : HandleShape(handle'[g])
    BY <1>1 DEF TInv, Types
  <1>9. torn' \in BOOLEAN
    BY DEF CloseSpawn, TInv, Types
  <1>10. UNCHANGED <<stores, batch, intended, excused, raced, nameOf, bare, edits>>
    BY DEF CloseSpawn
  <1> QED
    BY <1>7, <1>8, <1>9, <1>10 DEF TInv, Types, stores

LEMMA SaveTypes ==
  ASSUME TInv, SaveTake \/ SaveMarks \/ \E w \in Threads : SaveNext(w), WInv
  PROVE  TInv'
  <1>1. UNCHANGED <<client, ghosts, cache, disk>>
    BY DEF SaveTake, SaveMarks, SaveNext, stores
  <1>2. overlay' \in [Paths -> Content] /\ pending' \subseteq Paths
    BY RestFacts DEF SaveTake, SaveMarks, SaveNext, stores, TInv, Types
  <1>3. CASE SaveTake
    <2>1. batch' = [NoBatch EXCEPT !.at = "marks", !.snap = overlay] /\ job' = job
      BY <1>3 DEF SaveTake
    <2>2. batch' \in Taken /\ batch'.at = "marks" /\ batch'.todo = {}
      BY <2>1 DEF NoBatch, Taken, TInv, Types
    <2> QED
      BY <1>1, <1>2, <2>1, <2>2 DEF TInv, Types, client, ghosts
  <1>4. CASE SaveMarks
    <2>1. batch' = [batch EXCEPT !.at = "work", !.todo = {p \in pending : batch.snap[p] # None}] /\ job' = job
      BY <1>4 DEF SaveMarks
    <2>2. batch' \in Taken /\ batch'.at = "work"
      BY <2>1 DEF Taken, TInv, Types
    <2> QED
      BY <1>1, <1>2, <2>1, <2>2 DEF TInv, Types, client, ghosts
  <1>5. ASSUME NEW w \in Threads, SaveNext(w) PROVE TInv'
    <2>1. CASE batch.todo = {}
      <3>1. batch' = NoBatch /\ job' = job
        BY <1>5, <2>1 DEF SaveNext
      <3> QED
        BY <1>1, <1>2, <3>1, RestFacts DEF TInv, Types, client, ghosts
    <2>2. CASE batch.todo # {}
      <3>1. PICK p \in batch.todo :
              /\ batch' = [batch EXCEPT !.todo = batch.todo \ {p}]
              /\ job' = [job EXCEPT ![w] = [Idle EXCEPT !.at = "begin", !.path = p, !.data = batch.snap[p]]]
        BY <1>5, <2>2 DEF SaveNext, Steps
      <3>2. batch \in Taken /\ batch.at = "work"
        BY <1>5 DEF SaveNext, TInv, Types
      <3>3. p \in Paths /\ batch.snap[p] \in Content
        BY <3>2 DEF Taken
      <3>4. BaseOK(Base(p))
        BY <3>3, BaseFacts DEF WInv
      <3>5. batch.snap[p] # None
        BY <3>3, <3>4 DEF BaseOK, PathsOK, PathOK, Latest
      <3>6. batch.snap[p] \in Bytes
        BY <3>3, <3>5, ContentFacts
      <3>7. [Idle EXCEPT !.at = "begin", !.path = p, !.data = batch.snap[p]] \in Task
        BY <3>3, <3>6 DEF Idle, Task
      <3>8. JobShape([Idle EXCEPT !.at = "begin", !.path = p, !.data = batch.snap[p]])
        BY <3>3 DEF Idle, JobShape
      <3>9. job' \in [Threads -> Task] /\ \A v \in Threads : JobShape(job'[v])
        BY <3>1, <3>7, <3>8 DEF TInv, Types
      <3>10. batch' \in Taken /\ batch'.at = "work"
        BY <3>1, <3>2 DEF Taken
      <3> QED
        BY <1>1, <1>2, <3>9, <3>10 DEF TInv, Types, client, ghosts
    <2> QED
      BY <2>1, <2>2
  <1> QED
    BY <1>3, <1>4, <1>5

\* Nothing is under way when patient clients quit: the disk stays, but for the views.
LEMMA QuitDisk ==
  ASSUME TInv, Habits = {}, Quit
  PROVE  disk' \in [Paths -> Content] /\ \A b \in Bases : disk'[b] = disk[b]
  <1>1. disk' = [p \in Paths |-> IF p \in Views THEN None ELSE Landed(p)]
        /\ \A w \in Threads : job[w] = Idle
    BY DEF Quit
  <1>2. \A p : {w \in Threads : job[w].at = "reload" /\ Base(job[w].path) = p} = {}
    BY <1>1, RestFacts
  <1>3. \A p : Landed(p) = disk[p]
    BY <1>2 DEF Landed
  <1> QED
    BY <1>1, <1>3, BaseFacts, ContentFacts DEF TInv, Types

LEMMA QuitTypes == ASSUME TInv, Habits = {}, Quit PROVE TInv'
  <1>1. /\ overlay' = Nothing /\ cache' = Nothing /\ pending' = {}
        /\ job' = [w \in Threads |-> Idle] /\ UNCHANGED <<client, batch, raced, torn>>
        /\ disk' \in [Paths -> Content]
    BY QuitDisk DEF Quit
  <1>2. intended' \in [Bases -> Content]
    BY <1>1, BaseFacts DEF Quit, TInv, Types
  <1>3. excused' \subseteq Bases
    BY BaseFacts DEF Quit, TInv, Types
  <1>4. job' \in [Threads -> Task] /\ \A w \in Threads : JobShape(job'[w])
    BY <1>1, RestFacts
  <1> QED
    BY <1>1, <1>2, <1>3, <1>4, RestFacts DEF TInv, Types, client

LEMMA EvictTypes ==
  ASSUME TInv, NEW p \in Paths, Evict(p)
  PROVE  TInv'
  BY ContentFacts DEF Evict, TInv, Types, client, ghosts

(* A step that does not concern a base *)

\* What a step leaves alone of a base, as far as its invariant goes.
SameHandles(b) == \A h \in Handles :
  About(h, b) \/ About(h, b)' => handle'[h] = handle[h] /\ (h \in bare' <=> h \in bare)
SameJobs(b) == \A w \in Threads : Saves(w, b) \/ Saves(w, b)' => job'[w] = job[w]
SamePaths(b) == \A p \in Paths : Base(p) = b =>
  overlay'[p] = overlay[p] /\ (p \in pending' <=> p \in pending)
SameBatch(b) ==
  /\ batch'.at = batch.at /\ batch'.snap = batch.snap
  /\ \A p \in Paths : Base(p) = b => (p \in batch'.todo <=> p \in batch.todo)
SameGhosts(b) ==
  /\ intended'[b] = intended[b] /\ disk'[b] = disk[b]
  /\ b \in excused => b \in excused'
  /\ b \in raced => b \in raced'
  /\ b \in Shipped => nameOf'[b] = nameOf[b]
SameCache(b) == \A p \in Paths : Base(p) = b => cache'[p] \in {cache[p], None}
StillUnderway(b) == Underway(b) => Underway(b)'

Untouched(b) ==
  SameHandles(b) /\ SameJobs(b) /\ SamePaths(b) /\ SameBatch(b) /\ SameGhosts(b) /\ SameCache(b)

Held(b) == \E h \in Handles : About(h, b) /\ handle[h].at \in {"forget", "claimed"}
Marked(b) == \E p \in Paths : Base(p) = b /\ p \in pending \cup batch.todo

LEMMA WritingFacts ==
  ASSUME TInv, NEW b \in Bases
  PROVE  /\ Writing(b) = {h \in Handles : About(h, b) /\ handle[h].wrote}
         /\ Saving(b) <=> \E w \in Threads : Saves(w, b)
         /\ Underway(b) <=> Writing(b) # {} \/ Saving(b) \/ Marked(b) \/ Held(b)
         /\ \A p \in Paths : Forgotten(p) <=> \E h \in Handles : About(h, Base(p)) /\ handle[h].at = "forget"
                                                /\ handle[h].path = p
  <1>1. \A h \in Handles : handle[h].wrote => handle[h].at # "closed"
    BY DEF TInv, HandleShape
  <1>2. pending \cup batch.todo \subseteq Paths
    BY DEF TInv, Types, Taken
  <1>3. Writing(b) = {h \in Handles : About(h, b) /\ handle[h].wrote}
    BY <1>1 DEF Writing, About
  <1>4. Saving(b) <=> \E w \in Threads : Saves(w, b)
    BY DEF Saving, Saves
  <1>5. (\E p \in pending \cup batch.todo : Base(p) = b) <=> Marked(b)
    BY <1>2 DEF Marked
  <1>6. (\E h \in Handles : handle[h].at \in {"forget", "claimed"} /\ Base(handle[h].path) = b) <=> Held(b)
    BY DEF Held, About
  <1>7. Underway(b) <=> Writing(b) # {} \/ Saving(b) \/ Marked(b) \/ Held(b)
    BY <1>5, <1>6 DEF Underway
  <1>8. \A p \in Paths : Forgotten(p) <=> \E h \in Handles : About(h, Base(p)) /\ handle[h].at = "forget"
                                                /\ handle[h].path = p
    BY DEF Forgotten, About
  <1> QED
    BY <1>3, <1>4, <1>7, <1>8

LEMMA SameWriting ==
  ASSUME TInv, TInv', NEW b \in Bases, SameHandles(b)
  PROVE  /\ Writing(b)' = Writing(b) /\ (Held(b)' <=> Held(b))
         /\ \A p \in Paths : Base(p) = b => (Forgotten(p)' <=> Forgotten(p))
  <1>1. \A h \in Handles : handle'[h].wrote => handle'[h].at # "closed"
    BY DEF TInv, HandleShape
  <1>2. Writing(b)' = {h \in Handles : About(h, b)' /\ handle'[h].wrote}
    BY <1>1 DEF Writing, About
  <1>3. Writing(b)' = Writing(b)
    BY <1>2, WritingFacts DEF SameHandles, About
  <1>4. (Held(b)' <=> Held(b))
    BY DEF Held, SameHandles, About
  <1>5. ASSUME NEW p \in Paths, Base(p) = b
        PROVE  (Forgotten(p)' <=> Forgotten(p))
    BY <1>5 DEF Forgotten, SameHandles, About
  <1> QED
    BY <1>3, <1>4, <1>5

LEMMA SameSaving ==
  ASSUME NEW b \in Bases, SameJobs(b)
  PROVE  Saving(b)' <=> Saving(b)
  BY DEF Saving, Saves, SameJobs

LEMMA SameMarked ==
  ASSUME NEW b \in Bases, SamePaths(b), SameBatch(b)
  PROVE  Marked(b)' <=> Marked(b)
  BY DEF Marked, SamePaths, SameBatch

LEMMA UnderwayParts ==
  ASSUME TInv, TInv', NEW b \in Bases
  PROVE  /\ Underway(b) <=> Writing(b) # {} \/ Saving(b) \/ Marked(b) \/ Held(b)
         /\ Underway(b)' <=> Writing(b)' # {} \/ Saving(b)' \/ Marked(b)' \/ Held(b)'
  <1>1. pending' \cup batch'.todo \subseteq Paths
    BY DEF TInv, Types, Taken
  <1>2. (\E p \in pending' \cup batch'.todo : Base(p) = b) <=> Marked(b)'
    BY <1>1 DEF Marked
  <1>3. (\E h \in Handles : handle'[h].at \in {"forget", "claimed"} /\ Base(handle'[h].path) = b) <=> Held(b)'
    BY DEF Held, About
  <1> QED
    BY <1>2, <1>3, WritingFacts DEF Underway

LEMMA SameUnderway ==
  ASSUME TInv, TInv', NEW b \in Bases, SameHandles(b), SameJobs(b), SamePaths(b), SameBatch(b)
  PROVE  Underway(b)' <=> Underway(b)
  BY SameWriting, SameSaving, SameMarked, UnderwayParts

\* Each part of the invariant, from what it is about.
LEMMA HandlesFrame ==
  ASSUME TInv, TInv', NEW b \in Bases, HandlesOK(b),
         SameHandles(b), SamePaths(b), SameGhosts(b), StillUnderway(b),
         Saving(b)' => Saving(b), Batching' => Batching
  PROVE  HandlesOK(b)'
  <1> SUFFICES ASSUME NEW h \in Handles, About(h, b)'
               PROVE  WriterOK(h)' /\ ReaderOK(h)'
    BY DEF HandlesOK
  <1>1. handle'[h] = handle[h] /\ (h \in bare' <=> h \in bare) /\ About(h, b)
    BY DEF SameHandles, About
  <1>2. WriterOK(h) /\ ReaderOK(h)
    BY <1>1 DEF HandlesOK
  <1>3. PICK p : p = handle[h].path
    OBVIOUS
  <1>4. p \in Paths /\ Base(p) = b
    BY <1>1, <1>3 DEF About, TInv, HandleShape
  <1>5. Owned(p) => Owned(p)'
    BY <1>4 DEF Owned, SameGhosts
  <1>6. Writing(b)' = Writing(b)
    BY SameWriting
  <1>7. overlay'[p] = overlay[p] /\ (p \in pending' <=> p \in pending)
    BY <1>4 DEF SamePaths
  <1>8. WriterOK(h)'
    BY <1>1, <1>2, <1>3, <1>4, <1>5, <1>6, <1>7 DEF WriterOK, SameGhosts
  <1>9. handle[h].at = "forget" => p = b
    BY <1>3, <1>4, BaseFacts DEF TInv, HandleShape
  <1>10. ASSUME handle[h].at = "forget", NEW g \in Handles, About(g, p)'
         PROVE  g = h
    BY <1>1, <1>2, <1>3, <1>4, <1>9, <1>10 DEF ReaderOK, SameHandles, About
  <1>11. ReaderOK(h)'
    BY <1>1, <1>2, <1>3, <1>4, <1>9, <1>10 DEF ReaderOK, SameGhosts, StillUnderway
  <1> QED
    BY <1>8, <1>11

LEMMA PathsFrame ==
  ASSUME TInv, TInv', NEW b \in Bases, PathsOK(b),
         SameHandles(b), SamePaths(b), SameBatch(b), SameGhosts(b), Saving(b)' => Saving(b)
  PROVE  PathsOK(b)'
  <1> SUFFICES ASSUME NEW p \in Paths, Base(p) = b PROVE PathOK(p)'
    BY DEF PathsOK
  <1>1. PathOK(p)
    BY DEF PathsOK
  <1>2. \A d : Latest(p, d) => Latest(p, d)'
    BY DEF Latest, Owned, SameGhosts
  <1>3. Forgotten(p)' <=> Forgotten(p)
    BY SameWriting
  <1>4. overlay'[p] = overlay[p] /\ (p \in pending' <=> p \in pending)
    BY DEF SamePaths
  <1>5. batch'.at = batch.at /\ batch'.snap[p] = batch.snap[p] /\ (p \in batch'.todo <=> p \in batch.todo)
    BY DEF SameBatch
  <1>6. PICK o, s : o = overlay[p] /\ s = batch.snap[p]
    OBVIOUS
  <1>7. overlay'[p] # None => Latest(p, overlay[p])' \/ Forgotten(p)'
    BY <1>1, <1>2, <1>3, <1>4, <1>6 DEF PathOK, Latest, Owned
  <1>8. Latest(p, batch.snap[p]) => Latest(p, batch.snap[p])'
    BY <1>2, <1>5, <1>6 DEF Latest, Owned
  <1> QED
    BY <1>1, <1>4, <1>5, <1>7, <1>8 DEF PathOK

LEMMA JobsFrame ==
  ASSUME TInv, TInv', NEW b \in Bases, JobsOK(b), SameJobs(b), SameGhosts(b), SameCache(b)
  PROVE  JobsOK(b)'
  <1> SUFFICES ASSUME NEW w \in Threads, Saves(w, b)' PROVE JobOK(w)'
    BY DEF JobsOK
  <1>1. job'[w] = job[w] /\ Saves(w, b)
    BY DEF SameJobs, Saves
  <1>2. JobOK(w)
    BY <1>1 DEF JobsOK
  <1>3. Base(job[w].path) = b
    BY <1>1 DEF Saves
  <1>4. Latest(job[w].path, job[w].data) => Latest(job[w].path, job[w].data)'
    BY <1>1, <1>3 DEF Latest, Owned, SameGhosts
  <1>5. \A v \in Threads : Saves(v, b)' => Saves(v, b)
    BY DEF SameJobs, Saves
  <1>6. cache'[b] \in {cache[b], None}
    BY BaseFacts DEF SameCache
  <1> QED
    BY <1>1, <1>2, <1>3, <1>4, <1>5, <1>6 DEF JobOK, SameGhosts

LEMMA CleanFrame ==
  ASSUME TInv, TInv', NEW b \in Bases, CleanOK(b), SameGhosts(b), SameCache(b), StillUnderway(b)
  PROVE  CleanOK(b)'
  <1>1. \A p \in Paths : Base(p) = b => (Fresh(p)' => Fresh(p))
    BY BaseFacts DEF Fresh, SameGhosts, Paths, Bases
  <1> QED
    BY <1>1 DEF CleanOK, SameGhosts, SameCache, StillUnderway

LEMMA ShippedFrame ==
  ASSUME NEW b \in Bases, ShippedOK(b), SameGhosts(b)
  PROVE  ShippedOK(b)'
  BY DEF ShippedOK, SameGhosts

LEMMA BaseFrame ==
  ASSUME TInv, TInv', NEW b \in Bases, BaseOK(b), Untouched(b)
  PROVE  BaseOK(b)'
  <1>1. SameHandles(b) /\ SameJobs(b) /\ SamePaths(b) /\ SameBatch(b) /\ SameGhosts(b) /\ SameCache(b)
    BY DEF Untouched
  <1>2. StillUnderway(b) /\ (Saving(b)' => Saving(b)) /\ (Batching' => Batching)
    BY <1>1, SameUnderway, SameSaving DEF StillUnderway, SameBatch, Batching
  <1> QED
    BY <1>1, <1>2, HandlesFrame, PathsFrame, JobsFrame, CleanFrame, ShippedFrame DEF BaseOK

\* An action of a handle about p, or of the thread that saves p, leaves all other bases alone.
LEMMA HandleElsewhere ==
  ASSUME TInv, TInv', NEW h \in Handles, NEW f, NEW b \in Bases, HandleStep(h, f),
         ~About(h, b), f.at # "closed" => Base(f.path) # b,
         \A g \in Handles \ {h} : (g \in bare' <=> g \in bare)
  PROVE  SameHandles(b)
  <1>1. \A g \in Handles \ {h} : handle'[g] = handle[g]
    BY DEF HandleStep, TInv, Types
  <1>2. handle'[h] = f
    BY DEF HandleStep, TInv, Types
  <1> QED
    BY <1>1, <1>2 DEF SameHandles, About

LEMMA JobElsewhere ==
  ASSUME TInv, TInv', NEW w \in Threads, NEW j, NEW b \in Bases, JobStep(w, j),
         ~Saves(w, b), j.at # "idle" => Base(j.path) # b
  PROVE  SameJobs(b)
  <1>1. \A v \in Threads \ {w} : job'[v] = job[v]
    BY DEF JobStep, TInv, Types
  <1>2. job'[w] = j
    BY DEF JobStep, TInv, Types
  <1> QED
    BY <1>1, <1>2 DEF SameJobs, Saves

(* What the invariant says of a base *)

LEMMA Solo ==
  ASSUME NEW p \in Paths, NEW q \in Paths, Base(p) = Base(q), Owned(p), Owned(q)
  PROVE  p = q
  <1>1. CASE Base(p) \in Shipped
    BY <1>1 DEF Owned
  <1>2. CASE Base(p) \notin Shipped
    BY <1>2, BaseFacts DEF Paths
  <1> QED
    BY <1>1, <1>2

NoForget(b) == \A h \in Handles : ~(About(h, b) /\ handle[h].at = "forget")

LEMMA OpenNoForget ==
  ASSUME TInv, NEW b \in Bases, HandlesOK(b), NEW h \in Handles, About(h, b), handle[h].at # "forget"
  PROVE  NoForget(b)
  <1> SUFFICES ASSUME NEW g \in Handles, About(g, b), handle[g].at = "forget" PROVE FALSE
    BY DEF NoForget
  <1>1. handle[g].path \in User
    BY DEF TInv, HandleShape
  <1>2. handle[g].path = b
    BY <1>1, BaseFacts DEF About
  <1>3. ReaderOK(g)
    BY DEF HandlesOK
  <1> QED
    BY <1>2, <1>3 DEF ReaderOK

LEMMA NoForgotten ==
  ASSUME NEW b \in Bases, NoForget(b), NEW p \in Paths, Base(p) = b
  PROVE  ~Forgotten(p)
  BY DEF NoForget, Forgotten, About

\* A base nobody saves, which clients write by no other name than p, has no other
\* name in the overlay.
LEMMA OneName ==
  ASSUME TInv, NEW b \in Bases, PathsOK(b), NoForget(b), ~Batching, NEW p \in Paths, Base(p) = b,
         b \in Shipped => nameOf[b] \in {None, p}
  PROVE  /\ \A q \in Paths : Base(q) = b /\ q # p => overlay[q] = None /\ q \notin pending
         /\ overlay[p] # None => Latest(p, overlay[p])
         /\ p \in pending => overlay[p] # None
         /\ batch = NoBatch
  <1>1. batch = NoBatch /\ batch.at = "idle"
    BY RestFacts DEF Batching, TInv
  <1>2. \A q \in Paths : Base(q) = b =>
          /\ overlay[q] # None => Latest(q, overlay[q])
          /\ q \in pending => overlay[q] # None
    BY <1>1, NoForgotten DEF PathsOK, PathOK
  <1>3. ASSUME NEW q \in Paths, Base(q) = b, overlay[q] # None
        PROVE  q = p
    <2>1. Owned(q)
      BY <1>2, <1>3 DEF Latest
    <2>2. CASE b \in Shipped
      BY <1>3, <2>1, <2>2, BaseFacts DEF Owned
    <2>3. CASE b \notin Shipped
      BY <1>3, <2>3, BaseFacts DEF Paths
    <2> QED
      BY <2>2, <2>3
  <1> QED
    BY <1>1, <1>2, <1>3

\* A file that exists was not left without content.
LEMMA ExistsMeans ==
  ASSUME TInv, NEW b \in Bases, BaseOK(b), NoForget(b), b \notin excused,
         disk[b] # None \/ overlay[b] # None
  PROVE  intended[b] # None
  <1>1. b \in Paths /\ Base(b) = b
    BY BaseFacts
  <1>2. PathsOK(b) /\ HandlesOK(b) /\ JobsOK(b) /\ CleanOK(b)
    BY DEF BaseOK
  <1>3. \A p \in Paths : \A d : Base(p) = b /\ Latest(p, d) => intended[b] # None
    BY DEF Latest
  <1>4. CASE overlay[b] # None
    BY <1>1, <1>2, <1>3, <1>4, NoForgotten DEF PathsOK, PathOK, Latest
  <1>5. CASE Saving(b)
    <2>1. PICK w \in Threads : Saves(w, b)
      BY <1>5, WritingFacts
    <2>2. JobOK(w) /\ job[w].path \in Paths /\ Base(job[w].path) = b
      BY <1>2, <2>1 DEF JobsOK, Saves, TInv, JobShape
    <2> QED
      BY <2>2 DEF JobOK, Latest
  <1>6. CASE Marked(b)
    <2>1. PICK p \in Paths : Base(p) = b /\ p \in pending \cup batch.todo
      BY <1>6 DEF Marked
    <2>2. PathOK(p) /\ ~Forgotten(p) /\ batch.at \in {"idle", "marks", "work"}
      BY <1>2, <2>1, NoForgotten DEF PathsOK, TInv, Types, Taken
    <2>3. Latest(p, overlay[p]) \/ Latest(p, batch.snap[p])
      BY <2>1, <2>2 DEF PathOK
    <2> QED
      BY <2>1, <2>3 DEF Latest
  <1>7. ASSUME disk[b] # None, NEW h \in Handles, About(h, b), handle[h].wrote \/ handle[h].at = "claimed"
        PROVE  intended[b] # None
    <2>1. WriterOK(h) /\ ReaderOK(h) /\ handle[h] \in Ctx /\ HandleShape(handle[h])
      BY <1>2, <1>7 DEF HandlesOK, TInv, Types
    <2> QED
      BY <1>7, <2>1 DEF WriterOK, ReaderOK, HandleShape, Ctx, About, NoForget
  <1>8. CASE ~Underway(b)
    BY <1>2, <1>4, <1>8 DEF CleanOK
  <1> QED
    BY <1>4, <1>5, <1>6, <1>7, <1>8, WritingFacts DEF Held, NoForget

\* What a decode returns while no one changes the base.
LEMMA DecodeIsFresh ==
  ASSUME TInv, NEW b \in Bases, CleanOK(b), b \notin excused, b \notin raced, ~Underway(b),
         intended[b] # None, NEW p \in Paths, Base(p) = b, cache[p] = None \/ Fresh(p), ~OutOfReach(p)
  PROVE  Decoded(p) = intended[b]
  BY BaseFacts DEF CleanOK, Decoded, Fresh

(* Opening and closing *)

\* Opening, and closing what was only read.
LEMMA OpenKeeps ==
  ASSUME TInv, TInv', NEW h \in Handles, NEW p \in Paths, OpenHit(h, p) \/ OpenDecode(h, p),
         \A b \in Bases : BaseOK(b)
  PROVE  \A b \in Bases : BaseOK(b)'
  <1>1. \E f : HandleStep(h, f) /\ f.at \in {"open", "put"} /\ f.path = p /\ ~f.wrote
                 /\ (f.at = "put" => OpenDecode(h, p) /\ f.snap = Decoded(p) /\ f.snap # None)
    <2>1. CASE OpenHit(h, p)
      <3> DEFINE f == [at |-> "open", path |-> p, wrote |-> FALSE, snap |-> cache[p]]
      <3>1. HandleStep(h, f)
        BY <2>1, HandleSteps
      <3>2. f.at = "open" /\ f.path = p /\ ~f.wrote
        OBVIOUS
      <3> HIDE DEF f
      <3> QED
        BY <3>1, <3>2
    <2>2. CASE OpenDecode(h, p)
      <3> DEFINE f == [at |-> "put", path |-> p, wrote |-> FALSE, snap |-> Decoded(p)]
      <3>1. HandleStep(h, f)
        BY <2>2, HandleSteps
      <3>2. f.at = "put" /\ f.path = p /\ ~f.wrote /\ f.snap = Decoded(p)
        OBVIOUS
      <3>3. Decoded(p) # None
        BY <2>2 DEF OpenDecode
      <3> HIDE DEF f
      <3> QED
        BY <2>2, <3>1, <3>2, <3>3
    <2> QED
      BY <2>1, <2>2
  <1>2. PICK f : HandleStep(h, f) /\ f.at \in {"open", "put"} /\ f.path = p /\ ~f.wrote
                 /\ (f.at = "put" => OpenDecode(h, p) /\ f.snap = Decoded(p) /\ f.snap # None)
    BY <1>1
  <1>3. handle[h].at = "closed" /\ handle'[h] = f /\ \A g \in Handles \ {h} : handle'[g] = handle[g]
    BY <1>2 DEF HandleStep, TInv, Types, OpenHit, OpenDecode
  <1>4. UNCHANGED <<stores, job, batch, ghosts, nameOf, bare, edits>> /\ NamesShared /\ Exists(p)
    BY DEF OpenHit, OpenDecode
  <1>5. \A b \in Bases : NoForget(b)
    BY <1>4 DEF NamesShared, NoForget
  <1>6. \A b \in Bases : SameJobs(b) /\ SamePaths(b) /\ SameBatch(b) /\ SameGhosts(b) /\ SameCache(b)
    BY <1>4 DEF stores, ghosts, SameJobs, SamePaths, SameBatch, SameGhosts, SameCache
  <1>7. \A b \in Bases : (Saving(b)' <=> Saving(b)) /\ (Batching' <=> Batching)
    BY <1>4 DEF Saving, Batching
  <1>8. \A b \in Bases : Writing(b)' = Writing(b)
    BY <1>2, <1>3 DEF Writing, TInv, HandleShape
  <1>9. \A b \in Bases : Underway(b)' <=> Underway(b)
    BY <1>2, <1>3, <1>4, <1>7, <1>8 DEF Underway, stores
  <1>10. ASSUME NEW b \in Bases PROVE BaseOK(b)'
    <2>0. BaseOK(b) /\ HandlesOK(b) /\ PathsOK(b) /\ JobsOK(b) /\ CleanOK(b) /\ ShippedOK(b)
      BY DEF BaseOK
    <2>1. JobsOK(b)' /\ CleanOK(b)' /\ ShippedOK(b)'
      BY <1>6, <1>9, <2>0, JobsFrame, CleanFrame, ShippedFrame DEF StillUnderway
    <2>2. CASE Base(p) # b
      <3>1. SameHandles(b)
        BY <1>2, <1>3, <1>4, <2>2 DEF SameHandles, About
      <3> QED
        BY <1>6, <2>0, <3>1, BaseFrame DEF Untouched
    <2>3. CASE Base(p) = b
      <3>1. PathsOK(b)'
        <4>1. \A q \in Paths : Forgotten(q)' <=> Forgotten(q)
          BY <1>2, <1>3 DEF Forgotten
        <4> QED
          BY <1>4, <1>7, <2>0, <4>1 DEF PathsOK, PathOK, Latest, Owned, stores, ghosts
      <3>2. b \notin excused => intended[b] # None
        <4>1. CASE b \in Shipped
          BY <2>0, <4>1 DEF ShippedOK
        <4>2. CASE b \notin Shipped
          <5>1. b \in User /\ p = b
            BY <2>3, <4>2, BaseFacts DEF Bases, Paths
          <5>2. disk[b] # None \/ overlay[b] # None
            BY <1>4, <5>1 DEF Exists
          <5> QED
            BY <1>5, <2>0, <5>2, ExistsMeans
        <4> QED
          BY <4>1, <4>2
      <3>3. ASSUME NEW g \in Handles, About(g, b)' PROVE WriterOK(g)' /\ ReaderOK(g)'
        <4>1. CASE g = h
          <5>1. f.at = "put" /\ b \notin excused /\ b \notin raced /\ ~Underway(b) => f.snap = intended[b]
            <6>1. f.at = "put" => cache[p] = None /\ f.snap = Decoded(p) /\ ~OutOfReach(p)
              BY <1>2 DEF OpenDecode, Decoded
            <6> QED
              BY <2>0, <2>3, <3>2, <6>1, DecodeIsFresh
          <5>2. WriterOK(g)'
            BY <1>2, <1>3, <4>1 DEF WriterOK
          <5>3. ReaderOK(g)'
            BY <1>2, <1>3, <1>4, <1>9, <2>3, <3>2, <4>1, <5>1 DEF ReaderOK, ghosts
          <5> QED
            BY <5>2, <5>3
        <4>2. CASE g # h
          <5>1. handle'[g] = handle[g] /\ About(g, b) /\ handle[g].at # "forget"
            BY <1>3, <1>4, <3>3, <4>2 DEF About, NamesShared
          <5>2. WriterOK(g) /\ ReaderOK(g) /\ Base(handle[g].path) = b
            BY <2>0, <5>1 DEF HandlesOK, About
          <5>3. WriterOK(g)'
            BY <1>4, <1>7, <1>8, <5>1, <5>2 DEF WriterOK, Owned, stores, ghosts
          <5>4. ReaderOK(g)'
            BY <1>4, <1>9, <5>1, <5>2 DEF ReaderOK, ghosts
          <5> QED
            BY <5>3, <5>4
        <4> QED
          BY <4>1, <4>2
      <3>4. HandlesOK(b)'
        BY <3>3 DEF HandlesOK
      <3> QED
        BY <2>1, <3>1, <3>4 DEF BaseOK
    <2> QED
      BY <2>2, <2>3
  <1> QED
    BY <1>10

LEMMA PutKeeps ==
  ASSUME TInv, TInv', NEW h \in Handles, OpenPut(h), \A b \in Bases : BaseOK(b)
  PROVE  \A b \in Bases : BaseOK(b)'
  <1>1. PICK p : p = handle[h].path
    OBVIOUS
  <1>2. PICK d : d = handle[h].snap
    OBVIOUS
  <1>3. /\ handle[h].at = "put" /\ p \in Paths /\ Base(p) \in Bases
        /\ handle'[h] = [handle[h] EXCEPT !.at = "open"]
        /\ \A g \in Handles \ {h} : handle'[g] = handle[g]
    BY <1>1, BaseFacts DEF OpenPut, Sets, TInv, Types, HandleShape
  <1>4. /\ handle'[h].at = "open" /\ handle'[h].path = p /\ handle'[h].wrote = handle[h].wrote
        /\ handle'[h].snap = d /\ ~handle[h].wrote
    BY <1>1, <1>2, <1>3 DEF TInv, Types, Ctx, HandleShape
  <1>5. /\ UNCHANGED <<overlay, pending, disk, job, batch, intended, excused, torn, nameOf, bare, edits>>
        /\ cache' = CacheWith(p, d)
        /\ raced' = IF Saving(Base(p)) THEN raced \cup {Base(p)} ELSE raced
    BY <1>1, <1>2 DEF OpenPut
  <1>6. \A b \in Bases : (Saving(b)' <=> Saving(b)) /\ (Batching' <=> Batching)
    BY <1>5 DEF Saving, Batching
  <1>7. \A b \in Bases : Writing(b)' = Writing(b)
    BY <1>3, <1>4 DEF Writing
  <1>8. \A q \in Paths : Forgotten(q)' <=> Forgotten(q)
    BY <1>3, <1>4 DEF Forgotten
  <1>9. \A b \in Bases : Underway(b)' <=> Underway(b)
    BY <1>3, <1>4, <1>5, <1>6, <1>7 DEF Underway
  <1>10. \A b \in Bases : SameJobs(b) /\ SamePaths(b) /\ SameBatch(b) /\ SameGhosts(b)
    BY <1>5 DEF SameJobs, SamePaths, SameBatch, SameGhosts
  <1>11. \A b \in Bases : Base(p) # b => SameCache(b)
    BY <1>3, <1>5, BaseFacts DEF SameCache, CacheWith
  <1>12. ASSUME NEW b \in Bases PROVE BaseOK(b)'
    <2>0. BaseOK(b) /\ HandlesOK(b) /\ PathsOK(b) /\ JobsOK(b) /\ CleanOK(b) /\ ShippedOK(b)
      BY DEF BaseOK
    <2>1. CASE Base(p) # b
      <3>1. SameHandles(b)
        BY <1>1, <1>3, <1>4, <1>5, <2>1 DEF SameHandles, About
      <3> QED
        BY <1>10, <1>11, <2>0, <2>1, <3>1, BaseFrame DEF Untouched
    <2>2. CASE Base(p) = b
      <3>1. PathsOK(b)'
        BY <1>5, <1>6, <1>8, <2>0 DEF PathsOK, PathOK, Latest, Owned
      <3>2. About(h, b) /\ WriterOK(h) /\ ReaderOK(h) /\ Base(handle[h].path) = b
        BY <1>1, <1>3, <2>0, <2>2 DEF About, HandlesOK
      <3>3. JobsOK(b)'
        <4> SUFFICES ASSUME NEW w \in Threads, Saves(w, b)' PROVE JobOK(w)'
          BY DEF JobsOK
        <4>1. Saves(w, b) /\ JobOK(w)
          BY <1>5, <2>0 DEF Saves, JobsOK
        <4>2. b \in raced'
          BY <1>5, <2>2, <4>1, WritingFacts
        <4>3. Base(job[w].path) = b
          BY <4>1 DEF Saves
        <4> QED
          BY <1>5, <4>1, <4>2, <4>3 DEF JobOK, Saves, Latest, Owned
      <3>4. CleanOK(b)'
        <4> SUFFICES ASSUME b \notin excused, ~Underway(b)
                     PROVE  /\ disk[b] = intended[b]
                            /\ b \notin raced' /\ intended[b] # None =>
                                 \A q \in Paths : Base(q) = b /\ Fresh(q) => cache'[q] \in {None, intended[b]}
          BY <1>5, <1>9 DEF CleanOK, Fresh
        <4>1. b \notin raced' => b \notin raced
          BY <1>5
        <4>2. b \notin raced => d = intended[b]
          BY <1>2, <1>3, <3>2 DEF ReaderOK
        <4>3. \A q \in Paths : cache'[q] = d \/ cache'[q] = cache[q]
          BY <1>5 DEF CacheWith
        <4> QED
          BY <2>0, <4>1, <4>2, <4>3 DEF CleanOK
      <3>5. ASSUME NEW g \in Handles, About(g, b)' PROVE WriterOK(g)' /\ ReaderOK(g)'
        <4>1. CASE g = h
          BY <1>1, <1>3, <1>4, <1>5, <3>2, <4>1 DEF WriterOK, ReaderOK
        <4>2. CASE g # h
          <5>1. handle'[g] = handle[g] /\ About(g, b)
            BY <1>3, <3>5, <4>2 DEF About
          <5>2. WriterOK(g) /\ ReaderOK(g) /\ Base(handle[g].path) = b
            BY <2>0, <5>1 DEF HandlesOK, About
          <5>3. WriterOK(g)'
            BY <1>5, <1>6, <1>7, <5>1, <5>2 DEF WriterOK, Owned
          <5>4. handle[g].at # "forget"
            <6>1. NoForget(b)
              BY <1>3, <2>0, <3>2, OpenNoForget
            <6> QED
              BY <5>1, <6>1 DEF NoForget
          <5>5. b \notin raced' => b \notin raced
            BY <1>5
          <5>6. ReaderOK(g)'
            BY <1>5, <1>9, <5>1, <5>2, <5>4, <5>5 DEF ReaderOK
          <5> QED
            BY <5>3, <5>6
        <4> QED
          BY <4>1, <4>2
      <3>6. HandlesOK(b)'
        BY <3>5 DEF HandlesOK
      <3>7. ShippedOK(b)'
        BY <1>5, <2>0 DEF ShippedOK
      <3> QED
        BY <3>1, <3>3, <3>4, <3>6, <3>7 DEF BaseOK
    <2> QED
      BY <2>1, <2>2
  <1> QED
    BY <1>12

LEMMA EvictKeeps ==
  ASSUME TInv, TInv', NEW q \in Paths, Evict(q), \A b \in Bases : BaseOK(b)
  PROVE  \A b \in Bases : BaseOK(b)'
  <1>1. \A b \in Bases : Untouched(b)
    BY DEF Evict, Untouched, SameHandles, SameJobs, SamePaths, SameBatch, SameGhosts, SameCache,
           client, ghosts, TInv, Types
  <1> QED
    BY <1>1, BaseFrame

LEMMA CloseKeeps ==
  ASSUME TInv, TInv', NEW h \in Handles, Close(h), \A b \in Bases : BaseOK(b)
  PROVE  \A b \in Bases : BaseOK(b)'
  <1>1. /\ handle[h].at \in {"open", "cleaned"} /\ ~handle[h].wrote /\ handle'[h] = Closed
        /\ \A g \in Handles \ {h} : handle'[g] = handle[g]
    BY DEF Close, Sets, TInv, Types
  <1>2. Closed.at = "closed" /\ ~Closed.wrote
    BY RestFacts
  <1>3. UNCHANGED <<stores, job, batch, ghosts, nameOf, bare, edits>>
    BY DEF Close
  <1>4. \A b \in Bases : Writing(b)' = Writing(b)
    BY <1>1, <1>2 DEF Writing
  <1>5. \A q \in Paths : Forgotten(q)' <=> Forgotten(q)
    BY <1>1, <1>2 DEF Forgotten
  <1>6. \A b \in Bases : (Saving(b)' <=> Saving(b)) /\ (Batching' <=> Batching)
    BY <1>3 DEF Saving, Batching
  <1>7. \A b \in Bases : Underway(b)' <=> Underway(b)
    BY <1>1, <1>2, <1>3, <1>4, <1>6 DEF Underway, stores
  <1>8. ASSUME NEW b \in Bases PROVE BaseOK(b)'
    <2>0. BaseOK(b) /\ HandlesOK(b) /\ PathsOK(b) /\ JobsOK(b) /\ CleanOK(b) /\ ShippedOK(b)
      BY DEF BaseOK
    <2>1. SameJobs(b) /\ SameGhosts(b) /\ SameCache(b)
      BY <1>3 DEF SameJobs, SameGhosts, SameCache, stores, ghosts
    <2>2. JobsOK(b)' /\ CleanOK(b)' /\ ShippedOK(b)'
      BY <1>7, <2>0, <2>1, JobsFrame, CleanFrame, ShippedFrame DEF StillUnderway
    <2>3. PathsOK(b)'
      BY <1>3, <1>5, <1>6, <2>0 DEF PathsOK, PathOK, Latest, Owned, stores, ghosts
    <2>4. ASSUME NEW g \in Handles, About(g, b)' PROVE WriterOK(g)' /\ ReaderOK(g)'
      <3>1. g # h /\ handle'[g] = handle[g] /\ About(g, b)
        BY <1>1, <1>2, <2>4 DEF About
      <3>2. WriterOK(g) /\ ReaderOK(g) /\ Base(handle[g].path) = b
        BY <2>0, <3>1 DEF HandlesOK, About
      <3>3. WriterOK(g)'
        BY <1>3, <1>4, <1>6, <3>1, <3>2 DEF WriterOK, Owned, stores, ghosts
      <3>4. handle[g].at = "forget" => Base(handle[g].path) = handle[g].path
        BY BaseFacts DEF TInv, HandleShape
      <3>5. \A k \in Handles : About(k, handle[g].path)' => About(k, handle[g].path)
        BY <1>1, <1>2, <3>1 DEF About
      <3>6. ReaderOK(g)'
        BY <1>3, <1>6, <1>7, <3>1, <3>2, <3>4, <3>5 DEF ReaderOK, stores, ghosts
      <3> QED
        BY <3>3, <3>6
    <2> QED
      BY <2>2, <2>3, <2>4 DEF BaseOK, HandlesOK
  <1> QED
    BY <1>8

(* Writing *)

\* A handle that has written keeps its base to itself ...
Sole(h, p, b) ==
  /\ About(h, b) /\ handle[h].path = p /\ handle[h].wrote /\ handle[h].at \notin {"cleaned", "forget"}
  /\ ~Saving(b) /\ batch = NoBatch /\ Writing(b) = {h}
  /\ Owned(p) /\ Latest(p, overlay[p])
  /\ \A q \in Paths : Base(q) = b /\ q # p => overlay[q] = None /\ q \notin pending
  /\ b \notin excused => intended[b] # None
  /\ handle[h].at = "open" => p \in pending \/ h \in bare
  /\ handle[h].at = "claimed" => p \notin pending
  /\ \A g \in Handles : About(g, b) => handle[g].at # "forget" /\ (handle[g].at = "put" => handle[g].snap # None)
  /\ ShippedOK(b)

LEMMA WriterIsSole ==
  ASSUME TInv, NEW b \in Bases, BaseOK(b), NEW h \in Handles, handle[h].wrote,
         handle[h].at \notin {"cleaned", "forget"}, NEW p \in Paths, handle[h].path = p, Base(p) = b
  PROVE  Sole(h, p, b)
  <1>1. About(h, b) /\ handle[h].at \in {"open", "write", "resize", "mark", "claimed"}
    BY DEF About, TInv, HandleShape, Types, Ctx
  <1>2. WriterOK(h) /\ ReaderOK(h) /\ HandlesOK(b) /\ PathsOK(b) /\ ShippedOK(b)
    BY <1>1 DEF BaseOK, HandlesOK
  <1>3. ~Saving(b) /\ ~Batching /\ Writing(b) = {h} /\ Owned(p) /\ overlay[p] # None
    BY <1>1, <1>2 DEF WriterOK
  <1>4. NoForget(b)
    BY <1>1, <1>2, OpenNoForget
  <1>5. b \in Shipped => nameOf[b] = p
    BY <1>3 DEF Owned
  <1>6. /\ \A q \in Paths : Base(q) = b /\ q # p => overlay[q] = None /\ q \notin pending
        /\ Latest(p, overlay[p]) /\ batch = NoBatch
    BY <1>2, <1>3, <1>4, <1>5, OneName
  <1>7. \A g \in Handles : About(g, b) => handle[g].at # "forget" /\ (handle[g].at = "put" => handle[g].snap # None)
    BY <1>2, <1>4 DEF NoForget, HandlesOK, ReaderOK
  <1>8. b \notin excused => intended[b] # None
    BY <1>1, <1>2 DEF ReaderOK
  <1>9. /\ handle[h].at = "open" => p \in pending \/ h \in bare
        /\ handle[h].at = "claimed" => p \notin pending
    BY <1>2 DEF WriterOK
  <1> QED
    BY <1>1, <1>2, <1>3, <1>6, <1>7, <1>8, <1>9 DEF Sole

\* ... and that is all its base needs.
LEMMA SoleIsOK ==
  ASSUME TInv, NEW b \in Bases, NEW h \in Handles, NEW p \in Paths, Base(p) = b, Sole(h, p, b)
  PROVE  BaseOK(b)
  <1> USE DEF Sole
  <1>1. ~Batching /\ batch.at = "idle" /\ batch.todo = {}
    BY RestFacts DEF Batching
  <1>2. Underway(b)
    BY DEF Underway
  <1>3. ASSUME NEW g \in Handles, About(g, b) PROVE WriterOK(g) /\ ReaderOK(g)
    <2>1. handle[g].wrote => g = h
      BY <1>3 DEF Writing, About
    <2>2. WriterOK(g)
      BY <1>1, <2>1 DEF WriterOK, Latest
    <2>3. Base(handle[g].path) = b
      BY <1>3 DEF About
    <2>4. ReaderOK(g)
      BY <1>2, <1>3, <2>3 DEF ReaderOK
    <2> QED
      BY <2>2, <2>4
  <1>4. PathsOK(b)
    <2> SUFFICES ASSUME NEW q \in Paths, Base(q) = b PROVE PathOK(q)
      BY DEF PathsOK
    <2> QED
      BY <1>1 DEF PathOK, Latest
  <1>5. JobsOK(b)
    BY WritingFacts DEF JobsOK
  <1> QED
    BY <1>2, <1>3, <1>4, <1>5 DEF BaseOK, HandlesOK, CleanOK

SoleRule == TInv => \A b \in Bases, h \in Handles, p \in Paths :
                      Base(p) = b /\ Sole(h, p, b) => BaseOK(b)

LEMMA SoleNext == SoleRule'
  <1>1. SoleRule
    BY SoleIsOK DEF SoleRule
  <1> QED
    BY <1>1, PTL

LEMMA SoleThen ==
  ASSUME TInv', NEW b \in Bases, NEW h \in Handles, NEW p \in Paths, Base(p) = b, Sole(h, p, b)'
  PROVE  BaseOK(b)'
  BY SoleNext DEF SoleRule

LEMMA Elsewhere ==
  ASSUME TInv, TInv', NEW h \in Handles, NEW f, HandleStep(h, f), NEW p \in Paths,
         handle[h].at = "closed" \/ handle[h].path = p, f.at = "closed" \/ f.path = p,
         \A g \in Handles \ {h} : (g \in bare' <=> g \in bare), job' = job, batch' = batch,
         NEW b \in Bases, Base(p) # b, SamePaths(b), SameGhosts(b), SameCache(b), BaseOK(b)
  PROVE  BaseOK(b)'
  <1>1. SameHandles(b)
    BY HandleElsewhere DEF About
  <1>2. SameJobs(b) /\ SameBatch(b)
    BY DEF SameJobs, SameBatch
  <1> QED
    BY <1>1, <1>2, BaseFrame DEF Untouched

LEMMA MayFacts ==
  ASSUME Habits = {}, NEW h \in Handles, NEW p \in Paths, May(h, p)
  PROVE  /\ Base(p) \notin raced /\ Writing(Base(p)) \subseteq {h} /\ ~Saving(Base(p)) /\ ~Batching
         /\ Base(p) \in Shipped => nameOf[Base(p)] \in {None, p}
  BY DEF May, Awaited, Saving

\* Handles of a base after a step of h: it is the one that has written, the others
\* stay as they were.
LEMMA SoleHandles ==
  ASSUME TInv, TInv', NEW b \in Bases, HandlesOK(b), NEW h \in Handles, NEW f, HandleStep(h, f),
         Writing(b) \subseteq {h}, NoForget(b), About(h, b), f.wrote, f.at \notin {"cleaned", "forget"},
         f.path = handle[h].path, f.at # "put"
  PROVE  /\ handle'[h] = f /\ About(h, b)' /\ Writing(b)' = {h}
         /\ \A g \in Handles : About(g, b)' =>
              handle'[g].at # "forget" /\ (handle'[g].at = "put" => handle'[g].snap # None)
  <1>1. handle'[h] = f /\ \A g \in Handles \ {h} : handle'[g] = handle[g]
    BY DEF HandleStep, TInv, Types
  <1>2. f.at # "closed" /\ Base(f.path) = b
    BY DEF HandleStep, HandleShape, About
  <1>3. About(h, b)'
    BY <1>1, <1>2 DEF About
  <1>4. \A g \in Handles : handle'[g].wrote /\ Base(handle'[g].path) = b <=> g = h
    BY <1>1, <1>2 DEF Writing
  <1>5. Writing(b)' = {h}
    BY <1>4 DEF Writing
  <1>6. ASSUME NEW g \in Handles, About(g, b)', g # h
        PROVE  handle'[g].at # "forget" /\ (handle'[g].at = "put" => handle'[g].snap # None)
    <2>1. About(g, b) /\ handle'[g] = handle[g]
      BY <1>1, <1>6 DEF About
    <2> QED
      BY <2>1 DEF HandlesOK, ReaderOK, NoForget
  <1> QED
    BY <1>1, <1>3, <1>5, <1>6

LEMMA OverwriteKeeps ==
  ASSUME TInv, TInv', Habits = {}, NEW h \in Handles, Overwrite(h), \A b \in Bases : BaseOK(b)
  PROVE  \A b \in Bases : BaseOK(b)'
  <1>1. PICK p : p = handle[h].path
    OBVIOUS
  <1>2. PICK f : f = [handle[h] EXCEPT !.wrote = TRUE, !.at = "mark"]
    OBVIOUS
  <1>3. HandleStep(h, f) /\ handle[h].at = "open" /\ p \in Paths /\ Base(p) \in Bases
    BY <1>1, <1>2, HandleSteps, BaseFacts DEF Overwrite, Open, TInv, HandleShape
  <1>4. f.at = "mark" /\ f.wrote /\ f.path = p
    BY <1>1, <1>2 DEF TInv, Types, Ctx
  <1>5. /\ overlay' = [overlay EXCEPT ![p] = {}] /\ intended' = [intended EXCEPT ![Base(p)] = {}]
        /\ excused' = excused \ {Base(p)} /\ nameOf' = Named(p) /\ May(h, p)
        /\ UNCHANGED <<pending, cache, disk, job, batch, raced, torn, bare>>
    BY <1>1 DEF Overwrite
  <1>6. /\ Base(p) \notin raced /\ Writing(Base(p)) \subseteq {h} /\ ~Saving(Base(p)) /\ ~Batching
        /\ Base(p) \in Shipped => nameOf[Base(p)] \in {None, p}
    BY <1>3, <1>5, MayFacts
  <1>7. ASSUME NEW b \in Bases, Base(p) # b PROVE BaseOK(b)'
    <2>1. SamePaths(b) /\ SameCache(b)
      BY <1>5, <1>7 DEF SamePaths, SameCache, TInv, Types
    <2>2. SameGhosts(b)
      BY <1>5, <1>7 DEF SameGhosts, Named, TInv, Types
    <2> QED
      BY <1>1, <1>3, <1>4, <1>5, <1>7, <2>1, <2>2, Elsewhere
  <1>8. ASSUME NEW b \in Bases, Base(p) = b PROVE BaseOK(b)'
    <2>1. HandlesOK(b) /\ PathsOK(b) /\ ShippedOK(b) /\ About(h, b)
      BY <1>1, <1>3, <1>8 DEF BaseOK, About
    <2>2. NoForget(b)
      BY <1>3, <2>1, OpenNoForget
    <2>3. /\ handle'[h] = f /\ About(h, b)' /\ Writing(b)' = {h}
          /\ \A g \in Handles : About(g, b)' =>
               handle'[g].at # "forget" /\ (handle'[g].at = "put" => handle'[g].snap # None)
      BY <1>1, <1>3, <1>4, <1>6, <1>8, <2>1, <2>2, SoleHandles
    <2>4. /\ \A q \in Paths : Base(q) = b /\ q # p => overlay[q] = None /\ q \notin pending
          /\ batch = NoBatch
      BY <1>3, <1>6, <1>8, <2>1, <2>2, OneName
    <2>5. ~Saving(b)'
      BY <1>5, <1>6, <1>8 DEF Saving
    <2>6. {} # None
      BY ContentFacts
    <2>7. overlay'[p] = {} /\ intended'[b] = {} /\ \A q \in Paths : q # p => overlay'[q] = overlay[q]
      BY <1>3, <1>5, <1>8 DEF TInv, Types
    <2>8. Owned(p)'
      BY <1>5, <1>8 DEF Owned, Named, TInv, Types
    <2>9. Latest(p, overlay[p])'
      BY <1>8, <2>6, <2>7, <2>8 DEF Latest
    <2>10. ShippedOK(b)'
      BY <1>5, <2>1, <2>6, <2>7 DEF ShippedOK
    <2>11. Sole(h, p, b)'
      BY <1>4, <1>5, <2>3, <2>4, <2>5, <2>6, <2>7, <2>8, <2>9, <2>10 DEF Sole
    <2> QED
      BY <1>3, <1>8, <2>11, SoleThen
  <1> QED
    BY <1>7, <1>8

LEMMA SeedKeeps ==
  ASSUME TInv, TInv', Habits = {}, NEW h \in Handles, NEW kind \in {"write", "resize"}, Seed(h, kind),
         \A b \in Bases : BaseOK(b)
  PROVE  \A b \in Bases : BaseOK(b)'
  <1>1. PICK p : p = handle[h].path
    OBVIOUS
  <1>2. PICK f : f = [handle[h] EXCEPT !.wrote = TRUE, !.at = kind]
    OBVIOUS
  <1>3. HandleStep(h, f) /\ handle[h].at = "open" /\ p \in Paths /\ Base(p) \in Bases
    BY <1>1, <1>2, HandleSteps, BaseFacts DEF Seed, Open, TInv, HandleShape
  <1>4. f.at = kind /\ f.wrote /\ f.path = p
    BY <1>1, <1>2 DEF TInv, Types, Ctx
  <1>5. PICK seed : seed = IF Decoded(p) = None THEN {} ELSE Decoded(p)
    OBVIOUS
  <1>6. /\ overlay' = IF overlay[p] # None THEN overlay ELSE [overlay EXCEPT ![p] = seed]
        /\ cache' = IF overlay[p] # None \/ Decoded(p) = None THEN cache ELSE CacheWith(p, Decoded(p))
        /\ nameOf' = Named(p) /\ May(h, p)
        /\ overlay[p] # None \/ ~OutOfReach(p)
        /\ UNCHANGED <<pending, disk, job, batch, ghosts, bare, edits>>
    BY <1>1, <1>5 DEF Seed
  <1>7. /\ Base(p) \notin raced /\ Writing(Base(p)) \subseteq {h} /\ ~Saving(Base(p)) /\ ~Batching
        /\ Base(p) \in Shipped => nameOf[Base(p)] \in {None, p}
    BY <1>3, <1>6, MayFacts
  <1>8. ASSUME NEW b \in Bases, Base(p) # b PROVE BaseOK(b)'
    <2>1. SamePaths(b)
      BY <1>6, <1>8 DEF SamePaths, TInv, Types
    <2>2. SameCache(b)
      BY <1>3, <1>6, <1>8, BaseFacts DEF SameCache, CacheWith
    <2>3. SameGhosts(b)
      BY <1>6, <1>8 DEF SameGhosts, Named, TInv, Types, ghosts
    <2> QED
      BY <1>1, <1>3, <1>4, <1>6, <1>8, <2>1, <2>2, <2>3, Elsewhere
  <1>9. ASSUME NEW b \in Bases, Base(p) = b PROVE BaseOK(b)'
    <2>1. HandlesOK(b) /\ PathsOK(b) /\ ShippedOK(b) /\ CleanOK(b) /\ About(h, b)
      BY <1>1, <1>3, <1>9 DEF BaseOK, About
    <2>2. NoForget(b)
      BY <1>3, <2>1, OpenNoForget
    <2>3. /\ handle'[h] = f /\ About(h, b)' /\ Writing(b)' = {h}
          /\ \A g \in Handles : About(g, b)' =>
               handle'[g].at # "forget" /\ (handle'[g].at = "put" => handle'[g].snap # None)
      BY <1>1, <1>3, <1>4, <1>7, <1>9, <2>1, <2>2, SoleHandles
    <2>4. /\ \A q \in Paths : Base(q) = b /\ q # p => overlay[q] = None /\ q \notin pending
          /\ overlay[p] # None => Latest(p, overlay[p])
          /\ p \in pending => overlay[p] # None
          /\ batch = NoBatch
      BY <1>3, <1>7, <1>9, <2>1, <2>2, OneName
    <2>5. ~Saving(b)'
      BY <1>6, <1>7, <1>9 DEF Saving
    <2>6. WriterOK(h) /\ ReaderOK(h) /\ Base(handle[h].path) = b
      BY <1>1, <1>9, <2>1 DEF HandlesOK
    <2>7. b \notin excused => intended[b] # None
      BY <1>3, <2>6 DEF ReaderOK
    <2>8. ASSUME b \notin excused, overlay[p] = None
          PROVE  seed = intended[b]
      <3>1. ~handle[h].wrote
        BY <1>1, <1>3, <2>6, <2>8 DEF WriterOK
      <3>2. Writing(b) = {}
        BY <1>7, <1>9, <3>1 DEF Writing
      <3>3. ~Marked(b)
        BY <2>4, <2>8, RestFacts DEF Marked
      <3>4. ~Held(b)
        <4> SUFFICES ASSUME NEW g \in Handles, About(g, b), handle[g].at = "claimed" PROVE FALSE
          BY <2>2 DEF Held, NoForget
        <4>1. handle[g].wrote
          BY DEF TInv, HandleShape
        <4> QED
          BY <3>2, <4>1, WritingFacts
      <3>5. ~Underway(b)
        BY <1>7, <1>9, <3>2, <3>3, <3>4, WritingFacts
      <3>6. Fresh(p)
        <4>1. CASE b \in Shipped
          BY <1>7, <1>9, <4>1 DEF Fresh
        <4>2. CASE b \notin Shipped
          BY <1>3, <1>9, <4>2, BaseFacts DEF Fresh, Paths
        <4> QED
          BY <4>1, <4>2
      <3>7. Decoded(p) = intended[b]
        BY <1>3, <1>6, <1>7, <1>9, <2>1, <2>7, <2>8, <3>5, <3>6, DecodeIsFresh
      <3> QED
        BY <1>5, <2>7, <2>8, <3>7
    <2>9. seed # None
      BY <1>5, ContentFacts
    <2>10. overlay'[p] = (IF overlay[p] # None THEN overlay[p] ELSE seed)
           /\ \A q \in Paths : q # p => overlay'[q] = overlay[q]
      BY <1>3, <1>6, <1>9 DEF TInv, Types
    <2>11. Owned(p)'
      BY <1>6, <1>9 DEF Owned, Named, TInv, Types
    <2>12. intended' = intended /\ excused' = excused
      BY <1>6 DEF ghosts
    <2>13. Latest(p, overlay[p])'
      BY <1>9, <2>4, <2>8, <2>9, <2>10, <2>11, <2>12 DEF Latest
    <2>14. ShippedOK(b)'
      BY <1>6, <2>1, <2>12 DEF ShippedOK
    <2>15. Sole(h, p, b)'
      BY <1>4, <1>6, <2>3, <2>4, <2>5, <2>7, <2>10, <2>11, <2>12, <2>13, <2>14 DEF Sole
    <2> QED
      BY <1>3, <1>9, <2>15, SoleThen
  <1> QED
    BY <1>8, <1>9

LEMMA ApplyKeeps ==
  ASSUME TInv, TInv', NEW h \in Handles, WriteApply(h) \/ ResizeApply(h), \A b \in Bases : BaseOK(b)
  PROVE  \A b \in Bases : BaseOK(b)'
  <1>1. PICK p : p = handle[h].path
    OBVIOUS
  <1>2. /\ handle[h].at \in {"write", "resize"} /\ handle[h].wrote /\ p \in Paths /\ Base(p) \in Bases
        /\ handle[h] \in Ctx
    BY <1>1, BaseFacts DEF WriteApply, ResizeApply, TInv, Types, HandleShape
  <1>3. PICK f : HandleStep(h, f) /\ f.at = (IF WriteApply(h) THEN "mark" ELSE "open") /\ f.wrote /\ f.path = p
    <2>1. CASE WriteApply(h)
      <3> DEFINE f == [handle[h] EXCEPT !.at = "mark"]
      <3>1. HandleStep(h, f)
        BY <2>1, HandleSteps
      <3>2. f.at = "mark" /\ f.wrote /\ f.path = p
        BY <1>1, <1>2 DEF Ctx
      <3> HIDE DEF f
      <3> QED
        BY <2>1, <3>1, <3>2
    <2>2. CASE ~WriteApply(h)
      <3> DEFINE f == [handle[h] EXCEPT !.at = "open"]
      <3>1. HandleStep(h, f)
        BY <2>2, HandleSteps
      <3>2. f.at = "open" /\ f.wrote /\ f.path = p
        BY <1>1, <1>2 DEF Ctx
      <3> HIDE DEF f
      <3> QED
        BY <2>2, <3>1, <3>2
    <2> QED
      BY <2>1, <2>2
  <1>4. /\ \A q \in Paths : q # p => overlay'[q] = overlay[q]
        /\ \A b \in Bases : b # Base(p) => intended'[b] = intended[b]
        /\ UNCHANGED <<pending, cache, disk, job, batch, excused, raced, torn, nameOf>>
        /\ \A g \in Handles \ {h} : (g \in bare' <=> g \in bare)
        /\ ResizeApply(h) => p \in pending \/ h \in bare'
    BY <1>1 DEF WriteApply, ResizeApply, TInv, Types
  <1>5. ASSUME NEW b \in Bases, Base(p) # b PROVE BaseOK(b)'
    <2>1. SamePaths(b) /\ SameCache(b) /\ SameGhosts(b)
      BY <1>4, <1>5 DEF SamePaths, SameCache, SameGhosts
    <2> QED
      BY <1>1, <1>2, <1>3, <1>4, <1>5, <2>1, Elsewhere
  <1>6. ASSUME NEW b \in Bases, Base(p) = b PROVE BaseOK(b)'
    <2>1. Sole(h, p, b)
      BY <1>1, <1>2, <1>6, WriterIsSole
    <2>2. HandlesOK(b) /\ About(h, b) /\ Writing(b) = {h} /\ ShippedOK(b)
      BY <1>6, <2>1 DEF BaseOK, Sole
    <2>3. NoForget(b)
      BY <2>1 DEF Sole, NoForget
    <2>4. /\ handle'[h] = f /\ About(h, b)' /\ Writing(b)' = {h}
          /\ \A g \in Handles : About(g, b)' =>
               handle'[g].at # "forget" /\ (handle'[g].at = "put" => handle'[g].snap # None)
      BY <1>1, <1>3, <2>2, <2>3, SoleHandles
    <2>5. Owned(p) /\ overlay[p] # None /\ (b \notin excused => overlay[p] = intended[b])
      BY <1>6, <2>1 DEF Sole, Latest
    <2>6. /\ overlay'[p] # None /\ (b \notin excused => overlay'[p] = intended'[b])
          /\ (b \notin excused \/ b \in Shipped => intended'[b] # None)
      <3>1. PICK o, i, e : o = overlay[p] /\ i = intended[b] /\ e = edits + 1
        OBVIOUS
      <3>2. e \in 0..MaxEdits
        BY <1>2, <3>1, ContentFacts DEF WriteApply, ResizeApply, Counts, TInv, Types
      <3>3. o \in Bytes /\ o \cup {e} \in Bytes /\ {e} \in Bytes
        BY <1>2, <2>5, <3>1, <3>2, ContentFacts DEF TInv, Types, Bytes
      <3>4. (IF i = None THEN {} ELSE i) \cup {e} \in Bytes
        BY <3>1, <3>2, ContentFacts DEF TInv, Types
      <3>5. CASE WriteApply(h)
        <4>1. overlay'[p] = o \cup {e} /\ intended'[b] = (IF i = None THEN {} ELSE i) \cup {e}
          BY <1>1, <1>2, <1>6, <2>5, <3>1, <3>5 DEF WriteApply, TInv, Types
        <4> QED
          BY <2>5, <3>1, <3>3, <3>4, <4>1, ContentFacts
      <3>6. CASE ResizeApply(h)
        <4>1. overlay'[p] = {e} /\ intended'[b] = {e}
          BY <1>1, <1>2, <1>6, <2>5, <3>1, <3>6 DEF ResizeApply, TInv, Types
        <4> QED
          BY <3>3, <4>1, ContentFacts
      <3> QED
        BY <3>5, <3>6
    <2>7. Owned(p)' /\ Latest(p, overlay[p])'
      BY <1>4, <1>6, <2>5, <2>6 DEF Owned, Latest
    <2>8. ~Saving(b)' /\ ShippedOK(b)'
      BY <1>4, <2>1, <2>2, <2>6 DEF Sole, Saving, ShippedOK
    <2>9. Sole(h, p, b)'
      BY <1>3, <1>4, <2>1, <2>4, <2>6, <2>7, <2>8 DEF Sole
    <2> QED
      BY <1>2, <1>6, <2>9, SoleThen
  <1> QED
    BY <1>5, <1>6

LEMMA MarkKeeps ==
  ASSUME TInv, TInv', NEW h \in Handles, Mark(h), \A b \in Bases : BaseOK(b)
  PROVE  \A b \in Bases : BaseOK(b)'
  <1>1. PICK p : p = handle[h].path
    OBVIOUS
  <1>2. PICK f : f = [handle[h] EXCEPT !.at = "open"]
    OBVIOUS
  <1>3. HandleStep(h, f) /\ handle[h].at = "mark" /\ handle[h].wrote /\ p \in Paths /\ Base(p) \in Bases
    BY <1>1, <1>2, HandleSteps, BaseFacts DEF Mark, TInv, HandleShape
  <1>4. f.at = "open" /\ f.wrote /\ f.path = p
    BY <1>1, <1>2, <1>3 DEF TInv, Types, Ctx
  <1>5. /\ pending' = pending \cup {p} /\ bare' = bare \ {h}
        /\ UNCHANGED <<overlay, cache, disk, job, batch, ghosts, nameOf, edits>>
    BY <1>1 DEF Mark
  <1>6. ASSUME NEW b \in Bases, Base(p) # b PROVE BaseOK(b)'
    <2>1. SamePaths(b) /\ SameCache(b) /\ SameGhosts(b)
      BY <1>5, <1>6 DEF SamePaths, SameCache, SameGhosts, ghosts
    <2> QED
      BY <1>1, <1>3, <1>4, <1>5, <1>6, <2>1, Elsewhere
  <1>7. ASSUME NEW b \in Bases, Base(p) = b PROVE BaseOK(b)'
    <2>1. Sole(h, p, b)
      BY <1>1, <1>3, <1>7, WriterIsSole
    <2>2. HandlesOK(b) /\ About(h, b) /\ Writing(b) = {h} /\ NoForget(b)
      BY <1>7, <2>1 DEF BaseOK, Sole, NoForget
    <2>3. /\ handle'[h] = f /\ About(h, b)' /\ Writing(b)' = {h}
          /\ \A g \in Handles : About(g, b)' =>
               handle'[g].at # "forget" /\ (handle'[g].at = "put" => handle'[g].snap # None)
      BY <1>1, <1>3, <1>4, <2>2, SoleHandles
    <2>4. Owned(p)' /\ Latest(p, overlay[p])' /\ ~Saving(b)' /\ ShippedOK(b)'
      BY <1>5, <2>1 DEF Sole, Owned, Latest, Saving, ShippedOK, ghosts
    <2>5. Sole(h, p, b)'
      BY <1>4, <1>5, <2>1, <2>3, <2>4 DEF Sole, ghosts
    <2> QED
      BY <1>3, <1>7, <2>5, SoleThen
  <1> QED
    BY <1>6, <1>7

(* Bases in a save, left or just named *)

\* A base that is being saved: nobody writes it.
InSave(b) ==
  /\ Saving(b) /\ JobsOK(b) /\ ShippedOK(b)
  /\ \A g \in Handles : About(g, b) => /\ ~handle[g].wrote /\ handle[g].at # "forget"
                                       /\ handle[g].at = "put" => handle[g].snap # None
  /\ \A p \in Paths : Base(p) = b => /\ p \notin pending /\ p \notin batch.todo
                                     /\ overlay[p] # None => Latest(p, overlay[p])

\* A file that a handle has just left, removed or renamed away.
Ended(h, p) ==
  /\ About(h, p) /\ handle[h].at = "cleaned" /\ handle[h].path = p
  /\ \A g \in Handles : About(g, p) => g = h
  /\ ~Saving(p) /\ batch = NoBatch
  /\ p \in pending => overlay[p] # None
  /\ overlay[p] # None => Latest(p, overlay[p])
  /\ p \notin excused => disk[p] = None /\ intended[p] = None /\ overlay[p] = None /\ p \notin pending

\* A file that has just got its name.
New(p) ==
  /\ \A g \in Handles : About(g, p) => ~handle[g].wrote /\ handle[g].at \notin {"put", "forget"}
  /\ ~Saving(p) /\ batch = NoBatch
  /\ overlay[p] # None /\ Latest(p, overlay[p])
  /\ p \in pending \/ (disk[p] = intended[p] /\ cache[p] \in {None, intended[p]})

StagesRule == TInv =>
  /\ \A b \in Bases : InSave(b) => BaseOK(b)
  /\ \A h \in Handles, p \in User : Ended(h, p) => BaseOK(p)
  /\ \A p \in User : New(p) => BaseOK(p)

LEMMA StagesOK == StagesRule
  <1> SUFFICES ASSUME TInv
               PROVE  /\ \A b \in Bases : InSave(b) => BaseOK(b)
                      /\ \A h \in Handles, p \in User : Ended(h, p) => BaseOK(p)
                      /\ \A p \in User : New(p) => BaseOK(p)
    BY DEF StagesRule
  <1>1. ASSUME NEW b \in Bases, InSave(b) PROVE BaseOK(b)
    <2> USE <1>1 DEF InSave
    <2>1. Underway(b)
      BY DEF Underway
    <2>2. b \notin excused => intended[b] # None
      <3>1. PICK w \in Threads : Saves(w, b)
        BY WritingFacts
      <3> QED
        BY <3>1 DEF JobsOK, JobOK, Latest, Saves
    <2>3. HandlesOK(b)
      <3> SUFFICES ASSUME NEW g \in Handles, About(g, b) PROVE WriterOK(g) /\ ReaderOK(g)
        BY DEF HandlesOK
      <3> QED
        BY <2>1, <2>2 DEF WriterOK, ReaderOK, About
    <2>4. PathsOK(b)
      BY DEF PathsOK, PathOK
    <2> QED
      BY <2>1, <2>3, <2>4 DEF BaseOK, CleanOK
  <1>2. ASSUME NEW h \in Handles, NEW p \in User, Ended(h, p) PROVE BaseOK(p)
    <2> USE <1>2 DEF Ended
    <2>1. p \in Paths /\ p \in Bases /\ p \notin Shipped /\ Base(p) = p /\ \A q \in Paths : Base(q) = p => q = p
      BY BaseFacts DEF Paths
    <2>2. batch.at = "idle" /\ ~Batching /\ batch.todo = {}
      BY RestFacts DEF Batching
    <2>3. HandlesOK(p)
      <3> SUFFICES ASSUME About(h, p) PROVE WriterOK(h) /\ ReaderOK(h)
        BY DEF HandlesOK
      <3>1. handle[h].wrote => Writing(p) = {h}
        BY <2>1, WritingFacts
      <3> QED
        BY <2>1, <2>2, <3>1 DEF WriterOK, ReaderOK, Owned
    <2>4. PathsOK(p)
      BY <2>1, <2>2 DEF PathsOK, PathOK
    <2>5. JobsOK(p)
      BY <2>1, WritingFacts DEF JobsOK
    <2> QED
      BY <2>1, <2>3, <2>4, <2>5 DEF BaseOK, CleanOK, ShippedOK
  <1>3. ASSUME NEW p \in User, New(p) PROVE BaseOK(p)
    <2> USE <1>3 DEF New
    <2>1. p \in Paths /\ p \in Bases /\ p \notin Shipped /\ Base(p) = p /\ \A q \in Paths : Base(q) = p => q = p
      BY BaseFacts DEF Paths
    <2>2. batch.at = "idle" /\ ~Batching /\ batch.todo = {}
      BY RestFacts DEF Batching
    <2>3. HandlesOK(p)
      <3> SUFFICES ASSUME NEW g \in Handles, About(g, p) PROVE WriterOK(g) /\ ReaderOK(g)
        BY DEF HandlesOK
      <3> QED
        BY <2>1 DEF WriterOK, ReaderOK, Latest, About
    <2>4. PathsOK(p)
      BY <2>1, <2>2 DEF PathsOK, PathOK
    <2>5. JobsOK(p)
      BY <2>1, WritingFacts DEF JobsOK
    <2>6. p \in pending => Underway(p)
      BY <2>1 DEF Underway
    <2>7. CleanOK(p)
      BY <2>1, <2>6 DEF CleanOK
    <2> QED
      BY <2>1, <2>3, <2>4, <2>5, <2>7 DEF BaseOK, ShippedOK
  <1> QED
    BY <1>1, <1>2, <1>3

LEMMA StagesNext == StagesRule'
  BY StagesOK, PTL

LEMMA StagesThen ==
  ASSUME TInv'
  PROVE  /\ \A b \in Bases : InSave(b)' => BaseOK(b)'
         /\ \A h \in Handles, p \in User : Ended(h, p)' => BaseOK(p)'
         /\ \A p \in User : New(p)' => BaseOK(p)'
  BY StagesNext DEF StagesRule

LEMMA SavedIsInSave ==
  ASSUME TInv, NEW b \in Bases, BaseOK(b), Saving(b)
  PROVE  InSave(b)
  <1>1. HandlesOK(b) /\ PathsOK(b) /\ JobsOK(b) /\ ShippedOK(b)
    BY DEF BaseOK
  <1>2. ASSUME NEW g \in Handles, About(g, b)
        PROVE  /\ ~handle[g].wrote /\ handle[g].at # "forget"
               /\ handle[g].at = "put" => handle[g].snap # None
    <2>1. WriterOK(g) /\ ReaderOK(g) /\ Base(handle[g].path) = b
      BY <1>1, <1>2 DEF HandlesOK, About
    <2>2. handle[g].at = "forget" => handle[g].path = b
      BY <2>1, BaseFacts DEF TInv, HandleShape
    <2> QED
      BY <2>1, <2>2 DEF WriterOK, ReaderOK
  <1>3. NoForget(b)
    BY <1>2 DEF NoForget
  <1>4. ASSUME NEW p \in Paths, Base(p) = b
        PROVE  /\ p \notin pending /\ p \notin batch.todo
               /\ overlay[p] # None => Latest(p, overlay[p])
    BY <1>1, <1>3, <1>4, NoForgotten DEF PathsOK, PathOK
  <1> QED
    BY <1>1, <1>2, <1>4 DEF InSave

(* Creating, claiming and the save thread *)

LEMMA CreateKeeps ==
  ASSUME TInv, TInv', Habits = {}, NEW h \in Handles, NEW p \in Paths, Create(h, p), \A b \in Bases : BaseOK(b)
  PROVE  \A b \in Bases : BaseOK(b)'
  <1>1. PICK f : f = [at |-> "open", path |-> p, wrote |-> FALSE, snap |-> None]
    OBVIOUS
  <1>2. HandleStep(h, f) /\ handle[h].at = "closed" /\ p \in User
    BY <1>1, HandleSteps DEF Create
  <1>3. f.at = "open" /\ ~f.wrote /\ f.path = p
    BY <1>1
  <1>4. /\ overlay' = [overlay EXCEPT ![p] = {}] /\ pending' = pending \cup {p}
        /\ intended' = [intended EXCEPT ![p] = {}] /\ excused' = excused \ {p}
        /\ UNCHANGED <<cache, disk, job, batch, raced, torn, nameOf, bare>>
        /\ NamesExclusive /\ May(h, p)
    BY DEF Create
  <1>5. p \in Bases /\ Base(p) = p /\ \A q \in Paths : Base(q) = p => q = p
    BY <1>2, BaseFacts DEF Paths
  <1>6. Writing(p) \subseteq {h} /\ ~Saving(p) /\ batch = NoBatch
    BY <1>4, <1>5, MayFacts DEF TInv, Batching
  <1>7. ASSUME NEW b \in Bases, Base(p) # b PROVE BaseOK(b)'
    <2>1. SamePaths(b) /\ SameCache(b) /\ SameGhosts(b)
      BY <1>4, <1>5, <1>7 DEF SamePaths, SameCache, SameGhosts, TInv, Types
    <2> QED
      BY <1>2, <1>3, <1>4, <1>7, <2>1, Elsewhere
  <1>8. New(p)'
    <2>1. handle'[h] = f /\ \A g \in Handles \ {h} : handle'[g] = handle[g]
      BY <1>2 DEF HandleStep, TInv, Types
    <2>2. ASSUME NEW g \in Handles, About(g, p)'
          PROVE  ~handle'[g].wrote /\ handle'[g].at \notin {"put", "forget"}
      <3>1. CASE g = h
        BY <1>3, <2>1, <3>1
      <3>2. CASE g # h
        BY <1>4, <1>6, <2>1, <2>2, <3>2 DEF NamesExclusive, Writing, About
      <3> QED
        BY <3>1, <3>2
    <2>3. ~Saving(p)'
      BY <1>4, <1>6 DEF Saving
    <2>4. overlay'[p] = {} /\ intended'[p] = {} /\ {} # None /\ p \in pending'
      BY <1>4, <1>5, ContentFacts DEF TInv, Types
    <2>5. Owned(p)'
      BY <1>2, <1>5, BaseFacts DEF Owned
    <2>6. Latest(p, overlay[p])'
      BY <1>5, <2>4, <2>5 DEF Latest
    <2> QED
      BY <1>4, <1>6, <2>2, <2>3, <2>4, <2>6 DEF New
  <1>9. BaseOK(p)'
    BY <1>2, <1>8, StagesThen
  <1> QED
    BY <1>5, <1>7, <1>9

LEMMA ClaimKeeps ==
  ASSUME TInv, TInv', Habits = {}, NEW h \in Handles, CloseClaim(h), \A b \in Bases : BaseOK(b)
  PROVE  \A b \in Bases : BaseOK(b)'
  <1>1. PICK p : p = handle[h].path
    OBVIOUS
  <1>2. PICK f : f = IF p \in pending /\ "manual" \notin Habits
                     THEN [handle[h] EXCEPT !.at = "claimed"] ELSE Closed
    OBVIOUS
  <1>3. /\ HandleStep(h, f) /\ handle[h].at \in {"open", "cleaned"} /\ handle[h].wrote
        /\ p \in Paths /\ Base(p) \in Bases
    BY <1>1, <1>2, HandleSteps, BaseFacts DEF CloseClaim, TInv, HandleShape
  <1>4. /\ p \in pending => f.at = "claimed" /\ f.wrote /\ f.path = p
        /\ p \notin pending => f.at = "closed" /\ ~f.wrote
    <2>1. handle[h] \in Ctx
      BY DEF TInv, Types
    <2>2. "manual" \notin Habits
      OBVIOUS
    <2> QED
      BY <1>1, <1>2, <1>3, <2>1, <2>2, RestFacts DEF Ctx
  <1>5. /\ pending' = pending \ {p} /\ bare' = bare \ {h}
        /\ handle[h].at = "open" => h \notin bare
        /\ UNCHANGED <<overlay, cache, disk, job, batch, ghosts, nameOf, edits>>
    BY <1>1 DEF CloseClaim, Open
  <1>6. ASSUME NEW b \in Bases, Base(p) # b PROVE BaseOK(b)'
    <2>1. SamePaths(b) /\ SameCache(b) /\ SameGhosts(b)
      BY <1>5, <1>6 DEF SamePaths, SameCache, SameGhosts, ghosts
    <2> QED
      BY <1>1, <1>3, <1>4, <1>5, <1>6, <2>1, Elsewhere
  <1>7. ASSUME NEW b \in Bases, Base(p) = b PROVE BaseOK(b)'
    <2>1. About(h, b) /\ HandlesOK(b) /\ PathsOK(b) /\ CleanOK(b) /\ ShippedOK(b)
      BY <1>1, <1>3, <1>7 DEF About, BaseOK
    <2>2. NoForget(b)
      BY <1>3, <2>1, OpenNoForget
    <2>3. WriterOK(h) /\ ReaderOK(h)
      BY <2>1 DEF HandlesOK
    <2>4. Owned(p) /\ ~Saving(b) /\ ~Batching /\ Writing(b) = {h}
      BY <1>1, <1>3, <1>7, <2>3 DEF WriterOK
    <2>5. b \in Shipped => nameOf[b] = p
      BY <1>7, <2>4 DEF Owned
    <2>6. /\ \A q \in Paths : Base(q) = b /\ q # p => overlay[q] = None /\ q \notin pending
          /\ overlay[p] # None => Latest(p, overlay[p])
          /\ p \in pending => overlay[p] # None
          /\ batch = NoBatch
      BY <1>3, <1>7, <2>1, <2>2, <2>4, <2>5, OneName
    <2>7. handle[h].at = "open" => p \in pending
      BY <1>1, <1>5, <2>3, <1>3 DEF WriterOK
    <2>8. CASE p \in pending
      <3>1. /\ handle'[h] = f /\ About(h, b)' /\ Writing(b)' = {h}
            /\ \A g \in Handles : About(g, b)' =>
                 handle'[g].at # "forget" /\ (handle'[g].at = "put" => handle'[g].snap # None)
        BY <1>1, <1>3, <1>4, <2>1, <2>2, <2>4, <2>8, SoleHandles
      <3>2. Owned(p)' /\ Latest(p, overlay[p])' /\ ~Saving(b)' /\ ShippedOK(b)'
        BY <1>5, <2>1, <2>4, <2>6, <2>8 DEF Owned, Latest, Saving, ShippedOK, ghosts
      <3>3. b \notin excused => intended[b] # None
        BY <1>7, <2>6, <2>8 DEF Latest
      <3>4. Sole(h, p, b)'
        BY <1>4, <1>5, <2>6, <2>8, <3>1, <3>2, <3>3 DEF Sole, ghosts
      <3> QED
        BY <1>3, <1>7, <3>4, SoleThen
    <2>9. CASE p \notin pending
      <3>1. handle[h].at = "cleaned" /\ pending' = pending
        BY <1>3, <1>5, <2>7, <2>9
      <3>2. b \notin excused => disk[b] = None /\ intended[b] = None
        BY <1>1, <1>3, <1>7, <2>3, <3>1 DEF WriterOK
      <3>3. handle'[h] = f /\ f.at = "closed" /\ \A g \in Handles \ {h} : handle'[g] = handle[g]
        BY <1>3, <1>4, <2>9 DEF HandleStep, TInv, Types
      <3>4. ASSUME NEW g \in Handles, About(g, b)' PROVE WriterOK(g)' /\ ReaderOK(g)'
        <4>1. g # h /\ handle'[g] = handle[g] /\ About(g, b)
          BY <3>3, <3>4 DEF About
        <4>2. ReaderOK(g) /\ handle[g].at # "forget" /\ ~handle[g].wrote /\ Base(handle[g].path) = b
          BY <2>1, <2>2, <2>4, <4>1 DEF HandlesOK, NoForget, Writing, About
        <4>3. b \notin excused => handle[g].at # "put"
          BY <3>2, <4>2 DEF ReaderOK
        <4> QED
          BY <1>5, <4>1, <4>2, <4>3 DEF WriterOK, ReaderOK, ghosts
      <3>5. PathsOK(b)'
        <4> SUFFICES ASSUME NEW q \in Paths, Base(q) = b PROVE PathOK(q)'
          BY DEF PathsOK
        <4>1. batch'.at = "idle" /\ batch'.todo = {}
          BY <1>5, <2>6, RestFacts
        <4>2. Latest(q, overlay[q]) => Latest(q, overlay[q])'
          BY <1>5 DEF Latest, Owned, ghosts
        <4>3. ~Saving(b)'
          BY <1>5, <2>4 DEF Saving
        <4>4. overlay'[q] # None => Latest(q, overlay[q])'
          BY <1>5, <2>6, <4>2
        <4>5. q \in pending' => overlay'[q] # None
          BY <1>5, <2>6, <3>1
        <4> QED
          BY <4>1, <4>3, <4>4, <4>5 DEF PathOK
      <3>6. JobsOK(b)'
        BY <1>5, <2>4, WritingFacts DEF JobsOK, Saves
      <3>7. CleanOK(b)' /\ ShippedOK(b)'
        BY <1>5, <2>1, <3>2 DEF CleanOK, ShippedOK, ghosts
      <3> QED
        BY <3>4, <3>5, <3>6, <3>7 DEF BaseOK, HandlesOK
    <2> QED
      BY <2>8, <2>9
  <1> QED
    BY <1>6, <1>7

LEMMA SpawnKeeps ==
  ASSUME TInv, TInv', NEW h \in Handles, CloseSpawn(h), ~torn, \A b \in Bases : BaseOK(b)
  PROVE  ~torn' /\ \A b \in Bases : BaseOK(b)'
  <1>1. PICK p : p = handle[h].path
    OBVIOUS
  <1>2. PICK d : d = overlay[p]
    OBVIOUS
  <1>3. /\ handle[h].at = "claimed" /\ handle[h].wrote /\ p \in Paths /\ Base(p) \in Bases
        /\ HandleStep(h, Closed) /\ Closed.at = "closed"
    BY <1>1, HandleSteps, BaseFacts, RestFacts DEF CloseSpawn, TInv, HandleShape
  <1>4. Sole(h, p, Base(p))
    BY <1>1, <1>3, WriterIsSole
  <1>5. PICK c : c = Base(p)
    OBVIOUS
  <1>6. overlay[p] # None /\ Writing(c) = {h} /\ ~Saving(c)
    BY <1>4, <1>5 DEF Sole, Latest
  <1>7. PICK w \in Threads : /\ job[w] = Idle
                             /\ job' = [job EXCEPT ![w] = [Idle EXCEPT !.at = "begin", !.path = p, !.data = d]]
    BY <1>1, <1>2, <1>6 DEF CloseSpawn
  <1>8. /\ UNCHANGED <<stores, batch, intended, excused, raced, nameOf, bare, edits>>
        /\ torn' = (torn \/ \E g \in Handles \ {h} : handle[g].wrote /\ handle[g].path = p)
    BY <1>1, <1>6 DEF CloseSpawn
  <1>9. ~torn'
    BY <1>5, <1>6, <1>8 DEF Writing
  <1>10. /\ job'[w].at = "begin" /\ job'[w].path = p /\ job'[w].data = d
         /\ \A v \in Threads \ {w} : job'[v] = job[v]
    BY <1>7 DEF TInv, Types, Idle
  <1>11. handle'[h] = Closed /\ \A g \in Handles \ {h} : handle'[g] = handle[g]
    BY <1>3 DEF HandleStep, TInv, Types
  <1>12. ASSUME NEW b \in Bases, b # c PROVE BaseOK(b)'
    <2>1. SamePaths(b) /\ SameCache(b) /\ SameGhosts(b) /\ SameBatch(b)
      BY <1>8 DEF SamePaths, SameCache, SameGhosts, SameBatch, stores
    <2>2. SameHandles(b)
      BY <1>1, <1>3, <1>5, <1>8, <1>11, <1>12 DEF SameHandles, About
    <2>3. SameJobs(b)
      BY <1>5, <1>7, <1>10, <1>12, RestFacts DEF SameJobs, Saves
    <2> QED
      BY <2>1, <2>2, <2>3, BaseFrame DEF Untouched
  <1>13. InSave(c)'
    <2>1. Sole(h, p, c) /\ c \in Bases
      BY <1>3, <1>4, <1>5
    <2>2. Saving(c)'
      BY <1>5, <1>10 DEF Saving
    <2>3. \A v \in Threads : Saves(v, c)' => v = w
      BY <1>6, <1>10, <2>1, WritingFacts DEF Saves
    <2>4. \A q \in Paths : Base(q) = c /\ overlay[q] # None => Latest(q, overlay[q])'
      BY <1>8, <2>1 DEF Sole, Latest, Owned, stores
    <2>5. Latest(job[w].path, job[w].data)'
      BY <1>2, <1>5, <1>3, <1>6, <1>8, <1>10, <2>1 DEF Sole, Latest, Owned, stores
    <2>6. JobsOK(c)'
      BY <1>5, <1>10, <2>3, <2>5 DEF JobsOK, JobOK
    <2>7. ShippedOK(c)'
      BY <1>8, <2>1 DEF Sole, ShippedOK, stores
    <2>8. ASSUME NEW g \in Handles, About(g, c)'
          PROVE  /\ ~handle'[g].wrote /\ handle'[g].at # "forget"
                 /\ handle'[g].at = "put" => handle'[g].snap # None
      <3>1. g # h /\ About(g, c) /\ handle'[g] = handle[g]
        BY <1>3, <1>11, <2>8 DEF About
      <3> QED
        BY <1>6, <2>1, <3>1 DEF Sole, Writing, About
    <2>9. ASSUME NEW q \in Paths, Base(q) = c
          PROVE  /\ q \notin pending' /\ q \notin batch'.todo
                 /\ overlay'[q] # None => Latest(q, overlay[q])'
      BY <1>3, <1>8, <2>1, <2>4, <2>9, RestFacts DEF Sole, stores
    <2> QED
      BY <2>2, <2>6, <2>7, <2>8, <2>9 DEF InSave
  <1>14. BaseOK(c)'
    BY <1>3, <1>5, <1>13, StagesThen
  <1> QED
    BY <1>9, <1>12, <1>14

(* Removing and renaming *)

\* Of a file that only h has open, and which h may change.
LEMMA LastFacts ==
  ASSUME TInv, Habits = {}, NEW h \in Handles, NEW p \in User, handle[h].path = p, Open(h), Last(h), May(h, p),
         BaseOK(p)
  PROVE  /\ About(h, p) /\ \A g \in Handles : About(g, p) => g = h
         /\ ~Saving(p) /\ ~Batching /\ batch = NoBatch
         /\ overlay[p] # None => Latest(p, overlay[p])
         /\ p \in pending => overlay[p] # None
         /\ WriterOK(h)
  <1>1. p \in Paths /\ p \in Bases /\ Base(p) = p /\ p \notin Shipped /\ \A q \in Paths : Base(q) = p => q = p
    BY BaseFacts DEF Paths
  <1>2. About(h, p)
    BY <1>1 DEF About, Open
  <1>3. \A g \in Handles : About(g, p) => g = h
    BY <1>1 DEF About, Last, TInv, HandleShape
  <1>4. HandlesOK(p) /\ PathsOK(p)
    BY DEF BaseOK
  <1>5. NoForget(p)
    BY <1>1, <1>2, <1>4, OpenNoForget DEF Open
  <1>6. ~Saving(p) /\ ~Batching
    BY <1>1, MayFacts
  <1>7. /\ overlay[p] # None => Latest(p, overlay[p])
        /\ p \in pending => overlay[p] # None
        /\ batch = NoBatch
    BY <1>1, <1>4, <1>5, <1>6, OneName
  <1> QED
    BY <1>2, <1>3, <1>4, <1>6, <1>7 DEF HandlesOK

LEMMA CleanedHandle ==
  ASSUME TInv, TInv', NEW h \in Handles, NEW p \in User, handle[h].path = p, handle[h].at # "closed",
         HandleStep(h, [handle[h] EXCEPT !.at = "cleaned"]),
         \A g \in Handles : About(g, p) => g = h
  PROVE  /\ About(h, p)' /\ handle'[h].at = "cleaned" /\ handle'[h].path = p
         /\ \A g \in Handles : About(g, p)' => g = h
  <1>1. handle'[h] = [handle[h] EXCEPT !.at = "cleaned"] /\ \A g \in Handles \ {h} : handle'[g] = handle[g]
    BY DEF HandleStep, TInv, Types
  <1>2. handle'[h].at = "cleaned" /\ handle'[h].path = p
    BY <1>1 DEF TInv, Types, Ctx
  <1> QED
    BY <1>1, <1>2, BaseFacts DEF About

LEMMA CleanupOverlayKeeps ==
  ASSUME TInv, TInv', Habits = {}, NEW h \in Handles, CleanupOverlay(h), \A b \in Bases : BaseOK(b)
  PROVE  \A b \in Bases : BaseOK(b)'
  <1>1. PICK p : p = handle[h].path
    OBVIOUS
  <1>2. /\ Open(h) /\ Last(h) /\ May(h, p) /\ p \in User /\ disk[p] = None
        /\ overlay' = [overlay EXCEPT ![p] = None] /\ pending' = pending \ {p}
        /\ intended' = [intended EXCEPT ![p] = None] /\ excused' = excused \ {p}
        /\ UNCHANGED <<cache, disk, job, batch, raced, torn, nameOf, bare, edits>>
    BY <1>1 DEF CleanupOverlay
  <1>3. p \in Bases /\ p \in Paths /\ Base(p) = p /\ \A q \in Paths : Base(q) = p => q = p
    BY <1>2, BaseFacts DEF Paths
  <1>4. PICK f : f = [handle[h] EXCEPT !.at = "cleaned"]
    OBVIOUS
  <1>5. HandleStep(h, f) /\ f.path = p /\ handle[h].at = "open"
    BY <1>1, <1>2, <1>4, HandleSteps DEF Open, TInv, Types, Ctx
  <1>6. ASSUME NEW b \in Bases, b # p PROVE BaseOK(b)'
    <2>1. SamePaths(b) /\ SameCache(b) /\ SameGhosts(b)
      BY <1>2, <1>3, <1>6 DEF SamePaths, SameCache, SameGhosts, TInv, Types
    <2> QED
      BY <1>1, <1>2, <1>3, <1>5, <1>6, <2>1, Elsewhere
  <1>7. Ended(h, p)'
    <2>1. /\ \A g \in Handles : About(g, p) => g = h
          /\ ~Saving(p) /\ batch = NoBatch
      BY <1>1, <1>2, <1>3, LastFacts
    <2>2. /\ About(h, p)' /\ handle'[h].at = "cleaned" /\ handle'[h].path = p
          /\ \A g \in Handles : About(g, p)' => g = h
      BY <1>1, <1>2, <1>4, <1>5, <2>1, CleanedHandle
    <2>3. overlay'[p] = None /\ intended'[p] = None /\ p \notin pending' /\ disk'[p] = None
      BY <1>2, <1>3 DEF TInv, Types
    <2>4. ~Saving(p)'
      BY <1>2, <2>1 DEF Saving
    <2> QED
      BY <1>2, <2>1, <2>2, <2>3, <2>4 DEF Ended
  <1>8. BaseOK(p)'
    BY <1>2, <1>7, StagesThen
  <1> QED
    BY <1>6, <1>8

LEMMA CleanupRemoveKeeps ==
  ASSUME TInv, TInv', Habits = {}, NEW h \in Handles, CleanupRemove(h), \A b \in Bases : BaseOK(b)
  PROVE  \A b \in Bases : BaseOK(b)'
  <1>1. PICK p : p = handle[h].path
    OBVIOUS
  <1>2. /\ Open(h) /\ Last(h) /\ May(h, p) /\ p \in User
        /\ UNCHANGED <<overlay, pending, cache, job, batch, raced, torn, nameOf, bare, edits>>
    BY <1>1 DEF CleanupRemove
  <1>3. p \in Bases /\ p \in Paths /\ Base(p) = p /\ p \notin Shipped /\ \A q \in Paths : Base(q) = p => q = p
    BY <1>2, BaseFacts DEF Paths
  <1>4. /\ About(h, p) /\ \A g \in Handles : About(g, p) => g = h
        /\ ~Saving(p) /\ batch = NoBatch
        /\ overlay[p] # None => Latest(p, overlay[p])
        /\ p \in pending => overlay[p] # None
        /\ WriterOK(h)
    BY <1>1, <1>2, <1>3, LastFacts
  <1>5. ~Saving(p)'
    BY <1>2, <1>4 DEF Saving
  <1>6. CASE /\ disk' = [disk EXCEPT ![p] = None] /\ intended' = [intended EXCEPT ![p] = None]
             /\ excused' = excused \ {p} /\ Sets(h, [handle[h] EXCEPT !.at = "forget"])
    <2>1. PICK f : f = [handle[h] EXCEPT !.at = "forget"]
      OBVIOUS
    <2>2. /\ f.at = "forget" /\ f.path = p /\ f.wrote = handle[h].wrote /\ f \in Ctx /\ HandleShape(f)
          /\ handle' = [handle EXCEPT ![h] = f]
      BY <1>1, <1>2, <1>6, <2>1 DEF Sets, TInv, Types, Ctx, HandleShape
    <2>3. HandleStep(h, f)
      BY <2>2 DEF HandleStep
    <2>4. handle'[h] = f /\ \A g \in Handles \ {h} : handle'[g] = handle[g]
      BY <2>2 DEF TInv, Types
    <2>5. disk'[p] = None /\ intended'[p] = None /\ p \notin excused'
      BY <1>3, <1>6 DEF TInv, Types
    <2>6. ASSUME NEW b \in Bases, b # p PROVE BaseOK(b)'
      <3>1. SamePaths(b) /\ SameCache(b) /\ SameGhosts(b)
        BY <1>2, <1>3, <1>6, <2>6 DEF SamePaths, SameCache, SameGhosts, TInv, Types
      <3> QED
        BY <1>1, <1>2, <1>3, <2>2, <2>3, <2>6, <3>1, Elsewhere
    <2>7. \A g \in Handles : About(g, p)' => g = h
      BY <1>4, <2>4 DEF About
    <2>8. batch'.at = "idle" /\ batch'.todo = {} /\ ~Batching'
      BY <1>2, <1>4, RestFacts DEF Batching
    <2>9. HandlesOK(p)'
      <3>1. handle[h].wrote => Writing(p)' = {h}
        <4>1. \A g \in Handles : handle[g].wrote /\ Base(handle[g].path) = p => g = h
          BY <1>4 DEF About, TInv, HandleShape
        <4> QED
          BY <1>3, <2>2, <2>4, <4>1 DEF Writing
      <3>2. WriterOK(h)' /\ ReaderOK(h)'
        BY <1>3, <1>5, <2>2, <2>4, <2>5, <2>7, <2>8, <3>1 DEF WriterOK, ReaderOK, Owned
      <3> QED
        BY <2>7, <3>2 DEF HandlesOK
    <2>10. PathsOK(p)'
      <3>1. Forgotten(p)'
        BY <2>2, <2>4 DEF Forgotten
      <3> QED
        BY <1>2, <1>3, <1>4, <1>5, <2>8, <3>1 DEF PathsOK, PathOK
    <2>11. Underway(p)'
      BY <1>3, <2>2, <2>4 DEF Underway
    <2>12. JobsOK(p)'
      BY <1>2, <1>3, <1>4, WritingFacts DEF JobsOK, Saves
    <2>13. BaseOK(p)'
      BY <1>3, <2>9, <2>10, <2>11, <2>12 DEF BaseOK, CleanOK, ShippedOK
    <2> QED
      BY <2>6, <2>13
  <1>7. CASE /\ excused' = excused \cup {p} /\ Sets(h, [handle[h] EXCEPT !.at = "cleaned"])
             /\ UNCHANGED <<disk, intended>>
    <2>1. PICK f : f = [handle[h] EXCEPT !.at = "cleaned"]
      OBVIOUS
    <2>2. f.path = p /\ f \in Ctx /\ HandleShape(f) /\ handle' = [handle EXCEPT ![h] = f]
      BY <1>1, <1>2, <1>7, <2>1 DEF Sets, TInv, Types, Ctx, HandleShape, Open
    <2>3. HandleStep(h, f)
      BY <2>2 DEF HandleStep
    <2>4. ASSUME NEW b \in Bases, b # p PROVE BaseOK(b)'
      <3>1. SamePaths(b) /\ SameCache(b) /\ SameGhosts(b)
        BY <1>2, <1>3, <1>7, <2>4 DEF SamePaths, SameCache, SameGhosts
      <3> QED
        BY <1>1, <1>2, <1>3, <2>2, <2>3, <2>4, <3>1, Elsewhere
    <2>5. /\ About(h, p)' /\ handle'[h].at = "cleaned" /\ handle'[h].path = p
          /\ \A g \in Handles : About(g, p)' => g = h
      BY <1>1, <1>2, <1>4, <2>1, <2>3, CleanedHandle DEF Open
    <2>6. overlay'[p] # None => Latest(p, overlay[p])'
      BY <1>2, <1>4, <1>7 DEF Latest, Owned
    <2>7. Ended(h, p)'
      BY <1>2, <1>4, <1>5, <1>7, <2>5, <2>6 DEF Ended
    <2>8. BaseOK(p)'
      BY <1>2, <2>7, StagesThen
    <2> QED
      BY <2>4, <2>8
  <1> QED
    BY <1>1, <1>6, <1>7 DEF CleanupRemove

LEMMA CleanupForgetKeeps ==
  ASSUME TInv, TInv', NEW h \in Handles, CleanupForget(h), \A b \in Bases : BaseOK(b)
  PROVE  \A b \in Bases : BaseOK(b)'
  <1>1. PICK p : p = handle[h].path
    OBVIOUS
  <1>2. /\ handle[h].at = "forget" /\ p \in User
        /\ overlay' = [overlay EXCEPT ![p] = None] /\ cache' = [cache EXCEPT ![p] = None]
        /\ pending' = pending \ {p}
        /\ UNCHANGED <<disk, job, batch, ghosts, nameOf, bare, edits>>
    BY <1>1 DEF CleanupForget, TInv, HandleShape
  <1>3. p \in Bases /\ p \in Paths /\ Base(p) = p /\ \A q \in Paths : Base(q) = p => q = p
    BY <1>2, BaseFacts DEF Paths
  <1>4. PICK f : f = [handle[h] EXCEPT !.at = "cleaned"]
    OBVIOUS
  <1>5. HandleStep(h, f) /\ f.path = p
    <2>1. HandleStep(h, f)
      BY <1>4, HandleSteps
    <2> QED
      BY <1>1, <1>4, <2>1 DEF TInv, Types, Ctx
  <1>6. ReaderOK(h)
    BY <1>1, <1>2, <1>3 DEF BaseOK, HandlesOK, About
  <1>7. /\ disk[p] = None /\ intended[p] = None /\ ~Saving(p) /\ batch = NoBatch
        /\ \A g \in Handles : About(g, p) => g = h
    BY <1>1, <1>2, <1>6 DEF ReaderOK, TInv, Batching
  <1>8. ASSUME NEW b \in Bases, b # p PROVE BaseOK(b)'
    <2>1. SamePaths(b) /\ SameCache(b) /\ SameGhosts(b)
      BY <1>2, <1>3, <1>8 DEF SamePaths, SameCache, SameGhosts, TInv, Types, ghosts
    <2> QED
      BY <1>1, <1>2, <1>3, <1>5, <1>8, <2>1, Elsewhere
  <1>9. Ended(h, p)'
    <2>1. /\ About(h, p)' /\ handle'[h].at = "cleaned" /\ handle'[h].path = p
          /\ \A g \in Handles : About(g, p)' => g = h
      BY <1>1, <1>2, <1>4, <1>5, <1>7, CleanedHandle
    <2>2. overlay'[p] = None /\ intended'[p] = None /\ p \notin pending' /\ disk'[p] = None
      BY <1>2, <1>3, <1>7 DEF TInv, Types, ghosts
    <2>3. ~Saving(p)'
      BY <1>2, <1>7 DEF Saving
    <2> QED
      BY <1>2, <1>7, <2>1, <2>2, <2>3 DEF Ended
  <1>10. BaseOK(p)'
    BY <1>2, <1>9, StagesThen
  <1> QED
    BY <1>8, <1>10

\* What a rename finds, whichever kind it is: nobody has the target open.
LEMMA RenameFacts ==
  ASSUME TInv, TInv', Habits = {}, NEW h \in Handles, NEW p \in User, NEW q \in User, handle[h].path = p,
         Renames(h, q), BaseOK(p), BaseOK(q), job' = job,
         HandleStep(h, [handle[h] EXCEPT !.at = "cleaned"])
  PROVE  /\ p # q /\ Exists(p) /\ ~Saving(p) /\ ~Saving(p)' /\ ~Saving(q)' /\ batch = NoBatch
         /\ overlay[p] # None => Latest(p, overlay[p])
         /\ p \in pending => overlay[p] # None
         /\ About(h, p)' /\ handle'[h].at = "cleaned" /\ handle'[h].path = p
         /\ \A g \in Handles : About(g, p)' => g = h
         /\ \A g \in Handles : ~About(g, q)'
  <1>1. p \in Bases /\ p \in Paths /\ Base(p) = p /\ Base(q) = q /\ q \in Paths
    BY BaseFacts
  <1>2. /\ Open(h) /\ Last(h) /\ May(h, p) /\ May(h, q) /\ p # q /\ Exists(p)
        /\ \A g \in Handles : handle[g].path # q
    BY DEF Renames
  <1>3. /\ About(h, p) /\ \A g \in Handles : About(g, p) => g = h
        /\ ~Saving(p) /\ batch = NoBatch
        /\ overlay[p] # None => Latest(p, overlay[p])
        /\ p \in pending => overlay[p] # None
    BY <1>2, LastFacts
  <1>4. ~Saving(q)
    BY <1>1, <1>2, MayFacts
  <1>5. ~Saving(p)' /\ ~Saving(q)'
    BY <1>3, <1>4 DEF Saving
  <1>6. /\ About(h, p)' /\ handle'[h].at = "cleaned" /\ handle'[h].path = p
        /\ \A g \in Handles : About(g, p)' => g = h
    BY <1>2, <1>3, CleanedHandle DEF Open
  <1>7. ASSUME NEW g \in Handles, About(g, q)' PROVE FALSE
    <2>1. handle'[g].path = q
      BY <1>7, BaseFacts DEF About, TInv, HandleShape, Paths
    <2>2. g # h
      BY <1>2, <1>6, <2>1
    <2>3. handle'[g] = handle[g]
      BY <2>2 DEF HandleStep, TInv, Types
    <2> QED
      BY <1>2, <2>1, <2>3
  <1> QED
    BY <1>2, <1>3, <1>5, <1>6, <1>7

LEMMA RenameKeeps ==
  ASSUME TInv, TInv', Habits = {}, NEW h \in Handles, NEW q \in User, RenameUser(h, q) \/ RenameOverlay(h, q),
         \A b \in Bases : BaseOK(b)
  PROVE  \A b \in Bases : BaseOK(b)'
  <1>1. PICK p : p = handle[h].path
    OBVIOUS
  <1>2. Renames(h, q) /\ p \in User /\ handle[h].at = "open"
        /\ UNCHANGED <<job, batch, raced, torn, nameOf, bare>>
    BY <1>1, BaseFacts DEF RenameUser, RenameOverlay, Renames, Open, Named
  <1>3. PICK f : f = [handle[h] EXCEPT !.at = "cleaned"]
    OBVIOUS
  <1>4. HandleStep(h, f)
    BY <1>3, HandleSteps
  <1>5. f.path = p
    BY <1>1, <1>3 DEF TInv, Types, Ctx
  <1>6. /\ p \in Bases /\ p \in Paths /\ Base(p) = p /\ q \in Bases /\ q \in Paths /\ Base(q) = q
        /\ p \notin Shipped /\ q \notin Shipped
        /\ \A r \in Paths : (Base(r) = p => r = p) /\ (Base(r) = q => r = q)
    BY <1>2, BaseFacts DEF Paths
  <1>7. /\ p # q /\ Exists(p) /\ ~Saving(p) /\ ~Saving(p)' /\ ~Saving(q)' /\ batch = NoBatch
        /\ overlay[p] # None => Latest(p, overlay[p])
        /\ p \in pending => overlay[p] # None
        /\ About(h, p)' /\ handle'[h].at = "cleaned" /\ handle'[h].path = p
        /\ \A g \in Handles : About(g, p)' => g = h
        /\ \A g \in Handles : ~About(g, q)'
    BY <1>1, <1>2, <1>3, <1>4, <1>6, RenameFacts
  <1>8. \E d : /\ d # None
               /\ overlay' = [overlay EXCEPT ![p] = None, ![q] = d]
               /\ intended' = [intended EXCEPT ![p] = None, ![q] = d]
               /\ \/ RenameUser(h, q)
                  \/ RenameOverlay(h, q) /\ d = overlay[p]
               /\ RenameUser(h, q) =>
                    /\ cache' = [cache EXCEPT ![p] = d, ![q] = d]
                    /\ \/ disk' = [disk EXCEPT ![p] = None, ![q] = d] /\ excused' = excused \ {p, q}
                       \/ disk' = [disk EXCEPT ![q] = d] /\ excused' = (excused \ {q}) \cup {p}
    <2>1. CASE RenameUser(h, q)
      <3> DEFINE d == IF overlay[p] # None THEN overlay[p] ELSE disk[p]
      <3>1. d # None
        BY <1>1, <2>1 DEF RenameUser
      <3>2. /\ overlay' = [overlay EXCEPT ![p] = None, ![q] = d]
            /\ intended' = [intended EXCEPT ![p] = None, ![q] = d]
            /\ cache' = [cache EXCEPT ![p] = d, ![q] = d]
            /\ \/ disk' = [disk EXCEPT ![p] = None, ![q] = d] /\ excused' = excused \ {p, q}
               \/ disk' = [disk EXCEPT ![q] = d] /\ excused' = (excused \ {q}) \cup {p}
        BY <1>1, <1>6, <2>1 DEF RenameUser
      <3> HIDE DEF d
      <3> QED
        BY <2>1, <3>1, <3>2
    <2>2. CASE ~RenameUser(h, q)
      <3>1. overlay[p] # None
        BY <1>1, <1>2, <1>7, <2>2 DEF RenameOverlay, Exists
      <3>2. /\ overlay' = [overlay EXCEPT ![p] = None, ![q] = overlay[p]]
            /\ intended' = [intended EXCEPT ![p] = None, ![q] = overlay[p]]
        BY <1>1, <1>2, <1>6, <2>2 DEF RenameOverlay
      <3> QED
        BY <2>2, <3>1, <3>2
    <2> QED
      BY <2>1, <2>2
  <1>9. PICK d : /\ d # None
                 /\ overlay' = [overlay EXCEPT ![p] = None, ![q] = d]
                 /\ intended' = [intended EXCEPT ![p] = None, ![q] = d]
                 /\ \/ RenameUser(h, q)
                    \/ RenameOverlay(h, q) /\ d = overlay[p]
                 /\ RenameUser(h, q) =>
                      /\ cache' = [cache EXCEPT ![p] = d, ![q] = d]
                      /\ \/ disk' = [disk EXCEPT ![p] = None, ![q] = d] /\ excused' = excused \ {p, q}
                         \/ disk' = [disk EXCEPT ![q] = d] /\ excused' = (excused \ {q}) \cup {p}
    BY <1>8
  <1>10. /\ pending' = pending \ {p} \/ pending' = (pending \ {p}) \cup {q}
         /\ RenameOverlay(h, q) => q \in pending' /\ cache' = cache /\ disk' = disk /\ disk[p] = None
         /\ RenameOverlay(h, q) =>
              excused' = (excused \ {p, q}) \cup (IF p \in excused THEN {q} ELSE {})
    BY <1>1, <1>6 DEF RenameUser, RenameOverlay
  <1>11. /\ overlay'[p] = None /\ overlay'[q] = d /\ intended'[p] = None /\ intended'[q] = d
         /\ p \notin pending'
    BY <1>6, <1>7, <1>9, <1>10 DEF TInv, Types
  <1>12. \/ RenameUser(h, q) /\ cache'[q] = d /\ disk'[q] = d /\ q \notin excused'
            /\ (disk'[p] = None \/ p \in excused')
         \/ RenameOverlay(h, q) /\ q \in pending' /\ disk'[p] = None
    BY <1>6, <1>7, <1>9, <1>10 DEF TInv, Types
  <1>13. ASSUME NEW b \in Bases, b # p, b # q PROVE BaseOK(b)'
    <2>1. SamePaths(b)
      BY <1>6, <1>9, <1>10, <1>13 DEF SamePaths, TInv, Types
    <2>2. SameCache(b)
      BY <1>6, <1>9, <1>10, <1>13 DEF SameCache, TInv, Types
    <2>3. intended'[b] = intended[b]
      BY <1>9, <1>13 DEF TInv, Types
    <2>4. disk'[b] = disk[b] /\ (b \in excused => b \in excused')
      <3>1. CASE RenameUser(h, q)
        <4>1. \/ disk' = [disk EXCEPT ![p] = None, ![q] = d] /\ excused' = excused \ {p, q}
              \/ disk' = [disk EXCEPT ![q] = d] /\ excused' = (excused \ {q}) \cup {p}
          BY <1>9, <3>1
        <4>2. disk \in [Paths -> Content] /\ b \in Paths
          BY BaseFacts DEF TInv, Types
        <4>3. disk'[b] = disk[b]
          BY <1>13, <4>1, <4>2
        <4> QED
          BY <1>13, <4>1, <4>3
      <3>2. CASE RenameOverlay(h, q)
        BY <1>10, <1>13, <3>2
      <3> QED
        BY <1>9, <3>1, <3>2
    <2>5. SameGhosts(b)
      BY <1>2, <2>3, <2>4 DEF SameGhosts
    <2> QED
      BY <1>1, <1>2, <1>4, <1>5, <1>6, <1>13, <2>1, <2>2, <2>5, Elsewhere
  <1>14. BaseOK(p)'
    <2>1. Ended(h, p)'
      BY <1>2, <1>7, <1>11, <1>12 DEF Ended
    <2> QED
      BY <1>2, <2>1, StagesThen
  <1>15. BaseOK(q)'
    <2>1. Latest(q, overlay[q])'
      BY <1>6, <1>9, <1>11 DEF Latest, Owned
    <2>2. New(q)'
      BY <1>2, <1>7, <1>9, <1>11, <1>12, <2>1 DEF New
    <2> QED
      BY <2>2, StagesThen
  <1> QED
    BY <1>13, <1>14, <1>15

(* flush_path_sync *)

\* flush_path_sync, one step of a thread that saves c: what the step makes of the rest.
LEMMA FlushElsewhere ==
  ASSUME TInv, TInv', NEW w \in Threads, Flushing(w), NEW b \in Bases, ~Saves(w, b), BaseOK(b)
  PROVE  BaseOK(b)'
  <1>1. PICK p : p = job[w].path
    OBVIOUS
  <1>2. job[w].at # "idle" /\ p \in Paths /\ Touched(w) /\ UNCHANGED <<client, batch, intended, torn>>
    BY <1>1, FlushRuns DEF TInv, JobShape
  <1>3. Base(p) # b /\ Base(p) \in Paths /\ Base(Base(p)) = Base(p)
    BY <1>1, <1>2, BaseFacts DEF Saves
  <1>4. PICK j : JobStep(w, j)
    BY JobSteps DEF Flushing
  <1>5. j.at = "idle" \/ j.path = p
    <2>1. job'[w] = j
      BY <1>4 DEF JobStep, TInv, Types
    <2>2. job'[w].at = "idle" \/ job'[w].path = p
      BY <1>1, RestFacts DEF Flushing, FlushBegin, FlushConvert, GivesUp, FlushPut, FlushUnmap,
           FlushRepack, FlushReload, CommitDrop, CommitCache,
           FlushStore, FlushStored, AfterSource, Goes, Steps, TInv, Types, Task
    <2> QED
      BY <2>1, <2>2
  <1>6. SameJobs(b)
    BY <1>3, <1>4, <1>5, JobElsewhere
  <1>7. SameHandles(b) /\ SameBatch(b)
    BY <1>2 DEF SameHandles, SameBatch, client
  <1>8. \A q \in Paths : Base(q) = b => (q \in pending' <=> q \in pending)
    BY <1>1, <1>2, <1>3, BaseFacts DEF Flushing, FlushBegin, FlushConvert, GivesUp, FlushPut, FlushUnmap,
           FlushRepack, FlushReload, CommitDrop, CommitCache,
           FlushStore, FlushStored
  <1>9. \A q \in Paths : Base(q) = b => overlay'[q] = overlay[q]
    BY <1>1, <1>2, <1>3, BaseFacts DEF Flushing, FlushBegin, FlushConvert, GivesUp, FlushPut, FlushUnmap,
           FlushRepack, FlushReload, CommitDrop, CommitCache,
           FlushStore, FlushStored, TInv, Types
  <1>10. \A q \in Paths : Base(q) = b => cache'[q] = cache[q]
    BY <1>1, <1>2, <1>3, BaseFacts DEF Flushing, FlushBegin, FlushConvert, GivesUp, FlushPut, FlushUnmap,
           FlushRepack, FlushReload, CommitDrop, CommitCache,
           FlushStore, FlushStored, TInv, Types
  <1>11. disk'[b] = disk[b]
    BY <1>1, <1>2, <1>3, BaseFacts DEF Flushing, FlushBegin, FlushConvert, GivesUp, FlushPut, FlushUnmap,
           FlushRepack, FlushReload, CommitDrop, CommitCache,
           FlushStore, FlushStored, TInv, Types, JobShape
  <1>12. b \in excused => b \in excused'
    BY DEF Flushing, FlushBegin, FlushConvert, GivesUp, FlushPut, FlushUnmap,
           FlushRepack, FlushReload, CommitDrop, CommitCache,
           FlushStore, FlushStored, Fails
  <1>13. b \in raced => b \in raced'
    BY <1>2 DEF Touched, Disturbs
  <1>14. SamePaths(b) /\ SameCache(b) /\ SameGhosts(b)
    BY <1>2, <1>8, <1>9, <1>10, <1>11, <1>12, <1>13 DEF SamePaths, SameCache, SameGhosts, client
  <1> QED
    BY <1>6, <1>7, <1>14, BaseFrame DEF Untouched

\* What every step of a save leaves as it was, for the base it saves.
LEMMA FlushFacts ==
  ASSUME TInv, TInv', NEW w \in Threads, Flushing(w), NEW p \in Paths, job[w].path = p,
         NEW d, job[w].data = d, BaseOK(Base(p))
  PROVE  /\ Base(p) \in Bases /\ Saves(w, Base(p)) /\ InSave(Base(p)) /\ JobOK(w) /\ Latest(p, d) /\ Latest(p, d)'
         /\ UNCHANGED <<client, batch, intended, torn>> /\ Touched(w)
         /\ pending' \subseteq pending
         /\ \A q \in Paths : overlay'[q] \in {overlay[q], None}
         /\ \A v \in Threads \ {w} : job'[v] = job[v]
         /\ \A v \in Threads : Saves(v, Base(p))' => v = w
         /\ Base(p) \in excused => Base(p) \in excused'
         /\ Base(p) \in raced => Base(p) \in raced'
         /\ disk'[Base(p)] \in {disk[Base(p)], d}
         /\ \A q \in Paths : overlay[q] # None /\ Base(q) = Base(p) /\ Latest(q, overlay[q])
              => Latest(q, overlay[q])' \/ overlay'[q] = None
  <1>1. job[w].at # "idle" /\ Touched(w) /\ UNCHANGED <<client, batch, intended, torn>>
    BY FlushRuns
  <1>2. Base(p) \in Bases /\ Base(p) \in Paths /\ Saves(w, Base(p))
    BY <1>1, BaseFacts DEF Saves
  <1>3. Saving(Base(p))
    BY <1>2, WritingFacts
  <1>4. InSave(Base(p)) /\ JobOK(w)
    BY <1>2, <1>3, SavedIsInSave DEF InSave, JobsOK
  <1>5. Latest(p, d)
    BY <1>4 DEF JobOK
  <1>6. excused' = excused \/ Fails(w)
    BY DEF Flushing, FlushBegin, FlushConvert, GivesUp, FlushPut, FlushUnmap,
           FlushRepack, FlushReload, CommitDrop, CommitCache,
           FlushStore, FlushStored
  <1>7. \A b \in Bases : b \in excused => b \in excused'
    BY <1>6 DEF Fails
  <1>8. Latest(p, d)'
    BY <1>1, <1>2, <1>5, <1>7 DEF Latest, Owned, client
  <1>9. pending' \subseteq pending
    BY DEF Flushing, FlushBegin, FlushConvert, GivesUp, FlushPut, FlushUnmap,
           FlushRepack, FlushReload, CommitDrop, CommitCache,
           FlushStore, FlushStored
  <1>10. \A q \in Paths : overlay'[q] \in {overlay[q], None}
    BY DEF Flushing, FlushBegin, FlushConvert, GivesUp, FlushPut, FlushUnmap,
           FlushRepack, FlushReload, CommitDrop, CommitCache,
           FlushStore, FlushStored, TInv, Types
  <1>11. PICK j : JobStep(w, j)
    BY JobSteps DEF Flushing
  <1>12. \A v \in Threads \ {w} : job'[v] = job[v]
    BY <1>11 DEF JobStep, TInv, Types
  <1>13. \A v \in Threads : Saves(v, Base(p)) => v = w
    BY <1>4 DEF JobOK
  <1>14. \A v \in Threads : Saves(v, Base(p))' => v = w
    BY <1>12, <1>13 DEF Saves
  <1>15. Base(p) \in raced => Base(p) \in raced'
    BY <1>1 DEF Touched, Disturbs
  <1>16. disk' = disk \/ disk' = [disk EXCEPT ![Base(p)] = d] \/ disk' = [disk EXCEPT ![p] = d]
    BY DEF Flushing, FlushBegin, FlushConvert, GivesUp, FlushPut, FlushUnmap,
           FlushRepack, FlushReload, CommitDrop, CommitCache,
           FlushStore, FlushStored
  <1>17. disk'[Base(p)] \in {disk[Base(p)], d}
    BY <1>2, <1>16 DEF TInv, Types
  <1>18. \A q \in Paths : overlay[q] # None /\ Base(q) = Base(p) /\ Latest(q, overlay[q])
              => Latest(q, overlay[q])' \/ overlay'[q] = None
    BY <1>1, <1>2, <1>7, <1>10 DEF Latest, Owned, client
  <1> QED
    BY <1>1, <1>2, <1>4, <1>5, <1>7, <1>8, <1>9, <1>10, <1>12, <1>14, <1>15, <1>17, <1>18

\* A save that goes on.
LEMMA FlushStays ==
  ASSUME TInv, TInv', NEW w \in Threads, Flushing(w), NEW p \in Paths, job[w].path = p, BaseOK(Base(p)),
         job'[w].at # "idle"
  PROVE  BaseOK(Base(p))'
  <1>1. PICK d, c : d = job[w].data /\ c = Base(p)
    OBVIOUS
  <1>2. /\ c \in Bases /\ Saves(w, c) /\ InSave(c) /\ JobOK(w) /\ Latest(p, d) /\ Latest(p, d)'
        /\ UNCHANGED <<client, batch, intended, torn>>
        /\ pending' \subseteq pending
        /\ \A q \in Paths : overlay'[q] \in {overlay[q], None}
        /\ \A v \in Threads \ {w} : job'[v] = job[v]
        /\ \A v \in Threads : Saves(v, c)' => v = w
        /\ c \in excused => c \in excused'
        /\ c \in raced => c \in raced'
        /\ disk'[c] \in {disk[c], d}
        /\ \A q \in Paths : overlay[q] # None /\ Base(q) = c /\ Latest(q, overlay[q])
              => Latest(q, overlay[q])' \/ overlay'[q] = None
    BY <1>1, FlushFacts
  <1>3. job[w] \in Task /\ job[w].at # "idle" /\ job' \in [Threads -> Task] /\ job \in [Threads -> Task]
    BY <1>2 DEF TInv, Types, Saves
  <1>4. job'[w].path = p /\ job'[w].data = d
    BY <1>1, <1>3, RestFacts DEF Flushing, FlushBegin, FlushConvert, GivesUp, FlushPut, FlushUnmap,
           FlushRepack, FlushReload, CommitDrop, CommitCache, FlushStore, FlushStored, AfterSource, Goes,
           Steps, Task
  <1>5. job'[w].at \in {"drop", "cache", "stored"} /\ c \notin excused' => disk'[c] = d
    <2>1. CASE \/ FlushBegin(w) \/ FlushConvert(w) \/ FlushPut(w) \/ FlushUnmap(w)
               \/ CommitCache(w) \/ FlushStored(w)
      <3>1. job'[w].at \notin {"drop", "cache", "stored"}
        BY <1>3, <2>1, RestFacts DEF FlushBegin, FlushConvert, FlushPut, FlushUnmap, CommitCache, FlushStored,
           Goes, Steps, Task
      <3> QED
        BY <3>1
    <2>2. CASE FlushRepack(w) \/ GivesUp(w)
      <3>1. CASE Fails(w)
        BY <1>1, <3>1 DEF Fails
      <3>2. CASE ~Fails(w)
        <4>1. Goes(w, "reload")
          BY <2>2, <3>2 DEF FlushRepack, GivesUp
        <4>2. job'[w].at = "reload"
          BY <1>3, <4>1 DEF Goes, Steps, Task
        <4> QED
          BY <4>2
      <3> QED
        BY <3>1, <3>2
    <2>5. CASE FlushReload(w)
      BY <1>1, <1>2, <2>5, BaseFacts DEF FlushReload, TInv, Types
    <2>3. CASE CommitDrop(w)
      BY <1>1, <1>2, <2>3 DEF CommitDrop, JobOK, At
    <2>4. CASE FlushStore(w)
      <3>1. p \in User /\ c = p
        BY <1>1, <2>4, BaseFacts DEF FlushStore, At, TInv, JobShape
      <3>2. disk' = [disk EXCEPT ![p] = d] \/ job'[w] = Idle
        BY <1>1, <1>3, <2>4 DEF FlushStore, Steps
      <3> QED
        BY <1>2, <3>1, <3>2, RestFacts DEF TInv, Types
    <2> QED
      BY <2>1, <2>2, <2>3, <2>4, <2>5 DEF Flushing
  <1>6. job'[w].at \in {"unmap", "repack", "reload", "drop", "cache"} /\ c \notin raced' /\ c \notin excused'
          => cache'[c] \in {None, d}
    <2>1. CASE FlushBegin(w) \/ FlushConvert(w) \/ FlushStore(w) \/ CommitCache(w) \/ FlushStored(w)
      <3>1. job'[w].at \notin {"unmap", "repack", "reload", "drop", "cache"}
        BY <1>3, <2>1, RestFacts DEF FlushBegin, FlushConvert, FlushStore, CommitCache, FlushStored, Goes, Steps, Task
      <3> QED
        BY <3>1
    <2>2. CASE FlushPut(w)
      <3>1. cache' = [cache EXCEPT ![c] = d]
        BY <1>1, <2>2 DEF FlushPut
      <3> QED
        BY <1>2, <3>1, BaseFacts DEF TInv, Types
    <2>3. CASE FlushUnmap(w) \/ FlushRepack(w) \/ FlushReload(w) \/ CommitDrop(w)
      BY <1>1, <1>2, <2>3 DEF FlushUnmap, FlushRepack, FlushReload, CommitDrop, JobOK, At
    <2>4. CASE GivesUp(w)
      BY <1>1, <2>4 DEF GivesUp, Fails
    <2> QED
      BY <2>1, <2>2, <2>3, <2>4 DEF Flushing
  <1>7. Saves(w, c)'
    BY <1>1, <1>4 DEF Saves
  <1>8. JobOK(w)'
    <2>1. Latest(job[w].path, job[w].data)'
      BY <1>2, <1>4 DEF Latest, Owned
    <2> QED
      BY <1>1, <1>2, <1>4, <1>5, <1>6, <2>1 DEF JobOK
  <1>9. JobsOK(c)' /\ Saving(c)'
    BY <1>2, <1>7, <1>8 DEF JobsOK, Saving, Saves
  <1>10. ShippedOK(c)'
    BY <1>2 DEF ShippedOK, InSave, Latest
  <1>11. InSave(c)'
    BY <1>2, <1>9, <1>10 DEF InSave, About, client
  <1> QED
    BY <1>1, <1>2, <1>11, StagesThen

\* A save that ends.
LEMMA FlushEnds ==
  ASSUME TInv, TInv', NEW w \in Threads, Flushing(w), NEW p \in Paths, job[w].path = p, BaseOK(Base(p)),
         job'[w].at = "idle"
  PROVE  BaseOK(Base(p))'
  <1>1. PICK d, c : d = job[w].data /\ c = Base(p)
    OBVIOUS
  <1>2. /\ c \in Bases /\ Saves(w, c) /\ InSave(c) /\ JobOK(w) /\ Latest(p, d) /\ Latest(p, d)'
        /\ UNCHANGED <<client, batch, intended, torn>> /\ Touched(w)
        /\ pending' \subseteq pending
        /\ \A q \in Paths : overlay'[q] \in {overlay[q], None}
        /\ \A v \in Threads : Saves(v, c)' => v = w
        /\ c \in excused => c \in excused'
        /\ c \in raced => c \in raced'
        /\ disk'[c] \in {disk[c], d}
        /\ \A q \in Paths : overlay[q] # None /\ Base(q) = c /\ Latest(q, overlay[q])
              => Latest(q, overlay[q])' \/ overlay'[q] = None
    BY <1>1, FlushFacts
  <1>3. job[w] \in Task /\ job' \in [Threads -> Task] /\ job \in [Threads -> Task]
    BY DEF TInv, Types
  <1>4. \A v \in Threads : ~Saves(v, c)'
    BY <1>2 DEF Saves
  <1>5. JobsOK(c)' /\ ~Saving(c)'
    BY <1>4 DEF JobsOK, Saving, Saves
  <1>6. PathsOK(c)'
    <2> SUFFICES ASSUME NEW q \in Paths, Base(q) = c PROVE PathOK(q)'
      BY DEF PathsOK
    <2>1. q \notin pending' /\ q \notin batch'.todo /\ (overlay'[q] # None => Latest(q, overlay[q])')
      BY <1>2 DEF InSave
    <2> QED
      BY <2>1 DEF PathOK
  <1>7. c \notin excused' => intended'[c] # None /\ d = intended'[c]
    BY <1>1, <1>2 DEF Latest
  <1>8. HandlesOK(c)'
    <2> SUFFICES ASSUME NEW g \in Handles, About(g, c)' PROVE WriterOK(g)' /\ ReaderOK(g)'
      BY DEF HandlesOK
    <2>1. handle'[g] = handle[g] /\ About(g, c) /\ Base(handle[g].path) = c
      BY <1>2 DEF About, client
    <2>2. /\ ~handle[g].wrote /\ handle[g].at # "forget"
          /\ handle[g].at = "put" => handle[g].snap # None
      BY <1>2, <2>1 DEF InSave
    <2>3. handle[g].at = "put" => c \in raced'
      BY <1>1, <1>2, <2>1 DEF Touched, Disturbs, Decoding
    <2> QED
      BY <1>7, <2>1, <2>2, <2>3 DEF WriterOK, ReaderOK
  <1>9. c \notin excused' =>
          /\ disk'[c] = d
          /\ c \notin raced' => \A q \in Paths : Base(q) = c /\ Fresh(q)' => cache'[q] \in {None, d}
    <2>1. CASE FlushBegin(w) \/ FlushPut(w) \/ FlushUnmap(w) \/ CommitDrop(w)
      <3>1. job'[w].at # "idle"
        BY <1>3, <2>1 DEF FlushBegin, FlushPut, FlushUnmap, CommitDrop, Goes, Steps, Task
      <3> QED
        BY <3>1
    <2>2. CASE FlushConvert(w)
      <3>1. Goes(w, "put") => job'[w].at = "put"
        BY <1>3 DEF Goes, Steps, Task
      <3>2. Fails(w)
        BY <2>2, <3>1 DEF FlushConvert
      <3> QED
        BY <1>1, <3>2 DEF Fails
    <2>7. CASE FlushRepack(w) \/ GivesUp(w)
      <3>1. Goes(w, "reload") => job'[w].at = "reload"
        BY <1>3 DEF Goes, Steps, Task
      <3>2. Fails(w)
        BY <2>7, <3>1 DEF FlushRepack, GivesUp
      <3> QED
        BY <1>1, <3>2 DEF Fails
    <2>3. CASE FlushReload(w)
      <3>1. job[w].at = "reload" /\ p \notin Views
        BY <1>1, <1>3, <2>3 DEF FlushReload, AfterSource, Goes, Steps, Task, At
      <3>2. p \in Shipped /\ c = p
        BY <1>1, <3>1, BaseFacts DEF TInv, JobShape
      <3>3. disk'[c] = d
        BY <1>1, <1>2, <2>3, BaseFacts DEF FlushReload, TInv, Types
      <3>4. c \notin excused' /\ c \notin raced' => cache'[c] \in {None, d}
        BY <1>1, <1>2, <2>3, <3>1 DEF FlushReload, JobOK
      <3>5. \A q \in Paths : Base(q) = c /\ Fresh(q)' => q = c
        BY <1>2, <3>2, BaseFacts DEF Fresh, Latest, Owned, client
      <3> QED
        BY <3>3, <3>4, <3>5
    <2>4. CASE CommitCache(w)
      <3>1. job[w].at = "cache" /\ p \in Views /\ p # c
        BY <1>1, <1>2, <2>4, BaseFacts DEF CommitCache, At, TInv, JobShape
      <3>2. disk' = disk /\ excused' = excused /\ cache' = [cache EXCEPT ![p] = d]
        BY <1>1, <2>4 DEF CommitCache
      <3>3. c \notin excused' => disk'[c] = d
        BY <1>1, <1>2, <3>1, <3>2 DEF JobOK
      <3>4. c \notin excused' /\ c \notin raced' => cache[c] \in {None, d}
        BY <1>1, <1>2, <3>1 DEF JobOK
      <3>5. \A q \in Paths : Base(q) = c /\ Fresh(q)' => q = c \/ q = p
        BY <1>1, <1>2, <3>1, BaseFacts DEF Fresh, Latest, Owned, client
      <3>6. cache'[p] = d /\ cache'[c] = cache[c]
        BY <1>2, <3>1, <3>2, BaseFacts DEF TInv, Types
      <3> QED
        BY <3>3, <3>4, <3>5, <3>6
    <2>5. CASE FlushStore(w)
      <3>1. Goes(w, "stored") => job'[w].at = "stored"
        BY <1>3 DEF Goes, Steps, Task
      <3>2. Fails(w)
        BY <2>5, <3>1 DEF FlushStore
      <3> QED
        BY <1>1, <3>2 DEF Fails
    <2>6. CASE FlushStored(w)
      <3>1. job[w].at = "stored" /\ p \in User /\ p = c
        BY <1>1, <2>6, BaseFacts DEF FlushStored, At, TInv, JobShape
      <3>2. disk' = disk /\ excused' = excused /\ cache' = [cache EXCEPT ![p] = d]
        BY <1>1, <2>6 DEF FlushStored
      <3>3. c \notin excused' => disk'[c] = d
        BY <1>1, <1>2, <3>1, <3>2 DEF JobOK
      <3>4. \A q \in Paths : Base(q) = c => q = c
        BY <3>1, BaseFacts DEF Paths
      <3>5. cache'[c] = d
        BY <3>1, <3>2 DEF TInv, Types
      <3> QED
        BY <3>3, <3>4, <3>5
    <2> QED
      BY <2>1, <2>2, <2>3, <2>4, <2>5, <2>6, <2>7 DEF Flushing
  <1>10. CleanOK(c)'
    BY <1>7, <1>9 DEF CleanOK
  <1>11. ShippedOK(c)'
    BY <1>2 DEF ShippedOK, InSave, Latest
  <1> QED
    BY <1>1, <1>5, <1>6, <1>8, <1>10, <1>11 DEF BaseOK

LEMMA FlushKeeps ==
  ASSUME TInv, TInv', NEW w \in Threads, Flushing(w), \A b \in Bases : BaseOK(b)
  PROVE  \A b \in Bases : BaseOK(b)'
  <1>1. PICK p : p = job[w].path
    OBVIOUS
  <1>2. p \in Paths /\ Base(p) \in Bases
    BY <1>1, FlushRuns, BaseFacts DEF TInv, JobShape
  <1>3. BaseOK(Base(p))'
    BY <1>1, <1>2, FlushStays, FlushEnds
  <1>4. ASSUME NEW b \in Bases, b # Base(p) PROVE BaseOK(b)'
    BY <1>1, <1>4, FlushElsewhere DEF Saves
  <1> QED
    BY <1>3, <1>4

(* The TUI *)

LEMMA SaveTakeKeeps ==
  ASSUME TInv, TInv', Habits = {}, SaveTake, \A b \in Bases : BaseOK(b)
  PROVE  \A b \in Bases : BaseOK(b)'
  <1>1. /\ batch = NoBatch /\ overlay' = Nothing /\ UNCHANGED <<pending, cache, disk, client, job, ghosts>>
        /\ \A h \in Handles : ~handle[h].wrote /\ handle[h].at # "forget"
    BY DEF SaveTake
  <1>2. batch'.at = "marks" /\ batch'.snap = overlay /\ batch'.todo = {}
    BY <1>1, RestFacts DEF SaveTake, NoBatch
  <1>3. batch.at = "idle" /\ batch.todo = {} /\ \A p \in Paths : overlay'[p] = None
    BY <1>1, RestFacts
  <1>4. ASSUME NEW b \in Bases PROVE BaseOK(b)'
    <2>1. BaseOK(b) /\ HandlesOK(b) /\ PathsOK(b) /\ JobsOK(b) /\ CleanOK(b) /\ ShippedOK(b)
      BY DEF BaseOK
    <2>2. SameJobs(b) /\ SameGhosts(b) /\ SameCache(b)
      BY <1>1 DEF SameJobs, SameGhosts, SameCache, client, ghosts
    <2>3. Saving(b)' <=> Saving(b)
      BY <1>1 DEF Saving
    <2>4. Underway(b)' <=> Underway(b)
      BY <1>1, <1>2, <1>3, <2>3 DEF Underway, Writing, client
    <2>5. JobsOK(b)' /\ CleanOK(b)' /\ ShippedOK(b)'
      BY <2>1, <2>2, <2>4, JobsFrame, CleanFrame, ShippedFrame DEF StillUnderway
    <2>6. HandlesOK(b)'
      BY <1>1, <2>1, <2>4 DEF HandlesOK, WriterOK, ReaderOK, About, client, ghosts
    <2>7. PathsOK(b)'
      <3> SUFFICES ASSUME NEW p \in Paths, Base(p) = b PROVE PathOK(p)'
        BY DEF PathsOK
      <3>1. ~Forgotten(p)
        BY <1>1 DEF Forgotten
      <3>2. p \in pending => ~Saving(b) /\ Latest(p, overlay[p])
        BY <1>3, <2>1, <3>1 DEF PathsOK, PathOK
      <3>3. p \in pending => Latest(p, batch.snap[p])'
        BY <1>1, <1>2, <3>2 DEF Latest, Owned, client, ghosts
      <3> QED
        BY <1>1, <1>2, <1>3, <2>3, <3>2, <3>3 DEF PathOK
    <2> QED
      BY <2>5, <2>6, <2>7 DEF BaseOK
  <1> QED
    BY <1>4

LEMMA SaveMarksKeeps ==
  ASSUME TInv, TInv', SaveMarks, \A b \in Bases : BaseOK(b)
  PROVE  \A b \in Bases : BaseOK(b)'
  <1>1. /\ batch.at = "marks" /\ pending' = {} /\ UNCHANGED <<overlay, cache, disk, client, job, ghosts>>
    BY DEF SaveMarks
  <1>2. batch'.at = "work" /\ batch'.snap = batch.snap /\ batch'.todo = {p \in pending : batch.snap[p] # None}
    BY DEF SaveMarks, TInv, Types, Taken
  <1>3. batch.todo = {} /\ pending \subseteq Paths
    BY <1>1 DEF TInv, Types
  <1>4. \A p \in pending : Latest(p, batch.snap[p]) /\ ~Saving(Base(p))
    <2>1. \A p \in pending : PathsOK(Base(p)) /\ p \in Paths
      BY <1>3, BaseFacts DEF BaseOK
    <2> QED
      BY <1>1, <2>1 DEF PathsOK, PathOK
  <1>5. batch'.todo = pending
    BY <1>2, <1>4 DEF Latest
  <1>6. Batching /\ Batching'
    BY <1>1, <1>2 DEF Batching
  <1>7. ASSUME NEW b \in Bases PROVE BaseOK(b)'
    <2>1. BaseOK(b) /\ HandlesOK(b) /\ PathsOK(b) /\ JobsOK(b) /\ CleanOK(b) /\ ShippedOK(b)
      BY DEF BaseOK
    <2>2. SameJobs(b) /\ SameGhosts(b) /\ SameCache(b)
      BY <1>1 DEF SameJobs, SameGhosts, SameCache, client, ghosts
    <2>3. Saving(b)' <=> Saving(b)
      BY <1>1 DEF Saving
    <2>4. Underway(b)' <=> Underway(b)
      BY <1>1, <1>3, <1>5, <2>3 DEF Underway, Writing, client
    <2>5. JobsOK(b)' /\ CleanOK(b)' /\ ShippedOK(b)'
      BY <2>1, <2>2, <2>4, JobsFrame, CleanFrame, ShippedFrame DEF StillUnderway
    <2>6. \A h \in Handles : About(h, b) => ~handle[h].wrote /\ handle[h].at # "forget"
      BY <1>6, <2>1 DEF HandlesOK, WriterOK, ReaderOK
    <2>7. HandlesOK(b)'
      BY <1>1, <2>1, <2>4, <2>6 DEF HandlesOK, WriterOK, ReaderOK, About, client, ghosts
    <2>8. PathsOK(b)'
      <3> SUFFICES ASSUME NEW p \in Paths, Base(p) = b PROVE PathOK(p)'
        BY DEF PathsOK
      <3>1. PathOK(p) /\ (Forgotten(p)' <=> Forgotten(p))
        BY <1>1, <2>1 DEF PathsOK, Forgotten, client
      <3>2. \A d : Latest(p, d) => Latest(p, d)'
        BY <1>1 DEF Latest, Owned, client, ghosts
      <3>3. overlay'[p] # None => Latest(p, overlay[p])' \/ Forgotten(p)'
        BY <1>1, <3>1 DEF PathOK, Latest, Owned, client, ghosts
      <3>4. p \in pending => Latest(p, batch.snap[p])'
        BY <1>1, <1>2, <1>4 DEF Latest, Owned, client, ghosts
      <3> QED
        BY <1>1, <1>4, <1>5, <2>3, <3>3, <3>4 DEF PathOK
    <2> QED
      BY <2>5, <2>7, <2>8 DEF BaseOK
  <1> QED
    BY <1>7

LEMMA SaveNextKeeps ==
  ASSUME TInv, TInv', NEW w \in Threads, SaveNext(w), \A b \in Bases : BaseOK(b)
  PROVE  \A b \in Bases : BaseOK(b)'
  <1>1. batch.at = "work" /\ Batching /\ UNCHANGED <<stores, client, ghosts>> /\ \A v \in Threads : job[v] = Idle
    BY DEF SaveNext, Batching
  <1>2. pending = {}
    <2>1. \A p \in pending : p \in Paths /\ PathsOK(Base(p))
      BY BaseFacts DEF TInv, Types, BaseOK
    <2> QED
      BY <1>1, <2>1 DEF PathsOK, PathOK
  <1>3. \A h \in Handles : ~handle[h].wrote /\ handle[h].at # "forget"
    <2> SUFFICES ASSUME NEW h \in Handles, handle[h].at # "closed"
                 PROVE  ~handle[h].wrote /\ handle[h].at # "forget"
      BY DEF TInv, HandleShape
    <2>1. handle[h].path \in Paths /\ Base(handle[h].path) \in Bases
      BY BaseFacts DEF TInv, HandleShape
    <2>2. WriterOK(h) /\ ReaderOK(h)
      BY <2>1 DEF BaseOK, HandlesOK, About
    <2> QED
      BY <1>1, <2>2 DEF WriterOK, ReaderOK
  <1>4. \A v \in Threads : \A b \in Bases : ~Saves(v, b)
    BY <1>1, RestFacts DEF Saves
  <1>5. CASE batch.todo = {}
    <2>1. batch' = NoBatch /\ job' = job
      BY <1>5 DEF SaveNext
    <2>2. batch'.at = "idle" /\ batch'.todo = {} /\ ~Batching'
      BY <2>1, RestFacts DEF Batching
    <2>3. ASSUME NEW b \in Bases PROVE BaseOK(b)'
      <3>1. BaseOK(b) /\ HandlesOK(b) /\ PathsOK(b) /\ JobsOK(b) /\ CleanOK(b) /\ ShippedOK(b)
        BY DEF BaseOK
      <3>2. SameJobs(b) /\ SameGhosts(b) /\ SameCache(b) /\ (Saving(b)' <=> Saving(b))
        BY <1>1, <2>1 DEF SameJobs, SameGhosts, SameCache, Saving, stores, client, ghosts
      <3>3. Underway(b)' <=> Underway(b)
        BY <1>1, <1>5, <2>2, <3>2 DEF Underway, Writing, stores, client
      <3>4. JobsOK(b)' /\ CleanOK(b)' /\ ShippedOK(b)'
        BY <3>1, <3>2, <3>3, JobsFrame, CleanFrame, ShippedFrame DEF StillUnderway
      <3>5. HandlesOK(b)'
        BY <1>1, <1>3, <3>1, <3>3 DEF HandlesOK, WriterOK, ReaderOK, About, stores, client, ghosts
      <3>6. PathsOK(b)'
        BY <1>1, <1>2, <1>3, <2>2, <3>1 DEF PathsOK, PathOK, Forgotten, Latest, Owned, stores, client, ghosts
      <3> QED
        BY <3>4, <3>5, <3>6 DEF BaseOK
    <2> QED
      BY <2>3
  <1>6. CASE batch.todo # {}
    <2>1. PICK p \in batch.todo :
            /\ batch' = [batch EXCEPT !.todo = batch.todo \ {p}]
            /\ job' = [job EXCEPT ![w] = [Idle EXCEPT !.at = "begin", !.path = p, !.data = batch.snap[p]]]
      BY <1>6 DEF SaveNext, Steps
    <2>2. PICK d, c : d = batch.snap[p] /\ c = Base(p)
      OBVIOUS
    <2>3. batch.todo \subseteq Paths /\ p \in Paths /\ c \in Bases
      BY <2>1, <2>2, BaseFacts DEF TInv, Types, Taken
    <2>4. batch'.at = batch.at /\ batch'.snap = batch.snap /\ batch'.todo = batch.todo \ {p}
      BY <2>1 DEF TInv, Types, Taken
    <2>5. /\ job'[w].at = "begin" /\ job'[w].path = p /\ job'[w].data = d
          /\ \A v \in Threads \ {w} : job'[v] = job[v]
      BY <2>1, <2>2 DEF TInv, Types, Idle
    <2>6. ASSUME NEW b \in Bases, b # c PROVE BaseOK(b)'
      <3>1. SameHandles(b) /\ SamePaths(b) /\ SameGhosts(b) /\ SameCache(b)
        BY <1>1 DEF SameHandles, SamePaths, SameGhosts, SameCache, stores, client, ghosts
      <3>2. SameJobs(b)
        BY <1>4, <2>2, <2>5, <2>6 DEF SameJobs, Saves
      <3>3. SameBatch(b)
        BY <2>2, <2>4, <2>6 DEF SameBatch
      <3> QED
        BY <3>1, <3>2, <3>3, BaseFrame DEF Untouched
    <2>7. InSave(c)'
      <3>1. PathsOK(c) /\ ShippedOK(c) /\ HandlesOK(c)
        BY <2>3 DEF BaseOK
      <3>2. Latest(p, d) /\ \A q \in Paths : Base(q) = c /\ q \in batch.todo => Latest(q, batch.snap[q])
        BY <2>1, <2>2, <2>3, <3>1 DEF PathsOK, PathOK
      <3>3. \A q \in Paths : Base(q) = c /\ q \in batch.todo => q = p
        BY <2>2, <2>3, <3>2, Solo DEF Latest
      <3>4. Saving(c)' /\ \A v \in Threads : Saves(v, c)' => v = w
        BY <1>4, <2>2, <2>3, <2>5 DEF Saving, Saves
      <3>5. Latest(job[w].path, job[w].data)'
        BY <1>1, <2>5, <3>2 DEF Latest, Owned, client, ghosts
      <3>6. JobsOK(c)'
        BY <2>2, <2>5, <3>4, <3>5 DEF JobsOK, JobOK
      <3>7. ASSUME NEW q \in Paths, Base(q) = c
            PROVE  /\ q \notin pending' /\ q \notin batch'.todo
                   /\ overlay'[q] # None => Latest(q, overlay[q])'
        <4>1. overlay[q] # None => Latest(q, overlay[q])
          BY <1>3, <3>1, <3>7 DEF PathsOK, PathOK, Forgotten
        <4> QED
          BY <1>1, <1>2, <2>4, <3>3, <3>7, <4>1 DEF Latest, Owned, stores, client, ghosts
      <3>8. ShippedOK(c)'
        BY <1>1, <3>1 DEF ShippedOK, stores, ghosts
      <3>9. \A g \in Handles : About(g, c)' =>
              /\ ~handle'[g].wrote /\ handle'[g].at # "forget"
              /\ handle'[g].at = "put" => handle'[g].snap # None
        BY <1>1, <1>3, <3>1 DEF HandlesOK, ReaderOK, About, client
      <3> QED
        BY <3>4, <3>6, <3>7, <3>8, <3>9 DEF InSave
    <2>8. BaseOK(c)'
      BY <2>3, <2>7, StagesThen
    <2> QED
      BY <2>6, <2>8
  <1> QED
    BY <1>5, <1>6

LEMMA QuitKeeps ==
  ASSUME TInv, TInv', Habits = {}, Quit, \A b \in Bases : BaseOK(b)
  PROVE  \A b \in Bases : BaseOK(b)'
  <1>1. /\ batch = NoBatch /\ overlay' = Nothing /\ pending' = {} /\ cache' = Nothing
        /\ UNCHANGED <<client, batch, raced, torn>> /\ \A b \in Bases : disk'[b] = disk[b]
        /\ \A h \in Handles : handle[h] = Closed
        /\ \A w \in Threads : job[w] = Idle /\ job'[w] = Idle
        /\ excused' = excused \cup {Base(p) : p \in pending}
        /\ \A b \in Bases : intended'[b] = (IF b \in pending THEN disk[b] ELSE intended[b])
    BY QuitDisk DEF Quit
  <1>2. batch.at = "idle" /\ batch.todo = {} /\ Closed.at = "closed" /\ ~Closed.wrote /\ Idle.at = "idle"
    BY <1>1, RestFacts
  <1>3. \A p \in Paths : overlay'[p] = None /\ cache'[p] = None
    BY <1>1, RestFacts
  <1>4. ASSUME NEW b \in Bases PROVE BaseOK(b)'
    <2>1. CleanOK(b) /\ ShippedOK(b)
      BY DEF BaseOK
    <2>2. HandlesOK(b)' /\ JobsOK(b)'
      BY <1>1, <1>2 DEF HandlesOK, JobsOK, About, Saves, client
    <2>3. PathsOK(b)'
      BY <1>1, <1>2, <1>3 DEF PathsOK, PathOK
    <2>4. b \notin excused' => b \notin excused /\ ~Underway(b) /\ b \notin pending
      BY <1>1, <1>2, BaseFacts DEF Underway, Writing, Saving
    <2>5. CleanOK(b)'
      BY <1>1, <1>3, <2>1, <2>4 DEF CleanOK
    <2>6. ShippedOK(b)'
      BY <1>1, <2>1 DEF ShippedOK
    <2> QED
      BY <2>2, <2>3, <2>5, <2>6 DEF BaseOK
  <1> QED
    BY <1>4

LEMMA InitBases == Init => ~torn /\ \A b \in Bases : BaseOK(b)
  <1> SUFFICES ASSUME Init PROVE ~torn /\ \A b \in Bases : BaseOK(b)
    OBVIOUS
  <1>1. /\ \A h \in Handles : handle[h].at = "closed"
        /\ \A w \in Threads : job[w].at = "idle"
        /\ pending = {} /\ batch.todo = {} /\ batch.at = "idle" /\ ~torn
        /\ \A p \in Paths : overlay[p] = None /\ cache[p] = None
        /\ \A b \in Bases : intended[b] = disk[b]
    BY RestFacts DEF Init
  <1>2. ASSUME NEW b \in Bases PROVE BaseOK(b)
    <2>1. b \in Shipped => disk[b] # None
      BY ContentFacts, BaseFacts DEF Init
    <2>2. HandlesOK(b) /\ JobsOK(b) /\ PathsOK(b)
      BY <1>1 DEF HandlesOK, JobsOK, PathsOK, PathOK, About, Saves
    <2>3. CleanOK(b) /\ ShippedOK(b)
      BY <1>1, <2>1 DEF CleanOK, ShippedOK
    <2> QED
      BY <2>2, <2>3 DEF BaseOK
  <1> QED
    BY <1>1, <1>2

(* All steps *)

LEMMA NextTypes ==
  ASSUME Habits = {}, WInv, [Next]_vars
  PROVE  TInv'
  <1>1. TInv
    BY DEF WInv
  <1>2. ASSUME NEW h \in Handles, NEW p \in Paths, OpenHit(h, p) \/ OpenDecode(h, p) \/ Create(h, p) PROVE TInv'
    BY <1>1, <1>2, HandleActionTypes
  <1>3. ASSUME NEW h \in Handles,
               OpenPut(h) \/ Overwrite(h) \/ WriteApply(h) \/ ResizeApply(h) \/ Mark(h) \/ Close(h) \/ CloseClaim(h)
        PROVE  TInv'
    BY <1>1, <1>3, HandleActionTypes
  <1>4. ASSUME NEW h \in Handles, NEW kind \in {"write", "resize"}, Seed(h, kind) PROVE TInv'
    BY <1>1, <1>4, HandleActionTypes
  <1>5. ASSUME NEW h \in Handles, CleanupOverlay(h) \/ CleanupRemove(h) \/ CleanupForget(h) PROVE TInv'
    BY <1>1, <1>5, HandleActionTypes
  <1>6. ASSUME NEW h \in Handles, NEW q \in Paths, RenameUser(h, q) \/ RenameOverlay(h, q) PROVE TInv'
    <2>1. q \in User
      BY <1>6 DEF RenameUser, RenameOverlay, Renames
    <2> QED
      BY <1>1, <1>6, <2>1, HandleActionTypes
  <1>7. ASSUME NEW h \in Handles, CloseSpawn(h) PROVE TInv'
    BY <1>1, <1>7, SpawnTypes
  <1>8. ASSUME NEW w \in Threads, FlushStep(w) PROVE TInv'
    BY <1>1, <1>8, FlushTypes, SaveTypes DEF FlushStep, Flushing
  <1>9. CASE SaveTake \/ SaveMarks
    BY <1>1, <1>9, SaveTypes
  <1>10. CASE Quit
    BY <1>1, <1>10, QuitTypes
  <1>11. ASSUME NEW p \in Paths, Evict(p) PROVE TInv'
    BY <1>1, <1>11, EvictTypes
  <1>12. CASE UNCHANGED vars
    BY <1>1, <1>12 DEF vars, stores, client, ghosts, TInv, Types
  <1> QED
    BY <1>2, <1>3, <1>4, <1>5, <1>6, <1>7, <1>8, <1>9, <1>10, <1>11, <1>12 DEF Next

LEMMA NextBases ==
  ASSUME Habits = {}, WInv, [Next]_vars
  PROVE  ~torn' /\ \A b \in Bases : BaseOK(b)'
  <1>1. TInv /\ TInv' /\ ~torn /\ \A b \in Bases : BaseOK(b)
    BY NextTypes DEF WInv
  <1> USE <1>1
  <1>2. ASSUME NEW h \in Handles, NEW p \in Paths, OpenHit(h, p) \/ OpenDecode(h, p) \/ Create(h, p)
        PROVE  ~torn' /\ \A b \in Bases : BaseOK(b)'
    <2>1. ~torn'
      BY <1>2 DEF OpenHit, OpenDecode, Create, ghosts
    <2> QED
      BY <1>2, <2>1, OpenKeeps, CreateKeeps
  <1>3. ASSUME NEW h \in Handles, OpenPut(h) \/ Close(h) \/ Mark(h)
        PROVE  ~torn' /\ \A b \in Bases : BaseOK(b)'
    <2>1. ~torn'
      BY <1>3 DEF OpenPut, Close, Mark, ghosts
    <2> QED
      BY <1>3, <2>1, PutKeeps, CloseKeeps, MarkKeeps
  <1>4. ASSUME NEW h \in Handles, Overwrite(h) \/ WriteApply(h) \/ ResizeApply(h)
        PROVE  ~torn' /\ \A b \in Bases : BaseOK(b)'
    <2>1. ~torn'
      BY <1>4 DEF Overwrite, WriteApply, ResizeApply
    <2> QED
      BY <1>4, <2>1, OverwriteKeeps, ApplyKeeps
  <1>5. ASSUME NEW h \in Handles, NEW kind \in {"write", "resize"}, Seed(h, kind)
        PROVE  ~torn' /\ \A b \in Bases : BaseOK(b)'
    <2>1. ~torn'
      BY <1>5 DEF Seed, ghosts
    <2> QED
      BY <1>5, <2>1, SeedKeeps
  <1>6. ASSUME NEW h \in Handles, CloseClaim(h)
        PROVE  ~torn' /\ \A b \in Bases : BaseOK(b)'
    <2>1. ~torn'
      BY <1>6 DEF CloseClaim, ghosts
    <2> QED
      BY <1>6, <2>1, ClaimKeeps
  <1>7. ASSUME NEW h \in Handles, CloseSpawn(h)
        PROVE  ~torn' /\ \A b \in Bases : BaseOK(b)'
    BY <1>7, SpawnKeeps
  <1>8. ASSUME NEW h \in Handles, CleanupOverlay(h) \/ CleanupRemove(h) \/ CleanupForget(h)
        PROVE  ~torn' /\ \A b \in Bases : BaseOK(b)'
    <2>1. ~torn'
      BY <1>8 DEF CleanupOverlay, CleanupRemove, CleanupForget, ghosts
    <2> QED
      BY <1>8, <2>1, CleanupOverlayKeeps, CleanupRemoveKeeps, CleanupForgetKeeps
  <1>9. ASSUME NEW h \in Handles, NEW q \in Paths, RenameUser(h, q) \/ RenameOverlay(h, q)
        PROVE  ~torn' /\ \A b \in Bases : BaseOK(b)'
    <2>2. q \in User
      BY <1>9 DEF RenameUser, RenameOverlay, Renames
    <2>1. ~torn'
      BY <1>9 DEF RenameUser, RenameOverlay
    <2> QED
      BY <1>9, <2>1, <2>2, RenameKeeps
  <1>10. ASSUME NEW w \in Threads, FlushStep(w)
         PROVE  ~torn' /\ \A b \in Bases : BaseOK(b)'
    <2>1. Flushing(w) \/ SaveNext(w)
      BY <1>10 DEF FlushStep, Flushing
    <2>2. CASE SaveNext(w)
      <3>1. ~torn'
        BY <2>2 DEF SaveNext, ghosts
      <3> QED
        BY <2>2, <3>1, SaveNextKeeps
    <2>3. CASE Flushing(w)
      <3>1. ~torn'
        BY <2>3 DEF Flushing, FlushBegin, FlushConvert, GivesUp, FlushPut, FlushUnmap,
           FlushRepack, FlushReload, CommitDrop, CommitCache,
                    FlushStore, FlushStored
      <3> QED
        BY <2>3, <3>1, FlushKeeps
    <2> QED
      BY <2>1, <2>2, <2>3
  <1>11. CASE SaveTake \/ SaveMarks \/ Quit
    <2>1. ~torn'
      BY <1>11 DEF SaveTake, SaveMarks, Quit, ghosts
    <2> QED
      BY <1>11, <2>1, SaveTakeKeeps, SaveMarksKeeps, QuitKeeps
  <1>12. ASSUME NEW p \in Paths, Evict(p)
         PROVE  ~torn' /\ \A b \in Bases : BaseOK(b)'
    <2>1. ~torn'
      BY <1>12 DEF Evict, ghosts
    <2> QED
      BY <1>12, <2>1, EvictKeeps
  <1>13. CASE UNCHANGED vars
    <2>1. ~torn'
      BY <1>13 DEF vars, ghosts
    <2>2. \A b \in Bases : Untouched(b)
      BY <1>13 DEF vars, stores, client, ghosts, Untouched, SameHandles, SameJobs, SamePaths, SameBatch,
                   SameGhosts, SameCache
    <2> QED
      BY <2>1, <2>2, BaseFrame
  <1> QED
    BY <1>2, <1>3, <1>4, <1>5, <1>6, <1>7, <1>8, <1>9, <1>10, <1>11, <1>12, <1>13 DEF Next

(* The theorems *)

LEMMA InvariantHolds == ASSUME Habits = {} PROVE Spec => []WInv
  <1>1. Init => WInv
    BY InitTypes, InitBases DEF WInv
  <1>2. WInv /\ [Next]_vars => WInv'
    BY NextTypes, NextBases DEF WInv
  <1> QED
    BY <1>1, <1>2, PTL DEF Spec

\* What the writer of a file left when closing it is on disk, unless a save of it is
\* under way, was reported failed, was given up where Unsaid lets it (with a line in the
\* log), or the user quit without it.  Clients are those of Habits = {}: they write a
\* file again when its flush is over, which is later than [ok].  (fs.rs: write, close,
\* cleanup, rename, flush_path_sync)
THEOREM SavesAlwaysKept == ASSUME Habits = {} PROVE Spec => []SavesKept
  <1>1. WInv => SavesKept
    BY DEF WInv, BaseOK, CleanOK, SavesKept
  <1> QED
    BY <1>1, InvariantHolds, PTL

\* Every handle opened after that reads it, through whatever the cache kept, or gets an
\* error because the bytes lie out of reach of the map of their PAZ.  (fs.rs: open,
\* decode_inner, get_mmap, commit_virtual_path, rename)
THEOREM ReadsAlwaysBack == ASSUME Habits = {} PROVE Spec => []ReadsBack
  <1>1. ASSUME WInv, NEW p \in Paths
        PROVE  LET b == Base(p) IN
                 \/ Underway(b) \/ Batching
                 \/ p \in Views /\ nameOf[b] \notin {None, p}
                 \/ b \in excused \cup raced
                 \/ intended[b] = None
                 \/ OutOfReach(p)
                 \/ Decoded(p) = intended[b]
    <2>1. TInv /\ Base(p) \in Bases /\ CleanOK(Base(p))
      BY <1>1, BaseFacts DEF WInv, BaseOK
    <2>2. p \in Views \/ p = Base(p)
      BY BaseFacts DEF Paths
    <2> QED
      BY <2>1, <2>2, DecodeIsFresh DEF Fresh
  <1>2. WInv => ReadsBack
    BY <1>1 DEF ReadsBack
  <1> QED
    BY <1>2, InvariantHolds, PTL

\* What a step puts on disk for a base is what the clients left last.
LEMMA LatestStored ==
  ASSUME Habits = {}, WInv, [Next]_vars, NEW b \in Bases, disk'[b] # disk[b], b \notin excused
  PROVE  disk'[b] = intended'[b]
  <1>1. /\ TInv /\ TInv' /\ BaseOK(b) /\ b \in Paths /\ Base(b) = b
        /\ disk \in [Paths -> Content] /\ intended \in [Bases -> Content]
    BY NextTypes, BaseFacts DEF WInv, TInv, Types
  <1>2. ASSUME NEW h \in Handles, CleanupRemove(h) PROVE disk'[b] = intended'[b]
    <2>1. PICK p : p = handle[h].path
      OBVIOUS
    <2>2. disk' = [disk EXCEPT ![p] = None] /\ intended' = [intended EXCEPT ![p] = None]
      BY <1>2, <2>1 DEF CleanupRemove
    <2> QED
      BY <1>1, <2>2
  <1>3. ASSUME NEW h \in Handles, NEW q \in Paths, RenameUser(h, q) PROVE disk'[b] = intended'[b]
    <2>1. PICK p, d : p = handle[h].path /\ d = IF overlay[p] # None THEN overlay[p] ELSE disk[p]
      OBVIOUS
    <2>2. p \in User /\ q \in User /\ p # q /\ Base(q) = q
      BY <1>3, <2>1, BaseFacts DEF RenameUser, Renames
    <2>3. /\ \/ disk' = [disk EXCEPT ![p] = None, ![q] = d]
             \/ disk' = [disk EXCEPT ![q] = d]
          /\ intended' = [intended EXCEPT ![p] = None, ![q] = d]
      BY <1>3, <2>1, <2>2 DEF RenameUser
    <2> QED
      BY <1>1, <2>2, <2>3
  <1>4. ASSUME NEW w \in Threads, Flushing(w) PROVE disk'[b] = intended'[b]
    <2>1. PICK p, d : p = job[w].path /\ d = job[w].data
      OBVIOUS
    <2>2. p \in Paths /\ Base(p) \in Bases /\ BaseOK(Base(p))
      BY <1>1, <1>4, <2>1, FlushRuns, BaseFacts DEF TInv, JobShape, WInv
    <2>3. CASE Base(p) = b
      <3>1. Latest(p, d) /\ disk'[b] \in {disk[b], d} /\ intended' = intended
        BY <1>1, <1>4, <2>1, <2>2, <2>3, FlushFacts
      <3> QED
        BY <2>3, <3>1 DEF Latest
    <2>4. CASE Base(p) # b
      <3>1. FlushReload(w) \/ FlushStore(w) \/ disk' = disk
        BY <1>4 DEF Flushing, FlushBegin, FlushConvert, GivesUp, FlushPut, FlushUnmap, FlushRepack,
               CommitDrop, CommitCache, FlushStored
      <3>2. FlushReload(w) \/ FlushStore(w) =>
              disk' = disk \/ disk' = [disk EXCEPT ![Base(p)] = d]
        BY <1>1, <2>1, BaseFacts DEF FlushReload, FlushStore, TInv, JobShape, At
      <3> QED
        BY <1>1, <2>4, <3>1, <3>2
    <2> QED
      BY <2>3, <2>4
  <1>5. CASE Quit
    BY <1>1, <1>5, QuitDisk
  <1>6. ASSUME NEW h \in Handles,
               \/ \E p \in Paths : OpenHit(h, p) \/ OpenDecode(h, p) \/ Create(h, p)
               \/ OpenPut(h) \/ Overwrite(h) \/ WriteApply(h) \/ ResizeApply(h) \/ Mark(h)
               \/ \E kind \in {"write", "resize"} : Seed(h, kind)
               \/ Close(h) \/ CloseClaim(h) \/ CloseSpawn(h) \/ CleanupOverlay(h) \/ CleanupForget(h)
               \/ \E q \in Paths : RenameOverlay(h, q)
        PROVE  disk' = disk
    BY <1>6 DEF OpenHit, OpenDecode, Create, OpenPut, Overwrite, WriteApply, ResizeApply, Mark, Seed,
           Close, CloseClaim, CloseSpawn, CleanupOverlay, CleanupForget, RenameOverlay, stores
  <1>7. ASSUME \/ \E w \in Threads : SaveNext(w)
               \/ SaveTake \/ SaveMarks
               \/ \E p \in Paths : Evict(p)
               \/ UNCHANGED vars
        PROVE  disk' = disk
    BY <1>7 DEF SaveNext, SaveTake, SaveMarks, Evict, vars, stores
  <1>8. ASSUME NEW w \in Threads, FlushStep(w) PROVE Flushing(w) \/ SaveNext(w)
    BY <1>8 DEF FlushStep, Flushing
  <1>9. ASSUME NEW h \in Handles,
               \/ \E p \in Paths : OpenHit(h, p) \/ OpenDecode(h, p) \/ Create(h, p)
               \/ OpenPut(h) \/ Overwrite(h)
               \/ \E kind \in {"write", "resize"} : Seed(h, kind)
               \/ WriteApply(h) \/ ResizeApply(h) \/ Mark(h) \/ Close(h) \/ CloseClaim(h)
               \/ CloseSpawn(h) \/ CleanupOverlay(h) \/ CleanupRemove(h) \/ CleanupForget(h)
               \/ \E q \in Paths : RenameUser(h, q) \/ RenameOverlay(h, q)
        PROVE  disk'[b] = intended'[b]
    BY <1>2, <1>3, <1>6, <1>9
  <1> QED
    BY <1>4, <1>5, <1>7, <1>8, <1>9 DEF Next

\* Whatever a close, [s] or a rename puts on disk, it is what the clients left last.
\* (fs.rs: close, cleanup, rename, flush_all_pending)
THEOREM LatestAlwaysStored == ASSUME Habits = {} PROVE Spec => StoresLatest
  <1>1. WInv /\ [Next]_vars =>
          [\A b \in Bases : disk'[b] # disk[b] /\ b \notin excused => disk'[b] = intended'[b]]_disk
    BY LatestStored
  <1> QED
    BY <1>1, InvariantHolds, PTL DEF Spec, StoresLatest

\* No save takes bytes that another handle is still writing.  (fs.rs:
\* FileCtx::had_writes, close)
THEOREM NeverTorn == ASSUME Habits = {} PROVE Spec => []NoTornSave
  <1>1. WInv => NoTornSave
    BY DEF WInv, NoTornSave
  <1> QED
    BY <1>1, InvariantHolds, PTL

\* The size a handle is told is the size of what it reads.  (fs.rs: reported_size,
\* file_size_for, read)
THEOREM SizesAlwaysAgree == ASSUME Habits = {} PROVE Spec => []SizesAgree
  <1>1. ASSUME WInv, NEW h \in Handles, Open(h), handle[h].wrote \/ handle[h].snap # None
        PROVE  Reported(h) = <<handle[h].path, Delivered(h)>>
    <2>1. CASE ~handle[h].wrote
      BY <1>1, <2>1 DEF Reported, Delivered
    <2>2. CASE handle[h].wrote
      <3>1. handle[h].path \in Paths /\ About(h, Base(handle[h].path))
        BY <1>1 DEF WInv, TInv, HandleShape, About, Open
      <3>2. WriterOK(h)
        BY <1>1, <3>1, BaseFacts DEF WInv, BaseOK, HandlesOK
      <3>3. overlay[handle[h].path] # None
        BY <1>1, <2>2, <3>2 DEF WriterOK, Open
      <3> QED
        BY <2>2, <3>3 DEF Reported, Delivered, SizeOf
    <2> QED
      BY <2>1, <2>2
  <1>2. WInv => SizesAgree
    BY <1>1 DEF SizesAgree
  <1> QED
    BY <1>2, InvariantHolds, PTL

=============================================================================
