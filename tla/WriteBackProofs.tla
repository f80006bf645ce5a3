--------------------------- MODULE WriteBackProofs ---------------------------
(***************************************************************************)
(* What the clients of the Linux mount left in a file is on disk, on its   *)
(* way there, or its save was reported failed or given up; and they read   *)
(* it back.  For any files, virtual roots, pool size and number of edits,  *)
(* when clients are patient (no Habits).                                   *)
(***************************************************************************)
EXTENDS WriteBack, TLAPS

(* Types *)

\* The session thread is in the middle of an edit of a path.
OpShape ==
  /\ op.at = "idle" => op = Ready
  /\ op.at # "idle" => op.path \in Paths /\ op.kind # "none"
  /\ op.at = "mark" => op.kind = "write"
  /\ op.kind = "write" => edits < MaxEdits

\* A job is stored under the path it is for, or under its source.
Shaped(j) ==
  /\ j.at # "none" => j.path \in Paths
  /\ j.at = "convert" => j.path \in Synth
  /\ j.at \in {"store", "repack", "reload", "cache", "invalidate"} => j.to = Base(j.path)
  /\ j.at \in {"repack", "reload"} => j.to \in Shipped
  /\ j.at = "cache" => j.path \in User
  /\ j.at = "invalidate" => j.path \in Synth

TInv == TypeOK /\ OpShape /\ \A w \in Workers : Shaped(jobs[w])

LEMMA BaseFacts ==
  /\ \A p \in Paths : Base(p) \in Bases /\ Base(p) \in Paths
  /\ \A p \in User : Base(p) = p /\ p \notin Synth /\ p \notin Shipped
  /\ \A p \in Shipped : Base(p) = p /\ p \notin Synth /\ p \notin User
  /\ \A p \in Synth : Base(p) = SourceOf[p] /\ Base(p) \in Shipped /\ p \notin Bases
  /\ Shipped \subseteq Bases /\ User \subseteq Bases /\ Bases \subseteq Paths
  /\ None \notin Paths /\ None \notin Bases
  BY PathsAssumption DEF Base, Paths, Bases

LEMMA ContentFacts ==
  /\ None \in Content /\ \A d \in Content : d = None \/ d \in Bytes
  /\ {} \in Bytes /\ \A d \in Bytes : d \in Content /\ d # None
  /\ \A d \in Bytes, e \in 0..MaxEdits : d \cup {e} \in Bytes
  /\ {0} \in Bytes /\ 0 \in 0..MaxEdits
  <1>1. MaxEdits \in Nat /\ \A d \in Bytes : d # None
    BY PathsAssumption
  <1>2. 0 \in 0..MaxEdits
    BY <1>1, SMT
  <1> QED
    BY <1>1, <1>2 DEF Content, Bytes

\* What a step of flush_path_sync makes of its job.
Moved(j, i) ==
  \/ i = NoJob
  \/ /\ i \in Job /\ i.path = j.path /\ i.data = j.data /\ i.at # "none"
     /\ \/ j.at = "begin" /\ i.at \in {"convert", "store"}
        \/ j.at = "convert" /\ i.at = "store"
        \/ j.at = "store" /\ i.at \in {"repack", "cache", "invalidate"}
        \/ j.at = "repack" /\ i.at \in {"reload", "invalidate"}
        \/ j.at = "reload" /\ i.at = "invalidate"

JobStep(w, i) == jobs' = [jobs EXCEPT ![w] = i] /\ Moved(jobs[w], i) /\ Shaped(i) /\ i \in Job

LEMMA JobTypes ==
  /\ NoJob \in Job /\ Shaped(NoJob)
  /\ \A p \in Paths, d \in Bytes :
       NewJob(p, d) \in Job /\ Shaped(NewJob(p, d)) /\ NewJob(p, d).path = p /\ NewJob(p, d).data = d
         /\ NewJob(p, d).at = "begin"
  <1>1. {} \in Bytes
    BY ContentFacts
  <1> QED
    BY <1>1 DEF Job, NoJob, NewJob, Shaped

LEMMA FlushMoves ==
  ASSUME TInv, NEW w \in Workers, Flush(w)
  PROVE  Working(w) /\ \E i : JobStep(w, i)
  <1> DEFINE j == jobs[w]
  <1>1. j \in Job /\ Shaped(j) /\ jobs \in [Workers -> Job]
    BY DEF TInv, TypeOK
  <1>2. NoJob \in Job /\ Shaped(NoJob)
    BY JobTypes
  <1>3. CASE FlushBegin(w)
    <2>1. j.at = "begin" /\ j.path \in Paths
      BY <1>1, <1>3 DEF FlushBegin, Shaped
    <2>2. CASE j.path \in Synth
      <3> DEFINE i == [j EXCEPT !.at = "convert"]
      <3>1. jobs' = [jobs EXCEPT ![w] = i]
        BY <1>3, <2>2 DEF FlushBegin
      <3>2. i \in Job /\ Moved(j, i) /\ Shaped(i)
        BY <1>1, <2>1, <2>2 DEF Job, Moved, Shaped
      <3> QED
        BY <2>1, <3>1, <3>2 DEF JobStep, Working
    <2>3. CASE j.path \notin Synth
      <3> DEFINE i == [j EXCEPT !.at = "store", !.to = j.path]
      <3>1. jobs' = [jobs EXCEPT ![w] = i]
        BY <1>3, <2>3 DEF FlushBegin
      <3>2. j.path \in Bases /\ Base(j.path) = j.path
        BY <2>1, <2>3, BaseFacts DEF Paths, Bases
      <3>3. i \in Job /\ Moved(j, i) /\ Shaped(i)
        BY <1>1, <2>1, <3>2 DEF Job, Moved, Shaped
      <3> QED
        BY <2>1, <3>1, <3>3 DEF JobStep, Working
    <2> QED
      BY <2>2, <2>3
  <1>4. CASE Convert(w)
    <2> DEFINE i == [j EXCEPT !.at = "store", !.to = SourceOf[j.path]]
    <2>1. j.at = "convert" /\ jobs' = [jobs EXCEPT ![w] = i]
      BY <1>4 DEF Convert
    <2>2. SourceOf[j.path] = Base(j.path) /\ Base(j.path) \in Bases
      BY <1>1, <2>1, BaseFacts DEF Shaped
    <2>3. i \in Job /\ Moved(j, i) /\ Shaped(i)
      BY <1>1, <2>1, <2>2 DEF Job, Moved, Shaped
    <2> QED
      BY <2>1, <2>3 DEF JobStep, Working
  <1>5. ASSUME j.at # "none", jobs' = [jobs EXCEPT ![w] = NoJob]
        PROVE  Working(w) /\ \E i : JobStep(w, i)
    BY <1>2, <1>5 DEF JobStep, Moved, Working
  <1>6. CASE ConvertFails(w) \/ StoreUserFails(w) \/ CacheUser(w) \/ Invalidate(w)
    BY <1>5, <1>6 DEF ConvertFails, StoreUserFails, CacheUser, Invalidate, Ends
  <1>7. ASSUME NEW from, NEW to, j.at = from, jobs' = [jobs EXCEPT ![w].at = to],
               Moved(j, [j EXCEPT !.at = to]), Shaped([j EXCEPT !.at = to]), [j EXCEPT !.at = to] \in Job,
               from # "none"
        PROVE  Working(w) /\ \E i : JobStep(w, i)
    BY <1>7 DEF JobStep, Working
  <1>8. CASE CacheFirst(w)
    <2>1. j.at = "store" /\ j.to \in Shipped /\ jobs' = [jobs EXCEPT ![w].at = "repack"]
      BY <1>8 DEF CacheFirst, Step
    <2>2. LET i == [j EXCEPT !.at = "repack"] IN Moved(j, i) /\ Shaped(i) /\ i \in Job
      BY <1>1, <2>1 DEF Moved, Shaped, Job
    <2> QED
      BY <1>7, <2>1, <2>2
  <1>9. CASE StoreUser(w)
    <2>1. j.at = "store" /\ j.to \in User /\ jobs' = [jobs EXCEPT ![w].at = "cache"]
      BY <1>9 DEF StoreUser, Step
    <2>2. j.path \in User
      BY <1>1, <2>1, BaseFacts DEF Shaped, Paths
    <2>3. LET i == [j EXCEPT !.at = "cache"] IN Moved(j, i) /\ Shaped(i) /\ i \in Job
      BY <1>1, <2>1, <2>2 DEF Moved, Shaped, Job
    <2> QED
      BY <1>7, <2>1, <2>3
  <1>10. ASSUME NEW from \in {"store", "repack", "reload"}, AfterSource(w, from)
         PROVE  Working(w) /\ \E i : JobStep(w, i)
    <2>1. j.at = from /\ jobs' = IF j.path \in Synth THEN [jobs EXCEPT ![w].at = "invalidate"]
                                      ELSE [jobs EXCEPT ![w] = NoJob]
      BY <1>10 DEF AfterSource, Step, Ends
    <2>2. CASE j.path \in Synth
      <3>1. LET i == [j EXCEPT !.at = "invalidate"] IN Moved(j, i) /\ Shaped(i) /\ i \in Job
        BY <1>1, <2>1, <2>2 DEF Moved, Shaped, Job
      <3> QED
        BY <1>7, <2>1, <2>2, <3>1
    <2> QED
      BY <1>5, <2>1, <2>2
  <1>11. CASE RepackFails(w) \/ Reload(w)
    BY <1>10, <1>11 DEF RepackFails, Reload
  <1>12. CASE GivesUp(w)
    BY <1>5, <1>10, <1>12, PathsAssumption DEF GivesUp, Ends
  <1>13. CASE Repack(w)
    <2>1. j.at = "repack" /\ jobs' = [jobs EXCEPT ![w].at = "reload"]
      BY <1>13 DEF Repack, Step
    <2>2. LET i == [j EXCEPT !.at = "reload"] IN Moved(j, i) /\ Shaped(i) /\ i \in Job
      BY <1>1, <2>1 DEF Moved, Shaped, Job
    <2> QED
      BY <1>7, <2>1, <2>2
  <1> QED
    BY Flush(w), <1>3, <1>4, <1>6, <1>8, <1>9, <1>11, <1>12, <1>13 DEF Flush

LEMMA DecodedTypes ==
  ASSUME TypeOK
  PROVE  /\ \A p \in Paths : Decoded(p) \in Content /\ Caches(p) \in [Paths -> Content]
         /\ Nothing \in [Paths -> Content]
  BY BaseFacts, ContentFacts DEF TypeOK, Decoded, Caches, Nothing

\* The map of the user PAZ lacks user files only.
LEMMA BeyondTypes ==
  ASSUME TypeOK
  PROVE  /\ \A p \in Paths : Mapped(p) # None => Mapped(p) \subseteq User
         /\ \A p \in Paths : Grown(p) # None => Grown(p) \subseteq User
  BY DEF TypeOK, Mapped, Grown

LEMMA TypeInit == ASSUME Init PROVE TInv
  <1>1. op \in Edit /\ \A k \in Batches : batch[k] \in Batched
    BY ContentFacts DEF Init, Ready, Edit, NoBatch, Batched, Nothing
  <1>2. TypeOK
    BY <1>1, BaseFacts, ContentFacts, JobTypes DEF Init, TypeOK, Nothing
  <1>3. OpShape /\ \A w \in Workers : Shaped(jobs[w])
    BY DEF Init, OpShape, Shaped, Ready, NoJob
  <1> QED
    BY <1>2, <1>3 DEF TInv

\* Steps of the clients and of the session thread that start no job.
LEMMA TypeEdit ==
  ASSUME TInv, NEW p \in Paths,
         \/ Open(p) \/ Read(p) \/ Probe(p) \/ Create(p) \/ Unlink(p) \/ Evict(p)
         \/ \E kind \in {"write", "cut"} : Seed(kind, p)
         \/ \E q \in Paths : RenameUser(p, q) \/ RenameOverlay(p, q)
  PROVE  TInv'
  <1> USE DEF TInv
  <1>1. UNCHANGED <<jobs, batch, autoRepack, mode>>
    BY DEF Open, Read, Probe, Create, Unlink, Evict, Seed, RenameUser, RenameOverlay, Moves, client
  <1>2. CASE Open(p)
    <2>1. TypeOK'
      BY <1>2, BaseFacts, DecodedTypes DEF Open, Names, TypeOK
    <2> QED
      BY <1>2, <2>1 DEF Open, OpShape
  <1>3. CASE Read(p)
    <2>1. TypeOK'
      BY <1>3, DecodedTypes, BeyondTypes DEF Read, client, ghosts, TypeOK
    <2> QED
      BY <1>3, <2>1 DEF Read, client, ghosts, OpShape
  <1>10. CASE Probe(p)
    <2>1. TypeOK'
      BY <1>10, BeyondTypes DEF Probe, client, ghosts, TypeOK
    <2> QED
      BY <1>10, <2>1 DEF Probe, client, ghosts, OpShape
  <1>4. CASE Create(p)
    <2>1. TypeOK'
      BY <1>4, BaseFacts, ContentFacts DEF Create, TypeOK
    <2> QED
      BY <1>4, <2>1 DEF Create, OpShape
  <1>5. CASE Unlink(p)
    <2>1. TypeOK'
      BY <1>5, BaseFacts, ContentFacts DEF Unlink, client, TypeOK
    <2> QED
      BY <1>5, <2>1 DEF Unlink, client, OpShape
  <1>6. CASE Evict(p)
    <2>1. TypeOK'
      BY <1>6, ContentFacts DEF Evict, client, ghosts, TypeOK
    <2> QED
      BY <1>6, <2>1 DEF Evict, client, ghosts, OpShape
  <1>7. ASSUME NEW kind \in {"write", "cut"}, Seed(kind, p) PROVE TInv'
    <2>1. op' \in Edit
      BY <1>7 DEF Seed, Edit
    <2>2. /\ overlay' \in [Paths -> Content] /\ cache' \in [Paths -> Content]
          /\ beyond' # None => beyond' \subseteq User
      BY <1>7, DecodedTypes, BeyondTypes, ContentFacts DEF Seed, TypeOK
    <2>3. TypeOK'
      BY <1>7, <2>1, <2>2 DEF Seed, ghosts, TypeOK
    <2>4. OpShape'
      BY <1>7 DEF Seed, ghosts, OpShape, Ready
    <2> QED
      BY <1>1, <2>3, <2>4
  <1>8. ASSUME NEW q \in Paths, RenameUser(p, q) PROVE TInv'
    <2> DEFINE data == IF overlay[p] # None THEN overlay[p] ELSE disk[p]
    <2>1. data \in Content /\ p \in User /\ Base(q) \in Bases /\ p \in Bases /\ None \in Content
      BY <1>8, BaseFacts, ContentFacts DEF RenameUser, Moves, TypeOK
    <2>2. /\ overlay' = [overlay EXCEPT ![p] = None, ![q] = data]
          /\ cache' = [cache EXCEPT ![p] = data, ![q] = data]
          /\ intended' = [intended EXCEPT ![p] = None, ![Base(q)] = data]
          /\ pending' = pending \ {p} /\ UNCHANGED <<op, opened, bare, edits>>
          /\ nameOf' = Names(q)
          /\ disk' = [disk EXCEPT ![p] = None, ![q] = data] \/ disk' = [disk EXCEPT ![q] = data]
          /\ excused' \subseteq excused \cup {p}
          /\ beyond' = Grown(q)
      BY <1>8 DEF RenameUser, Moves, client
    <2>3. nameOf' \in [Shipped -> Paths \cup {None}]
      BY <2>2 DEF Names, TypeOK
    <2> HIDE DEF data
    <2>4. TypeOK'
      BY <1>1, <2>1, <2>2, <2>3, BeyondTypes DEF TypeOK
    <2> QED
      BY <1>1, <2>2, <2>4 DEF OpShape
  <1>9. ASSUME NEW q \in Paths, RenameOverlay(p, q) PROVE TInv'
    <2>1. p \in User /\ Base(q) \in Bases /\ p \in Bases /\ None \in Content
      BY <1>9, BaseFacts, ContentFacts DEF RenameOverlay, Moves
    <2>2. TypeOK'
      BY <1>1, <1>9, <2>1 DEF RenameOverlay, Moves, Names, client, TypeOK
    <2> QED
      BY <1>1, <1>9, <2>2 DEF RenameOverlay, client, OpShape
  <1> QED
    BY <1>2, <1>3, <1>4, <1>5, <1>6, <1>7, <1>8, <1>9, <1>10

LEMMA TypeRelease ==
  ASSUME TInv, NEW p \in Paths, Release(p)
  PROVE  TInv'
  <1> USE DEF TInv
  <1>1. jobs' \in [Workers -> Job] /\ \A w \in Workers : Shaped(jobs'[w])
    <2>1. CASE UNCHANGED jobs
      BY <2>1 DEF TypeOK
    <2>2. CASE \E w \in Workers : jobs' = [jobs EXCEPT ![w] = NewJob(p, overlay[p])] /\ overlay[p] # None
      BY <2>2, JobTypes, ContentFacts DEF TypeOK
    <2> QED
      BY <2>1, <2>2 DEF Release, Workers
  <1>2. TypeOK'
    BY <1>1, ContentFacts DEF Release, Closes, ghosts, TypeOK
  <1> QED
    BY <1>1, <1>2 DEF Release, ghosts, OpShape

LEMMA TypeSession ==
  ASSUME TInv, WriteMark \/ Apply
  PROVE  TInv'
  <1> USE DEF TInv
  <1>1. UNCHANGED <<jobs, batch, autoRepack, opened, cache, disk, beyond, nameOf, excused>>
        /\ op.path \in Paths /\ op \in Edit /\ Base(op.path) \in Bases
    BY BaseFacts DEF WriteMark, Apply, ghosts, OpShape, TypeOK
  <1>2. CASE WriteMark
    <2>1. op' \in Edit /\ OpShape'
      BY <1>1, <1>2 DEF WriteMark, ghosts, Edit, OpShape, Ready
    <2> QED
      BY <1>1, <1>2, <2>1 DEF WriteMark, ghosts, TypeOK
  <1>3. CASE Apply
    <2> DEFINE e == edits + 1
               new == IF op.kind = "write" THEN overlay[op.path] \cup {e} ELSE {}
    <2>1. op' \in Edit /\ OpShape'
      BY <1>3 DEF Apply, Edit, OpShape, Ready
    <2>2. CASE overlay[op.path] = None
      BY <1>1, <1>3, <2>1, <2>2 DEF Apply, TypeOK
    <2>3. CASE overlay[op.path] # None
      <3>1. op.kind = "write" => e \in 0..MaxEdits
        <4>1. op.kind = "write" => edits < MaxEdits
          BY DEF OpShape
        <4>2. edits \in 0..MaxEdits /\ MaxEdits \in Nat
          BY PathsAssumption DEF TypeOK
        <4> QED
          BY <4>1, <4>2, SMT
      <3>2. overlay[op.path] \in Bytes
        BY <1>1, <2>3, ContentFacts DEF TypeOK
      <3>3. new \in Bytes
        BY <3>1, <3>2, ContentFacts
      <3>4. intended[Base(op.path)] # None /\ op.kind = "write" => intended[Base(op.path)] \cup {e} \in Bytes
        <4>1. intended[Base(op.path)] # None => intended[Base(op.path)] \in Bytes
          BY <1>1, ContentFacts DEF TypeOK
        <4> QED
          BY <3>1, <4>1, ContentFacts
      <3>5. /\ overlay' = [overlay EXCEPT ![op.path] = new]
            /\ intended' = [intended EXCEPT ![Base(op.path)] =
                              IF op.kind = "write" /\ @ # None THEN @ \cup {e} ELSE new]
            /\ edits' = IF op.kind = "write" THEN e ELSE edits
            /\ UNCHANGED <<mode, pending>> /\ bare' \subseteq bare \cup {op.path}
        BY <1>3, <2>3 DEF Apply
      <3> HIDE DEF new, e
      <3>6. edits' \in 0..MaxEdits
        BY <3>1, <3>5 DEF TypeOK
      <3>7. overlay' \in [Paths -> Content] /\ intended' \in [Bases -> Content]
        BY <1>1, <3>3, <3>4, <3>5, ContentFacts DEF TypeOK
      <3> QED
        BY <1>1, <2>1, <3>5, <3>6, <3>7 DEF TypeOK
    <2> QED
      BY <2>2, <2>3
  <1> QED
    BY <1>2, <1>3

\* Taking the pending paths, the overlay, and one path after the other.
LEMMA TypeBatch ==
  ASSUME TInv, NEW k \in Batches, SavePressed \/ Unmount \/ Batch(k)
  PROVE  TInv'
  <1> USE DEF TInv
  <1>1. batch \in [Batches -> Batched] /\ NoBatch \in Batched /\ pending \subseteq Paths
        /\ overlay \in [Paths -> Content] /\ Nothing \in [Paths -> Content]
    BY DecodedTypes, ContentFacts DEF TypeOK, NoBatch, Batched
  <1>2. ASSUME NEW b \in Batches, TakePending(b) PROVE batch' \in [Batches -> Batched] /\ pending' = {}
    BY <1>1, <1>2 DEF TakePending, Batched
  <1>3. CASE SavePressed
    <2>1. batch' \in [Batches -> Batched] /\ pending' = {}
      BY <1>2, <1>3 DEF SavePressed, Batches
    <2>2. TypeOK'
      BY <1>3, <2>1 DEF SavePressed, client, ghosts, TypeOK
    <2> QED
      BY <1>3, <2>2 DEF SavePressed, client, ghosts, OpShape
  <1>4. CASE Unmount
    <2>1. batch' \in [Batches -> Batched] /\ pending' = {} /\ mode' = "unmounting"
      BY <1>2, <1>4 DEF Unmount, Batches
    <2>2. TypeOK'
      BY <1>4, <2>1 DEF Unmount, ghosts, TypeOK
    <2> QED
      BY <1>4, <2>2 DEF Unmount, ghosts, OpShape
  <1>5. CASE TakeOverlay(k)
    <2>1. batch' \in [Batches -> Batched]
      BY <1>1, <1>5 DEF TakeOverlay, Batched
    <2>2. TypeOK'
      BY <1>1, <1>5, <2>1 DEF TakeOverlay, client, ghosts, TypeOK
    <2> QED
      BY <1>5, <2>2 DEF TakeOverlay, client, ghosts, OpShape
  <1>6. CASE NextPath(k)
    <2>1. PICK p \in batch[k].todo :
            /\ batch' = [batch EXCEPT ![k] = IF @.todo = {p} THEN NoBatch
                                             ELSE [@ EXCEPT !.todo = batch[k].todo \ {p}]]
            /\ jobs' = IF batch[k].snap[p] = None THEN jobs
                       ELSE [jobs EXCEPT ![k] = NewJob(p, batch[k].snap[p])]
      BY <1>6 DEF NextPath
    <2>2. batch' \in [Batches -> Batched]
      <3>1. batch[k] \in Batched
        BY <1>1
      <3>2. [batch[k] EXCEPT !.todo = batch[k].todo \ {p}] \in Batched
        BY <3>1 DEF Batched
      <3>3. batch' = [batch EXCEPT ![k] = NoBatch]
            \/ batch' = [batch EXCEPT ![k] = [batch[k] EXCEPT !.todo = batch[k].todo \ {p}]]
        <4>1. CASE batch[k].todo = {p}
          BY <2>1, <4>1
        <4>2. CASE batch[k].todo # {p}
          BY <2>1, <4>2
        <4> QED
          BY <4>1, <4>2
      <3> QED
        BY <1>1, <3>2, <3>3
    <2>3. p \in Paths /\ batch[k].snap[p] \in Content /\ k \in Workers
      BY <1>1 DEF Batched, Workers
    <2>4. jobs' \in [Workers -> Job] /\ \A w \in Workers : Shaped(jobs'[w])
      <3>1. CASE batch[k].snap[p] = None
        BY <2>1, <3>1 DEF TypeOK
      <3>2. CASE batch[k].snap[p] # None
        BY <2>1, <2>3, <3>2, JobTypes, ContentFacts DEF TypeOK
      <3> QED
        BY <3>1, <3>2
    <2>5. TypeOK'
      BY <1>6, <2>2, <2>4 DEF NextPath, client, ghosts, TypeOK
    <2> QED
      BY <1>6, <2>4, <2>5 DEF NextPath, client, ghosts, OpShape
  <1> QED
    BY <1>3, <1>4, <1>5, <1>6 DEF Batch

\* The mount goes away and comes back.
LEMMA TypeMount ==
  ASSUME TInv, DiscardOverlay \/ DiscardPending \/ Exit \/ Remount
  PROVE  TInv'
  <1> USE DEF TInv
  <1>1. Nothing \in [Paths -> Content] /\ NoBatch \in Batched
    BY DecodedTypes, ContentFacts DEF NoBatch, Batched
  <1>2. CASE DiscardOverlay
    <2>1. TypeOK'
      BY <1>1, <1>2 DEF DiscardOverlay, TypeOK
    <2> QED
      BY <1>2, <2>1 DEF DiscardOverlay, OpShape
  <1>3. CASE DiscardPending
    <2>1. TypeOK'
      BY <1>3 DEF DiscardPending, client, ghosts, TypeOK
    <2> QED
      BY <1>3, <2>1 DEF DiscardPending, client, ghosts, OpShape
  <1>4. CASE Exit
    <2>1. jobs' \in [Workers -> Job] /\ \A w \in Workers : Shaped(jobs'[w])
      BY <1>4, JobTypes DEF Exit
    <2>2. disk' \in [Paths -> Content]
      <3>1. \A p \in Paths : Landed(p) \in Content
        <4> SUFFICES ASSUME NEW p \in Paths, Landed(p) # disk[p] PROVE Landed(p) \in Content
          BY DEF TypeOK
        <4> DEFINE at == {w \in Workers : jobs[w].at = "reload" /\ jobs[w].to = p}
        <4>1. at # {} /\ Landed(p) = jobs[CHOOSE w \in at : TRUE].data
          BY DEF Landed
        <4>2. (CHOOSE w \in at : TRUE) \in Workers
          BY <4>1
        <4> QED
          BY <4>1, <4>2, ContentFacts DEF TypeOK, Job
      <3> QED
        BY <1>4, <3>1 DEF Exit
    <2>3. TypeOK'
      BY <1>1, <1>4, <2>1, <2>2 DEF Exit, TypeOK
    <2> QED
      BY <1>4, <2>1, <2>3 DEF Exit, OpShape
  <1>5. CASE Remount
    <2>1. disk' \in [Paths -> Content] /\ intended' \in [Bases -> Content]
          /\ nameOf' \in [Shipped -> Paths \cup {None}]
      BY <1>5, BaseFacts, ContentFacts DEF Remount, TypeOK
    <2>2. TypeOK'
      BY <1>5, <2>1 DEF Remount, TypeOK
    <2> QED
      BY <1>5, <2>2 DEF Remount, OpShape
  <1> QED
    BY <1>2, <1>3, <1>4, <1>5

LEMMA TypeFlush ==
  ASSUME TInv, NEW w \in Workers, Flush(w)
  PROVE  TInv'
  <1> USE DEF TInv
  <1> DEFINE j == jobs[w]
  <1>1. PICK i : JobStep(w, i)
    BY FlushMoves
  <1>2. jobs' \in [Workers -> Job] /\ \A v \in Workers : Shaped(jobs'[v])
    BY <1>1 DEF JobStep, TypeOK
  <1>3. j \in Job /\ Shaped(j) /\ j.data \in Content
    BY ContentFacts DEF TypeOK, Job
  <1>4. UNCHANGED <<client, batch, nameOf, bare, edits>> /\ pending' \subseteq pending
    BY Flush(w) DEF Flush, FlushBegin, Convert, ConvertFails, GivesUp, CacheFirst, Repack, RepackFails, Reload,
       StoreUser, StoreUserFails, CacheUser, Invalidate, ghosts
  <1>5. overlay' \in [Paths -> Content]
    BY Flush(w), ContentFacts DEF Flush, FlushBegin, Convert, ConvertFails, GivesUp, CacheFirst, Repack,
       RepackFails, Reload, StoreUser, StoreUserFails, CacheUser, Invalidate, TypeOK
  <1>6. cache' \in [Paths -> Content]
    BY Flush(w), <1>3, ContentFacts DEF Flush, FlushBegin, Convert, ConvertFails, GivesUp, CacheFirst, Repack,
       RepackFails, Reload, StoreUser, StoreUserFails, CacheUser, Invalidate, TypeOK
  <1>7. disk' \in [Paths -> Content] /\ intended' \in [Bases -> Content]
    BY Flush(w), <1>3 DEF Flush, FlushBegin, Convert, ConvertFails, GivesUp, CacheFirst, Repack,
       RepackFails, Reload, StoreUser, StoreUserFails, CacheUser, Invalidate, Stored, Reports, ghosts, TypeOK
  <1>8. excused' \subseteq Bases
    <2>1. j.at # "none" => Base(j.path) \in Bases
      BY <1>3, BaseFacts DEF Shaped
    <2>2. excused' \subseteq excused \cup {Base(j.path)}
      BY Flush(w) DEF Flush, FlushBegin, Convert, ConvertFails, GivesUp, CacheFirst, Repack, RepackFails, Reload,
         StoreUser, StoreUserFails, CacheUser, Invalidate, Reports, Fails, ghosts
    <2>3. j.at # "none"
      BY FlushMoves DEF Working
    <2> QED
      BY <2>1, <2>2, <2>3 DEF TypeOK
  <1>9. beyond' # None => beyond' \subseteq User
    <2>1. StoreUser(w) => jobs[w].to \in Paths /\ beyond' = Grown(jobs[w].to)
      BY BaseFacts DEF StoreUser, Paths
    <2>2. ~StoreUser(w) => beyond' = beyond
      BY Flush(w) DEF Flush, FlushBegin, Convert, ConvertFails, GivesUp, CacheFirst, Repack, RepackFails, Reload,
         StoreUserFails, CacheUser, Invalidate
    <2> QED
      BY <2>1, <2>2, BeyondTypes DEF TypeOK
  <1>10. TypeOK'
    BY <1>2, <1>4, <1>5, <1>6, <1>7, <1>8, <1>9 DEF client, TypeOK
  <1> QED
    BY <1>2, <1>4, <1>10 DEF client, OpShape

LEMMA TypeStep == ASSUME TInv, [Next]_vars PROVE TInv'
  <1>1. CASE UNCHANGED vars
    BY <1>1 DEF vars, TInv, TypeOK, OpShape
  <1>2. CASE Next
    BY <1>2, TypeEdit, TypeRelease, TypeSession, TypeBatch, TypeMount, TypeFlush
    DEF Next, Client, Session, Batch, Batches
  <1> QED
    BY <1>1, <1>2

\* What the maps hold are contents of files; a flush job stores under a source
\* or a user path, never under a virtual one.
THEOREM TypesHold == Spec => []TypeOK
  <1>1. Init => TInv
    BY TypeInit
  <1>2. TInv /\ [Next]_vars => TInv'
    BY TypeStep
  <1>3. TInv => TypeOK
    BY DEF TInv
  <1> QED
    BY <1>1, <1>2, <1>3, PTL DEF Spec

----------------------------------------------------------------------------
(* Who is at work *)

\* The one name the clients have for the base of p since the mount.
Named(p) == Base(p) \in Shipped => nameOf[Base(p)] = p

Atwork(k) == batch[k].at # "none" \/ Working(k)

\* A batch has the mount to itself.
BatchAlone(k) ==
  Atwork(k) => /\ pending = {} /\ opened = {} /\ op = Ready
               /\ \A w \in Workers : w # k => ~Working(w)
               /\ \A j \in Batches : j # k => batch[j].at = "none"
               /\ mode = IF k = "save" THEN "up" ELSE "unmounting"

\* Nothing else runs when the mount goes away.
Leaving ==
  /\ mode # "poisoned"
  /\ mode # "up" => opened = {} /\ op = Ready /\ \A w \in Workers : w # "destroy" => ~Working(w)
  /\ mode \in {"unmounting", "down"} => pending = {}
  /\ mode = "down" => overlay = Nothing /\ cache = Nothing /\ bare = {}

\* No two jobs are about the same file.
Solo == \A v, w \in Workers :
          Working(v) /\ Working(w) /\ v # w => Base(jobs[v].path) # Base(jobs[w].path)

EditOK ==
  op # Ready => /\ op.path \in opened /\ overlay[op.path] # None
                /\ op.kind = "write" /\ op.at = "apply" => op.path \in pending

ShippedThere == \A b \in Shipped : intended[b] # None /\ disk[b] # None

----------------------------------------------------------------------------
(* Where the content of a file is *)

\* The content d is what the clients left in p.
Latest(p, d) == d # None /\ Named(p) /\ (Base(p) \notin excused => d = intended[Base(p)])

\* Changed, and not saved yet.
Marked == IF mode = "up" THEN pending \cup bare ELSE {}

FileOK(p) ==
  /\ p \in opened => /\ Named(p) /\ ~InJob(Base(p))
                     /\ Base(p) \notin excused => intended[Base(p)] # None
  /\ overlay[p] # None => Latest(p, overlay[p])
  /\ p \in Marked => overlay[p] # None
  /\ mode = "up" /\ p \in bare => p \in opened
  /\ p \in Synth /\ cache[p] # None => Named(p)

TodoOK(k) ==
  /\ batch[k].at = "none" => batch[k].todo = {}
  /\ \A p \in batch[k].todo :
       /\ Latest(p, IF batch[k].at = "overlay" THEN overlay[p] ELSE batch[k].snap[p])
       /\ batch[k].at = "flush" => overlay[p] = None
       /\ ~InJob(Base(p))

JobOK(w) ==
  LET j == jobs[w] IN
  Working(w) =>
    /\ Latest(j.path, j.data) /\ overlay[j.path] \in {None, j.data}
    /\ j.at \in {"cache", "invalidate"} /\ Base(j.path) \notin excused => disk[Base(j.path)] = j.data
    /\ (j.at \in {"repack", "reload"} \/ (j.at = "invalidate" /\ Base(j.path) \notin excused))
         => cache[Base(j.path)] \in {None, j.data}
    /\ j.at # "begin" => j.path \notin pending

Busy(b) == (\E p \in Marked : Base(p) = b) \/ InJob(b) \/ InBatch(b)

\* Of a file nobody is busy with every copy is the same.
CleanOK(b) ==
  b \notin excused /\ ~Busy(b) =>
    /\ disk[b] = intended[b]
    /\ mode = "up" /\ intended[b] # None =>
         \A q \in Paths : Base(q) = b => cache[q] \in {None, intended[b]}

WInv ==
  /\ TInv
  /\ Leaving /\ Solo /\ EditOK /\ ShippedThere
  /\ \A p \in Paths : FileOK(p)
  /\ \A k \in Batches : BatchAlone(k) /\ TodoOK(k)
  /\ \A w \in Workers : JobOK(w)
  /\ \A b \in Bases : CleanOK(b)

----------------------------------------------------------------------------
(* What a step leaves alone *)

FramedPath(p) ==
  /\ overlay'[p] = overlay[p] /\ cache'[p] = cache[p]
  /\ p \in pending' <=> p \in pending
  /\ p \in opened' <=> p \in opened
  /\ p \in bare' <=> p \in bare

FramedBase(b) ==
  /\ disk'[b] = disk[b] /\ intended'[b] = intended[b]
  /\ b \in excused' <=> b \in excused
  /\ b \in Shipped => nameOf'[b] = nameOf[b]

\* Only files of B are touched.
Frame(B) ==
  /\ \A p \in Paths : Base(p) \notin B => FramedPath(p)
  /\ \A b \in Bases \ B : FramedBase(b)

LEMMA FrameFile ==
  ASSUME NEW B, Frame(B), mode' = mode, NEW p \in Paths, Base(p) \notin B,
         InJob(Base(p))' => InJob(Base(p)), FileOK(p)
  PROVE  FileOK(p)'
  <1>1. FramedPath(p) /\ FramedBase(Base(p))
    BY BaseFacts DEF Frame
  <1>2. Named(p)' <=> Named(p)
    BY <1>1 DEF FramedBase, Named
  <1>3. \A d : Latest(p, d)' <=> Latest(p, d)
    BY <1>1, <1>2 DEF FramedBase, Latest
  <1>4. p \in Marked' <=> p \in Marked
    BY <1>1 DEF FramedPath, Marked
  <1> QED
    BY <1>1, <1>2, <1>3, <1>4 DEF FramedPath, FramedBase, FileOK

LEMMA FrameJob ==
  ASSUME TInv, NEW B, Frame(B), NEW w \in Workers, jobs'[w] = jobs[w],
         Working(w) => Base(jobs[w].path) \notin B, JobOK(w)
  PROVE  JobOK(w)'
  <1> DEFINE j == jobs[w]
             b == Base(j.path)
  <1> SUFFICES ASSUME Working(w), Working(w)' PROVE JobOK(w)'
    BY DEF JobOK, Working
  <1>1. j.path \in Paths /\ b \in Bases /\ b \in Paths /\ Base(b) = b
    BY BaseFacts DEF TInv, Shaped, Working, Bases
  <1>2. FramedPath(j.path) /\ FramedPath(b) /\ FramedBase(b)
    BY <1>1 DEF Frame
  <1>3. Latest(j.path, j.data)' <=> Latest(j.path, j.data)
    BY <1>2 DEF FramedBase, Latest, Named
  <1> QED
    BY <1>2, <1>3 DEF FramedPath, FramedBase, JobOK

LEMMA FrameTodo ==
  ASSUME TInv, NEW B, Frame(B), NEW k \in Batches, batch'[k] = batch[k], TodoOK(k),
         \A p \in batch[k].todo : Base(p) \notin B /\ (InJob(Base(p))' => InJob(Base(p)))
  PROVE  TodoOK(k)'
  <1>1. \A p \in batch[k].todo : p \in Paths
    BY DEF TInv, TypeOK, Batched
  <1>2. \A p \in batch[k].todo : FramedPath(p) /\ FramedBase(Base(p))
    BY <1>1, BaseFacts DEF Frame
  <1>3. \A p \in batch[k].todo : \A d : Latest(p, d)' <=> Latest(p, d)
    BY <1>2 DEF FramedBase, Latest, Named
  <1> QED
    BY <1>2, <1>3 DEF FramedPath, TodoOK

LEMMA FrameClean ==
  ASSUME TInv, NEW B, Frame(B), mode' = mode, NEW b \in Bases, b \notin B, CleanOK(b),
         InJob(b) => InJob(b)', InBatch(b) => InBatch(b)'
  PROVE  CleanOK(b)'
  <1>1. FramedBase(b) /\ \A p \in Paths : Base(p) = b => FramedPath(p)
    BY DEF Frame
  <1>2. \A p \in Paths : Base(p) = b => (p \in Marked' <=> p \in Marked)
    BY <1>1 DEF FramedPath, Marked
  <1>3. \A p : p \in Marked => p \in Paths
    BY DEF Marked, TInv, TypeOK
  <1>4. Busy(b) => Busy(b)'
    BY <1>2, <1>3 DEF Busy
  <1> QED
    BY <1>1, <1>4 DEF FramedPath, FramedBase, CleanOK

\* A step of a client or of an edit, about the files of B only.
LEMMA EditStep ==
  ASSUME WInv, TInv', NEW B, Frame(B), UNCHANGED <<jobs, batch, mode>>, mode = "up",
         \A k \in Batches : ~Atwork(k), EditOK', ShippedThere', \A b \in B : ~InJob(b),
         \A p \in Paths : Base(p) \in B => FileOK(p)', \A b \in B \cap Bases : CleanOK(b)'
  PROVE  WInv'
  <1> USE DEF WInv
  <1>1. \A b : (InJob(b)' <=> InJob(b)) /\ (InBatch(b)' <=> InBatch(b))
    BY DEF InJob, InBatch, Working
  <1>2. \A p \in Paths : FileOK(p)'
    BY <1>1, FrameFile
  <1>3. \A b \in Bases : CleanOK(b)'
    BY <1>1, FrameClean
  <1>4. \A w \in Workers : JobOK(w)'
    <2> SUFFICES ASSUME NEW w \in Workers PROVE JobOK(w)'
      OBVIOUS
    <2>1. Working(w) => Base(jobs[w].path) \notin B
      BY DEF InJob
    <2> QED
      BY <2>1, FrameJob
  <1>5. \A k \in Batches : ~Atwork(k)' /\ TodoOK(k)'
    BY DEF Atwork, Working, TodoOK
  <1>6. Leaving' /\ Solo'
    BY DEF Leaving, Solo, Working
  <1> QED
    BY <1>2, <1>3, <1>4, <1>5, <1>6 DEF BatchAlone

----------------------------------------------------------------------------
(* Patient clients *)

\* A path of a user file is the file's only one.
LEMMA OnlyName ==
  ASSUME NEW p \in Paths, NEW q \in Paths, Base(p) = Base(q), Base(p) \notin Shipped
  PROVE  p = q
  BY BaseFacts DEF Paths

LEMMA Alone ==
  ASSUME Habits = {}, WInv, NEW p \in Paths, May(p)
  PROVE  /\ mode = "up" /\ op = Ready /\ ~InJob(Base(p))
         /\ \A k \in Batches : ~Atwork(k)
         /\ \A b : ~InBatch(b)
         /\ \A q \in Paths : Base(q) = Base(p) /\ Named(q) => q = p
  <1>1. mode = "up" /\ op = Ready /\ ~InJob(Base(p)) /\ Quiet
        /\ (Base(p) \in Shipped => nameOf[Base(p)] \in {None, p})
    BY DEF May, Patient, Awaited, InJob
  <1>2. \A k \in Batches : ~Atwork(k) /\ batch[k].todo = {}
    BY <1>1 DEF Quiet, Atwork, WInv, TodoOK
  <1>3. \A q \in Paths : Base(q) = Base(p) /\ Named(q) => q = p
    BY <1>1, OnlyName, BaseFacts DEF Named
  <1> QED
    BY <1>1, <1>2, <1>3 DEF InBatch

\* What a path without an overlay is decoded to.
LEMMA FreshRead ==
  ASSUME Habits = {}, WInv, NEW p \in Paths, May(p), overlay[p] = None, Base(p) \notin excused
  PROVE  /\ disk[Base(p)] = intended[Base(p)]
         /\ intended[Base(p)] # None /\ Decoded(p) # None => Decoded(p) = intended[Base(p)]
         /\ intended[Base(p)] # None /\ ~OutOfReach(p) => Decoded(p) # None
  <1> DEFINE b == Base(p)
  <1>1. mode = "up" /\ ~InJob(b) /\ ~InBatch(b) /\ b \in Bases /\ b \in Paths /\ Base(b) = b
    BY Alone, BaseFacts DEF Bases
  <1>2. ASSUME NEW q \in Marked, Base(q) = b PROVE FALSE
    <2>1. q \in Paths /\ FileOK(q)
      BY DEF WInv, TInv, TypeOK, Marked
    <2>2. Named(q) /\ overlay[q] # None
      BY <2>1 DEF FileOK, Latest
    <2> QED
      BY <1>2, <2>1, <2>2, Alone
  <1>3. ~Busy(b)
    BY <1>1, <1>2 DEF Busy
  <1>4. disk[b] = intended[b] /\ (intended[b] # None =>
           cache[p] \in {None, intended[b]} /\ cache[b] \in {None, intended[b]})
    BY <1>1, <1>3 DEF WInv, CleanOK
  <1> QED
    BY <1>4 DEF Decoded

LEMMA OpenStep ==
  ASSUME Habits = {}, WInv, TInv', NEW p \in Paths, Open(p)
  PROVE  WInv'
  <1> DEFINE b == Base(p)
  <1>1. May(p) /\ opened' = opened \cup {p} /\ nameOf' = Names(p) /\ Exists(p)
        /\ cache' \in {cache, Caches(p)}
        /\ UNCHANGED <<autoRepack, mode, overlay, pending, disk, op, jobs, batch,
                       intended, excused, bare, edits>>
    BY DEF Open
  <1>2. mode = "up" /\ op = Ready /\ ~InJob(b) /\ \A k \in Batches : ~Atwork(k)
    BY <1>1, Alone
  <1>3. b \in Bases /\ p # None /\ b \in Paths /\ Base(b) = b /\ b \notin Synth
    BY BaseFacts DEF Bases
  <1>11. \A q \in Paths : cache'[q] = IF q \in {p, b} /\ cache' # cache THEN Decoded(p) ELSE cache[q]
    BY <1>1 DEF Caches
  <1>12. cache' # cache => Decoded(p) # None
    BY <1>1 DEF Caches
  <1>4. Frame({b})
    BY <1>1, <1>3, <1>11, BaseFacts DEF Frame, FramedPath, FramedBase, Names, WInv, TInv, TypeOK
  <1>5. Named(p)' /\ \A q \in Paths : Base(q) = b /\ Named(q) => q = p
    BY <1>1, Alone DEF Names, Named, WInv, TInv, TypeOK
  <1>6. ~InJob(b)'
    BY <1>1, <1>2 DEF InJob, Working
  <1>7. b \notin excused => intended[b] # None
    <2>1. CASE overlay[p] # None
      BY <2>1 DEF WInv, FileOK, Latest
    <2>2. CASE overlay[p] = None /\ p \in User
      <3>1. disk[p] # None /\ b = p
        BY <1>1, <2>2, BaseFacts DEF Exists
      <3> QED
        BY <1>1, <2>2, <3>1, FreshRead
    <2>3. CASE p \notin User
      BY <2>3, BaseFacts DEF WInv, ShippedThere, Paths
    <2> QED
      BY <2>1, <2>2, <2>3
  <1>8. \A q \in Paths : Base(q) = b => FileOK(q)'
    <2> SUFFICES ASSUME NEW q \in Paths, Base(q) = b PROVE FileOK(q)'
      OBVIOUS
    <2>1. FileOK(q)
      BY DEF WInv
    <2>2. Named(q) => Named(q)'
      BY <1>5
    <2>3. \A d : Latest(q, d) => Latest(q, d)'
      BY <1>1, <2>2 DEF Latest
    <2>4. q \in opened' => Named(q)'
      BY <1>1, <1>5, <2>1, <2>2 DEF FileOK
    <2>5. b \notin excused => intended[b] # None
      BY <1>7
    <2>6. q \in Synth /\ cache'[q] # None => Named(q)'
      BY <1>3, <1>5, <1>11, <2>1, <2>2 DEF FileOK
    <2> QED
      BY <1>1, <1>6, <2>1, <2>2, <2>3, <2>4, <2>5, <2>6 DEF FileOK, Marked
  <1>9. CleanOK(b)'
    <2>1. CleanOK(b) /\ (Busy(b)' <=> Busy(b))
      BY <1>1, <1>3 DEF WInv, Busy, Marked, InJob, InBatch, Working
    <2>2. ASSUME b \notin excused, ~Busy(b), intended[b] # None, cache' # cache
          PROVE  Decoded(p) = intended[b]
      <3>1. CleanOK(b) /\ mode = "up"
        BY <1>2, <1>3 DEF WInv
      <3>2. cache[p] \in {None, intended[b]} /\ cache[b] \in {None, intended[b]} /\ disk[b] = intended[b]
        BY <1>3, <2>2, <3>1 DEF CleanOK
      <3> QED
        BY <1>12, <2>2, <3>2 DEF Decoded
    <2> QED
      BY <1>1, <1>11, <2>1, <2>2 DEF CleanOK
  <1>10. EditOK' /\ ShippedThere'
    BY <1>1, <1>2 DEF WInv, EditOK, ShippedThere
  <1> QED
    BY <1>1, <1>2, <1>4, <1>8, <1>9, <1>10, EditStep

LEMMA ReadStep ==
  ASSUME Habits = {}, WInv, TInv', NEW p \in Paths, Read(p)
  PROVE  WInv'
  <1> DEFINE b == Base(p)
  <1>1. May(p) /\ p \in opened /\ overlay[p] = None /\ cache' = Caches(p)
        /\ UNCHANGED <<autoRepack, mode, overlay, pending, opened, disk, op, jobs, batch,
                       intended, excused, nameOf, bare, edits>>
    BY DEF Read, client, ghosts
  <1>2. mode = "up" /\ op = Ready /\ ~InJob(b) /\ \A k \in Batches : ~Atwork(k)
    BY <1>1, Alone
  <1>3. b \in Bases /\ b \in Paths /\ Base(b) = b /\ b \notin Synth
    BY BaseFacts DEF Bases
  <1>4. \A q \in Paths : cache'[q] = IF q \in {p, b} /\ cache' # cache THEN Decoded(p) ELSE cache[q]
    BY <1>1 DEF Caches
  <1>5. Frame({b})
    BY <1>1, <1>3, <1>4 DEF Frame, FramedPath, FramedBase
  <1>6. Named(p)
    BY <1>1 DEF WInv, FileOK
  <1>7. \A q \in Paths : Base(q) = b => FileOK(q)'
    <2> SUFFICES ASSUME NEW q \in Paths, Base(q) = b PROVE FileOK(q)'
      OBVIOUS
    <2>1. FileOK(q)
      BY DEF WInv
    <2>2. q \in Synth /\ cache'[q] # None => Named(q)
      BY <1>3, <1>4, <1>6, <2>1 DEF FileOK
    <2>3. Named(q)' <=> Named(q)
      BY <1>1 DEF Named
    <2>4. InJob(Base(q))' <=> InJob(Base(q))
      BY <1>1 DEF InJob, Working
    <2> QED
      BY <1>1, <2>1, <2>2, <2>3, <2>4 DEF FileOK, Marked, Latest
  <1>8. CleanOK(b)'
    <2>1. CleanOK(b) /\ (Busy(b)' <=> Busy(b))
      BY <1>1, <1>3 DEF WInv, Busy, Marked, InJob, InBatch, Working
    <2>2. b \notin excused /\ intended[b] # None /\ cache' # cache => Decoded(p) = intended[b]
      BY <1>1, FreshRead DEF Caches
    <2> QED
      BY <1>1, <1>4, <2>1, <2>2 DEF CleanOK
  <1>9. EditOK' /\ ShippedThere'
    BY <1>1, <1>2 DEF WInv, EditOK, ShippedThere
  <1> QED
    BY <1>1, <1>2, <1>5, <1>7, <1>8, <1>9, EditStep

\* A probe changes no copy of a file.
LEMMA ProbeStep ==
  ASSUME WInv, TInv', NEW p \in Paths, Probe(p)
  PROVE  WInv'
  BY DEF Probe, client, ghosts, WInv, Leaving, Solo, EditOK, ShippedThere, FileOK, BatchAlone, TodoOK, JobOK,
     CleanOK, Latest, Named, Marked, Atwork, Busy, InJob, InBatch, Working

LEMMA EvictStep ==
  ASSUME WInv, TInv', NEW p \in Paths, Evict(p)
  PROVE  WInv'
  <1> USE DEF WInv
  <1>1. cache[p] # None
        /\ UNCHANGED <<autoRepack, mode, overlay, pending, opened, disk, op, jobs, batch,
                       intended, excused, nameOf, bare, edits>>
    BY DEF Evict, client, ghosts
  <1>2. \A q \in Paths : cache'[q] \in {None, cache[q]}
    BY DEF Evict, TInv, TypeOK
  <1>3. /\ \A q : Named(q)' <=> Named(q)
        /\ \A b : (InJob(b)' <=> InJob(b)) /\ (Busy(b)' <=> Busy(b))
        /\ \A w : Working(w)' <=> Working(w)
    BY <1>1 DEF Named, InJob, InBatch, Busy, Marked, Working
  <1>4. \A q, d : Latest(q, d)' <=> Latest(q, d)
    BY <1>1, <1>3 DEF Latest
  <1>5. Leaving' /\ Solo' /\ EditOK' /\ ShippedThere'
    BY <1>1, <1>3 DEF Leaving, Nothing, Solo, EditOK, ShippedThere
  <1>6. \A q \in Paths : FileOK(q)'
    BY <1>1, <1>2, <1>3, <1>4 DEF FileOK, Marked
  <1>7. \A k \in Batches : BatchAlone(k)' /\ TodoOK(k)'
    BY <1>1, <1>3, <1>4 DEF BatchAlone, Atwork, TodoOK
  <1>8. \A w \in Workers : JobOK(w)'
    <2> SUFFICES ASSUME NEW w \in Workers, Working(w) PROVE JobOK(w)'
      BY <1>3 DEF JobOK
    <2>1. Base(jobs[w].path) \in Paths
      BY BaseFacts DEF TInv, Shaped, Working
    <2> QED
      BY <1>1, <1>2, <1>4, <2>1 DEF JobOK
  <1>9. \A b \in Bases : CleanOK(b)'
    BY <1>1, <1>2, <1>3 DEF CleanOK
  <1> QED
    BY <1>5, <1>6, <1>7, <1>8, <1>9

\* Create adds a file to the maps, and the maps are all that knows of it.
LEMMA CreateStep ==
  ASSUME Habits = {}, WInv, TInv', NEW p \in Paths, Create(p)
  PROVE  WInv'
  <1>1. /\ May(p) /\ p \in User
        /\ overlay' = [overlay EXCEPT ![p] = {}] /\ pending' = pending \cup {p}
        /\ opened' = opened \cup {p} /\ intended' = [intended EXCEPT ![p] = {}]
        /\ excused' = excused \ {p}
        /\ UNCHANGED <<autoRepack, mode, cache, disk, op, jobs, batch, nameOf, bare, edits>>
    BY DEF Create
  <1>2. mode = "up" /\ op = Ready /\ ~InJob(p) /\ (\A k \in Batches : ~Atwork(k)) /\ Base(p) = p
    BY <1>1, Alone, BaseFacts
  <1>3. p \in Bases /\ p \notin Shipped /\ p \notin Synth /\ \A q \in Paths : Base(q) = p => q = p
    BY <1>1, OnlyName, BaseFacts
  <1>4. overlay'[p] = {} /\ intended'[p] = {} /\ {} # None
    BY <1>1, <1>3, ContentFacts DEF WInv, TInv, TypeOK
  <1>5. Frame({p})
    BY <1>1, <1>2, BaseFacts DEF Frame, FramedPath, FramedBase, WInv, TInv, TypeOK
  <1>6. FileOK(p)'
    <2>1. Named(p)' /\ ~InJob(Base(p))'
      BY <1>1, <1>2, <1>3 DEF Named, InJob, Working
    <2> QED
      BY <1>1, <1>2, <1>3, <1>4, <2>1 DEF FileOK, Latest
  <1>7. CleanOK(p)'
    BY <1>1, <1>2 DEF CleanOK, Busy, Marked
  <1>8. EditOK' /\ ShippedThere'
    BY <1>1, <1>2, <1>3 DEF WInv, EditOK, ShippedThere, TInv, TypeOK
  <1> QED
    BY <1>1, <1>2, <1>3, <1>5, <1>6, <1>7, <1>8, EditStep

\* What is seeded is what the clients left.
LEMMA SeedStep ==
  ASSUME Habits = {}, WInv, TInv', NEW p \in Paths, NEW kind \in {"write", "cut"}, Seed(kind, p)
  PROVE  WInv'
  <1> DEFINE b == Base(p)
             seeded == IF Decoded(p) = None THEN {} ELSE Decoded(p)
  <1>1. /\ May(p) /\ p \in opened
        /\ overlay' = IF overlay[p] # None THEN overlay ELSE [overlay EXCEPT ![p] = seeded]
        /\ cache' = IF overlay[p] # None THEN cache ELSE Caches(p)
        /\ op'.path = p /\ op'.kind = kind /\ op'.at = IF kind = "write" THEN "mark" ELSE "apply"
        /\ UNCHANGED <<autoRepack, mode, opened, pending, disk, jobs, batch,
                       intended, excused, nameOf, bare, edits>>
    BY DEF Seed, ghosts
  <1>2. mode = "up" /\ ~InJob(b) /\ \A k \in Batches : ~Atwork(k)
    BY <1>1, Alone
  <1>3. b \in Bases /\ b \in Paths /\ Base(b) = b /\ b \notin Synth
    BY BaseFacts DEF Bases
  <1>4. \A q \in Paths : cache'[q] = IF q \in {p, b} /\ cache' # cache THEN Decoded(p) ELSE cache[q]
    BY <1>1 DEF Caches
  <1>5. \A q \in Paths : overlay'[q] = IF q = p /\ overlay[p] = None THEN seeded ELSE overlay[q]
    BY <1>1 DEF WInv, TInv, TypeOK
  <1>6. seeded # None /\ overlay'[p] # None
    BY <1>5, ContentFacts
  <1>7. Frame({b})
    BY <1>1, <1>3, <1>4, <1>5 DEF Frame, FramedPath, FramedBase
  <1>8. Named(p) /\ (b \notin excused => intended[b] # None)
    BY <1>1 DEF WInv, FileOK
  <1>9. overlay[p] = None /\ b \notin excused => Decoded(p) = intended[b]
    <2>1. overlay[p] # None \/ ~OutOfReach(p)
      BY DEF Seed
    <2> QED
      BY <1>1, <1>8, <2>1, FreshRead
  <1> HIDE DEF seeded
  <1>10. \A q \in Paths : Base(q) = b => FileOK(q)'
    <2> SUFFICES ASSUME NEW q \in Paths, Base(q) = b PROVE FileOK(q)'
      OBVIOUS
    <2>1. FileOK(q)
      BY DEF WInv
    <2>2. q \in Synth /\ cache'[q] # None => Named(q)
      BY <1>3, <1>4, <1>8, <2>1 DEF FileOK
    <2>3. /\ Named(q)' <=> Named(q)
          /\ InJob(Base(q))' <=> InJob(Base(q))
          /\ q \in Marked' <=> q \in Marked
          /\ \A d : Latest(q, d)' <=> Latest(q, d)
      BY <1>1 DEF Named, InJob, Working, Marked, Latest
    <2>4. overlay'[q] # None => Latest(q, overlay'[q])
      <3>1. CASE overlay'[q] = overlay[q]
        BY <2>1, <3>1 DEF FileOK
      <3>2. CASE q = p /\ overlay[p] = None
        BY <1>5, <1>6, <1>8, <1>9, <3>2 DEF Latest, seeded
      <3> QED
        BY <1>5, <3>1, <3>2
    <2>5. overlay[q] # None => overlay'[q] # None
      BY <1>5, <1>6
    <2> QED
      BY <1>1, <2>1, <2>2, <2>3, <2>4, <2>5 DEF FileOK
  <1>11. CleanOK(b)'
    <2>1. CASE cache' = cache
      BY <1>1, <1>3, <2>1 DEF WInv, CleanOK, Busy, Marked, InJob, InBatch, Working
    <2>2. CASE cache' # cache
      <3>1. CleanOK(b) /\ (Busy(b)' <=> Busy(b))
        BY <1>1, <1>3 DEF WInv, Busy, Marked, InJob, InBatch, Working
      <3>2. b \notin excused => Decoded(p) = intended[b]
        BY <1>1, <1>9, <2>2
      <3> QED
        BY <1>1, <1>4, <3>1, <3>2 DEF CleanOK
    <2> QED
      BY <2>1, <2>2
  <1>12. EditOK' /\ ShippedThere'
    BY <1>1, <1>6 DEF WInv, EditOK, ShippedThere
  <1> QED
    BY <1>1, <1>2, <1>7, <1>10, <1>11, <1>12, EditStep

\* The file that is being edited is open.
LEMMA Editing ==
  ASSUME WInv, op # Ready, NEW p, p = op.path
  PROVE  /\ p \in opened /\ p \in Paths /\ Base(p) \in Bases /\ Base(p) \in Paths
         /\ overlay[p] # None /\ Latest(p, overlay[p])
         /\ mode = "up" /\ ~InJob(Base(p)) /\ \A k \in Batches : ~Atwork(k)
  <1>1. p \in opened /\ overlay[p] # None
    BY DEF WInv, EditOK
  <1>2. p \in Paths
    BY <1>1 DEF WInv, TInv, TypeOK
  <1>3. FileOK(p)
    BY <1>2 DEF WInv
  <1>4. mode = "up"
    BY DEF WInv, Leaving
  <1>5. \A k \in Batches : ~Atwork(k)
    BY DEF WInv, BatchAlone
  <1> QED
    BY <1>1, <1>2, <1>3, <1>4, <1>5, BaseFacts DEF FileOK

LEMMA WriteMarkStep ==
  ASSUME WInv, TInv', WriteMark
  PROVE  WInv'
  <1> PICK p : p = op.path
    OBVIOUS
  <1> DEFINE b == Base(p)
  <1>1. /\ op.at = "mark" /\ op'.path = p /\ pending' = pending \cup {p}
        /\ UNCHANGED <<autoRepack, mode, opened, overlay, cache, disk, jobs, batch,
                       intended, excused, nameOf, bare, edits>>
    BY DEF WriteMark, ghosts, WInv, TInv, TypeOK, Edit
  <1>2. op # Ready
    BY <1>1 DEF Ready
  <1>3. /\ p \in opened /\ p \in Paths /\ b \in Bases /\ b \in Paths
        /\ overlay[p] # None
        /\ mode = "up" /\ ~InJob(b) /\ \A k \in Batches : ~Atwork(k)
    BY <1>2, Editing
  <1>4. Frame({b})
    BY <1>1, <1>3 DEF Frame, FramedPath, FramedBase
  <1>5. \A q \in Paths : FileOK(q)'
    <2> SUFFICES ASSUME NEW q \in Paths PROVE FileOK(q)'
      OBVIOUS
    <2>1. FileOK(q)
      BY DEF WInv
    <2>2. /\ Named(q)' <=> Named(q)
          /\ InJob(Base(q))' <=> InJob(Base(q))
          /\ \A d : Latest(q, d)' <=> Latest(q, d)
      BY <1>1 DEF Named, InJob, Working, Latest
    <2>3. q \in Marked' => q \in Marked \/ q = p
      BY <1>1 DEF Marked
    <2> QED
      BY <1>1, <1>3, <2>1, <2>2, <2>3 DEF FileOK
  <1>6. CleanOK(b)'
    BY <1>1, <1>3 DEF CleanOK, Busy, Marked
  <1>7. EditOK' /\ ShippedThere'
    BY <1>1, <1>3 DEF WInv, EditOK, ShippedThere
  <1> QED
    BY <1>1, <1>3, <1>4, <1>5, <1>6, <1>7, EditStep

LEMMA ApplyStep ==
  ASSUME WInv, TInv', Apply
  PROVE  WInv'
  <1> PICK p : p = op.path
    OBVIOUS
  <1> DEFINE b == Base(p)
             e == edits + 1
             new == IF op.kind = "write" THEN overlay[p] \cup {e} ELSE {}
             left == IF op.kind = "write" /\ intended[b] # None THEN intended[b] \cup {e} ELSE new
  <1>1. op.at = "apply" /\ op' = Ready /\ op # Ready
    BY DEF Apply, Ready
  <1>2. /\ p \in opened /\ p \in Paths /\ b \in Bases /\ b \in Paths
        /\ overlay[p] # None /\ Latest(p, overlay[p])
        /\ mode = "up" /\ ~InJob(b) /\ \A k \in Batches : ~Atwork(k)
    BY <1>1, Editing
  <1>3. /\ overlay' = [overlay EXCEPT ![p] = new]
        /\ intended' = [intended EXCEPT ![b] = left]
        /\ bare' = IF op.kind = "cut" /\ p \notin pending THEN bare \cup {p} ELSE bare \ {p}
        /\ UNCHANGED <<autoRepack, opened, pending, cache, disk, jobs, batch, excused, nameOf, mode>>
    BY <1>2 DEF Apply
  <1>4. overlay'[p] = new /\ intended'[b] = left
    BY <1>2, <1>3 DEF WInv, TInv, TypeOK
  <1>5. op.kind \in {"write", "cut"} /\ (op.kind = "write" => p \in pending)
    BY <1>1 DEF WInv, EditOK, TInv, OpShape, TypeOK, Edit
  <1>6. new # None /\ left # None
    <2>1. e \in 0..MaxEdits \/ op.kind # "write"
      <3>1. op.kind = "write" => edits < MaxEdits
        BY DEF WInv, TInv, OpShape
      <3>2. edits \in 0..MaxEdits /\ MaxEdits \in Nat
        BY PathsAssumption DEF WInv, TInv, TypeOK
      <3> QED
        BY <3>1, <3>2, SMT
    <2> HIDE DEF e
    <2>2. overlay[p] \in Bytes /\ (intended[b] # None => intended[b] \in Bytes)
      BY <1>2, ContentFacts DEF WInv, TInv, TypeOK
    <2>3. new \in Bytes /\ left \in Bytes
      BY <2>1, <2>2, ContentFacts
    <2> QED
      BY <2>3, ContentFacts
  <1>7. b \notin excused => new = left
    BY <1>2 DEF Latest
  <1> HIDE DEF new, left
  <1>8. Frame({b})
    BY <1>2, <1>3 DEF Frame, FramedPath, FramedBase, WInv, TInv, TypeOK
  <1>9. \A q \in Paths : Base(q) = b => FileOK(q)'
    <2> SUFFICES ASSUME NEW q \in Paths, Base(q) = b PROVE FileOK(q)'
      OBVIOUS
    <2>1. FileOK(q)
      BY DEF WInv
    <2>2. /\ Named(q)' <=> Named(q)
          /\ InJob(Base(q))' <=> InJob(Base(q))
      BY <1>3 DEF Named, InJob, Working
    <2>3. Named(q) /\ q # p => overlay[q] = None \/ b \notin Shipped
      BY <1>2 DEF Latest, Named
    <2>4. overlay'[q] # None => q = p
      <3>1. q # p => overlay'[q] = overlay[q]
        BY <1>3 DEF WInv, TInv, TypeOK
      <3>2. overlay[q] # None => Named(q)
        BY <2>1 DEF FileOK, Latest
      <3> QED
        BY <1>2, <2>3, <3>1, <3>2, OnlyName
    <2>5. overlay'[q] # None => Latest(q, overlay[q])'
      BY <1>2, <1>3, <1>4, <1>6, <1>7, <2>2, <2>4 DEF Latest
    <2>6. q \in Marked' => overlay'[q] # None
      <3>1. q \in Marked' => q \in Marked \/ q = p
        BY <1>3 DEF Marked
      <3>2. overlay[q] # None => overlay'[q] # None
        BY <1>3, <1>4, <1>6 DEF WInv, TInv, TypeOK
      <3> QED
        BY <1>4, <1>6, <2>1, <3>1, <3>2 DEF FileOK
    <2> QED
      BY <1>2, <1>3, <1>4, <1>6, <2>1, <2>2, <2>5, <2>6 DEF FileOK
  <1>10. CleanOK(b)'
    BY <1>2, <1>3, <1>5 DEF CleanOK, Busy, Marked
  <1>11. EditOK' /\ ShippedThere'
    BY <1>1, <1>2, <1>3, <1>6 DEF WInv, EditOK, ShippedThere, TInv, TypeOK
  <1> QED
    BY <1>2, <1>3, <1>8, <1>9, <1>10, <1>11, EditStep

\* Who removes a user file wants it gone; who removes a virtual one gives up
\* what was not saved.
LEMMA UnlinkStep ==
  ASSUME Habits = {}, WInv, TInv', NEW p \in Paths, Unlink(p)
  PROVE  WInv'
  <1> DEFINE b == Base(p)
  <1>1. /\ May(p) /\ p \notin opened /\ p \in Synth \cup User
        /\ overlay' = [overlay EXCEPT ![p] = None] /\ pending' = pending \ {p}
        /\ UNCHANGED <<autoRepack, mode, opened, op, jobs, batch, nameOf, bare, edits>>
    BY DEF Unlink, client
  <1>2. mode = "up" /\ op = Ready /\ ~InJob(b) /\ \A k \in Batches : ~Atwork(k)
    BY <1>1, Alone
  <1>3. b \in Bases /\ (p \in User => b = p /\ p \notin Synth /\ p \notin Shipped)
    BY BaseFacts
  <1>4. p \in Synth => excused' = excused \cup {b} /\ UNCHANGED <<cache, disk, intended>>
    BY DEF Unlink
  <1>5. p \in User => /\ disk' = [disk EXCEPT ![p] = None] /\ intended' = [intended EXCEPT ![p] = None]
                      /\ cache' = (IF disk[p] # None THEN [cache EXCEPT ![p] = None] ELSE cache)
                      /\ excused' = excused \ {p}
    BY <1>3 DEF Unlink
  <1>6. overlay'[p] = None /\ p \notin bare
    BY <1>1, <1>2 DEF WInv, TInv, TypeOK, FileOK
  <1>7. Frame({b})
    <2>1. CASE p \in Synth
      BY <1>1, <1>4, <2>1 DEF Frame, FramedPath, FramedBase, WInv, TInv, TypeOK
    <2>2. CASE p \in User
      BY <1>1, <1>3, <1>5, <2>2, BaseFacts DEF Frame, FramedPath, FramedBase, WInv, TInv, TypeOK
    <2> QED
      BY <1>1, <2>1, <2>2
  <1>8. \A q \in Paths : Base(q) = b => FileOK(q)'
    <2> SUFFICES ASSUME NEW q \in Paths, Base(q) = b PROVE FileOK(q)'
      OBVIOUS
    <2>1. FileOK(q)
      BY DEF WInv
    <2>2. /\ Named(q)' <=> Named(q)
          /\ InJob(Base(q))' <=> InJob(Base(q))
          /\ q \in Marked' => q \in Marked /\ q # p
      BY <1>1, <1>6 DEF Named, InJob, Working, Marked
    <2>3. overlay'[q] = IF q = p THEN None ELSE overlay[q]
      BY <1>1 DEF WInv, TInv, TypeOK
    <2>4. CASE p \in User
      <3>1. q = p
        BY <1>3, <2>4, OnlyName
      <3> QED
        BY <1>1, <1>3, <1>6, <2>2, <2>4, <3>1 DEF FileOK
    <2>5. CASE p \in Synth
      <3>1. b \in excused' /\ UNCHANGED <<cache, disk, intended>>
        BY <1>4, <2>5
      <3>2. overlay'[q] # None => Latest(q, overlay[q])'
        BY <2>1, <2>2, <2>3, <3>1 DEF FileOK, Latest
      <3> QED
        BY <1>1, <2>1, <2>2, <2>3, <3>1, <3>2 DEF FileOK
    <2> QED
      BY <1>1, <2>4, <2>5
  <1>9. CleanOK(b)'
    <2>1. CASE p \in Synth
      BY <1>4, <2>1 DEF CleanOK
    <2>2. CASE p \in User
      BY <1>3, <1>5, <2>2, BaseFacts DEF CleanOK, WInv, TInv, TypeOK
    <2> QED
      BY <1>1, <2>1, <2>2
  <1>10. EditOK' /\ ShippedThere'
    <2>1. \A c \in Shipped : disk'[c] = disk[c] /\ intended'[c] = intended[c]
      BY <1>1, <1>3, <1>4, <1>5, BaseFacts DEF WInv, TInv, TypeOK
    <2> QED
      BY <1>1, <1>2, <2>1 DEF WInv, EditOK, ShippedThere
  <1> QED
    BY <1>1, <1>2, <1>7, <1>8, <1>9, <1>10, EditStep

\* Patient clients rename user files to user files.
LEMMA Renaming ==
  ASSUME Habits = {}, WInv, NEW p \in Paths, NEW q \in Paths, Moves(p, q)
  PROVE  /\ p \in User /\ q \in User /\ p # q /\ p \notin opened /\ q \notin opened /\ Exists(p)
         /\ May(p) /\ May(q) /\ mode = "up" /\ op = Ready /\ ~InJob(p) /\ ~InJob(q)
         /\ \A k \in Batches : ~Atwork(k)
         /\ nameOf' = nameOf
         /\ p \notin bare /\ q \notin bare
         /\ \A r \in Paths : Base(r) \in {p, q} => r \in {p, q}
         /\ {p, q} \subseteq Bases /\ {p, q} \cap (Shipped \cup Synth) = {}
         /\ Base(p) = p /\ Base(q) = q
  <1>1. /\ p \in User /\ q \in User /\ p # q /\ p \notin opened /\ q \notin opened /\ Exists(p)
        /\ May(p) /\ May(q) /\ nameOf' = Names(q)
    BY DEF Moves
  <1>2. /\ Base(p) = p /\ Base(q) = q /\ {p, q} \subseteq Bases
        /\ {p, q} \cap (Shipped \cup Synth) = {}
    BY <1>1, BaseFacts
  <1>3. \A r \in Paths : Base(r) \in {p, q} => r \in {p, q}
    BY <1>2, OnlyName
  <1>4. nameOf' = nameOf
    BY <1>1, <1>2 DEF Names
  <1>5. mode = "up" /\ op = Ready /\ ~InJob(p) /\ ~InJob(q) /\ \A k \in Batches : ~Atwork(k)
    BY <1>1, <1>2, Alone
  <1>6. p \notin bare /\ q \notin bare
    BY <1>1, <1>5 DEF WInv, FileOK
  <1> QED
    BY <1>1, <1>2, <1>3, <1>4, <1>5, <1>6

LEMMA RenameUserStep ==
  ASSUME Habits = {}, WInv, TInv', NEW p \in Paths, NEW q \in Paths, RenameUser(p, q)
  PROVE  WInv'
  <1> DEFINE data == IF overlay[p] # None THEN overlay[p] ELSE disk[p]
  <1>1. /\ p \in User /\ q \in User /\ p # q /\ p \notin opened /\ q \notin opened
        /\ mode = "up" /\ op = Ready /\ ~InJob(p) /\ ~InJob(q)
        /\ \A k \in Batches : ~Atwork(k)
        /\ nameOf' = nameOf
        /\ p \notin bare /\ q \notin bare
        /\ \A r \in Paths : Base(r) \in {p, q} => r \in {p, q}
        /\ {p, q} \subseteq Bases /\ {p, q} \cap (Shipped \cup Synth) = {}
        /\ Base(p) = p /\ Base(q) = q
    BY Renaming DEF RenameUser
  <1>2. data # None
    BY DEF RenameUser
  <1>3. /\ overlay' = [overlay EXCEPT ![p] = None, ![q] = data]
        /\ cache' = [cache EXCEPT ![p] = data, ![q] = data]
        /\ intended' = [intended EXCEPT ![p] = None, ![q] = data]
        /\ \/ /\ disk' = [disk EXCEPT ![p] = None, ![q] = data]
              /\ excused' = excused \ {p, q}
           \/ /\ disk' = [disk EXCEPT ![q] = data]
              /\ excused' = (excused \ {q}) \cup {p}
        /\ pending' = pending \ {p}
        /\ UNCHANGED <<autoRepack, mode, opened, op, jobs, batch, bare, edits>>
    BY <1>1 DEF RenameUser, client
  <1> HIDE DEF data
  <1>4. /\ overlay'[p] = None /\ overlay'[q] = data /\ cache'[q] = data
        /\ intended'[p] = None /\ intended'[q] = data /\ disk'[q] = data
        /\ q \notin excused' /\ (p \notin excused' => disk'[p] = None)
        /\ p \notin pending'
    BY <1>1, <1>3, BaseFacts DEF WInv, TInv, TypeOK
  <1>5. Frame({p, q})
    BY <1>1, <1>3, BaseFacts DEF Frame, FramedPath, FramedBase, WInv, TInv, TypeOK
  <1>6. FileOK(p)' /\ FileOK(q)'
    BY <1>1, <1>2, <1>3, <1>4 DEF FileOK, Latest, Named, Marked
  <1>7. CleanOK(p)'
    BY <1>4 DEF CleanOK
  <1>8. CleanOK(q)'
    <2>1. \A r \in Paths : Base(r) = q => r \in {q, p}
      BY <1>1
    <2> QED
      BY <1>1, <1>4, <2>1 DEF CleanOK
  <1>9. EditOK' /\ ShippedThere'
    <2>1. \A c \in Shipped : disk'[c] = disk[c] /\ intended'[c] = intended[c]
      BY <1>1, <1>3, BaseFacts DEF WInv, TInv, TypeOK
    <2> QED
      BY <1>1, <1>3, <2>1 DEF WInv, EditOK, ShippedThere
  <1>10. \A r \in Paths : Base(r) \in {p, q} => FileOK(r)'
    BY <1>1, <1>6
  <1>11. \A b \in {p, q} \cap Bases : CleanOK(b)'
    BY <1>7, <1>8
  <1> QED
    BY <1>1, <1>3, <1>5, <1>9, <1>10, <1>11, EditStep

LEMMA RenameOverlayStep ==
  ASSUME Habits = {}, WInv, TInv', NEW p \in Paths, NEW q \in Paths, RenameOverlay(p, q)
  PROVE  WInv'
  <1>1. /\ p \in User /\ q \in User /\ p # q /\ p \notin opened /\ q \notin opened /\ Exists(p)
        /\ mode = "up" /\ op = Ready /\ ~InJob(p) /\ ~InJob(q)
        /\ \A k \in Batches : ~Atwork(k)
        /\ nameOf' = nameOf
        /\ p \notin bare /\ q \notin bare
        /\ \A r \in Paths : Base(r) \in {p, q} => r \in {p, q}
        /\ {p, q} \subseteq Bases /\ {p, q} \cap (Shipped \cup Synth) = {}
        /\ Base(p) = p /\ Base(q) = q
    BY Renaming DEF RenameOverlay
  <1>2. disk[p] = None /\ overlay[p] # None
    BY <1>1 DEF RenameOverlay, Exists
  <1>3. /\ overlay' = [overlay EXCEPT ![p] = None, ![q] = overlay[p]]
        /\ cache' = [cache EXCEPT ![p] = overlay[p], ![q] = overlay[p]]
        /\ intended' = [intended EXCEPT ![p] = None, ![q] = overlay[p]]
        /\ excused' = (excused \ {p, q}) \cup (IF p \in excused THEN {q} ELSE {})
        /\ pending' = (pending \ {p}) \cup {q}
        /\ UNCHANGED <<autoRepack, mode, opened, op, disk, jobs, batch, bare, edits>>
    BY <1>1 DEF RenameOverlay, client
  <1>4. /\ overlay'[p] = None /\ overlay'[q] = overlay[p]
        /\ intended'[p] = None /\ intended'[q] = overlay[p]
        /\ disk'[p] = None /\ p \notin pending' /\ q \in pending'
    BY <1>1, <1>2, <1>3, BaseFacts DEF WInv, TInv, TypeOK
  <1>5. Frame({p, q})
    BY <1>1, <1>3, BaseFacts DEF Frame, FramedPath, FramedBase, WInv, TInv, TypeOK
  <1>6. FileOK(p)' /\ FileOK(q)'
    BY <1>1, <1>2, <1>3, <1>4 DEF FileOK, Latest, Named, Marked
  <1>7. CleanOK(p)' /\ CleanOK(q)'
    BY <1>1, <1>3, <1>4 DEF CleanOK, Busy, Marked
  <1>8. EditOK' /\ ShippedThere'
    <2>1. \A c \in Shipped : disk'[c] = disk[c] /\ intended'[c] = intended[c]
      BY <1>1, <1>3, BaseFacts DEF WInv, TInv, TypeOK
    <2> QED
      BY <1>1, <1>3, <2>1 DEF WInv, EditOK, ShippedThere
  <1>9. \A r \in Paths : Base(r) \in {p, q} => FileOK(r)'
    BY <1>1, <1>6
  <1>10. \A b \in {p, q} \cap Bases : CleanOK(b)'
    BY <1>7
  <1> QED
    BY <1>1, <1>3, <1>5, <1>8, <1>9, <1>10, EditStep

\* A job is given what its file has now, and has the file to itself.
LEMMA ReleaseStep ==
  ASSUME Habits = {}, WInv, TInv', NEW p \in Paths, Release(p)
  PROVE  WInv'
  <1> DEFINE b == Base(p)
  <1>1. /\ mode = "up" /\ op = Ready /\ p \in opened /\ p \notin bare
        /\ opened' = opened \ {p}
        /\ UNCHANGED <<autoRepack, mode, op, overlay, pending, disk, batch, intended, excused,
                       nameOf, bare, edits>>
    BY DEF Release, Closes, ghosts
  <1>2. FileOK(p) /\ b \in Bases /\ b \in Paths /\ Base(b) = b /\ b \notin Synth
    BY BaseFacts DEF WInv, Bases
  <1>3. Named(p) /\ ~InJob(b)
    BY <1>1, <1>2 DEF FileOK
  <1>4. \A k \in Batches : ~Atwork(k) /\ ~Atwork(k)'
    <2>1. \A k \in Batches : ~Atwork(k)
      BY <1>1 DEF WInv, BatchAlone
    <2>2. \A k \in Batches : k \notin Pool
      BY PathsAssumption
    <2>3. \A k \in Batches : jobs'[k] = jobs[k]
      BY <2>2 DEF Release, WInv, TInv, TypeOK, Workers
    <2> QED
      BY <1>1, <2>1, <2>3 DEF Atwork, Working
  <1>5. \A k \in Batches : BatchAlone(k)' /\ TodoOK(k)'
    <2>1. \A k \in Batches : batch'[k].at = "none" /\ batch'[k].todo = {}
      BY <1>1, <1>4 DEF Atwork, WInv, TodoOK
    <2> QED
      BY <1>4, <2>1 DEF BatchAlone, TodoOK
  <1>6. Leaving' /\ EditOK' /\ ShippedThere'
    BY <1>1 DEF WInv, Leaving, EditOK, ShippedThere
  <1>7. /\ \A q : (Named(q)' <=> Named(q)) /\ (q \in Marked' <=> q \in Marked)
        /\ \A c : InBatch(c)' <=> InBatch(c)
    BY <1>1 DEF Named, Marked, InBatch
  <1>8. \A q, d : Latest(q, d)' <=> Latest(q, d)
    BY <1>1, <1>7 DEF Latest
  <1>9. CASE UNCHANGED jobs /\ cache' = IF overlay[p] # None THEN [cache EXCEPT ![p] = overlay[p]] ELSE cache
    <2>1. \A q \in Paths : cache'[q] = IF q = p /\ overlay[p] # None THEN overlay[p] ELSE cache[q]
      BY <1>9 DEF WInv, TInv, TypeOK
    <2>2. \A c : (InJob(c)' <=> InJob(c)) /\ (Busy(c)' <=> Busy(c))
      BY <1>7, <1>9 DEF InJob, Busy, Working
    <2>3. \A q \in Paths : FileOK(q)'
      BY <1>1, <1>3, <1>7, <1>8, <2>1, <2>2 DEF WInv, FileOK
    <2>4. \A w \in Workers : JobOK(w)'
      <3> SUFFICES ASSUME NEW w \in Workers, Working(w) PROVE JobOK(w)'
        BY <1>9 DEF JobOK, Working
      <3>1. JobOK(w) /\ Base(jobs[w].path) # b /\ Base(jobs[w].path) \in Paths
            /\ Base(Base(jobs[w].path)) = Base(jobs[w].path)
        BY <1>3, BaseFacts DEF WInv, InJob, TInv, Shaped, Working, Bases
      <3>2. cache'[Base(jobs[w].path)] = cache[Base(jobs[w].path)]
        BY <2>1, <3>1
      <3> QED
        BY <1>1, <1>8, <1>9, <3>1, <3>2 DEF JobOK
    <2>5. ASSUME NEW c \in Bases PROVE CleanOK(c)'
      <3>1. CleanOK(c)
        BY DEF WInv
      <3>2. overlay[p] # None /\ b \notin excused => overlay[p] = intended[b]
        BY <1>2 DEF FileOK, Latest
      <3> QED
        BY <1>1, <2>1, <2>2, <3>1, <3>2 DEF CleanOK
    <2>6. Solo'
      BY <1>9 DEF WInv, Solo, Working
    <2> QED
      BY <1>5, <1>6, <2>3, <2>4, <2>5, <2>6 DEF WInv
  <1>10. CASE UNCHANGED cache /\ overlay[p] # None /\ p \in pending
              /\ \E v \in Pool : ~Working(v) /\ jobs' = [jobs EXCEPT ![v] = NewJob(p, overlay[p])]
    <2>1. PICK v \in Workers : ~Working(v) /\ jobs' = [jobs EXCEPT ![v] = NewJob(p, overlay[p])]
      BY <1>10 DEF Workers
    <2>2. overlay[p] \in Bytes /\ Latest(p, overlay[p])
      BY <1>2, <1>10, ContentFacts DEF WInv, TInv, TypeOK, FileOK
    <2>3. jobs'[v].at = "begin" /\ jobs'[v].path = p /\ jobs'[v].data = overlay[p]
      BY <2>1, <2>2, JobTypes DEF WInv, TInv, TypeOK
    <2>4. \A w \in Workers : w # v => jobs'[w] = jobs[w]
      BY <2>1 DEF WInv, TInv, TypeOK
    <2>5. /\ \A w \in Workers : Working(w)' <=> Working(w) \/ w = v
          /\ \A c : InJob(c)' <=> InJob(c) \/ c = b
      BY <2>1, <2>3, <2>4 DEF Working, InJob
    <2>6. Solo'
      BY <1>3, <2>3, <2>4, <2>5 DEF WInv, Solo, InJob
    <2>7. \A w \in Workers : JobOK(w)'
      <3>1. JobOK(v)'
        BY <1>1, <1>8, <2>2, <2>3 DEF JobOK
      <3>2. ASSUME NEW w \in Workers, w # v PROVE JobOK(w)'
        BY <1>1, <1>8, <1>10, <2>4, <3>2 DEF WInv, JobOK, Working
      <3> QED
        BY <3>1, <3>2
    <2>8. ASSUME NEW q \in Paths PROVE FileOK(q)'
      <3>1. FileOK(q)
        BY DEF WInv
      <3>2. q \in opened /\ Base(q) = b => q = p
        BY <1>3, <3>1, OnlyName DEF FileOK, Named
      <3> QED
        BY <1>1, <1>7, <1>8, <1>10, <2>5, <3>1, <3>2 DEF FileOK
    <2>9. ASSUME NEW c \in Bases PROVE CleanOK(c)'
      BY <1>1, <1>7, <1>10, <2>5 DEF WInv, CleanOK, Busy
    <2> QED
      BY <1>5, <1>6, <2>6, <2>7, <2>8, <2>9 DEF WInv
  <1> QED
    BY <1>9, <1>10 DEF Release

----------------------------------------------------------------------------
(* [s] and the end of the mount *)

\* Everything that is pending is taken while nothing else runs.
LEMMA TakeStep ==
  ASSUME WInv, TInv', NEW k \in Batches, TakePending(k), op = Ready,
         \A j \in Batches : ~Atwork(j), \A w \in Workers : ~Working(w),
         mode \in {"up", "discarding"}, mode = "up" => opened = {}, mode = "discarding" => pending = {},
         mode' = (IF k = "save" THEN "up" ELSE "unmounting"), k = "save" => mode = "up",
         UNCHANGED <<autoRepack, opened, op, overlay, cache, disk, jobs, intended, excused,
                     nameOf, bare, edits>>
  PROVE  WInv'
  <1> USE DEF WInv
  <1>1. /\ batch' = [batch EXCEPT ![k].at = "overlay", ![k].todo = pending]
        /\ pending' = {}
    BY DEF TakePending
  <1>2. /\ batch'[k].at = "overlay" /\ batch'[k].todo = pending
        /\ \A j \in Batches : j # k => batch'[j] = batch[j] /\ batch[j].at = "none" /\ batch[j].todo = {}
    BY <1>1 DEF TInv, TypeOK, Batched, Atwork, TodoOK
  <1>3. opened = {}
    BY DEF Leaving
  <1>4. mode = "up" => bare = {}
    BY <1>3 DEF FileOK, TInv, TypeOK
  <1>5. /\ \A w \in Workers : ~Working(w)'
        /\ \A c : ~InJob(c) /\ ~InJob(c)'
        /\ Marked' = {} /\ \A p \in pending : mode = "up" /\ p \in Marked
    BY <1>1, <1>4 DEF Working, InJob, Marked
  <1>6. \A q : (Named(q)' <=> Named(q)) /\ \A d : (Latest(q, d)' <=> Latest(q, d))
    BY DEF Named, Latest
  <1>7. Leaving' /\ Solo' /\ EditOK' /\ ShippedThere'
    BY <1>1, <1>3, <1>5 DEF Leaving, Solo, EditOK, ShippedThere
  <1>8. \A p \in Paths : FileOK(p)'
    BY <1>3, <1>4, <1>5, <1>6 DEF FileOK
  <1>9. \A w \in Workers : JobOK(w)'
    BY <1>5 DEF JobOK
  <1>10. \A j \in Batches : BatchAlone(j)'
    BY <1>1, <1>2, <1>3, <1>5 DEF BatchAlone, Atwork, Workers
  <1>11. \A j \in Batches : TodoOK(j)'
    <2>1. \A p \in pending : overlay[p] # None /\ Latest(p, overlay[p])
      BY <1>5 DEF FileOK, TInv, TypeOK
    <2> QED
      BY <1>2, <1>5, <1>6, <2>1 DEF TodoOK
  <1>12. ASSUME NEW b \in Bases PROVE CleanOK(b)'
    <2>1. CleanOK(b)
      OBVIOUS
    <2>2. Busy(b) => Busy(b)'
      <3>1. \A p : p \in Marked => p \in pending
        BY <1>4 DEF Marked
      <3>2. ~InBatch(b)
        BY DEF InBatch, Atwork, TodoOK
      <3>3. (\E p \in pending : Base(p) = b) => InBatch(b)'
        BY <1>2 DEF InBatch
      <3> QED
        BY <1>5, <3>1, <3>2, <3>3 DEF Busy
    <2> QED
      BY <2>1, <2>2 DEF CleanOK
  <1> QED
    BY <1>7, <1>8, <1>9, <1>10, <1>11, <1>12

\* Nothing runs.
Still == op = Ready /\ (\A j \in Batches : ~Atwork(j)) /\ \A w \in Workers : ~Working(w)

LEMMA StillFacts ==
  ASSUME TInv, Quiet, \A b \in Bases : ~InJob(b)
  PROVE  Still
  <1>1. \A w \in Workers : Working(w) => Base(jobs[w].path) \in Bases
    BY BaseFacts DEF TInv, Shaped, Working
  <1> QED
    BY <1>1 DEF Quiet, Still, Atwork, InJob

LEMMA SaveStep ==
  ASSUME Habits = {}, WInv, TInv', SavePressed
  PROVE  WInv'
  <1>1. Still /\ opened = {} /\ mode = "up"
    BY StillFacts DEF SavePressed, WInv
  <1> QED
    BY <1>1, TakeStep DEF SavePressed, Still, Batches, client, ghosts

LEMMA UnmountStep ==
  ASSUME Habits = {}, WInv, TInv', Unmount
  PROVE  WInv'
  <1>1. Still
    BY StillFacts DEF Unmount, MayExit, WInv
  <1> QED
    BY <1>1, TakeStep DEF Unmount, Still, Batches, client, ghosts

LEMMA TakeOverlayStep ==
  ASSUME WInv, TInv', NEW k \in Batches, TakeOverlay(k)
  PROVE  WInv'
  <1> USE DEF WInv
  <1>1. /\ batch[k].at = "overlay" /\ overlay' = Nothing
        /\ batch' = [batch EXCEPT ![k] = IF batch[k].todo = {} THEN NoBatch
                                         ELSE [batch[k] EXCEPT !.at = "flush", !.snap = overlay]]
        /\ UNCHANGED <<autoRepack, mode, opened, op, pending, cache, disk, jobs, intended, excused,
                       nameOf, bare, edits>>
    BY DEF TakeOverlay, client, ghosts
  <1>2. /\ Atwork(k) /\ pending = {} /\ opened = {} /\ op = Ready
        /\ \A w \in Workers : w # k => ~Working(w)
        /\ \A j \in Batches : j # k => batch[j].at = "none"
        /\ mode = IF k = "save" THEN "up" ELSE "unmounting"
    BY <1>1 DEF BatchAlone, Atwork
  <1>3. /\ batch'[k].todo = batch[k].todo
        /\ batch'[k].at = "none" => batch'[k].todo = {}
        /\ batch'[k].at # "none" => batch'[k].at = "flush" /\ batch'[k].snap = overlay
        /\ \A j \in Batches : j # k => batch'[j] = batch[j]
    BY <1>1 DEF TInv, TypeOK, Batched, NoBatch
  <1>4. \A p \in Paths : overlay'[p] = None
    BY <1>1 DEF Nothing
  <1>5. \A q : (Named(q)' <=> Named(q)) /\ \A d : (Latest(q, d)' <=> Latest(q, d))
    BY <1>1 DEF Named, Latest
  <1>6. /\ \A w : Working(w)' <=> Working(w)
        /\ \A c : (InJob(c)' <=> InJob(c)) /\ (InBatch(c)' <=> InBatch(c)) /\ (Busy(c)' <=> Busy(c))
    BY <1>1, <1>3 DEF Working, InJob, InBatch, Busy, Marked
  <1>7. Leaving' /\ Solo' /\ EditOK' /\ ShippedThere'
    BY <1>1, <1>2, <1>6 DEF Leaving, Solo, EditOK, ShippedThere
  <1>8. \A p \in Paths : FileOK(p)'
    BY <1>1, <1>2, <1>4, <1>5, <1>6 DEF FileOK, Marked
  <1>9. \A w \in Workers : JobOK(w)'
    <2>1. \A w \in Workers : Working(w) => jobs[w].path \in Paths
      BY DEF TInv, Shaped, Working
    <2> QED
      BY <1>1, <1>4, <1>5, <1>6, <2>1 DEF JobOK
  <1>10. \A j \in Batches : BatchAlone(j)'
    BY <1>1, <1>2, <1>3, <1>6 DEF BatchAlone, Atwork
  <1>11. \A j \in Batches : TodoOK(j)'
    <2>1. \A p \in batch[k].todo : p \in Paths /\ Latest(p, overlay[p]) /\ ~InJob(Base(p))
      BY <1>1 DEF TInv, TypeOK, Batched, TodoOK
    <2>2. TodoOK(k)'
      BY <1>3, <1>4, <1>5, <1>6, <2>1 DEF TodoOK
    <2>3. \A j \in Batches : j # k => batch[j].todo = {}
      BY <1>2 DEF TodoOK
    <2> QED
      BY <1>2, <1>3, <2>2, <2>3 DEF TodoOK
  <1>12. \A b \in Bases : CleanOK(b)'
    BY <1>1, <1>6 DEF CleanOK
  <1> QED
    BY <1>7, <1>8, <1>9, <1>10, <1>11, <1>12

\* The next path of a batch is a job like any other.
LEMMA NextPathStep ==
  ASSUME WInv, TInv', NEW k \in Batches, NextPath(k)
  PROVE  WInv'
  <1> USE DEF WInv
  <1>1. /\ batch[k].at = "flush" /\ ~Working(k) /\ k \in Workers
        /\ UNCHANGED <<autoRepack, mode, opened, op, overlay, pending, cache, disk, intended, excused,
                       nameOf, bare, edits>>
    BY DEF NextPath, client, ghosts, Workers
  <1>2. PICK p \in batch[k].todo :
          /\ batch' = [batch EXCEPT ![k] = IF batch[k].todo = {p} THEN NoBatch
                                           ELSE [batch[k] EXCEPT !.todo = batch[k].todo \ {p}]]
          /\ jobs' = IF batch[k].snap[p] = None THEN jobs
                     ELSE [jobs EXCEPT ![k] = NewJob(p, batch[k].snap[p])]
    BY DEF NextPath
  <1> DEFINE d == batch[k].snap[p]
             b == Base(p)
  <1>3. /\ Atwork(k) /\ pending = {} /\ opened = {} /\ op = Ready
        /\ \A w \in Workers : w # k => ~Working(w)
        /\ \A j \in Batches : j # k => batch[j].at = "none" /\ batch[j].todo = {}
        /\ mode = IF k = "save" THEN "up" ELSE "unmounting"
    BY <1>1 DEF BatchAlone, Atwork, TodoOK
  <1>4. \A q \in batch[k].todo : /\ q \in Paths /\ Latest(q, batch[k].snap[q])
                                 /\ overlay[q] = None /\ ~InJob(Base(q))
    BY <1>1 DEF TodoOK, TInv, TypeOK, Batched
  <1>5. d # None /\ d \in Bytes /\ p \in Paths /\ b \in Bases
    BY <1>4, ContentFacts, BaseFacts DEF Latest, TInv, TypeOK, Batched
  <1>6. /\ batch'[k].todo = batch[k].todo \ {p}
        /\ batch'[k].at = "none" => batch'[k].todo = {}
        /\ batch'[k].at # "none" => batch'[k].at = "flush" /\ batch'[k].snap = batch[k].snap
        /\ \A j \in Batches : j # k => batch'[j] = batch[j]
    <2>1. CASE batch[k].todo = {p}
      BY <1>2, <2>1 DEF TInv, TypeOK, Batched, NoBatch
    <2>2. CASE batch[k].todo # {p}
      BY <1>1, <1>2, <2>2 DEF TInv, TypeOK, Batched, NoBatch
    <2> QED
      BY <2>1, <2>2
  <1>7. /\ jobs'[k].at = "begin" /\ jobs'[k].path = p /\ jobs'[k].data = d
        /\ \A w \in Workers : w # k => jobs'[w] = jobs[w]
    BY <1>1, <1>2, <1>5, JobTypes DEF TInv, TypeOK
  <1> HIDE DEF d
  <1>8. \A q : (Named(q)' <=> Named(q)) /\ \A c : (Latest(q, c)' <=> Latest(q, c))
    BY <1>1 DEF Named, Latest
  <1>9. /\ \A w \in Workers : (Working(w)' <=> w = k)
        /\ \A c : InJob(c)' <=> c = b
        /\ \A c : ~InJob(c)
    BY <1>1, <1>3, <1>7 DEF Working, InJob
  <1>10. Leaving' /\ Solo' /\ EditOK' /\ ShippedThere'
    BY <1>1, <1>3, <1>9 DEF Leaving, Solo, EditOK, ShippedThere, Batches
  <1>11. \A q \in Paths : FileOK(q)'
    BY <1>1, <1>3, <1>8 DEF FileOK, Marked
  <1>12. \A w \in Workers : JobOK(w)'
    <2>1. JobOK(k)'
      BY <1>1, <1>4, <1>7, <1>8 DEF JobOK, d
    <2> QED
      BY <1>9, <2>1 DEF JobOK
  <1>13. \A j \in Batches : BatchAlone(j)'
    <2>1. \A j \in Batches : j # k => ~Atwork(j)'
      BY <1>3, <1>6, <1>9 DEF Atwork, Workers
    <2> QED
      BY <1>1, <1>3, <1>6, <1>9, <2>1 DEF BatchAlone
  <1>14. \A j \in Batches : TodoOK(j)'
    <2>1. ASSUME NEW q \in batch[k].todo, q # p PROVE Base(q) # b
      BY <1>4, <1>5, <2>1, OnlyName DEF Latest, Named
    <2>2. TodoOK(k)'
      BY <1>1, <1>4, <1>6, <1>8, <1>9, <2>1 DEF TodoOK
    <2> QED
      BY <1>3, <1>6, <2>2 DEF TodoOK
  <1>15. ASSUME NEW c \in Bases PROVE CleanOK(c)'
    <2>1. CleanOK(c)
      OBVIOUS
    <2>2. InBatch(c) => InBatch(c)' \/ c = b
      BY <1>3, <1>6 DEF InBatch
    <2>3. Busy(c) => Busy(c)'
      BY <1>1, <1>9, <2>2 DEF Busy, Marked
    <2> QED
      BY <1>1, <2>1, <2>3 DEF CleanOK
  <1> QED
    BY <1>10, <1>11, <1>12, <1>13, <1>14, <1>15

\* Esc gives up what is not saved; the mount ends when nothing else runs.
LEMMA MountStep ==
  ASSUME Habits = {}, WInv, TInv', DiscardOverlay \/ DiscardPending \/ Exit \/ Remount
  PROVE  WInv'
  <1> USE DEF WInv
  <1>1. CASE DiscardOverlay
    <2>1. Still /\ mode' = "discarding"
          /\ overlay' = Nothing /\ excused' = excused \cup {b \in Bases : disk[b] # intended[b]}
          /\ opened' = {} /\ UNCHANGED <<pending, cache, disk, op, jobs, batch, intended, nameOf, bare>>
      BY <1>1, StillFacts DEF DiscardOverlay, MayExit
    <2>2. /\ \A w \in Workers : ~Working(w) /\ ~Working(w)'
          /\ \A j \in Batches : ~Atwork(j) /\ ~Atwork(j)' /\ batch'[j].todo = {} /\ op = Ready
      BY <2>1 DEF Still, Atwork, Working, TodoOK
    <2>3. Leaving' /\ Solo' /\ EditOK' /\ ShippedThere'
      BY <2>1, <2>2 DEF Still, Leaving, Solo, EditOK, ShippedThere
    <2>4. \A p \in Paths : FileOK(p)'
      BY <2>1 DEF FileOK, Marked, Nothing, Named
    <2>5. \A k \in Batches : BatchAlone(k)' /\ TodoOK(k)'
      BY <2>2 DEF BatchAlone, TodoOK, Atwork
    <2>6. \A w \in Workers : JobOK(w)'
      BY <2>2 DEF JobOK
    <2>7. \A b \in Bases : CleanOK(b)'
      BY <2>1 DEF CleanOK
    <2> QED
      BY <2>3, <2>4, <2>5, <2>6, <2>7
  <1>2. CASE DiscardPending
    <2>1. mode = "discarding" /\ pending' = {}
          /\ UNCHANGED <<mode, opened, op, overlay, cache, disk, jobs, batch, intended, excused, nameOf, bare>>
      BY <1>2 DEF DiscardPending, client, ghosts
    <2>2. /\ \A q : (Named(q)' <=> Named(q)) /\ (q \in Marked' <=> q \in Marked)
          /\ \A q, d : Latest(q, d)' <=> Latest(q, d)
          /\ \A w : Working(w)' <=> Working(w)
          /\ \A c : (InJob(c)' <=> InJob(c)) /\ (Busy(c)' <=> Busy(c))
      BY <2>1 DEF Named, Marked, Latest, Working, InJob, InBatch, Busy
    <2>3. Leaving' /\ Solo' /\ EditOK' /\ ShippedThere'
      BY <2>1, <2>2 DEF Leaving, Solo, EditOK, ShippedThere
    <2>4. \A p \in Paths : FileOK(p)'
      BY <2>1, <2>2 DEF FileOK
    <2>5. \A k \in Batches : BatchAlone(k)' /\ TodoOK(k)'
      BY <2>1, <2>2 DEF BatchAlone, TodoOK, Atwork
    <2>6. \A w \in Workers : JobOK(w)'
      BY <2>1, <2>2 DEF JobOK
    <2>7. \A b \in Bases : CleanOK(b)'
      BY <2>1, <2>2 DEF CleanOK
    <2> QED
      BY <2>3, <2>4, <2>5, <2>6, <2>7
  <1>3. CASE Exit
    <2>1. /\ mode = "unmounting" /\ batch["destroy"].at = "none" /\ ~Working("destroy")
          /\ mode' = "down" /\ jobs' = [w \in Workers |-> NoJob] /\ batch' = [k \in Batches |-> NoBatch]
          /\ overlay' = Nothing /\ cache' = Nothing /\ pending' = {} /\ bare' = {}
          /\ disk' = [p \in Paths |-> Landed(p)]
          /\ UNCHANGED <<opened, op, intended, excused, nameOf>>
      BY <1>3 DEF Exit
    <2>2. /\ \A w \in Workers : ~Working(w)
          /\ \A k \in Batches : batch[k].todo = {}
      BY <2>1 DEF Leaving, BatchAlone, Atwork, TodoOK, Batches
    <2>3. /\ \A w \in Workers : ~Working(w)'
          /\ \A k \in Batches : batch'[k].at = "none" /\ batch'[k].todo = {}
      BY <2>1 DEF Working, NoJob, NoBatch
    <2>9. \A p \in Paths : disk'[p] = disk[p]
      BY <2>1, <2>2 DEF Landed, Working
    <2>4. Leaving' /\ Solo' /\ EditOK' /\ ShippedThere'
      BY <2>1, <2>3, <2>9, BaseFacts DEF Leaving, Solo, EditOK, ShippedThere
    <2>5. \A p \in Paths : FileOK(p)'
      BY <2>1 DEF FileOK, Marked, Nothing, Leaving
    <2>6. \A k \in Batches : BatchAlone(k)' /\ TodoOK(k)'
      BY <2>3 DEF BatchAlone, TodoOK, Atwork, Workers
    <2>7. \A w \in Workers : JobOK(w)'
      BY <2>3 DEF JobOK
    <2>8. ASSUME NEW b \in Bases PROVE CleanOK(b)'
      <3>1. ~Busy(b)
        BY <2>1, <2>2 DEF Busy, Marked, InJob, InBatch
      <3> QED
        BY <2>1, <2>9, <3>1, BaseFacts DEF CleanOK, Bases
    <2> QED
      BY <2>4, <2>5, <2>6, <2>7, <2>8
  <1>4. CASE Remount
    <2>1. /\ mode = "down" /\ mode' = "up"
          /\ disk' = [p \in Paths |-> IF p \in Synth THEN None ELSE disk[p]]
          /\ intended' = [b \in Bases |-> IF b \in excused THEN disk[b] ELSE intended[b]]
          /\ excused' = {}
          /\ UNCHANGED <<overlay, pending, cache, opened, op, jobs, batch, bare>>
      BY <1>4 DEF Remount
    <2>2. /\ opened = {} /\ op = Ready /\ pending = {} /\ overlay = Nothing /\ cache = Nothing /\ bare = {}
          /\ \A k \in Batches : ~Atwork(k)
      BY <2>1 DEF Leaving, BatchAlone
    <2>3. \A w \in Workers : ~Working(w)
      BY <2>1, <2>2 DEF Leaving, Atwork, Batches, Workers
    <2>4. /\ \A w \in Workers : ~Working(w)'
          /\ \A k \in Batches : ~Atwork(k)' /\ batch[k].at = "none" /\ batch[k].todo = {}
      BY <2>1, <2>2, <2>3 DEF Working, Atwork, TodoOK
    <2>5. \A b \in Bases : disk'[b] = disk[b] /\ intended'[b] = disk[b]
      <3>1. ASSUME NEW b \in Bases PROVE b \in excused \/ intended[b] = disk[b]
        <4>1. ~Busy(b)
          BY <2>1, <2>3, <2>4 DEF Busy, Marked, InJob, InBatch
        <4> QED
          BY <4>1 DEF CleanOK
      <3> QED
        BY <2>1, <3>1, BaseFacts DEF Bases
    <2>6. Leaving' /\ Solo' /\ EditOK'
      BY <2>1, <2>2, <2>4 DEF Leaving, Solo, EditOK
    <2>7. ShippedThere'
      BY <2>5, BaseFacts DEF ShippedThere
    <2>8. \A p \in Paths : FileOK(p)'
      BY <2>1, <2>2 DEF FileOK, Marked, Nothing
    <2>9. \A k \in Batches : BatchAlone(k)' /\ TodoOK(k)'
      BY <2>1, <2>4 DEF BatchAlone, TodoOK
    <2>10. \A w \in Workers : JobOK(w)'
      BY <2>4 DEF JobOK
    <2>11. \A b \in Bases : CleanOK(b)'
      BY <2>1, <2>2, <2>5 DEF CleanOK, Nothing
    <2> QED
      BY <2>6, <2>7, <2>8, <2>9, <2>10, <2>11
  <1> QED
    BY <1>1, <1>2, <1>3, <1>4

----------------------------------------------------------------------------
(* flush_path_sync *)

LEMMA JobFacts ==
  ASSUME WInv, NEW w \in Workers, Working(w), NEW p, p = jobs[w].path, NEW c, c = Base(p)
  PROVE  /\ p \in Paths /\ c \in Bases /\ c \in Paths /\ Base(c) = c
         /\ Latest(p, jobs[w].data) /\ jobs[w].data \in Bytes /\ jobs[w].data # None
         /\ \A q \in Paths : Base(q) = c =>
              /\ q \notin opened
              /\ Named(q) => q = p
              /\ overlay[q] # None => q = p /\ overlay[q] = jobs[w].data
              /\ mode = "up" => q \notin bare
  <1>1. p \in Paths /\ Base(p) = c /\ c \in Bases /\ c \in Paths /\ Base(c) = c
    BY BaseFacts DEF WInv, TInv, Shaped, Working, Bases
  <1>2. Latest(p, jobs[w].data) /\ overlay[p] \in {None, jobs[w].data}
    BY DEF WInv, JobOK
  <1>3. ASSUME NEW q \in Paths, Base(q) = c
        PROVE  /\ q \notin opened
               /\ Named(q) => q = p
               /\ overlay[q] # None => q = p /\ overlay[q] = jobs[w].data
               /\ mode = "up" => q \notin bare
    <2>1. FileOK(q) /\ InJob(c)
      BY DEF WInv, InJob
    <2>2. Named(q) => q = p
      BY <1>1, <1>2, <1>3, OnlyName DEF Latest, Named
    <2> QED
      BY <1>2, <1>3, <2>1, <2>2 DEF FileOK, Latest
  <1>4. jobs[w].data \in Bytes
    BY DEF WInv, TInv, TypeOK, Job
  <1> QED
    BY <1>1, <1>2, <1>3, <1>4, ContentFacts

\* A step of a job touches the file the job is about, and nobody else does.
LEMMA JobMove ==
  ASSUME WInv, TInv', NEW w \in Workers, Working(w), NEW i, JobStep(w, i),
         NEW c, c = Base(jobs[w].path), Frame({c}),
         UNCHANGED <<autoRepack, mode, opened, op, batch, nameOf, bare, edits>>,
         pending' \subseteq pending,
         \A q \in Paths : Base(q) = c => FileOK(q)',
         JobOK(w)', ~Working(w)' => CleanOK(c)', ShippedThere'
  PROVE  WInv'
  <1> USE DEF WInv
  <1>1. c \in Bases /\ \A q \in Paths : Base(q) = c => q \notin opened
    BY JobFacts
  <1>2. /\ jobs'[w] = i /\ Moved(jobs[w], i)
        /\ \A v \in Workers : v # w => jobs'[v] = jobs[v]
    BY DEF JobStep, TInv, TypeOK
  <1>3. /\ Working(w)' => jobs'[w].path = jobs[w].path
        /\ \A v \in Workers : Working(v)' => Working(v)
        /\ \A v \in Workers : v # w /\ Working(v) => Base(jobs[v].path) # c
    BY <1>2 DEF Moved, NoJob, Working, Solo
  <1>4. /\ \A b : InJob(b)' => InJob(b)
        /\ \A b : b # c /\ InJob(b) => InJob(b)'
        /\ Working(w)' => InJob(c)'
        /\ \A b : InBatch(b)' <=> InBatch(b)
    BY <1>2, <1>3 DEF InJob, InBatch, Working
  <1>5. Solo'
    BY <1>2, <1>3 DEF Solo
  <1>6. \A k \in Batches : BatchAlone(k)'
    BY <1>3 DEF BatchAlone, Atwork, Workers
  <1>7. mode # "down"
    BY DEF Leaving, BatchAlone, Atwork, Batches
  <1>8. Leaving'
    BY <1>3, <1>7 DEF Leaving
  <1>9. EditOK'
    <2> SUFFICES ASSUME op # Ready PROVE EditOK'
      BY DEF EditOK
    <2> PICK p : p = op.path
      OBVIOUS
    <2>1. p \in opened /\ p \in Paths /\ ~InJob(Base(p))
      BY Editing
    <2>2. Base(p) # c
      BY <2>1 DEF InJob
    <2>3. FramedPath(p)
      BY <2>1, <2>2 DEF Frame
    <2> QED
      BY <2>1, <2>3 DEF EditOK, FramedPath
  <1>10. \A p \in Paths : FileOK(p)'
    <2> SUFFICES ASSUME NEW p \in Paths, Base(p) # c PROVE FileOK(p)'
      OBVIOUS
    <2> QED
      BY <1>4, FrameFile
  <1>11. \A v \in Workers : JobOK(v)'
    <2> SUFFICES ASSUME NEW v \in Workers, v # w PROVE JobOK(v)'
      OBVIOUS
    <2>1. jobs'[v] = jobs[v] /\ (Working(v) => Base(jobs[v].path) \notin {c})
      BY <1>2, <1>3
    <2> QED
      BY <2>1, FrameJob
  <1>12. \A k \in Batches : TodoOK(k)'
    <2> SUFFICES ASSUME NEW k \in Batches PROVE TodoOK(k)'
      OBVIOUS
    <2>1. TodoOK(k) /\ InJob(c)
      BY DEF InJob
    <2>2. \A p \in batch[k].todo : Base(p) \notin {c} /\ (InJob(Base(p))' => InJob(Base(p)))
      BY <1>4, <2>1 DEF TodoOK
    <2> QED
      BY <2>1, <2>2, FrameTodo
  <1>13. \A b \in Bases : CleanOK(b)'
    <2>1. CleanOK(c)'
      BY <1>4 DEF CleanOK, Busy
    <2>2. ASSUME NEW b \in Bases, b # c PROVE CleanOK(b)'
      <3>1. CleanOK(b) /\ b \notin {c} /\ (InJob(b) => InJob(b)') /\ (InBatch(b) => InBatch(b)')
        BY <1>4, <2>2
      <3> QED
        BY <3>1, FrameClean
    <2> QED
      BY <2>1, <2>2
  <1> QED
    BY <1>5, <1>6, <1>8, <1>9, <1>10, <1>11, <1>12, <1>13

LEMMA FlushStep ==
  ASSUME WInv, TInv', NEW w \in Workers, Flush(w)
  PROVE  WInv'
  <1>1. Working(w) /\ \E i : JobStep(w, i)
    BY FlushMoves DEF WInv
  <1> PICK i : JobStep(w, i)
    BY <1>1
  <1> PICK p : p = jobs[w].path
    OBVIOUS
  <1> PICK c : c = Base(p)
    OBVIOUS
  <1> PICK data : data = jobs[w].data
    OBVIOUS
  <1>2. /\ p \in Paths /\ c \in Bases /\ c \in Paths /\ Base(c) = c
        /\ Latest(p, data) /\ data \in Bytes /\ data # None
        /\ \A q \in Paths : Base(q) = c =>
             /\ q \notin opened
             /\ Named(q) => q = p
             /\ overlay[q] # None => q = p /\ overlay[q] = data
             /\ mode = "up" => q \notin bare
    BY <1>1, JobFacts
  <1>3. /\ jobs'[w] = i /\ Moved(jobs[w], i) /\ Shaped(jobs[w]) /\ jobs[w] \in Job
    BY DEF JobStep, WInv, TInv, TypeOK
  <1>4. JobOK(w) /\ ShippedThere /\ \A q \in Paths : FileOK(q)
    BY DEF WInv
  <1>5. UNCHANGED <<autoRepack, mode, opened, op, batch, nameOf, bare, edits>> /\ pending' \subseteq pending
    BY Flush(w) DEF Flush, FlushBegin, Convert, ConvertFails, GivesUp, CacheFirst, Repack, RepackFails, Reload,
       StoreUser, StoreUserFails, CacheUser, Invalidate, client, ghosts
  <1>6. ASSUME Frame({c}), \A q \in Paths : Base(q) = c => FileOK(q)',
               JobOK(w)', ~Working(w)' => CleanOK(c)', ShippedThere'
        PROVE  WInv'
    BY <1>1, <1>5, <1>6, JobMove
  <1>7. \A q : (Named(q)' <=> Named(q)) /\ (q \in Marked' => q \in Marked)
    BY <1>5 DEF Named, Marked
  <1>8. Working(w)' => i.path = p /\ i.data = data
    BY <1>3 DEF Moved, Working, NoJob
  \* Steps that change neither what a file holds nor where it is.
  <1>9. CASE FlushBegin(w) \/ Convert(w)
    <2>1. /\ UNCHANGED <<overlay, cache, disk, intended, excused>>
          /\ pending' = pending \ {IF jobs[w].at = "begin" THEN p ELSE c}
          /\ jobs[w].at \in {"begin", "convert"}
      BY <1>2, <1>3, <1>9, BaseFacts DEF FlushBegin, Convert, client, ghosts, Shaped
    <2>2. Frame({c})
      BY <1>2, <1>5, <2>1 DEF Frame, FramedPath, FramedBase
    <2>3. \A q, d : Latest(q, d)' <=> Latest(q, d)
      BY <1>7, <2>1 DEF Latest
    <2>4. \A q \in Paths : Base(q) = c => FileOK(q)'
      BY <1>2, <1>4, <1>5, <1>7, <2>1, <2>3 DEF FileOK
    <2>5. Working(w)' => i.at \in {"convert", "store"}
      BY <1>3, <2>1 DEF Moved, Working, NoJob
    <2>6. JobOK(w)'
      BY <1>2, <1>3, <1>4, <1>8, <2>1, <2>3, <2>5, <1>1 DEF JobOK
    <2>7. Working(w)'
      BY <1>3, <1>9 DEF FlushBegin, Convert, Working, WInv, TInv, TypeOK, Job
    <2>8. ShippedThere'
      BY <1>4, <2>1 DEF ShippedThere
    <2> QED
      BY <1>6, <2>2, <2>4, <2>6, <2>7, <2>8
  <1>10. CASE ConvertFails(w) \/ GivesUp(w) \/ RepackFails(w) \/ StoreUserFails(w)
    <2>1. /\ UNCHANGED <<overlay, pending, cache, disk, intended>>
          /\ excused' = excused \cup {c}
          /\ jobs[w].at # "begin" /\ (Working(w)' => i.at = "invalidate")
      <3>1. jobs \in [Workers -> Job]
        BY DEF WInv, TInv, TypeOK
      <3>2. UNCHANGED <<overlay, pending, cache, disk, intended>> /\ excused' = excused \cup {c}
        BY <1>10 DEF ConvertFails, GivesUp, RepackFails, StoreUserFails, Fails, client
      <3>3. /\ jobs[w].at \in {"convert", "store", "repack"}
            /\ jobs' = [jobs EXCEPT ![w] = NoJob] \/ jobs' = [jobs EXCEPT ![w].at = "invalidate"]
        <4>1. CASE GivesUp(w)
          <5>1. jobs[w].at \in {"convert", "store"}
            BY <4>1, PathsAssumption DEF GivesUp
          <5> QED
            BY <4>1, <5>1 DEF GivesUp, AfterSource, Step, Ends
        <4>2. CASE RepackFails(w)
          BY <4>2 DEF RepackFails, AfterSource, Step, Ends
        <4>3. CASE ConvertFails(w)
          BY <4>3 DEF ConvertFails, Ends
        <4>4. CASE StoreUserFails(w)
          BY <4>4 DEF StoreUserFails, Ends
        <4> QED
          BY <1>10, <4>1, <4>2, <4>3, <4>4
      <3>4. i = NoJob \/ i.at = "invalidate"
        <4>1. jobs[w] \in Job /\ i = jobs'[w]
          BY <1>3
        <4> QED
          BY <3>1, <3>3, <4>1 DEF Job
      <3> QED
        BY <1>3, <3>2, <3>3, <3>4 DEF Working, NoJob
    <2>2. Frame({c})
      BY <1>2, <1>5, <2>1 DEF Frame, FramedPath, FramedBase
    <2>3. \A q \in Paths, d \in Content : Base(q) = c => (Latest(q, d) => Latest(q, d)')
      BY <1>7, <2>1 DEF Latest
    <2>4. \A q \in Paths : Base(q) = c => FileOK(q)'
      <3> SUFFICES ASSUME NEW q \in Paths, Base(q) = c PROVE FileOK(q)'
        OBVIOUS
      <3>1. overlay[q] \in Content
        BY DEF WInv, TInv, TypeOK
      <3> QED
        BY <1>2, <1>4, <1>5, <1>7, <2>1, <2>3, <3>1 DEF FileOK
    <2>5. JobOK(w)'
      <3>1. Latest(p, data)' /\ c \in excused'
        BY <1>2, <2>1, <2>3, ContentFacts
      <3> QED
        BY <1>3, <1>4, <1>8, <2>1, <3>1, <1>1 DEF JobOK
    <2>6. CleanOK(c)'
      BY <2>1 DEF CleanOK
    <2>7. ShippedThere'
      BY <1>4, <2>1 DEF ShippedThere
    <2> QED
      BY <1>6, <2>2, <2>4, <2>5, <2>6, <2>7
  <1>11. CASE CacheFirst(w) \/ CacheUser(w)
    <2>1. /\ UNCHANGED <<overlay, pending, disk, intended, excused>>
          /\ cache' = [cache EXCEPT ![c] = data]
          /\ jobs[w].at # "begin"
      BY <1>3, <1>11 DEF CacheFirst, CacheUser, Step, Ends, ghosts, Shaped
    <2>2. cache'[c] = data /\ \A q \in Paths : q # c => cache'[q] = cache[q]
      BY <1>2, <2>1 DEF WInv, TInv, TypeOK
    <2>3. Frame({c})
      BY <1>2, <1>5, <2>1, <2>2 DEF Frame, FramedPath, FramedBase
    <2>4. \A q, d : Latest(q, d)' <=> Latest(q, d)
      BY <1>7, <2>1 DEF Latest
    <2>5. \A q \in Paths : Base(q) = c => FileOK(q)'
      <3> SUFFICES ASSUME NEW q \in Paths, Base(q) = c PROVE FileOK(q)'
        OBVIOUS
      <3>1. q \in Synth => cache'[q] = cache[q]
        BY <1>2, <2>2, BaseFacts
      <3> QED
        BY <1>2, <1>4, <1>5, <1>7, <2>1, <2>4, <3>1 DEF FileOK
    <2>6. JobOK(w)'
      <3>1. Working(w)' => i.at = "repack"
        BY <1>3, <1>11 DEF CacheFirst, CacheUser, Step, Ends, Working, NoJob, WInv, TInv, TypeOK, Job
      <3> QED
        BY <1>1, <1>2, <1>3, <1>4, <1>8, <2>1, <2>2, <2>4, <3>1 DEF JobOK
    <2>7. ~Working(w)' => CleanOK(c)'
      <3> SUFFICES ASSUME ~Working(w)' PROVE CleanOK(c)'
        OBVIOUS
      <3>1. jobs[w].at = "cache"
        BY <1>3, <1>11 DEF CacheFirst, CacheUser, Step, Ends, Working, WInv, TInv, TypeOK, Job
      <3>2. c \in User
        BY <1>3, <3>1, BaseFacts DEF Shaped
      <3>3. c \notin excused => disk[c] = data /\ intended[c] = data
        BY <1>1, <1>2, <1>4, <3>1 DEF JobOK, Latest
      <3>4. \A q \in Paths : Base(q) = c => q = c
        BY <1>2, <3>2, OnlyName, BaseFacts
      <3> QED
        BY <2>1, <2>2, <3>3, <3>4 DEF CleanOK
    <2>8. ShippedThere'
      BY <1>4, <2>1 DEF ShippedThere
    <2> QED
      BY <1>6, <2>3, <2>5, <2>6, <2>7, <2>8
  <1>12. CASE Repack(w)
    <2>1. /\ UNCHANGED <<overlay, pending, cache, disk>>
          /\ excused' = excused \ {c}
          /\ intended' = IF c \in excused THEN [intended EXCEPT ![c] = data] ELSE intended
          /\ jobs[w].at = "repack" /\ i.at = "reload"
      BY <1>3, <1>12 DEF Repack, Reports, Step, Shaped, WInv, TInv, TypeOK, Job
    <2>2. intended'[c] = data /\ c \notin excused'
      BY <1>2, <2>1 DEF Latest, WInv, TInv, TypeOK
    <2>3. Frame({c})
      BY <1>2, <1>5, <2>1, BaseFacts DEF Frame, FramedPath, FramedBase, WInv, TInv, TypeOK
    <2>4. Latest(p, data)'
      BY <1>2, <1>7, <2>2 DEF Latest
    <2>5. \A q \in Paths : Base(q) = c => FileOK(q)'
      BY <1>2, <1>4, <1>5, <1>7, <2>1, <2>4 DEF FileOK
    <2>6. JobOK(w)' /\ Working(w)'
      BY <1>1, <1>2, <1>3, <1>4, <1>8, <2>1, <2>4 DEF JobOK, Working
    <2>7. ShippedThere'
      BY <1>2, <1>4, <2>1, BaseFacts DEF ShippedThere, WInv, TInv, TypeOK
    <2> QED
      BY <1>6, <2>3, <2>5, <2>6, <2>7
  <1>14. CASE StoreUser(w)
    <2>1. /\ UNCHANGED <<overlay, pending, cache>>
          /\ disk' = [disk EXCEPT ![c] = data] /\ excused' = excused \ {c}
          /\ intended' = IF c \in excused THEN [intended EXCEPT ![c] = data] ELSE intended
          /\ jobs[w].at = "store" /\ i.at = "cache"
      BY <1>3, <1>14 DEF StoreUser, Stored, Reports, Step, Shaped, WInv, TInv, TypeOK, Job
    <2>2. disk'[c] = data /\ intended'[c] = data /\ c \notin excused'
      BY <1>2, <2>1 DEF Latest, WInv, TInv, TypeOK
    <2>3. Frame({c})
      BY <1>2, <1>5, <2>1, BaseFacts DEF Frame, FramedPath, FramedBase, WInv, TInv, TypeOK
    <2>4. Latest(p, data)'
      BY <1>2, <1>7, <2>2 DEF Latest
    <2>5. \A q \in Paths : Base(q) = c => FileOK(q)'
      BY <1>2, <1>4, <1>5, <1>7, <2>1, <2>4 DEF FileOK
    <2>6. JobOK(w)' /\ Working(w)'
      BY <1>1, <1>2, <1>3, <1>4, <1>8, <2>1, <2>2, <2>4 DEF JobOK, Working
    <2>7. ShippedThere'
      BY <1>2, <1>4, <2>1, BaseFacts DEF ShippedThere, WInv, TInv, TypeOK
    <2> QED
      BY <1>6, <2>3, <2>5, <2>6, <2>7
  <1>15. CASE Reload(w)
    <2>1. /\ UNCHANGED <<overlay, pending, cache, excused, intended>>
          /\ disk' = [disk EXCEPT ![c] = data] /\ jobs[w].at = "reload"
      BY <1>3, <1>15 DEF Reload, Stored, AfterSource, Step, Ends, Shaped, ghosts
    <2>2. disk'[c] = data /\ (c \notin excused => intended[c] = data)
      BY <1>2, <2>1 DEF Latest, WInv, TInv, TypeOK
    <2>3. Frame({c})
      BY <1>2, <1>5, <2>1, BaseFacts DEF Frame, FramedPath, FramedBase, WInv, TInv, TypeOK
    <2>4. \A q, d : Latest(q, d)' <=> Latest(q, d)
      BY <1>7, <1>5, <2>1 DEF Latest, Named
    <2>5. \A q \in Paths : Base(q) = c => FileOK(q)'
      BY <1>2, <1>4, <1>5, <1>7, <2>1, <2>4 DEF FileOK
    <2>6. Working(w)' => i.at = "invalidate"
      BY <1>3, <2>1 DEF Moved, Working, NoJob
    <2>7. JobOK(w)'
      BY <1>1, <1>2, <1>3, <1>4, <1>8, <2>1, <2>2, <2>4, <2>6 DEF JobOK
    <2>8. ~Working(w)' => CleanOK(c)'
      <3> SUFFICES ASSUME ~Working(w)' PROVE CleanOK(c)'
        OBVIOUS
      <3>1. p \notin Synth
        BY <1>3, <1>15 DEF Reload, AfterSource, Step, Working, WInv, TInv, TypeOK, Job
      <3>2. cache[c] \in {None, data}
        BY <1>1, <1>4, <2>1 DEF JobOK
      <3>3. \A q \in Paths : Base(q) = c => cache[q] \in {None, data}
        <4> SUFFICES ASSUME NEW q \in Paths, Base(q) = c, q # c, cache[q] # None PROVE FALSE
          BY <3>2
        <4>1. q \in Synth
          BY BaseFacts DEF Paths
        <4>2. Named(q)
          BY <1>4, <4>1 DEF FileOK
        <4> QED
          BY <1>2, <3>1, <4>1, <4>2
      <3> QED
        BY <2>1, <2>2, <3>3 DEF CleanOK
    <2>9. ShippedThere'
      BY <1>2, <1>4, <2>1, BaseFacts DEF ShippedThere, WInv, TInv, TypeOK
    <2> QED
      BY <1>6, <2>3, <2>5, <2>7, <2>8, <2>9
  <1>13. CASE Invalidate(w)
    <2>1. /\ UNCHANGED <<pending, disk, intended, excused>>
          /\ overlay' = [overlay EXCEPT ![p] = None] /\ cache' = [cache EXCEPT ![p] = None]
          /\ jobs[w].at = "invalidate" /\ ~Working(w)'
      BY <1>3, <1>13 DEF Invalidate, Ends, ghosts, Working, NoJob, WInv, TInv, TypeOK
    <2>2. p \in Synth /\ p \notin pending
      BY <1>1, <1>3, <1>4, <2>1 DEF Shaped, JobOK
    <2>3. /\ overlay'[p] = None /\ cache'[p] = None
          /\ \A q \in Paths : q # p => overlay'[q] = overlay[q] /\ cache'[q] = cache[q]
      BY <1>2, <2>1 DEF WInv, TInv, TypeOK
    <2>4. Frame({c})
      BY <1>2, <1>5, <2>1, <2>3 DEF Frame, FramedPath, FramedBase
    <2>5. \A q, d : Latest(q, d)' <=> Latest(q, d)
      BY <1>7, <2>1 DEF Latest
    <2>6. p \notin Marked'
      BY <1>2, <1>5, <2>1, <2>2 DEF Marked
    <2>7. \A q \in Paths : Base(q) = c => FileOK(q)'
      BY <1>2, <1>4, <1>5, <1>7, <2>1, <2>3, <2>5, <2>6 DEF FileOK
    <2>8. JobOK(w)'
      BY <2>1 DEF JobOK
    <2>9. CleanOK(c)'
      <3>1. c \notin excused => disk[c] = data /\ intended[c] = data
        BY <1>1, <1>2, <1>4, <2>1 DEF JobOK, Latest
      <3>2. c \notin excused => cache[c] \in {None, data}
        BY <1>1, <1>2, <1>4, <2>1 DEF JobOK
      <3>3. \A q \in Paths : Base(q) = c => q = c \/ cache'[q] = None
        <4> SUFFICES ASSUME NEW q \in Paths, Base(q) = c, q # c, q # p, cache[q] # None PROVE FALSE
          BY <2>3
        <4>1. q \in Synth
          BY BaseFacts DEF Paths
        <4>2. Named(q)
          BY <1>4, <4>1 DEF FileOK
        <4> QED
          BY <1>2, <4>2
      <3>4. c # p
        BY <1>2, <2>2, BaseFacts
      <3> QED
        BY <1>2, <2>1, <2>3, <3>1, <3>2, <3>3, <3>4 DEF CleanOK
    <2>10. ShippedThere'
      BY <1>4, <2>1 DEF ShippedThere
    <2> QED
      BY <1>6, <2>4, <2>7, <2>8, <2>9, <2>10
  <1> QED
    BY Flush(w), <1>9, <1>10, <1>11, <1>12, <1>13, <1>14, <1>15 DEF Flush

----------------------------------------------------------------------------
(* The theorems *)

LEMMA WInvInit == ASSUME Init PROVE WInv
  <1>1. TInv
    BY TypeInit
  <1>2. /\ mode = "up" /\ overlay = Nothing /\ pending = {} /\ cache = Nothing /\ opened = {}
        /\ op = Ready /\ jobs = [w \in Workers |-> NoJob] /\ batch = [b \in Batches |-> NoBatch]
        /\ intended = [b \in Bases |-> disk[b]] /\ bare = {}
        /\ disk = [p \in Paths |-> IF p \in Shipped THEN {0} ELSE None]
    BY DEF Init
  <1>3. /\ \A w \in Workers : ~Working(w)
        /\ \A k \in Batches : batch[k].at = "none" /\ batch[k].todo = {}
    BY <1>2 DEF Working, NoJob, NoBatch
  <1>4. Leaving /\ Solo /\ EditOK
    BY <1>2, <1>3 DEF Leaving, Solo, EditOK
  <1>5. ShippedThere
    BY <1>2, BaseFacts, ContentFacts DEF ShippedThere
  <1>6. \A p \in Paths : FileOK(p)
    BY <1>2 DEF FileOK, Nothing, Marked
  <1>7. \A k \in Batches : BatchAlone(k) /\ TodoOK(k)
    BY <1>3 DEF BatchAlone, TodoOK, Atwork, Workers
  <1>8. \A w \in Workers : JobOK(w)
    BY <1>3 DEF JobOK
  <1>9. \A b \in Bases : CleanOK(b)
    BY <1>2 DEF CleanOK, Nothing
  <1> QED
    BY <1>1, <1>4, <1>5, <1>6, <1>7, <1>8, <1>9 DEF WInv

LEMMA WInvStep == ASSUME Habits = {}, WInv, [Next]_vars PROVE WInv'
  <1>1. TInv'
    BY TypeStep DEF WInv
  <1>2. CASE UNCHANGED vars
    BY <1>1, <1>2 DEF vars, WInv, Leaving, Solo, EditOK, ShippedThere, FileOK, BatchAlone, TodoOK, JobOK,
       CleanOK, Latest, Named, Marked, Atwork, Busy, InJob, InBatch, Working
  <1>3. CASE Client
    BY <1>1, <1>3, OpenStep, ReadStep, ProbeStep, CreateStep, ReleaseStep, UnlinkStep, SeedStep, RenameUserStep,
       RenameOverlayStep, SaveStep, UnmountStep, MountStep DEF Client
  <1>4. CASE Session \/ \E p \in Paths : Evict(p)
    BY <1>1, <1>4, WriteMarkStep, ApplyStep, MountStep, EvictStep DEF Session
  <1>5. CASE \/ \E w \in Workers : Flush(w)
             \/ \E k \in Batches : Batch(k)
    BY <1>1, <1>5, FlushStep, TakeOverlayStep, NextPathStep DEF Batch
  <1> QED
    BY <1>2, <1>3, <1>4, <1>5 DEF Next

LEMMA WInvHolds == ASSUME Habits = {} PROVE Spec => []WInv
  <1>1. Init => WInv
    BY WInvInit
  <1>2. WInv /\ [Next]_vars => WInv'
    BY WInvStep
  <1> QED
    BY <1>1, <1>2, PTL DEF Spec

LEMMA KeptThen == ASSUME WInv PROVE SavesKept
  <1> SUFFICES ASSUME NEW b \in Bases, b \notin excused, disk[b] # intended[b] PROVE Carried(b)
    BY DEF SavesKept
  <1>1. Busy(b)
    BY DEF WInv, CleanOK
  <1>2. ASSUME NEW p \in Marked, Base(p) = b PROVE Carried(b)
    <2>1. p \in Paths /\ FileOK(p) /\ (p \in pending \/ p \in opened)
      BY DEF WInv, TInv, TypeOK, Marked, FileOK
    <2> QED
      BY <1>2, <2>1 DEF FileOK, Latest, Carried
  <1>3. ASSUME NEW w \in Workers, Working(w), Base(jobs[w].path) = b PROVE Carried(b)
    <2>1. jobs[w].path \in Paths /\ jobs[w].data = intended[b]
      BY <1>3 DEF WInv, TInv, Shaped, JobOK, Latest, Working
    <2> QED
      BY <1>3, <2>1 DEF Carried
  <1>4. ASSUME NEW k \in Batches, NEW p \in batch[k].todo, Base(p) = b PROVE Carried(b)
    <2>1. p \in Paths /\ intended[b] = IF batch[k].at = "overlay" THEN overlay[p] ELSE batch[k].snap[p]
      BY <1>4 DEF WInv, TInv, TypeOK, Batched, TodoOK, Latest
    <2> QED
      BY <1>4, <2>1 DEF Carried
  <1> QED
    BY <1>1, <1>2, <1>3, <1>4 DEF Busy, InJob, InBatch

LEMMA ReadThen == ASSUME WInv PROVE ReadsBack
  <1> SUFFICES ASSUME NEW p \in Paths, NEW b, b = Base(p), mode \in {"up", "down"},
                      intended[b] # None, b \notin excused, b \in Shipped => nameOf[b] = p,
                      ~InJob(b), ~InBatch(b), overlay[p] # None \/ (~OutOfReach(p) /\ ~(Probed(p) /\ p \in Stubbed))
               PROVE  Visible(p) = intended[b]
    BY DEF ReadsBack
  <1>1. b \in Bases /\ b \in Paths /\ Base(b) = b
    BY BaseFacts DEF Bases
  <1>2. CASE overlay[p] # None
    BY <1>2 DEF WInv, FileOK, Latest, Visible
  <1>3. CASE overlay[p] = None
    <2>1. ASSUME NEW q \in Marked, Base(q) = b PROVE FALSE
      <3>1. q \in Paths /\ overlay[q] # None /\ Named(q)
        BY DEF WInv, TInv, TypeOK, Marked, FileOK, Latest
      <3>2. q = p
        BY <2>1, <3>1, OnlyName DEF Named
      <3> QED
        BY <1>3, <3>1, <3>2
    <2>2. ~Busy(b)
      BY <2>1 DEF Busy
    <2>3. /\ disk[b] = intended[b]
          /\ mode = "up" => \A q \in Paths : Base(q) = b => cache[q] \in {None, intended[b]}
      BY <1>1, <2>2 DEF WInv, CleanOK
    <2>4. mode = "down" => \A q \in Paths : cache[q] = None
      BY DEF WInv, Leaving, Nothing
    <2> QED
      BY <1>1, <1>3, <2>3, <2>4 DEF Visible, Decoded
  <1> QED
    BY <1>2, <1>3

\* What a step puts on disk.
LEMMA StoreStep ==
  ASSUME Habits = {}, WInv, [Next]_vars, NEW b \in Bases, disk'[b] # disk[b], b \notin excused
  PROVE  disk'[b] = intended'[b]
  <1>1. disk \in [Paths -> Content] /\ intended \in [Bases -> Content] /\ b \in Paths
    BY BaseFacts DEF WInv, TInv, TypeOK
  <1>2. ASSUME disk' = disk PROVE FALSE
    BY <1>2
  <1>3. CASE \E w \in Workers : Reload(w) \/ StoreUser(w)
    <2>1. PICK w \in Workers : Reload(w) \/ StoreUser(w)
      BY <1>3
    <2>2. /\ disk' = [disk EXCEPT ![jobs[w].to] = jobs[w].data]
          /\ intended' = intended \/ intended' = [intended EXCEPT ![jobs[w].to] = jobs[w].data]
          /\ jobs[w].at \in {"store", "reload"}
      BY <2>1 DEF Reload, StoreUser, Stored, Reports, AfterSource, Step, Ends, ghosts
    <2>3. Shaped(jobs[w]) /\ JobOK(w) /\ Working(w)
      BY <2>2 DEF WInv, TInv, Working
    <2>4. b = jobs[w].to /\ disk'[b] = jobs[w].data
      BY <1>1, <2>2
    <2>5. jobs[w].data = intended[b]
      BY <2>2, <2>3, <2>4 DEF Shaped, JobOK, Latest
    <2>6. intended'[b] = jobs[w].data
      BY <1>1, <2>2, <2>4, <2>5
    <2> QED
      BY <2>4, <2>6
  <1>4. CASE \E p \in Paths, q \in Paths : RenameUser(p, q)
    <2>1. PICK p \in Paths, q \in Paths : RenameUser(p, q)
      BY <1>4
    <2> DEFINE data == IF overlay[p] # None THEN overlay[p] ELSE disk[p]
    <2>2. p # q /\ Base(q) = q /\ {p, q} \subseteq Bases
      BY <2>1, Renaming DEF RenameUser
    <2>3. /\ intended' = [intended EXCEPT ![p] = None, ![q] = data]
          /\ \/ disk' = [disk EXCEPT ![p] = None, ![q] = data]
             \/ disk' = [disk EXCEPT ![q] = data]
      BY <2>1, <2>2 DEF RenameUser
    <2> HIDE DEF data
    <2> QED
      BY <1>1, <2>2, <2>3
  <1>5. CASE \E p \in Paths : Unlink(p)
    <2>1. PICK p \in Paths : Unlink(p)
      BY <1>5
    <2>2. disk' = [disk EXCEPT ![p] = None] /\ intended' = [intended EXCEPT ![p] = None]
      BY <1>2, <2>1 DEF Unlink
    <2> QED
      BY <1>1, <2>2
  <1>6. CASE Remount
    BY <1>1, <1>6, BaseFacts DEF Remount, Bases
  <1>7. CASE UNCHANGED vars
    BY <1>2, <1>7 DEF vars
  <1>8. ASSUME NEW p \in Paths, Open(p) \/ Read(p) \/ Probe(p) \/ Create(p) \/ Release(p) \/ Evict(p)
                                \/ \E kind \in {"write", "cut"} : Seed(kind, p)
                                \/ \E q \in Paths : RenameOverlay(p, q)
        PROVE FALSE
    BY <1>2, <1>8 DEF Open, Read, Probe, Create, Release, Evict, Seed, RenameOverlay
  <1>13. CASE Exit
    <2>1. mode = "unmounting" /\ batch["destroy"].at = "none" /\ ~Working("destroy")
          /\ disk' = [p \in Paths |-> Landed(p)]
      BY <1>13 DEF Exit
    <2>2. \A w \in Workers : ~Working(w)
      BY <2>1 DEF WInv, Leaving
    <2> QED
      BY <1>1, <2>1, <2>2 DEF Landed, Working
  <1>9. CASE \/ SavePressed \/ DiscardOverlay \/ Unmount \/ WriteMark \/ Apply \/ DiscardPending
             \/ \E k \in Batches : Batch(k)
    BY <1>2, <1>9 DEF SavePressed, DiscardOverlay, Unmount, Session, WriteMark, Apply, DiscardPending, Batch,
       TakeOverlay, NextPath
  <1>10. CASE \E w \in Workers : \/ FlushBegin(w) \/ Convert(w) \/ ConvertFails(w) \/ GivesUp(w) \/ CacheFirst(w)
                                 \/ Repack(w) \/ RepackFails(w) \/ StoreUserFails(w) \/ CacheUser(w)
                                 \/ Invalidate(w)
    BY <1>2, <1>10 DEF FlushBegin, Convert, ConvertFails, GivesUp, CacheFirst, Repack, RepackFails, StoreUserFails,
       CacheUser, Invalidate
  <1>11. CASE Client
    BY <1>4, <1>5, <1>6, <1>8, <1>9, <1>11 DEF Client
  <1>12. CASE \E w \in Workers : Flush(w)
    BY <1>3, <1>10, <1>12 DEF Flush
  <1> QED
    BY <1>7, <1>8, <1>9, <1>11, <1>12, <1>13 DEF Next, Session

\* Once a file is closed, what its editor left in it is on disk, or in memory
\* and on its way there, or its save was given up: with a report, and where
\* Unsaid names no place, with nothing else.  For any number of files, virtual
\* roots and pool threads, and for clients without one of the Habits: they leave
\* a file alone until its flush is over, which is later than its [ok].
THEOREM SavesAlwaysKept == ASSUME Habits = {} PROVE Spec => []SavesKept
  <1>1. WInv => SavesKept
    BY KeptThen
  <1> QED
    BY <1>1, WInvHolds, PTL

\* Clients without one of the Habits read what they wrote, from overlay, cache,
\* rendered source or disk, at any time but while the file is being saved and
\* but for the two reads the code fails: of a Stubbed view that is not cached,
\* and of a user file beyond the end of the mapped user PAZ.
THEOREM ReadsAlwaysBack == ASSUME Habits = {} PROVE Spec => []ReadsBack
  <1>1. WInv => ReadsBack
    BY ReadThen
  <1> QED
    BY <1>1, WInvHolds, PTL

\* No save, rename, removal or mount puts an older content of a file on disk
\* than the one the clients left last.
THEOREM LatestStored == ASSUME Habits = {} PROVE Spec => StoresLatest
  <1>1. WInv /\ [Next]_vars =>
          [\A b \in Bases : disk'[b] # disk[b] /\ b \notin excused => disk'[b] = intended'[b]]_disk
    BY StoreStep
  <1> QED
    BY <1>1, WInvHolds, PTL DEF Spec, StoresLatest

=============================================================================
