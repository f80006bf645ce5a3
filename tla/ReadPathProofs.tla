-------------------------- MODULE ReadPathProofs --------------------------
(***************************************************************************)
(* Reads return what was saved or something newer, and the decode cache    *)
(* keeps its bound, for any files, views, readers and number of saves.     *)
(***************************************************************************)
EXTENDS ReadPath, FiniteSetTheorems, WellFoundedInduction, TLAPS

-----------------------------------------------------------------------------
(* The inductive invariant *)

Content == 0 .. MaxSaves
Length  == 1 .. MaxSaves + 1

Read == [pc : {"idle", "cache", "once", "map", "keep", "render", "put"},
         path : Paths \cup {None}, slot : Slots \cup {None},
         outer : Virtual \cup {None}, outerSlot : Slots \cup {None},
         entry : Content, len : 0 .. MaxSaves + 1, got : Content \cup {None}, floor : Content]

Once == [by : Readers \cup {None}, done : BOOLEAN, val : Content \cup {None}]

Flushing == [pc : {"idle", "put", "append", "unmap", "reload", "invalidate"},
             path : Paths \cup {None}, v : Content, b : Content]

Types ==
  /\ overlay \in [Paths -> Content \cup {None}] /\ cache \in [Paths -> Content \cup {None}]
  /\ inFlight \in [Paths -> Slots \cup {None}] /\ slot \in [Slots -> Once]
  /\ map \in Length \cup {None} /\ length \in Length
  /\ index \in [Files -> Content] /\ blob \in [Content -> Content]
  /\ rd \in [Readers -> Read] /\ fl \in Flushing
  /\ saves \in Content /\ saved \in [Files -> Content]
  /\ shortMap \in BOOLEAN

\* A reader has a slot from joining it to leaving it; inside a decode of a virtual
\* file it also has that file's.
ReaderShape(r) ==
  /\ r.pc = "idle" => r = Quiet
  /\ r.pc # "idle" => r.path \in Paths
  /\ r.slot # None <=> r.pc \in {"once", "map", "keep", "render"}
  /\ r.outer # None <=> r.outerSlot # None
  /\ r.outer # None => r.path = SourceOf[r.outer] /\ r.pc # "render"
  /\ r.pc \in {"map", "keep"} => r.path \in Files
  /\ r.pc = "render" => r.path \in Virtual
  /\ r.pc = "put" => r.got # None
  /\ r.pc = "keep" => r.len \in Length

\* A flush works on the last save; 0 stands for one that failed.
FlushShape ==
  /\ IF fl.pc = "idle" THEN fl.v = 0 ELSE fl.path \in Saved /\ fl.v \in {0, saves}
  /\ fl.pc \in {"put", "append", "unmap", "reload"} => fl.v # 0
  /\ fl.pc = "invalidate" => fl.path \in Virtual
  /\ length <= saves + 1
  /\ fl.pc \in {"put", "append"} => length <= saves
  /\ fl.pc \in {"unmap", "reload"} => fl.b < length /\ blob[fl.b] = fl.v
  /\ \A f \in Files : saved[f] <= saves /\ index[f] < length

TInv == Types /\ FlushShape /\ \A t \in Readers : ReaderShape(rd[t])

\* The slot is that of a decode of p.
Ref(s, p) ==
  \/ inFlight[p] = s
  \/ \E t \in Readers : \/ rd[t].slot = s /\ rd[t].path = p
                        \/ rd[t].outerSlot = s /\ rd[t].outer = p

\* A slot is of one path; who runs its initialiser is the only one that does; and one
\* that is set has readers who have not left yet.
SlotsOK ==
  /\ \A s \in Slots, p, q \in Paths : Ref(s, p) /\ Ref(s, q) => p = q
  /\ \A t \in Readers :
       /\ rd[t].pc \in {"map", "keep", "render"} => slot[rd[t].slot].by = t
       /\ rd[t].outer # None => slot[rd[t].outerSlot].by = t
  /\ \A s \in Slots : slot[s].done =>
       /\ slot[s].by = None
       /\ \E t \in Readers : rd[t].pc = "once" /\ rd[t].slot = s

\* Clients save a file that has no view, or whose only view is the one they save, and
\* only that.  The save of a file leaves the cached renderings of it under other names
\* as they were: invalidate_virtual_path is called for the path that was written.
OneName == \A p \in Saved, q \in Paths : Source(q) = Source(p) => q \in {p, Source(p)}

\* A map that is or will be in use.
Mapped(m) == m # None /\ (m = map \/ \E t \in Readers : rd[t].pc = "keep" /\ rd[t].len = m)

Slicing(t) == rd[t].pc \in {"map", "keep"}

\* Unless a map was put back after a save dropped it, every map has the blobs that
\* the index, a reader or a flush about to reload lead to.
MapsOK ==
  /\ \A t \in Readers : Slicing(t) => rd[t].entry < length
  /\ ~shortMap => \A m \in Length : Mapped(m) =>
       /\ \A f \in Files : index[f] < m
       /\ \A t \in Readers : Slicing(t) => rd[t].entry < m
       /\ fl.pc = "reload" => fl.b < m

\* The content d of p is the last save of p or a newer one.
Recent(p, d) == Source(p) \in raced \/ d >= saved[Source(p)]

\* ... or is missing because of a short map.
Got(p, d) == IF d = None THEN Source(p) \in raced \/ shortMap ELSE Recent(p, d)

Stored ==
  /\ \A f \in Files : blob[index[f]] >= saved[f]
  /\ fl.pc = "invalidate" /\ fl.v # 0 => blob[index[Source(fl.path)]] = fl.v

\* The copies in memory: of a file that is being saved they are what is saved.
CopiesOK ==
  /\ \A p \in Paths : overlay[p] # None => p \in Saved /\ overlay[p] >= saved[Source(p)]
  /\ fl.v # 0 => overlay[fl.path] \in {None, fl.v}
  /\ \A p \in Paths : cache[p] # None => Recent(p, cache[p])
  /\ fl.v # 0 /\ fl.pc # "put" /\ Source(fl.path) \notin raced =>
       cache[Source(fl.path)] \in {None, fl.v}

\* What a reader holds is the last save or a newer one, and so is what it waits for.
Holds(r) ==
  /\ r.pc # "idle" => Source(r.path) \in raced \/ r.floor <= saved[Source(r.path)]
  /\ r.pc \in {"put", "render"} => Got(r.path, r.got)
  /\ r.pc \in {"map", "keep"} => Recent(r.path, blob[r.entry])

ReadOK(r) ==
  /\ Holds(r)
  /\ r.pc = "once" /\ slot[r.slot].done => Got(r.path, slot[r.slot].val)

CInv ==
  /\ TInv /\ SlotsOK /\ MapsOK /\ Stored /\ CopiesOK
  /\ \A t \in Readers : ReadOK(rd[t])
  /\ Coherent

BInv == TInv /\ counted \in Nat /\ CacheBounded

-----------------------------------------------------------------------------
(* Sums over sets                                                          *)

\* A property of finite sets holds of all subsets of S if it holds of a set whenever
\* it holds of the set without any one element.
LEMMA SubsetInduction ==
  ASSUME NEW S, IsFiniteSet(S), NEW C,
         \A T \in SUBSET S : (\A x \in T : T \ {x} \in C) => T \in C
  PROVE  SUBSET S \subseteq C
  <1> SUFFICES ASSUME (SUBSET S) \ C # {} PROVE FALSE
    OBVIOUS
  <1>1. FiniteSubsetsOf(S) = SUBSET S
    BY FS_FiniteSubsetsOfFinite
  <1>2. IsWellFoundedOn(StrictSubsetOrdering(S), SUBSET S)
    <2>1. IsWellFoundedOn(StrictSubsetOrdering(S), FiniteSubsetsOf(S))
      BY FS_StrictSubsetOrderingWellFounded
    <2> QED
      BY <2>1, <1>1
  <1>3. (SUBSET S) \ C \subseteq SUBSET S
    OBVIOUS
  <1>4. PICK T \in (SUBSET S) \ C : \A U \in (SUBSET S) \ C : <<U, T>> \notin StrictSubsetOrdering(S)
    BY <1>2, <1>3, WFMin
  <1>5. PICK x \in T : T \ {x} \notin C
    OBVIOUS
  <1>6. <<T \ {x}, T>> \in StrictSubsetOrdering(S)
    BY DEF StrictSubsetOrdering
  <1> QED
    BY <1>4, <1>5, <1>6

LEMMA EntryFacts == IsFiniteSet(Entries) /\ \A e \in Entries : Size[e] \in Nat
  <1>1. IsFiniteSet(0 .. MaxSaves)
    BY ReadAssumption, FS_Interval
  <1> QED
    BY <1>1, ReadAssumption, FS_Product DEF Entries

\* G gives each set of contents its bytes.
Adds(S, G) ==
  /\ G \in [SUBSET S -> Nat] /\ G[{}] = 0
  /\ \A T \in SUBSET S : \A x \in S \ T : G[T \cup {x}] = Size[x] + G[T]

LEMMA AddsExists ==
  ASSUME NEW S \in SUBSET Entries
  PROVE  \E G : Adds(S, G)
  <1> DEFINE C == {T \in SUBSET Entries : \E G : Adds(T, G)}
  <1>1. IsFiniteSet(Entries) /\ \A e \in Entries : Size[e] \in Nat
    BY EntryFacts
  <1>2. {} \in C
    <2>1. Adds({}, [T \in SUBSET {} |-> 0])
      BY DEF Adds
    <2> QED
      BY <2>1
  <1>3. ASSUME NEW T \in SUBSET Entries, NEW x \in Entries, T \in C, x \notin T
        PROVE  T \cup {x} \in C
    <2>1. PICK G : Adds(T, G)
      BY <1>3
    <2> DEFINE H == [U \in SUBSET (T \cup {x}) |-> IF x \in U THEN Size[x] + G[U \ {x}] ELSE G[U]]
    <2>2. H \in [SUBSET (T \cup {x}) -> Nat] /\ H[{}] = 0
      BY <2>1, <1>1 DEF Adds
    <2>3. ASSUME NEW U \in SUBSET (T \cup {x}), NEW y \in (T \cup {x}) \ U
          PROVE  H[U \cup {y}] = Size[y] + H[U]
      <3>1. CASE y = x
        <4>1. (U \cup {x}) \ {x} = U
          BY <2>3, <3>1
        <4> QED
          BY <2>3, <3>1, <4>1
      <3>2. CASE y # x
        <4>1. (U \cup {y}) \ {x} = (U \ {x}) \cup {y} /\ U \ {x} \in SUBSET T /\ y \in T \ (U \ {x})
          BY <2>3, <3>2
        <4>2. G[(U \ {x}) \cup {y}] = Size[y] + G[U \ {x}]
          BY <4>1, <2>1 DEF Adds
        <4>3. G[U \ {x}] \in Nat /\ Size[x] \in Nat /\ Size[y] \in Nat
          BY <2>1, <4>1, <1>1, <1>3 DEF Adds
        <4>4. CASE x \in U
          <5>1. H[U \cup {y}] = Size[x] + G[(U \ {x}) \cup {y}] /\ H[U] = Size[x] + G[U \ {x}]
            BY <4>4, <4>1, <2>3
          <5> QED
            BY <5>1, <4>2, <4>3
        <4>5. CASE x \notin U
          <5>1. U \ {x} = U /\ x \notin U \cup {y}
            BY <4>5, <3>2
          <5> QED
            BY <5>1, <4>2, <4>5, <2>3
        <4> QED
          BY <4>4, <4>5
      <3> QED
        BY <3>1, <3>2
    <2>4. Adds(T \cup {x}, H)
      BY <2>2, <2>3 DEF Adds
    <2> QED
      BY <2>4
  <1>4. ASSUME NEW T \in SUBSET Entries, \A x \in T : T \ {x} \in C PROVE T \in C
    <2>1. CASE T = {}
      BY <2>1, <1>2
    <2>2. CASE T # {}
      <3>1. PICK x \in T : TRUE
        BY <2>2
      <3>2. T \ {x} \in C /\ x \in Entries /\ x \notin T \ {x} /\ (T \ {x}) \cup {x} = T
        BY <1>4, <3>1
      <3> HIDE DEF C
      <3>3. T \ {x} \in SUBSET Entries
        OBVIOUS
      <3>4. (T \ {x}) \cup {x} \in C
        BY <3>2, <3>3, <1>3
      <3> QED
        BY <3>2, <3>4
    <2> QED
      BY <2>1, <2>2
  <1> HIDE DEF C
  <1>5. SUBSET Entries \subseteq C
    BY <1>1, <1>4, SubsetInduction
  <1> USE DEF C
  <1> QED
    BY <1>5

\* Bytes is a sum: MapThenSumSet takes the elements out one by one.
LEMMA BytesAdds ==
  ASSUME NEW S \in SUBSET Entries, NEW G, Adds(S, G)
  PROVE  Bytes(S) = G[S]
  <1> DEFINE Step(f) == [T \in SUBSET S |->
                           IF T = {} THEN 0
                           ELSE LET x == CHOOSE x \in T : TRUE IN Size[x] + f[T \ {x}]]
             it == CHOOSE f : f = Step(f)
  <1>1. Bytes(S) = it[S]
    BY DEF Bytes, MapThenSumSet, MapThenFoldSet
  <1>2. ASSUME NEW T \in SUBSET S, T # {}
        PROVE  LET x == CHOOSE x \in T : TRUE IN
                 x \in T /\ T \ {x} \in SUBSET S /\ G[T] = Size[x] + G[T \ {x}]
    <2> DEFINE x == CHOOSE x \in T : TRUE
    <2>1. x \in T
      BY <1>2
    <2> HIDE DEF x
    <2>2. T \ {x} \in SUBSET S /\ x \in S \ (T \ {x}) /\ T = (T \ {x}) \cup {x}
      BY <2>1
    <2>3. G[T] = Size[x] + G[T \ {x}]
      BY <2>2 DEF Adds
    <2> QED
      BY <2>1, <2>2, <2>3 DEF x
  <1>3. G = Step(G)
    <2>1. G = [T \in SUBSET S |-> G[T]]
      BY DEF Adds
    <2>2. \A T \in SUBSET S : G[T] = Step(G)[T]
      BY <1>2 DEF Adds
    <2> QED
      BY <2>1, <2>2
  <1>4. it = Step(it)
    BY <1>3
  <1> HIDE DEF it
  <1> DEFINE C == {T \in SUBSET S : it[T] = G[T]}
  <1>5. ASSUME NEW T \in SUBSET S, \A x \in T : T \ {x} \in C PROVE T \in C
    <2>1. it[T] = Step(it)[T]
      BY <1>4
    <2>2. CASE T = {}
      BY <2>1, <2>2 DEF Adds
    <2>3. CASE T # {}
      BY <2>1, <2>3, <1>2, <1>5
    <2> QED
      BY <2>2, <2>3
  <1>6. IsFiniteSet(S)
    BY EntryFacts, FS_Subset
  <1> HIDE DEF C
  <1>7. SUBSET S \subseteq C
    BY <1>5, <1>6, SubsetInduction
  <1> USE DEF C
  <1> QED
    BY <1>1, <1>7

LEMMA BytesSplit ==
  ASSUME NEW S \in SUBSET Entries, NEW T \in SUBSET S
  PROVE  /\ Bytes(S) \in Nat /\ Bytes(T) \in Nat /\ Bytes(S \ T) \in Nat
         /\ Bytes(S) = Bytes(T) + Bytes(S \ T)
  <1>1. PICK G : Adds(Entries, G)
    BY AddsExists
  <1>2. \A U \in SUBSET Entries : Bytes(U) = G[U] /\ G[U] \in Nat
    <2>1. SUFFICES ASSUME NEW U \in SUBSET Entries PROVE Bytes(U) = G[U] /\ G[U] \in Nat
      OBVIOUS
    <2> DEFINE H == [V \in SUBSET U |-> G[V]]
    <2>2. Adds(U, H) /\ H[U] = G[U] /\ G[U] \in Nat
      BY <1>1 DEF Adds
    <2> HIDE DEF H
    <2>3. Bytes(U) = H[U]
      BY <2>2, BytesAdds
    <2> QED
      BY <2>2, <2>3
  <1> DEFINE C == {U \in SUBSET S : G[S] = G[U] + G[S \ U]}
  <1>3. ASSUME NEW U \in SUBSET S, \A x \in U : U \ {x} \in C PROVE U \in C
    <2>1. CASE U = {}
      <3>1. S \ U = S /\ G[U] = 0
        BY <2>1, <1>1 DEF Adds
      <3>2. G[S] \in Nat
        BY <1>2
      <3> QED
        BY <3>1, <3>2
    <2>2. CASE U # {}
      <3>1. PICK x \in U : TRUE
        BY <2>2
      <3>2. /\ U \ {x} \in SUBSET Entries /\ S \ U \in SUBSET Entries
            /\ x \in Entries \ (U \ {x}) /\ x \in Entries \ (S \ U)
            /\ U = (U \ {x}) \cup {x} /\ S \ (U \ {x}) = (S \ U) \cup {x}
        BY <3>1
      <3>3. G[U] = Size[x] + G[U \ {x}] /\ G[S \ (U \ {x})] = Size[x] + G[S \ U]
        BY <3>2, <1>1 DEF Adds
      <3>4. G[S] = G[U \ {x}] + G[S \ (U \ {x})]
        BY <3>1, <1>3
      <3>5. Size[x] \in Nat /\ G[U \ {x}] \in Nat /\ G[S \ U] \in Nat /\ G[U] \in Nat
        BY <3>2, <1>2, EntryFacts
      <3> QED
        BY <3>3, <3>4, <3>5
    <2> QED
      BY <2>1, <2>2
  <1>4. IsFiniteSet(S)
    BY EntryFacts, FS_Subset
  <1> HIDE DEF C
  <1>5. SUBSET S \subseteq C
    BY <1>3, <1>4, SubsetInduction
  <1> USE DEF C
  <1>6. T \in C
    BY <1>5
  <1> QED
    BY <1>2, <1>6

LEMMA BytesNone == Bytes({}) = 0
  <1>1. Adds({}, [T \in SUBSET {} |-> 0])
    BY DEF Adds
  <1> QED
    BY <1>1, BytesAdds

LEMMA BytesOne == ASSUME NEW e \in Entries PROVE Bytes({e}) = Size[e]
  <1>1. PICK G : Adds({e}, G)
    BY AddsExists
  <1>2. G[{} \cup {e}] = Size[e] + G[{}]
    BY <1>1 DEF Adds
  <1>3. {} \cup {e} = {e} /\ G[{}] = 0 /\ Size[e] \in Nat
    BY <1>1, EntryFacts DEF Adds
  <1>4. Bytes({e}) = G[{e}]
    BY <1>1, BytesAdds
  <1> QED
    BY <1>2, <1>3, <1>4

LEMMA ImageBound ==
  ASSUME NEW S, IsFiniteSet(S), NEW f
  PROVE  IsFiniteSet({f[x] : x \in S}) /\ Cardinality({f[x] : x \in S}) <= Cardinality(S)
  <1> DEFINE T == {f[x] : x \in S}
             g == [x \in S |-> f[x]]
  <1>1. g \in Surjection(S, T)
    BY DEF Surjection
  <1> HIDE DEF g, T
  <1>2. IsFiniteSet(T) /\ Cardinality(T) <= Cardinality(S)
    BY <1>1, FS_Surjection
  <1> QED
    BY <1>2 DEF T

\* There are more slots than can be held.
LEMMA FreeSlot ==
  LET i == CHOOSE i \in Slots : i \notin Held IN i \in Slots /\ i \notin Held
  <1> DEFINE A == {inFlight[p] : p \in Paths}
             g == [t \in Readers |-> rd[t].slot]
             h == [t \in Readers |-> rd[t].outerSlot]
             B == {g[t] : t \in Readers}
             C == {h[t] : t \in Readers}
  <1>1. Held = (A \cup B) \cup C
    BY DEF Held
  <1>2. IsFiniteSet(Paths) /\ IsFiniteSet(Readers) /\ IsFiniteSet(Slots)
        /\ Cardinality(Slots) > Cardinality(Paths) + 2 * Cardinality(Readers)
    BY ReadAssumption
  <1>3. IsFiniteSet(A) /\ Cardinality(A) <= Cardinality(Paths)
    BY <1>2, ImageBound
  <1> HIDE DEF g, h
  <1>4. IsFiniteSet(B) /\ Cardinality(B) <= Cardinality(Readers)
    BY <1>2, ImageBound
  <1>5. IsFiniteSet(C) /\ Cardinality(C) <= Cardinality(Readers)
    BY <1>2, ImageBound
  <1> HIDE DEF A, B, C
  <1>6. /\ IsFiniteSet(A \cup B)
        /\ Cardinality(A \cup B) = Cardinality(A) + Cardinality(B) - Cardinality(A \cap B)
        /\ IsFiniteSet(A \cap B)
    BY <1>3, <1>4, FS_Union, FS_Intersection
  <1>7. /\ IsFiniteSet((A \cup B) \cup C)
        /\ Cardinality((A \cup B) \cup C)
             = Cardinality(A \cup B) + Cardinality(C) - Cardinality((A \cup B) \cap C)
        /\ IsFiniteSet((A \cup B) \cap C)
    BY <1>5, <1>6, FS_Union, FS_Intersection
  <1>8. /\ Cardinality(A) \in Nat /\ Cardinality(B) \in Nat /\ Cardinality(C) \in Nat
        /\ Cardinality(A \cap B) \in Nat /\ Cardinality((A \cup B) \cap C) \in Nat
        /\ Cardinality(A \cup B) \in Nat /\ Cardinality(Paths) \in Nat
        /\ Cardinality(Readers) \in Nat /\ Cardinality(Slots) \in Nat
    BY <1>2, <1>3, <1>4, <1>5, <1>6, <1>7, FS_CardinalityType
  <1>9. Cardinality((A \cup B) \cup C) <= Cardinality(Paths) + 2 * Cardinality(Readers)
    BY <1>3, <1>4, <1>5, <1>6, <1>7, <1>8
  <1>10. ~(Slots \subseteq (A \cup B) \cup C)
    <2>1. SUFFICES ASSUME Slots \subseteq (A \cup B) \cup C PROVE FALSE
      OBVIOUS
    <2>2. Cardinality(Slots) <= Cardinality((A \cup B) \cup C)
      BY <2>1, <1>7, FS_Subset
    <2>3. Cardinality((A \cup B) \cup C) \in Nat
      BY <1>7, FS_CardinalityType
    <2> QED
      BY <2>2, <2>3, <1>2, <1>8, <1>9
  <1>11. \E i \in Slots : i \notin Held
    BY <1>1, <1>10
  <1> QED
    BY <1>11

-----------------------------------------------------------------------------
(* Types                                                                   *)

LEMMA PathFacts ==
  /\ \A p \in Paths : Source(p) \in Files /\ Source(p) \in Paths
  /\ \A p \in Files : p \in Paths /\ Source(p) = p /\ p \notin Virtual
  /\ \A p \in Virtual : p \in Paths /\ Source(p) = SourceOf[p] /\ SourceOf[p] \in Files
  /\ None \notin Paths /\ None \notin Files /\ None \notin Virtual
  BY ReadAssumption DEF Paths, Source

LEMMA NoneFacts ==
  /\ None \notin Paths /\ None \notin Readers /\ None \notin Slots
  /\ None \notin Content /\ None \notin Length
  /\ MaxSaves \in Nat
  BY ReadAssumption DEF Content, Length

LEMMA TypeInit == ASSUME Init PROVE TInv
  <1>1. Quiet \in Read /\ ReaderShape(Quiet)
    BY NoneFacts DEF Quiet, Read, ReaderShape, Content
  <1>2. Unset \in Once /\ NoFlush \in Flushing
    BY NoneFacts DEF Unset, Once, NoFlush, Flushing, Content
  <1>3. 0 \in Content /\ 1 \in Length
    BY NoneFacts DEF Content, Length
  <1>4. Types
    BY <1>1, <1>2, <1>3 DEF Init, Types, Content
  <1>5. FlushShape
    BY NoneFacts DEF Init, FlushShape, NoFlush
  <1> QED
    BY <1>1, <1>4, <1>5 DEF Init, TInv

LEMMA CachePutKeeps ==
  ASSUME Types, NEW p \in Paths, NEW content \in Content, CachePut(p, content)
  PROVE  /\ cache' \in [Paths -> Content \cup {None}]
         /\ cache'[p] = content
         /\ \A q \in Paths : q # p => cache'[q] \in {None, cache[q]}
  BY DEF CachePut, Types

LEMMA GoShape ==
  ASSUME TInv, NEW t \in Readers, NEW r \in Read, ReaderShape(r), Go(t, r)
  PROVE  /\ rd' \in [Readers -> Read] /\ \A u \in Readers : ReaderShape(rd'[u])
         /\ rd'[t] = r /\ \A u \in Readers : u # t => rd'[u] = rd[u]
  BY DEF TInv, Types, Go

\* What a reader is once it has its content: at rest, or rendering it.
Resumed(r, content) ==
  IF r.outer = None THEN Quiet
  ELSE [r EXCEPT !.pc = "render", !.path = r.outer, !.slot = r.outerSlot,
                 !.outer = None, !.outerSlot = None, !.got = content]

LEMMA ReturnGoes ==
  ASSUME TInv, NEW t \in Readers, NEW content \in Content \cup {None}, Return(t, content)
  PROVE  Resumed(rd[t], content) \in Read /\ Go(t, Resumed(rd[t], content))
  <1>1. rd[t] \in Read /\ ReaderShape(rd[t])
    BY DEF TInv, Types
  <1>2. Quiet \in Read
    BY NoneFacts DEF Quiet, Read, Content
  <1>3. Go(t, Resumed(rd[t], content))
    BY DEF Return, Answer, Resumed
  <1>4. Resumed(rd[t], content) \in Read
    BY <1>1, <1>2, PathFacts DEF Resumed, Read, ReaderShape
  <1> QED
    BY <1>3, <1>4

LEMMA ResumedShape ==
  ASSUME NEW r \in Read, ReaderShape(r), r.pc # "render" \/ r.outer = None, NEW content
  PROVE  ReaderShape(Resumed(r, content))
  BY PathFacts, NoneFacts DEF Resumed, Read, ReaderShape, Quiet

LEMMA QuietShape == Quiet \in Read /\ ReaderShape(Quiet)
  BY NoneFacts DEF Quiet, Read, ReaderShape, Content

\* A step of a reader leaves the disk, the index and the flush alone.
Untouched ==
  /\ overlay' = overlay /\ length' = length /\ blob' = blob /\ index' = index
  /\ fl' = fl /\ saves' = saves /\ saved' = saved

LEMMA ReaderStepType ==
  ASSUME TInv, Untouched, NEW t \in Readers, NEW r \in Read, ReaderShape(r), Go(t, r),
         cache' \in [Paths -> Content \cup {None}], inFlight' \in [Paths -> Slots \cup {None}],
         slot' \in [Slots -> Once], map' \in Length \cup {None}, shortMap' \in BOOLEAN
  PROVE  TInv'
  <1>1. rd' \in [Readers -> Read] /\ \A u \in Readers : ReaderShape(rd'[u])
    BY GoShape
  <1> QED
    BY <1>1 DEF TInv, Types, FlushShape, Untouched

LEMMA DecodeStepType ==
  ASSUME TInv, NEW t \in Readers, DecodeStep(t) \/ DecodePanics(t)
  PROVE  TInv'
  <1> DEFINE r == rd[t]
  <1>1. r \in Read /\ ReaderShape(r) /\ Types
    BY DEF TInv, Types
  <1>2. /\ cache \in [Paths -> Content \cup {None}] /\ inFlight \in [Paths -> Slots \cup {None}]
        /\ slot \in [Slots -> Once] /\ map \in Length \cup {None} /\ shortMap \in BOOLEAN
        /\ length \in Length /\ blob \in [Content -> Content] /\ index \in [Files -> Content]
    BY DEF TInv, Types
  <1>3. r.pc # "idle" => r.path \in Paths
    BY <1>1 DEF ReaderShape
  <1>4. Unset \in Once
    BY NoneFacts DEF Unset, Once
  <1>5. CASE DecodeCached(t)
    <2>1. Return(t, cache[r.path]) /\ r.pc = "cache"
      BY <1>5 DEF DecodeCached
    <2>2. cache[r.path] \in Content \cup {None}
      BY <2>1, <1>2, <1>3
    <2>3. Resumed(r, cache[r.path]) \in Read /\ Go(t, Resumed(r, cache[r.path]))
      BY <2>1, <2>2, ReturnGoes
    <2>4. ReaderShape(Resumed(r, cache[r.path]))
      BY <1>1, <2>1, ResumedShape
    <2> QED
      BY <1>5, <1>2, <2>3, <2>4, ReaderStepType
         DEF DecodeCached, Untouched, disk, ghosts, caching, flights
  <1>6. CASE DecodeJoin(t)
    <2> DEFINE p == r.path
               s == IF inFlight[p] # None THEN inFlight[p] ELSE CHOOSE i \in Slots : i \notin Held
               q == [r EXCEPT !.pc = "once", !.slot = s]
    <2>1. s \in Slots
      BY <1>6, <1>2, <1>3, FreeSlot DEF DecodeJoin
    <2> HIDE DEF s
    <2>2. q \in Read /\ ReaderShape(q)
      BY <1>6, <1>1, <2>1, NoneFacts DEF DecodeJoin, Read, ReaderShape
    <2>3. Go(t, q) /\ inFlight' = [inFlight EXCEPT ![p] = s]
          /\ slot' = IF inFlight[p] # None THEN slot ELSE [slot EXCEPT ![s] = Unset]
      BY <1>6 DEF DecodeJoin, s
    <2>4. inFlight' \in [Paths -> Slots \cup {None}] /\ slot' \in [Slots -> Once]
      BY <1>2, <1>4, <2>1, <2>3
    <2> HIDE DEF q
    <2> QED
      BY <1>6, <1>2, <2>2, <2>3, <2>4, ReaderStepType
         DEF DecodeJoin, Untouched, disk, ghosts, caching, flights
  <1>7. CASE DecodeRun(t)
    <2> DEFINE p == r.path
               q == IF p \in Virtual
                    THEN [r EXCEPT !.pc = "cache", !.path = SourceOf[p], !.outer = p,
                                   !.outerSlot = r.slot, !.slot = None]
                    ELSE [r EXCEPT !.pc = "map", !.entry = index[p]]
    <2>1. Go(t, q) /\ slot' = [slot EXCEPT ![r.slot].by = t] /\ r.pc = "once"
      BY <1>7 DEF DecodeRun
    <2>2. r.slot \in Slots /\ p \in Paths /\ (p \notin Virtual => p \in Files /\ index[p] \in Content)
      BY <1>1, <1>2, <1>3, <2>1 DEF Read, ReaderShape, Paths
    <2>3. q \in Read /\ ReaderShape(q)
      BY <1>1, <2>1, <2>2, NoneFacts, PathFacts DEF Read, ReaderShape
    <2>4. slot' \in [Slots -> Once]
      BY <1>2, <2>1, <2>2 DEF Once
    <2> HIDE DEF q
    <2> QED
      BY <1>7, <1>2, <2>1, <2>3, <2>4, ReaderStepType
         DEF DecodeRun, Untouched, disk, ghosts, caching, flights
  <1>8. ASSUME NEW len, Sliced(t, r, len), r.pc \in {"map", "keep"}
        PROVE  LET q == [r EXCEPT !.pc = "once", !.len = 0, !.entry = 0]
               IN  q \in Read /\ ReaderShape(q) /\ Go(t, q) /\ slot' \in [Slots -> Once]
    <2>1. r.slot \in Slots /\ r.entry \in Content
      BY <1>1, <1>8 DEF Read, ReaderShape
    <2>2. [by |-> None, done |-> TRUE, val |-> IF r.entry < len THEN blob[r.entry] ELSE None] \in Once
      BY <2>1, <1>2 DEF Once
    <2>3. slot' \in [Slots -> Once]
      BY <2>1, <2>2, <1>2, <1>8 DEF Sliced
    <2> DEFINE q == [r EXCEPT !.pc = "once", !.len = 0, !.entry = 0]
    <2>4. 0 \in Content /\ 0 \in 0 .. MaxSaves + 1
      BY NoneFacts DEF Content
    <2>5. q \in Read /\ ReaderShape(q)
      BY <1>1, <1>8, <2>4 DEF Read, ReaderShape
    <2> QED
      BY <1>8, <2>3, <2>5 DEF Sliced
  <1>9. CASE MapShared(t)
    BY <1>9, <1>8, <1>2, ReaderStepType DEF MapShared, Untouched, disk, ghosts, caching, flights
  <1>10. CASE MapOpen(t)
    <2> DEFINE q == [r EXCEPT !.pc = "keep", !.len = length]
    <2>1. length \in Length /\ length \in 0 .. MaxSaves + 1
      BY <1>2 DEF Length
    <2>2. q \in Read /\ ReaderShape(q) /\ Go(t, q)
      BY <1>10, <1>1, <2>1, NoneFacts DEF MapOpen, Read, ReaderShape
    <2> HIDE DEF q
    <2> QED
      BY <1>10, <1>2, <2>2, ReaderStepType DEF MapOpen, Untouched, disk, ghosts, caching, flights
  <1>11. CASE MapKeep(t)
    <2>1. r.len \in Length
      BY <1>1, <1>11 DEF MapKeep, ReaderShape
    <2>2. map' \in Length \cup {None}
      BY <1>11, <1>2, <2>1 DEF MapKeep
    <2> QED
      BY <1>11, <1>8, <1>2, <2>2, ReaderStepType
         DEF MapKeep, Untouched, disk, ghosts, caching, flights
  <1>12. CASE DecodeRender(t)
    <2> DEFINE q == [r EXCEPT !.pc = "once", !.got = None]
    <2>1. r.slot \in Slots /\ r.got \in Content \cup {None}
      BY <1>12, <1>1 DEF DecodeRender, Read, ReaderShape
    <2>2. q \in Read /\ ReaderShape(q) /\ Go(t, q)
      BY <1>12, <1>1 DEF DecodeRender, Read, ReaderShape
    <2>3. [by |-> None, done |-> TRUE, val |-> r.got] \in Once
      BY <2>1 DEF Once
    <2>4. slot' \in [Slots -> Once]
      BY <1>12, <1>2, <2>1, <2>3 DEF DecodeRender
    <2> HIDE DEF q
    <2> QED
      BY <1>12, <1>2, <2>2, <2>4, ReaderStepType
         DEF DecodeRender, Untouched, disk, ghosts, caching, flights
  <1>13. CASE DecodeUnslot(t)
    <2> DEFINE s == r.slot
               got == slot[s].val
    <2>1. s \in Slots /\ r.path \in Paths /\ r.pc = "once"
      BY <1>13, <1>1, <1>3 DEF DecodeUnslot, Read, ReaderShape
    <2>2. got \in Content \cup {None}
      BY <2>1, <1>2 DEF Once
    <2>3. slot' \in [Slots -> Once] /\ inFlight' \in [Paths -> Slots \cup {None}]
      BY <1>13, <1>2, <1>4, <2>1 DEF DecodeUnslot
    <2>4. PICK q \in Read : ReaderShape(q) /\ Go(t, q)
      <3>1. CASE got = None
        <4>1. Return(t, got)
          BY <1>13, <3>1 DEF DecodeUnslot
        <4>2. ReaderShape(Resumed(r, got))
          BY <1>1, <2>1, ResumedShape
        <4> QED
          BY <4>1, <4>2, <2>2, ReturnGoes
      <3>2. CASE got # None
        <4> DEFINE q == [r EXCEPT !.pc = "put", !.slot = None, !.got = got]
        <4>1. Go(t, q)
          BY <1>13, <3>2 DEF DecodeUnslot
        <4>2. q \in Read /\ ReaderShape(q)
          BY <1>1, <2>1, <2>2, <3>2, NoneFacts DEF Read, ReaderShape
        <4> QED
          BY <4>1, <4>2
      <3> QED
        BY <3>1, <3>2
    <2> QED
      BY <1>13, <1>2, <2>3, <2>4, ReaderStepType
         DEF DecodeUnslot, Untouched, disk, ghosts, caching, flights
  <1>14. CASE DecodePut(t)
    <2>1. r.got \in Content /\ r.path \in Paths /\ r.pc = "put"
      BY <1>14, <1>1, <1>3 DEF DecodePut, Read, ReaderShape
    <2>2. cache' \in [Paths -> Content \cup {None}]
      BY <1>14, <1>1, <2>1, CachePutKeeps DEF DecodePut
    <2>3. Resumed(r, r.got) \in Read /\ Go(t, Resumed(r, r.got))
      BY <1>14, <2>1, ReturnGoes DEF DecodePut
    <2>4. ReaderShape(Resumed(r, r.got))
      BY <1>1, <2>1, ResumedShape
    <2> QED
      BY <1>14, <1>2, <2>2, <2>3, <2>4, ReaderStepType
         DEF DecodePut, Untouched, disk, ghosts, caching, flights
  <1>15. CASE DecodePanics(t)
    <2>1. slot' \in [Slots -> Once]
      BY <1>15, <1>2, <1>4 DEF DecodePanics
    <2> QED
      BY <1>15, <1>2, <2>1, QuietShape, ReaderStepType
         DEF DecodePanics, Untouched, disk, ghosts, caching, flights
  <1> QED
    BY <1>5, <1>6, <1>7, <1>9, <1>10, <1>11, <1>12, <1>13, <1>14, <1>15 DEF DecodeStep

LEMMA ReadStepType ==
  ASSUME TInv, NEW t \in Readers, NEW p \in Paths, ReadMemory(t, p) \/ ReadDecode(t, p)
  PROVE  TInv'
  <1> DEFINE q == [Quiet EXCEPT !.pc = "cache", !.path = p, !.floor = Floor(p)]
  <1>1. /\ cache \in [Paths -> Content \cup {None}] /\ inFlight \in [Paths -> Slots \cup {None}]
        /\ slot \in [Slots -> Once] /\ map \in Length \cup {None} /\ shortMap \in BOOLEAN
        /\ saved \in [Files -> Content]
    BY DEF TInv, Types
  <1>2. CASE ReadMemory(t, p)
    BY <1>1, <1>2, QuietShape, ReaderStepType
       DEF ReadMemory, Answer, Untouched, disk, ghosts, caching, flights
  <1>3. CASE ReadDecode(t, p)
    <2>1. Floor(p) \in Content
      BY <1>1, PathFacts, NoneFacts DEF Floor, Content
    <2>2. q \in Read /\ ReaderShape(q)
      BY <2>1, QuietShape, NoneFacts DEF Quiet, Read, ReaderShape
    <2> HIDE DEF q
    <2>3. Go(t, q)
      BY <1>3 DEF ReadDecode, q
    <2> QED
      BY <1>1, <1>3, <2>2, <2>3, ReaderStepType
         DEF ReadDecode, Untouched, disk, ghosts, caching, flights
  <1> QED
    BY <1>2, <1>3

LEMMA FlushStepType ==
  ASSUME TInv, rd' = rd, inFlight' = inFlight, slot' = slot,
         map' \in {map, length, None}, shortMap' \in BOOLEAN,
         overlay' \in [Paths -> Content \cup {None}], cache' \in [Paths -> Content \cup {None}],
         length' \in Length, blob' \in [Content -> Content], index' \in [Files -> Content],
         fl' \in Flushing, saves' \in Content, saved' \in [Files -> Content], FlushShape'
  PROVE  TInv'
  BY DEF TInv, Types

LEMMA FlushType ==
  ASSUME TInv,
         \/ \E p \in Files : Probe(p)
         \/ \E p \in Saved : Save(p)
         \/ TakeOverlay \/ FlushConvertFails \/ FlushPut \/ FlushAppend \/ FlushFails
         \/ FlushUnmap \/ FlushReload \/ FlushReloadFails \/ FlushInvalidate
  PROVE  TInv'
  <1>1. /\ overlay \in [Paths -> Content \cup {None}] /\ cache \in [Paths -> Content \cup {None}]
        /\ length \in Length /\ blob \in [Content -> Content] /\ index \in [Files -> Content]
        /\ fl \in Flushing /\ saves \in Content /\ saved \in [Files -> Content]
        /\ shortMap \in BOOLEAN /\ FlushShape /\ Types
    BY DEF TInv, Types
  <1>2. fl.pc # "idle" => fl.path \in Paths /\ Source(fl.path) \in Files /\ fl.v \in Content
    BY <1>1, PathFacts, ReadAssumption DEF FlushShape, Flushing
  <1>3. NoFlush \in Flushing /\ 0 \in Content
    BY NoneFacts DEF NoFlush, Flushing, Content
  <1>5. CASE \E p \in Files : Probe(p)
    <2>1. FlushShape'
      BY <1>5, <1>1 DEF Probe, FlushShape, disk
    <2> QED
      BY <1>5, <1>1, <2>1, FlushStepType DEF Probe, Reading, disk, caching, flights
  <1>6. CASE \E p \in Saved : Save(p)
    <2>1. PICK p \in Saved : Save(p)
      BY <1>6
    <2>2. saves + 1 \in Content /\ saves' = saves + 1 /\ p \in Paths
      BY <2>1, <1>1, ReadAssumption DEF Save, Content
    <2>3. fl' \in Flushing /\ overlay' \in [Paths -> Content \cup {None}]
      BY <2>1, <2>2, <1>1, <1>3 DEF Save, Flushing
    <2>4. FlushShape'
      BY <2>1, <2>2, <1>1 DEF Save, FlushShape, Content, Length, disk, ghosts
    <2> QED
      BY <2>1, <1>1, <2>2, <2>3, <2>4, FlushStepType DEF Save, Reading, disk, ghosts, caching, flights
  <1>7. CASE TakeOverlay
    <2>1. FlushShape'
      BY <1>7, <1>1 DEF TakeOverlay, FlushShape, disk, ghosts
    <2> QED
      BY <1>7, <1>1, <2>1, FlushStepType DEF TakeOverlay, Reading, disk, ghosts, caching, flights
  <1>8. CASE FlushConvertFails
    <2>1. FlushShape'
      BY <1>8, <1>1 DEF FlushConvertFails, Flush, NoFlush, FlushShape, disk
    <2> QED
      BY <1>8, <1>1, <1>3, <2>1, FlushStepType
         DEF FlushConvertFails, Flush, Reading, disk, ghosts, caching, flights
  <1>9. CASE FlushPut
    <2>1. cache' \in [Paths -> Content \cup {None}]
      BY <1>9, <1>1, <1>2, PathFacts, CachePutKeeps DEF FlushPut
    <2>2. fl' \in Flushing
      BY <1>9, <1>1 DEF FlushPut, Flush, Flushing
    <2>3. FlushShape'
      BY <1>9, <1>1 DEF FlushPut, Flush, FlushShape, Flushing, disk
    <2> QED
      BY <1>9, <1>1, <2>1, <2>2, <2>3, FlushStepType
         DEF FlushPut, Flush, Reading, disk, ghosts, caching, flights
  <1>10. CASE FlushAppend
    <2>1. length \in Content /\ length <= saves /\ length' = length + 1 /\ fl.v \in Content
      <3>1. length <= saves /\ length' = length + 1 /\ fl.v \in Content
        BY <1>10, <1>1, <1>2 DEF FlushAppend, FlushShape
      <3> QED
        BY <3>1, <1>1, NoneFacts DEF Content, Length
    <2>2. length' \in Length /\ blob' \in [Content -> Content]
      BY <1>10, <1>1, <2>1, NoneFacts DEF FlushAppend, Length, Content
    <2>3. fl' \in Flushing /\ fl' = [fl EXCEPT !.pc = "unmap", !.b = length]
      BY <1>10, <1>1, <2>1 DEF FlushAppend, Flush, Flushing
    <2>4. blob'[length] = fl.v
      BY <1>10, <1>1, <2>1 DEF FlushAppend
    <2>5. \A f \in Files : saved[f] <= saves /\ index[f] < length + 1
      BY <1>1, <2>1 DEF FlushShape, Content
    <2>6. FlushShape'
      BY <1>10, <1>1, <2>1, <2>3, <2>4, <2>5 DEF FlushAppend, FlushShape, Flushing, Content
    <2> QED
      BY <1>10, <1>1, <2>2, <2>3, <2>6, FlushStepType
         DEF FlushAppend, Reading, disk, ghosts, caching, flights
  <1>11. CASE FlushFails
    <2>1. fl' = [AfterSource EXCEPT !.v = 0] /\ fl.pc # "idle"
      BY <1>11 DEF FlushFails, Flush
    <2>2. fl' \in Flushing
      BY <1>1, <1>3, <2>1 DEF AfterSource, Flushing
    <2>3. FlushShape'
      BY <1>11, <1>1, <2>1 DEF FlushFails, AfterSource, NoFlush, FlushShape, Flushing, disk
    <2> QED
      BY <1>11, <1>1, <2>2, <2>3, FlushStepType
         DEF FlushFails, Reading, disk, ghosts, caching, flights
  <1>12. CASE FlushUnmap
    <2>1. fl' \in Flushing /\ shortMap' \in BOOLEAN
      BY <1>12, <1>1 DEF FlushUnmap, Flush, Flushing
    <2>2. FlushShape'
      BY <1>12, <1>1 DEF FlushUnmap, Flush, FlushShape, Flushing, disk
    <2> QED
      BY <1>12, <1>1, <2>1, <2>2, FlushStepType
         DEF FlushUnmap, Reading, disk, ghosts, caching, flights
  <1>13. CASE FlushReload
    <2>1. fl' = AfterSource /\ fl.pc = "reload" /\ fl.b \in Content /\ fl.v = saves
      BY <1>13, <1>1 DEF FlushReload, Flush, FlushShape, Flushing
    <2>2. fl' \in Flushing
      BY <1>1, <1>3, <2>1 DEF AfterSource, Flushing
    <2>3. index' = [index EXCEPT ![Source(fl.path)] = fl.b]
          /\ saved' \in {saved, [saved EXCEPT ![Source(fl.path)] = fl.v]}
      BY <1>13 DEF FlushReload, SaveDone
    <2>4. index' \in [Files -> Content] /\ saved' \in [Files -> Content]
      BY <1>1, <1>2, <2>1, <2>3
    <2>5. \A f \in Files : saved'[f] <= saves /\ index'[f] < length
      <3>1. saves <= saves
        BY <1>1 DEF Content
      <3> QED
        BY <1>1, <1>2, <2>1, <2>3, <3>1 DEF FlushShape
    <2>6. FlushShape'
      BY <1>13, <1>1, <2>1, <2>5 DEF FlushReload, AfterSource, NoFlush, FlushShape, Flushing, disk
    <2> QED
      BY <1>13, <1>1, <2>2, <2>4, <2>6, FlushStepType
         DEF FlushReload, Reading, disk, ghosts, caching, flights
  <1>14. CASE FlushReloadFails
    <2>1. fl' = [AfterSource EXCEPT !.v = 0] /\ fl.pc # "idle"
      BY <1>14 DEF FlushReloadFails, Flush
    <2>2. fl' \in Flushing
      BY <1>1, <1>3, <2>1 DEF AfterSource, Flushing
    <2>3. FlushShape'
      BY <1>14, <1>1, <2>1 DEF FlushReloadFails, AfterSource, NoFlush, FlushShape, Flushing, disk
    <2> QED
      BY <1>14, <1>1, <2>2, <2>3, FlushStepType
         DEF FlushReloadFails, Reading, disk, ghosts, caching, flights
  <1>15. CASE FlushInvalidate
    <2>1. fl' = NoFlush /\ fl.pc = "invalidate"
          /\ saved' \in {saved, [saved EXCEPT ![Source(fl.path)] = fl.v]}
      BY <1>15 DEF FlushInvalidate, Flush, SaveDone
    <2>2. saved' \in [Files -> Content] /\ fl.v <= saves
      BY <1>1, <1>2, <2>1 DEF FlushShape, Content
    <2>3. \A f \in Files : saved'[f] <= saves
      BY <1>1, <1>2, <2>1, <2>2 DEF FlushShape
    <2>4. FlushShape'
      BY <1>15, <1>1, <2>1, <2>3 DEF FlushInvalidate, NoFlush, FlushShape, disk
    <2>5. overlay' \in [Paths -> Content \cup {None}] /\ cache' \in [Paths -> Content \cup {None}]
      BY <1>15, <1>1 DEF FlushInvalidate
    <2> QED
      BY <1>15, <1>1, <1>3, <2>1, <2>2, <2>4, <2>5, FlushStepType
         DEF FlushInvalidate, Reading, disk, ghosts, flights
  <1> QED
    BY <1>5, <1>6, <1>7, <1>8, <1>9, <1>10, <1>11, <1>12, <1>13, <1>14, <1>15

LEMMA TypeNext == ASSUME TInv, [Next]_vars PROVE TInv'
  <1>1. CASE UNCHANGED vars
    <2>1. /\ overlay' = overlay /\ cache' = cache /\ inFlight' = inFlight /\ slot' = slot
          /\ map' = map /\ length' = length /\ index' = index /\ blob' = blob /\ rd' = rd
          /\ fl' = fl /\ saves' = saves /\ saved' = saved /\ shortMap' = shortMap
      BY <1>1 DEF vars, disk, caching, flights, ghosts
    <2> QED
      BY <2>1 DEF TInv, Types, FlushShape
  <1>2. CASE Next
    BY <1>2, DecodeStepType, ReadStepType, FlushType DEF Next
  <1> QED
    BY <1>1, <1>2

-----------------------------------------------------------------------------
(* The bound of the cache                                                  *)

\* A put leaves the count at least what is cached, and what is cached within bounds.
LEMMA CachePutBounded ==
  ASSUME Types, counted \in Nat, CacheBounded, NEW p \in Paths, NEW content \in Content,
         CachePut(p, content)
  PROVE  counted' \in Nat /\ CacheBounded'
  <1> DEFINE A == Cached(cache)
             N == Cached(cache')
             new == <<p, content>>
  <1>1. PICK S \in SUBSET A :
          /\ counted' = counted - Bytes(S) + Size[new]
          /\ counted' <= MaxBytes \/ S = A
          /\ \A e \in S : e[1] # p => cache'[e[1]] = None
    BY DEF CachePut, Popped, Types, Cached, Entries
  <1>2. /\ cache' \in [Paths -> Content \cup {None}] /\ cache'[p] = content
        /\ \A q \in Paths : q # p => cache'[q] \in {None, cache[q]}
    BY CachePutKeeps
  <1>3. A \in SUBSET Entries /\ N \in SUBSET Entries /\ new \in Entries
    BY DEF Cached, Entries, Content
  <1>4. {new} \in SUBSET N
    BY <1>2, <1>3 DEF Cached
  <1>5. N \ {new} \in SUBSET (A \ S)
    BY <1>1, <1>2, NoneFacts DEF Cached, Entries, Content
  <1> HIDE DEF A, N, new
  <1>6. /\ Bytes(A) \in Nat /\ Bytes(S) \in Nat /\ Bytes(A \ S) \in Nat
        /\ Bytes(A) = Bytes(S) + Bytes(A \ S)
    BY <1>3, BytesSplit
  <1>7. /\ Bytes(N) \in Nat /\ Bytes(N \ {new}) \in Nat
        /\ Bytes(N) = Bytes({new}) + Bytes(N \ {new})
    BY <1>3, <1>4, BytesSplit
  <1>8. Bytes({new}) = Size[new] /\ Size[new] \in Nat /\ MaxBytes \in Nat
    BY <1>3, BytesOne, EntryFacts, ReadAssumption
  <1>9. Bytes(N \ {new}) <= Bytes(A \ S)
    <2> DEFINE B == A \ S
               M == N \ {new}
    <2>1. B \in SUBSET Entries /\ M \in SUBSET B
      BY <1>3, <1>5
    <2> HIDE DEF B, M
    <2>2. Bytes(B) \in Nat /\ Bytes(M) \in Nat /\ Bytes(B \ M) \in Nat /\ Bytes(B) = Bytes(M) + Bytes(B \ M)
      BY <2>1, BytesSplit
    <2>3. Bytes(M) <= Bytes(B)
      BY <2>2
    <2> QED
      BY <2>3 DEF B, M
  <1>10. Bytes(A) <= counted
    BY DEF CacheBounded, A
  <1>11. counted' \in Nat /\ Bytes(N) <= counted'
    BY <1>1, <1>6, <1>7, <1>8, <1>9, <1>10
  <1>12. Bytes(N) > MaxBytes => N = {new}
    <2>1. CASE counted' <= MaxBytes
      BY <2>1, <1>7, <1>8, <1>11
    <2>2. CASE S = A
      BY <2>2, <1>4, <1>5
    <2> QED
      BY <2>1, <2>2, <1>1
  <1> QED
    BY <1>3, <1>11, <1>12 DEF CacheBounded, N

LEMMA BoundInit == ASSUME Init PROVE BInv
  <1>1. Cached(cache) = {}
    BY NoneFacts DEF Init, Cached, Entries, Content
  <1>2. Bytes({}) = 0 /\ MaxBytes \in Nat
    BY BytesNone, ReadAssumption
  <1>3. counted = 0
    BY DEF Init
  <1>4. CacheBounded
    BY <1>1, <1>2, <1>3 DEF CacheBounded
  <1> QED
    BY <1>3, <1>4, TypeInit DEF BInv

LEMMA BoundNext == ASSUME BInv, [Next]_vars PROVE BInv'
  <1>1. TInv /\ Types /\ counted \in Nat /\ CacheBounded
    BY DEF BInv, TInv
  <1>2. ASSUME UNCHANGED caching PROVE counted' \in Nat /\ CacheBounded'
    BY <1>1, <1>2 DEF CacheBounded, caching
  <1>3. ASSUME NEW t \in Readers, DecodePut(t) PROVE counted' \in Nat /\ CacheBounded'
    <2>1. rd[t].path \in Paths /\ rd[t].got \in Content
      BY <1>1, <1>3 DEF DecodePut, TInv, Types, ReaderShape, Read
    <2> QED
      BY <1>1, <1>3, <2>1, CachePutBounded DEF DecodePut
  <1>4. ASSUME FlushPut PROVE counted' \in Nat /\ CacheBounded'
    <2>1. Source(fl.path) \in Paths /\ fl.v \in Content
      BY <1>1, <1>4, PathFacts, ReadAssumption DEF FlushPut, TInv, Types, FlushShape, Flushing
    <2> QED
      BY <1>1, <1>4, <2>1, CachePutBounded DEF FlushPut
  <1>5. ASSUME FlushInvalidate PROVE counted' \in Nat /\ CacheBounded'
    <2> DEFINE A == Cached(cache)
               N == Cached(cache')
    <2>1. counted' = counted /\ N \in SUBSET A /\ A \in SUBSET Entries
      BY <1>1, <1>5, NoneFacts DEF FlushInvalidate, Cached, Types, Entries, Content
    <2> HIDE DEF A, N
    <2>2. Bytes(A) \in Nat /\ Bytes(N) \in Nat /\ Bytes(A \ N) \in Nat /\ Bytes(A) = Bytes(N) + Bytes(A \ N)
      BY <2>1, BytesSplit
    <2>3. Bytes(A) <= counted /\ (Bytes(A) > MaxBytes => \E e \in Entries : A = {e}) /\ MaxBytes \in Nat
      BY <1>1, ReadAssumption DEF CacheBounded, A
    <2>4. Bytes(N) <= counted
      BY <1>1, <2>2, <2>3
    <2>5. ASSUME Bytes(N) > MaxBytes PROVE \E e \in Entries : N = {e}
      <3>1. PICK e \in Entries : A = {e}
        BY <2>2, <2>3, <2>5
      <3>2. N # {}
        BY <2>3, <2>5, BytesNone
      <3> QED
        BY <2>1, <3>1, <3>2
    <2> QED
      BY <1>1, <2>1, <2>4, <2>5 DEF CacheBounded, N
  <1>6. counted' \in Nat /\ CacheBounded'
    <2>1. CASE UNCHANGED vars
      BY <1>2, <2>1 DEF vars, caching
    <2>2. CASE Next
      <3>1. ASSUME NEW t \in Readers, DecodeStep(t) PROVE counted' \in Nat /\ CacheBounded'
        BY <3>1, <1>2, <1>3
           DEF DecodeStep, DecodeCached, DecodeJoin, DecodeRun, MapShared, MapOpen, MapKeep,
               DecodeRender, DecodeUnslot
      <3> QED
        BY <2>2, <3>1, <1>2, <1>4, <1>5
           DEF Next, ReadMemory, ReadDecode, DecodePanics, Probe, Save, TakeOverlay,
               FlushConvertFails, FlushAppend, FlushFails, FlushUnmap, FlushReload, FlushReloadFails
    <2> QED
      BY <2>1, <2>2
  <1> QED
    BY <1>1, <1>6, TypeNext DEF BInv

\* The decode cache holds more than MAX_CACHED_BYTES only while it holds one entry,
\* and its count is never too low, whatever is put in, popped, replaced, displaced
\* and invalidated by whom and however large it is.  (fs.rs: cache_put,
\* invalidate_virtual_path)
THEOREM CacheAlwaysBounded == Spec => []CacheBounded
  <1>1. Init => BInv
    BY BoundInit
  <1>2. BInv /\ [Next]_vars => BInv'
    BY BoundNext
  <1>3. BInv => CacheBounded
    BY DEF BInv
  <1> QED
    BY <1>1, <1>2, <1>3, PTL DEF Spec

-----------------------------------------------------------------------------
(* Slots                                                                   *)

\* What readers and the in-flight map refer to after a step they did before.
LEMMA RefKept ==
  ASSUME TInv, NEW t \in Readers, NEW q \in Read, Go(t, q),
         q.slot \in Slots => Ref(q.slot, q.path),
         q.outerSlot \in Slots => Ref(q.outerSlot, q.outer),
         \A p \in Paths : inFlight'[p] \in Slots => Ref(inFlight'[p], p)
  PROVE  \A s \in Slots, p \in Paths : Ref(s, p)' => Ref(s, p)
  BY DEF Ref, TInv, Types, Go

LEMMA RefOwn ==
  ASSUME NEW t \in Readers
  PROVE  /\ Ref(rd[t].slot, rd[t].path) /\ Ref(rd[t].outerSlot, rd[t].outer)
         /\ \A p \in Paths : Ref(inFlight[p], p)
  BY DEF Ref

\* The two slots of a reader inside a virtual file differ.
LEMMA SlotsApart ==
  ASSUME TInv, SlotsOK, NEW t \in Readers, rd[t].outer # None, rd[t].slot # None
  PROVE  rd[t].slot # rd[t].outerSlot
  <1> DEFINE r == rd[t]
  <1>1. r \in Read /\ ReaderShape(r)
    BY DEF TInv, Types
  <1>2. r.slot \in Slots /\ r.outer \in Virtual /\ r.path = SourceOf[r.outer]
    BY <1>1 DEF Read, ReaderShape
  <1>3. r.outer \in Paths /\ r.path \in Paths /\ r.path # r.outer
    BY <1>2, PathFacts
  <1> QED
    BY <1>2, <1>3, RefOwn DEF SlotsOK

\* A step in which nobody starts, sets or frees a slot.
LEMMA SlotsMoved ==
  ASSUME TInv, SlotsOK, NEW t \in Readers, NEW q \in Read, Go(t, q), slot' = slot,
         rd[t].pc # "once" \/ (q.pc = "once" /\ q.slot = rd[t].slot),
         q.slot \in Slots => Ref(q.slot, q.path),
         q.outerSlot \in Slots => Ref(q.outerSlot, q.outer),
         \A p \in Paths : inFlight'[p] \in Slots => Ref(inFlight'[p], p),
         q.pc \in {"map", "keep", "render"} => slot[q.slot].by = t,
         q.outer # None => slot[q.outerSlot].by = t
  PROVE  SlotsOK'
  <1>1. \A s \in Slots, p \in Paths : Ref(s, p)' => Ref(s, p)
    BY RefKept
  <1>2. \A u \in Readers : rd'[u] = IF u = t THEN q ELSE rd[u]
    BY DEF Go, TInv, Types
  <1>3. \A s \in Slots, p, x \in Paths : Ref(s, p)' /\ Ref(s, x)' => p = x
    BY <1>1 DEF SlotsOK
  <1>4. \A u \in Readers :
          /\ rd'[u].pc \in {"map", "keep", "render"} => slot'[rd'[u].slot].by = u
          /\ rd'[u].outer # None => slot'[rd'[u].outerSlot].by = u
    BY <1>2 DEF SlotsOK
  <1>5. \A s \in Slots : slot'[s].done =>
          slot'[s].by = None /\ \E u \in Readers : rd'[u].pc = "once" /\ rd'[u].slot = s
    BY <1>2 DEF SlotsOK
  <1> QED
    BY <1>3, <1>4, <1>5 DEF SlotsOK

\* The initialiser is done.
LEMMA SlotsSet ==
  ASSUME TInv, SlotsOK, NEW t \in Readers, NEW q \in Read, Go(t, q), inFlight' = inFlight,
         rd[t].pc \in {"map", "keep", "render"},
         q.pc = "once" /\ q.slot = rd[t].slot /\ q.path = rd[t].path,
         q.outer = rd[t].outer /\ q.outerSlot = rd[t].outerSlot, NEW val,
         slot' = [slot EXCEPT ![rd[t].slot] = [by |-> None, done |-> TRUE, val |-> val]]
  PROVE  SlotsOK'
  <1> DEFINE r == rd[t]
  <1>1. r \in Read /\ ReaderShape(r) /\ slot \in [Slots -> Once]
        /\ \A u \in Readers : rd[u] \in Read /\ ReaderShape(rd[u])
    BY DEF TInv, Types
  <1>2. r.slot \in Slots /\ slot[r.slot].by = t
    BY <1>1 DEF Read, ReaderShape, SlotsOK
  <1>3. \A s \in Slots, p \in Paths : Ref(s, p)' => Ref(s, p)
    BY RefKept, RefOwn
  <1>4. \A u \in Readers : rd'[u] = IF u = t THEN q ELSE rd[u]
    BY DEF Go, TInv, Types
  <1>5. \A s \in Slots, p, x \in Paths : Ref(s, p)' /\ Ref(s, x)' => p = x
    BY <1>3 DEF SlotsOK
  <1>6. /\ slot'[r.slot].by = None /\ slot'[r.slot].done
        /\ \A s \in Slots : s # r.slot => slot'[s] = slot[s]
    BY <1>1, <1>2
  <1>7. ASSUME NEW u \in Readers
        PROVE  /\ rd'[u].pc \in {"map", "keep", "render"} => slot'[rd'[u].slot].by = u
               /\ rd'[u].outer # None => slot'[rd'[u].outerSlot].by = u
    <2>1. rd[u].pc \in {"map", "keep", "render"} => rd[u].slot \in Slots /\ slot[rd[u].slot].by = u
      BY <1>1 DEF Read, ReaderShape, SlotsOK
    <2>2. rd[u].outer # None => rd[u].outerSlot \in Slots /\ slot[rd[u].outerSlot].by = u
      BY <1>1 DEF Read, ReaderShape, SlotsOK
    <2>3. CASE u = t
      <3>1. r.outer # None => r.outerSlot # r.slot
        BY <1>2, NoneFacts, SlotsApart
      <3> QED
        BY <1>4, <1>6, <2>2, <2>3, <3>1
    <2>4. CASE u # t
      BY <1>2, <1>4, <1>6, <2>1, <2>2, <2>4
    <2> QED
      BY <2>3, <2>4
  <1>8. ASSUME NEW s \in Slots, slot'[s].done
        PROVE  slot'[s].by = None /\ \E u \in Readers : rd'[u].pc = "once" /\ rd'[u].slot = s
    <2>1. CASE s = r.slot
      BY <1>4, <1>6, <2>1
    <2>2. CASE s # r.slot
      BY <1>4, <1>6, <1>8, <2>2 DEF SlotsOK
    <2> QED
      BY <2>1, <2>2
  <1> QED
    BY <1>5, <1>7, <1>8 DEF SlotsOK

\* A new reader takes a free slot.
LEMMA SlotsJoined ==
  ASSUME TInv, SlotsOK, NEW t \in Readers, DecodeJoin(t)
  PROVE  SlotsOK'
  <1> DEFINE r == rd[t]
             p == r.path
             s == IF inFlight[p] # None THEN inFlight[p] ELSE CHOOSE i \in Slots : i \notin Held
             q == [r EXCEPT !.pc = "once", !.slot = s]
  <1>1. r \in Read /\ ReaderShape(r) /\ slot \in [Slots -> Once] /\ r.pc = "cache" /\ p \in Paths
        /\ inFlight \in [Paths -> Slots \cup {None}]
    BY DEF TInv, Types, DecodeJoin, ReaderShape
  <1>2. s \in Slots /\ (inFlight[p] = None => s \notin Held)
    BY <1>1, FreeSlot
  <1> HIDE DEF s
  <1>3. /\ Go(t, q) /\ inFlight' = [inFlight EXCEPT ![p] = s]
        /\ slot' = IF inFlight[p] # None THEN slot ELSE [slot EXCEPT ![s] = Unset]
    BY DEF DecodeJoin, s
  <1>4. q \in Read /\ q.pc = "once" /\ q.slot = s /\ q.path = p
        /\ q.outer = r.outer /\ q.outerSlot = r.outerSlot
    BY <1>1, <1>2 DEF Read
  <1> HIDE DEF q
  <1>5. r.outer # None => r.outerSlot \in Slots /\ slot[r.outerSlot].by = t
    BY <1>1 DEF Read, ReaderShape, SlotsOK
  <1>6. CASE inFlight[p] # None
    <2>1. s = inFlight[p]
      BY <1>6 DEF s
    <2>2. inFlight' = inFlight /\ slot' = slot
      BY <1>1, <1>3, <1>6, <2>1
    <2>3. Ref(s, p)
      BY <1>1, <2>1 DEF Ref
    <2> QED
      BY <1>1, <1>3, <1>4, <1>5, <2>2, <2>3, RefOwn, SlotsMoved
  <1>7. CASE inFlight[p] = None
    <2>1. \A x \in Paths : ~Ref(s, x)
      BY <1>2, <1>7 DEF Ref, Held
    <2>2. \A u \in Readers : rd'[u] = IF u = t THEN q ELSE rd[u]
      BY <1>3 DEF Go, TInv, Types
    <2>3. \A y \in Slots, x \in Paths : Ref(y, x)' => Ref(y, x) \/ (y = s /\ x = p)
      BY <1>1, <1>3, <1>4, <2>2 DEF Ref
    <2>4. \A y \in Slots, x, z \in Paths : Ref(y, x)' /\ Ref(y, z)' => x = z
      BY <2>1, <2>3 DEF SlotsOK
    <2>5. \A y \in Slots : slot'[y] = IF y = s THEN Unset ELSE slot[y]
      BY <1>1, <1>3, <1>7
    <2>6. \A u \in Readers : rd[u].slot # s /\ rd[u].outerSlot # s
      BY <1>2, <1>7 DEF Held
    <2>7. ASSUME NEW u \in Readers
          PROVE  /\ rd'[u].pc \in {"map", "keep", "render"} => slot'[rd'[u].slot].by = u
                 /\ rd'[u].outer # None => slot'[rd'[u].outerSlot].by = u
      <3>1. rd[u] \in Read /\ ReaderShape(rd[u])
        BY DEF TInv, Types
      <3>2. rd[u].pc \in {"map", "keep", "render"} => rd[u].slot \in Slots /\ slot[rd[u].slot].by = u
        BY <3>1 DEF Read, ReaderShape, SlotsOK
      <3>3. rd[u].outer # None => rd[u].outerSlot \in Slots /\ slot[rd[u].outerSlot].by = u
        BY <3>1 DEF Read, ReaderShape, SlotsOK
      <3> QED
        BY <1>4, <2>2, <2>5, <2>6, <3>2, <3>3
    <2>8. ASSUME NEW y \in Slots, slot'[y].done
          PROVE  slot'[y].by = None /\ \E u \in Readers : rd'[u].pc = "once" /\ rd'[u].slot = y
      <3>1. y # s /\ slot[y].done
        BY <2>5, <2>8 DEF Unset
      <3> QED
        BY <1>1, <2>2, <2>5, <3>1 DEF SlotsOK
    <2> QED
      BY <2>4, <2>7, <2>8 DEF SlotsOK
  <1> QED
    BY <1>6, <1>7

\* A reader starts the initialiser of a slot nobody has started.
LEMMA SlotsRun ==
  ASSUME TInv, SlotsOK, NEW t \in Readers, DecodeRun(t)
  PROVE  SlotsOK'
  <1> DEFINE r == rd[t]
             p == r.path
             s == r.slot
             q == IF p \in Virtual
                  THEN [r EXCEPT !.pc = "cache", !.path = SourceOf[p], !.outer = p,
                                 !.outerSlot = s, !.slot = None]
                  ELSE [r EXCEPT !.pc = "map", !.entry = index[p]]
  <1>1. /\ r \in Read /\ ReaderShape(r) /\ slot \in [Slots -> Once] /\ r.pc = "once"
        /\ p \in Paths /\ s \in Slots /\ Go(t, q) /\ inFlight' = inFlight
        /\ slot' = [slot EXCEPT ![s].by = t] /\ ~slot[s].done /\ slot[s].by = None
    BY DEF TInv, Types, DecodeRun, ReaderShape, Read
  <1>2. p \in Virtual => r.outer = None
    BY <1>1, PathFacts DEF ReaderShape, Read
  <1>3. /\ \/ q.slot = s /\ q.path = p /\ q.outer = r.outer /\ q.outerSlot = r.outerSlot /\ q.pc = "map"
           \/ q.slot = None /\ q.outerSlot = s /\ q.outer = p /\ q.pc = "cache"
    BY <1>1 DEF Read
  <1> HIDE DEF q
  <1>4. \A u \in Readers : rd'[u] = IF u = t THEN q ELSE rd[u]
    BY <1>1 DEF Go, TInv, Types
  <1>5. \A y \in Slots, x \in Paths : Ref(y, x)' => Ref(y, x)
    BY <1>1, <1>3, <1>4, NoneFacts DEF Ref
  <1>6. \A y \in Slots, x, z \in Paths : Ref(y, x)' /\ Ref(y, z)' => x = z
    BY <1>5 DEF SlotsOK
  <1>7. slot'[s].by = t /\ ~slot'[s].done /\ \A y \in Slots : y # s => slot'[y] = slot[y]
    BY <1>1 DEF Once
  <1>8. ASSUME NEW u \in Readers
        PROVE  /\ rd'[u].pc \in {"map", "keep", "render"} => slot'[rd'[u].slot].by = u
               /\ rd'[u].outer # None => slot'[rd'[u].outerSlot].by = u
    <2>1. rd[u] \in Read /\ ReaderShape(rd[u])
      BY DEF TInv, Types
    <2>2. rd[u].pc \in {"map", "keep", "render"} => rd[u].slot \in Slots \ {s} /\ slot[rd[u].slot].by = u
      BY <1>1, <2>1, NoneFacts DEF Read, ReaderShape, SlotsOK
    <2>3. rd[u].outer # None => rd[u].outerSlot \in Slots \ {s} /\ slot[rd[u].outerSlot].by = u
      BY <1>1, <2>1, NoneFacts DEF Read, ReaderShape, SlotsOK
    <2> QED
      BY <1>3, <1>4, <1>7, <2>2, <2>3
  <1>9. ASSUME NEW y \in Slots, slot'[y].done
        PROVE  slot'[y].by = None /\ \E u \in Readers : rd'[u].pc = "once" /\ rd'[u].slot = y
    <2>1. y # s /\ slot[y].done
      BY <1>7, <1>9
    <2>2. PICK u \in Readers : rd[u].pc = "once" /\ rd[u].slot = y
      BY <2>1 DEF SlotsOK
    <2>3. u # t
      BY <2>1, <2>2
    <2> QED
      BY <1>4, <1>7, <2>1, <2>2, <2>3 DEF SlotsOK
  <1> QED
    BY <1>6, <1>8, <1>9 DEF SlotsOK

\* A reader leaves a slot, which is freed with its last reader.
LEMMA SlotsLeft ==
  ASSUME TInv, SlotsOK, NEW t \in Readers, NEW q \in Read, Go(t, q), rd[t].pc = "once",
         slot[rd[t].slot].done, DecodeUnslot(t),
         q.slot \in Slots => Ref(q.slot, q.path),
         q.outerSlot \in Slots => Ref(q.outerSlot, q.outer),
         q.pc \in {"map", "keep", "render"} => q.slot \in Slots /\ slot[q.slot].by = t,
         q.outer # None => q.outerSlot \in Slots /\ slot[q.outerSlot].by = t
  PROVE  SlotsOK'
  <1> DEFINE r == rd[t]
             s == r.slot
  <1>1. /\ r \in Read /\ ReaderShape(r) /\ slot \in [Slots -> Once]
        /\ s \in Slots /\ r.path \in Paths /\ inFlight \in [Paths -> Slots \cup {None}]
    BY DEF TInv, Types, ReaderShape, Read
  <1>2. slot[s].by = None
    BY <1>1 DEF SlotsOK
  <1>3. \A u \in Readers : rd'[u] = IF u = t THEN q ELSE rd[u]
    BY DEF Go, TInv, Types
  <1>4. inFlight' = [inFlight EXCEPT ![r.path] = None]
    BY DEF DecodeUnslot
  <1>5. \A p \in Paths : inFlight'[p] \in Slots => Ref(inFlight'[p], p)
    BY <1>1, <1>4, NoneFacts DEF Ref
  <1>6. \A y \in Slots, x \in Paths : Ref(y, x)' => Ref(y, x)
    BY <1>5, RefKept
  <1>7. \A y \in Slots, x, z \in Paths : Ref(y, x)' /\ Ref(y, z)' => x = z
    BY <1>6 DEF SlotsOK
  <1>8. \A y \in Slots : y # s => slot'[y] = slot[y]
    BY <1>1 DEF DecodeUnslot
  <1>9. \A u \in Readers : rd[u] \in Read /\ ReaderShape(rd[u])
    BY DEF TInv, Types
  <1>10. ASSUME NEW u \in Readers
         PROVE  /\ rd'[u].pc \in {"map", "keep", "render"} => slot'[rd'[u].slot].by = u
                /\ rd'[u].outer # None => slot'[rd'[u].outerSlot].by = u
    <2>1. rd[u].pc \in {"map", "keep", "render"} => rd[u].slot \in Slots \ {s} /\ slot[rd[u].slot].by = u
      BY <1>2, <1>9, NoneFacts DEF Read, ReaderShape, SlotsOK
    <2>2. rd[u].outer # None => rd[u].outerSlot \in Slots \ {s} /\ slot[rd[u].outerSlot].by = u
      BY <1>2, <1>9, NoneFacts DEF Read, ReaderShape, SlotsOK
    <2>3. q.pc \in {"map", "keep", "render"} => q.slot # s
      BY <1>2, NoneFacts
    <2>4. q.outer # None => q.outerSlot # s
      BY <1>2, NoneFacts
    <2> QED
      BY <1>3, <1>8, <2>1, <2>2, <2>3, <2>4
  <1>11. ASSUME NEW y \in Slots, slot'[y].done
         PROVE  slot'[y].by = None /\ \E u \in Readers : rd'[u].pc = "once" /\ rd'[u].slot = y
    <2>1. CASE y # s
      <3>1. PICK u \in Readers : rd[u].pc = "once" /\ rd[u].slot = y
        BY <1>8, <1>11, <2>1 DEF SlotsOK
      <3> QED
        BY <1>3, <1>8, <1>11, <2>1, <3>1 DEF SlotsOK
    <2>2. CASE y = s
      <3>1. ~Unset.done
        BY DEF Unset
      <3>2. slot' = slot /\ \E u \in Readers \ {t} : rd[u].slot = s \/ rd[u].outerSlot = s
        BY <1>1, <1>11, <2>2, <3>1 DEF DecodeUnslot
      <3>3. PICK u \in Readers \ {t} : rd[u].slot = s \/ rd[u].outerSlot = s
        BY <3>2
      <3>4. rd[u].pc = "once" /\ rd[u].slot = s
        BY <1>1, <1>2, <1>9, <3>3, NoneFacts DEF Read, ReaderShape, SlotsOK
      <3> QED
        BY <1>2, <1>3, <2>2, <3>2, <3>3, <3>4
    <2> QED
      BY <2>1, <2>2
  <1> QED
    BY <1>7, <1>10, <1>11 DEF SlotsOK

\* A panic unsets the slots of the reader.
LEMMA SlotsPanicked ==
  ASSUME TInv, SlotsOK, NEW t \in Readers, DecodePanics(t)
  PROVE  SlotsOK'
  <1>1. /\ slot \in [Slots -> Once] /\ Go(t, Quiet) /\ inFlight' = inFlight
        /\ slot' = [i \in Slots |-> IF slot[i].by = t THEN Unset ELSE slot[i]]
        /\ rd[t].pc # "once"
    BY DEF TInv, Types, DecodePanics, flights
  <1>2. \A u \in Readers : rd'[u] = IF u = t THEN Quiet ELSE rd[u]
    BY <1>1 DEF Go, TInv, Types
  <1>3. Quiet.slot = None /\ Quiet.outerSlot = None /\ Quiet.outer = None /\ Quiet.pc = "idle"
    BY DEF Quiet
  <1>4. \A s \in Slots, p \in Paths : Ref(s, p)' => Ref(s, p)
    BY <1>1, <1>2, <1>3, NoneFacts DEF Ref
  <1>5. \A s \in Slots, p, x \in Paths : Ref(s, p)' /\ Ref(s, x)' => p = x
    BY <1>4 DEF SlotsOK
  <1>6. ~Unset.done
    BY DEF Unset
  <1>7. ASSUME NEW u \in Readers
        PROVE  /\ rd'[u].pc \in {"map", "keep", "render"} => slot'[rd'[u].slot].by = u
               /\ rd'[u].outer # None => slot'[rd'[u].outerSlot].by = u
    <2>1. rd[u] \in Read /\ ReaderShape(rd[u])
      BY DEF TInv, Types
    <2>2. rd[u].pc \in {"map", "keep", "render"} => rd[u].slot \in Slots /\ slot[rd[u].slot].by = u
      BY <2>1, NoneFacts DEF Read, ReaderShape, SlotsOK
    <2>3. rd[u].outer # None => rd[u].outerSlot \in Slots /\ slot[rd[u].outerSlot].by = u
      BY <2>1, NoneFacts DEF Read, ReaderShape, SlotsOK
    <2> QED
      BY <1>1, <1>2, <1>3, <2>2, <2>3
  <1>8. ASSUME NEW y \in Slots, slot'[y].done
        PROVE  slot'[y].by = None /\ \E u \in Readers : rd'[u].pc = "once" /\ rd'[u].slot = y
    <2>1. slot'[y] = slot[y]
      BY <1>1, <1>6, <1>8
    <2>2. PICK u \in Readers : rd[u].pc = "once" /\ rd[u].slot = y
      BY <1>8, <2>1 DEF SlotsOK
    <2> QED
      BY <1>1, <1>2, <1>8, <2>1, <2>2 DEF SlotsOK
  <1> QED
    BY <1>5, <1>7, <1>8 DEF SlotsOK

\* Where a reader goes that has its content.
LEMMA ResumedOwn ==
  ASSUME TInv, SlotsOK, NEW t \in Readers, NEW content \in Content \cup {None}
  PROVE  LET q == Resumed(rd[t], content) IN
           /\ q.slot \in Slots => Ref(q.slot, q.path)
           /\ q.outerSlot \in Slots => Ref(q.outerSlot, q.outer)
           /\ q.pc \in {"map", "keep", "render"} => q.slot \in Slots /\ slot[q.slot].by = t
           /\ q.outer # None => q.outerSlot \in Slots /\ slot[q.outerSlot].by = t
  <1>1. rd[t] \in Read /\ ReaderShape(rd[t])
    BY DEF TInv, Types
  <1>2. CASE rd[t].outer = None
    BY <1>2, NoneFacts DEF Resumed, Quiet
  <1>3. CASE rd[t].outer # None
    <2> DEFINE q == Resumed(rd[t], content)
    <2>1. q.slot = rd[t].outerSlot /\ q.path = rd[t].outer /\ q.outer = None /\ q.outerSlot = None
      BY <1>1, <1>3 DEF Resumed, Read
    <2>2. rd[t].outerSlot \in Slots /\ slot[rd[t].outerSlot].by = t
      BY <1>1, <1>3 DEF Read, ReaderShape, SlotsOK
    <2>3. Ref(rd[t].outerSlot, rd[t].outer)
      BY RefOwn
    <2> QED
      BY <2>1, <2>2, <2>3, NoneFacts
  <1> QED
    BY <1>2, <1>3

LEMMA SlotsStep ==
  ASSUME TInv, SlotsOK, NEW t \in Readers, DecodeStep(t) \/ DecodePanics(t)
  PROVE  SlotsOK'
  <1> DEFINE r == rd[t]
  <1>1. /\ r \in Read /\ ReaderShape(r) /\ slot \in [Slots -> Once]
        /\ cache \in [Paths -> Content \cup {None}]
    BY DEF TInv, Types
  <1>2. r.outer # None => r.outerSlot \in Slots /\ slot[r.outerSlot].by = t
    BY <1>1 DEF Read, ReaderShape, SlotsOK
  <1>3. ASSUME NEW content \in Content \cup {None}, Return(t, content), r.pc # "once",
               slot' = slot, inFlight' = inFlight
        PROVE  SlotsOK'
    <2> DEFINE q == Resumed(r, content)
    <2>1. q \in Read /\ Go(t, q)
      BY <1>3, ReturnGoes
    <2>2. /\ q.slot \in Slots => Ref(q.slot, q.path)
          /\ q.outerSlot \in Slots => Ref(q.outerSlot, q.outer)
          /\ q.pc \in {"map", "keep", "render"} => slot[q.slot].by = t
          /\ q.outer # None => slot[q.outerSlot].by = t
      BY <1>3, ResumedOwn
    <2> HIDE DEF q
    <2> QED
      BY <1>3, <2>1, <2>2, RefOwn, SlotsMoved
  <1>4. ASSUME NEW len, Sliced(t, r, len), Slicing(t), inFlight' = inFlight
        PROVE  SlotsOK'
    <2> DEFINE q == [r EXCEPT !.pc = "once", !.len = 0, !.entry = 0]
               val == IF r.entry < len THEN blob[r.entry] ELSE None
    <2>1. /\ Go(t, q) /\ q.pc = "once" /\ q.slot = r.slot /\ q.path = r.path
          /\ q.outer = r.outer /\ q.outerSlot = r.outerSlot
          /\ slot' = [slot EXCEPT ![r.slot] = [by |-> None, done |-> TRUE, val |-> val]]
      BY <1>1, <1>4 DEF Sliced, Read
    <2>2. 0 \in Content /\ 0 \in 0 .. MaxSaves + 1
      BY NoneFacts DEF Content
    <2>3. q \in Read
      BY <1>1, <2>2 DEF Read
    <2> HIDE DEF q, val
    <2> QED
      BY <1>4, <2>1, <2>3, SlotsSet DEF Slicing
  <1>5. CASE DecodeCached(t)
    <2>1. r.pc = "cache" /\ r.path \in Paths /\ slot' = slot /\ inFlight' = inFlight
      BY <1>1, <1>5 DEF DecodeCached, ReaderShape, flights
    <2>2. cache[r.path] \in Content \cup {None}
      BY <1>1, <2>1
    <2> QED
      BY <1>3, <1>5, <2>1, <2>2 DEF DecodeCached
  <1>6. CASE MapShared(t)
    BY <1>4, <1>6 DEF MapShared, Slicing
  <1>7. CASE MapOpen(t)
    <2> DEFINE q == [r EXCEPT !.pc = "keep", !.len = length]
    <2>1. length \in 0 .. MaxSaves + 1 /\ Go(t, q) /\ slot' = slot /\ inFlight' = inFlight /\ r.pc = "map"
      BY <1>7, NoneFacts DEF TInv, Types, Length, MapOpen, flights
    <2>2. /\ q \in Read /\ q.slot = r.slot /\ q.path = r.path /\ q.pc = "keep"
          /\ q.outer = r.outer /\ q.outerSlot = r.outerSlot
      BY <1>1, <2>1 DEF Read
    <2>3. slot[r.slot].by = t
      BY <2>1 DEF SlotsOK
    <2> HIDE DEF q
    <2> QED
      BY <1>2, <2>1, <2>2, <2>3, RefOwn, SlotsMoved
  <1>8. CASE MapKeep(t)
    BY <1>4, <1>8 DEF MapKeep, Slicing
  <1>9. CASE DecodeRender(t)
    <2> DEFINE q == [r EXCEPT !.pc = "once", !.got = None]
               val == r.got
    <2>1. /\ Go(t, q) /\ q.pc = "once" /\ q.slot = r.slot /\ q.path = r.path /\ r.pc = "render"
          /\ q.outer = r.outer /\ q.outerSlot = r.outerSlot /\ inFlight' = inFlight
          /\ slot' = [slot EXCEPT ![r.slot] = [by |-> None, done |-> TRUE, val |-> val]]
      BY <1>1, <1>9 DEF DecodeRender, Read
    <2>2. q \in Read
      BY <1>1 DEF Read
    <2> HIDE DEF q, val
    <2> QED
      BY <2>1, <2>2, SlotsSet
  <1>10. CASE DecodeUnslot(t)
    <2> DEFINE got == slot[r.slot].val
    <2>1. r.slot \in Slots /\ r.pc = "once" /\ slot[r.slot].done
      BY <1>1, <1>10 DEF DecodeUnslot, Read, ReaderShape
    <2>2. got \in Content \cup {None}
      BY <1>1, <2>1 DEF Once
    <2>3. CASE got = None
      <3> DEFINE q == Resumed(r, got)
      <3>1. Return(t, got)
        BY <1>10, <2>3 DEF DecodeUnslot
      <3>2. q \in Read /\ Go(t, q)
        BY <2>2, <3>1, ReturnGoes
      <3>3. /\ q.slot \in Slots => Ref(q.slot, q.path)
            /\ q.outerSlot \in Slots => Ref(q.outerSlot, q.outer)
            /\ q.pc \in {"map", "keep", "render"} => q.slot \in Slots /\ slot[q.slot].by = t
            /\ q.outer # None => q.outerSlot \in Slots /\ slot[q.outerSlot].by = t
        BY <2>2, ResumedOwn
      <3> HIDE DEF q
      <3> QED
        BY <1>10, <2>1, <3>2, <3>3, SlotsLeft
    <2>4. CASE got # None
      <3> DEFINE q == [r EXCEPT !.pc = "put", !.slot = None, !.got = got]
      <3>1. Go(t, q)
        BY <1>10, <2>4 DEF DecodeUnslot
      <3>2. /\ q \in Read /\ q.pc = "put" /\ q.slot = None
            /\ q.outer = r.outer /\ q.outerSlot = r.outerSlot
        BY <1>1, <2>2 DEF Read
      <3> HIDE DEF q
      <3> QED
        BY <1>2, <1>10, <2>1, <3>1, <3>2, NoneFacts, RefOwn, SlotsLeft
    <2> QED
      BY <2>3, <2>4
  <1>11. CASE DecodePut(t)
    <2>1. r.got \in Content \cup {None} /\ r.pc = "put" /\ slot' = slot /\ inFlight' = inFlight
      BY <1>1, <1>11 DEF DecodePut, Read, flights
    <2> QED
      BY <1>3, <1>11, <2>1 DEF DecodePut
  <1> QED
    BY <1>5, <1>6, <1>7, <1>8, <1>9, <1>10, <1>11, SlotsJoined, SlotsRun, SlotsPanicked DEF DecodeStep

LEMMA SlotsInit == ASSUME Init PROVE SlotsOK
  BY NoneFacts DEF Init, SlotsOK, Ref, Quiet, Unset

LEMMA SlotsNext == ASSUME TInv, SlotsOK, [Next]_vars PROVE SlotsOK'
  <1>1. ASSUME rd' = rd, slot' = slot, inFlight' = inFlight PROVE SlotsOK'
    <2>1. \A s \in Slots, p \in Paths : Ref(s, p)' <=> Ref(s, p)
      BY <1>1 DEF Ref
    <2> QED
      BY <1>1, <2>1 DEF SlotsOK
  <1>2. ASSUME NEW t \in Readers, NEW p \in Paths, ReadMemory(t, p) \/ ReadDecode(t, p)
        PROVE  SlotsOK'
    <2>1. PICK q \in Read : /\ Go(t, q) /\ q.slot = None /\ q.outer = None /\ q.outerSlot = None
                            /\ q.pc \in {"idle", "cache"}
      <3>1. CASE ReadMemory(t, p)
        BY <3>1, QuietShape DEF ReadMemory, Answer, Quiet
      <3>2. CASE ReadDecode(t, p)
        <4> DEFINE q == [Quiet EXCEPT !.pc = "cache", !.path = p, !.floor = Floor(p)]
        <4>1. Floor(p) \in Content
          BY PathFacts, NoneFacts DEF Floor, Content, TInv, Types
        <4>2. q \in Read /\ q.slot = None /\ q.outer = None /\ q.outerSlot = None /\ q.pc = "cache"
          BY <4>1, QuietShape DEF Quiet, Read
        <4> HIDE DEF q
        <4>3. Go(t, q)
          BY <3>2 DEF ReadDecode, q
        <4> QED
          BY <4>2, <4>3
      <3> QED
        BY <1>2, <3>1, <3>2
    <2>2. rd[t].pc = "idle" /\ slot' = slot /\ inFlight' = inFlight
      BY <1>2 DEF ReadMemory, ReadDecode, flights
    <2> QED
      BY <2>1, <2>2, NoneFacts, RefOwn, SlotsMoved
  <1>3. CASE UNCHANGED vars
    BY <1>1, <1>3 DEF vars, flights
  <1>4. CASE Next
    BY <1>1, <1>2, <1>4, SlotsStep
       DEF Next, Probe, Save, TakeOverlay, FlushConvertFails, FlushPut, FlushAppend, FlushFails,
           FlushUnmap, FlushReload, FlushReloadFails, FlushInvalidate, Reading, flights
  <1> QED
    BY <1>3, <1>4

-----------------------------------------------------------------------------
(* Maps                                                                    *)

LEMMA MapsInit == ASSUME Init PROVE MapsOK
  BY NoneFacts DEF Init, MapsOK, Mapped, Slicing, Quiet, Length

\* A reader opens maps of what there is, and slices what the index leads to.
LEMMA MapsReader ==
  ASSUME TInv, MapsOK, Untouched, shortMap' = shortMap, NEW t \in Readers, NEW q, Go(t, q),
         map' \in {map, None, length}
           \/ (rd[t].pc = "keep" /\ map' = rd[t].len),
         q.pc = "keep" => q.len \in {rd[t].len, length} /\ (q.len = length \/ rd[t].pc = "keep"),
         q.pc \in {"map", "keep"} => \/ Slicing(t) /\ q.entry = rd[t].entry
                                     \/ \E f \in Files : q.entry = index[f]
  PROVE  MapsOK'
  <1>1. \A u \in Readers : rd'[u] = IF u = t THEN q ELSE rd[u]
    BY DEF Go, TInv, Types
  <1>2. \A m \in Length : Mapped(m)' => Mapped(m) \/ m = length
    BY <1>1 DEF Mapped
  <1>3. \A f \in Files : index[f] < length
    BY DEF TInv, FlushShape
  <1>4. fl.pc = "reload" => fl.b < length
    BY DEF TInv, FlushShape
  <1>5. \A u \in Readers : Slicing(u)' =>
          \/ Slicing(u) /\ rd'[u].entry = rd[u].entry
          \/ \E f \in Files : rd'[u].entry = index[f]
    BY <1>1 DEF Slicing
  <1>6. ASSUME NEW u \in Readers, Slicing(u)' PROVE rd'[u].entry < length
    BY <1>3, <1>5, <1>6 DEF MapsOK
  <1>7. ASSUME ~shortMap, NEW m \in Length, Mapped(m)'
        PROVE  /\ \A f \in Files : index[f] < m
               /\ \A u \in Readers : Slicing(u)' => rd'[u].entry < m
               /\ fl.pc = "reload" => fl.b < m
    <2>1. CASE m = length
      BY <1>3, <1>4, <1>6, <2>1
    <2>2. CASE Mapped(m)
      BY <1>5, <1>7, <2>2 DEF MapsOK
    <2> QED
      BY <1>2, <1>7, <2>1, <2>2
  <1> QED
    BY <1>6, <1>7 DEF MapsOK, Untouched

LEMMA MapsStep ==
  ASSUME TInv, MapsOK, NEW t \in Readers, DecodeStep(t) \/ DecodePanics(t)
  PROVE  MapsOK'
  <1> DEFINE r == rd[t]
  <1>1. r \in Read /\ ReaderShape(r) /\ cache \in [Paths -> Content \cup {None}]
        /\ slot \in [Slots -> Once]
    BY DEF TInv, Types
  <1>2. ASSUME NEW content \in Content \cup {None}, Return(t, content), Untouched,
               shortMap' = shortMap, map' = map
        PROVE  MapsOK'
    <2> DEFINE q == Resumed(r, content)
    <2>1. q \in Read /\ Go(t, q)
      BY <1>2, ReturnGoes
    <2>2. q.pc \in {"idle", "render"}
      BY <1>1 DEF Resumed, Quiet, Read
    <2> HIDE DEF q
    <2> QED
      BY <1>2, <2>1, <2>2, MapsReader
  <1>3. ASSUME NEW len, Sliced(t, r, len), Untouched, shortMap' = shortMap,
               map' = map \/ (r.pc = "keep" /\ map' = r.len)
        PROVE  MapsOK'
    <2> DEFINE q == [r EXCEPT !.pc = "once", !.len = 0, !.entry = 0]
    <2>1. Go(t, q) /\ q.pc = "once"
      BY <1>1, <1>3 DEF Sliced, Read
    <2> HIDE DEF q
    <2> QED
      BY <1>3, <2>1, MapsReader
  <1>4. CASE DecodeCached(t)
    <2>1. cache[r.path] \in Content \cup {None} /\ Untouched /\ shortMap' = shortMap /\ map' = map
      BY <1>1, <1>4 DEF DecodeCached, ReaderShape, Untouched, disk
    <2> QED
      BY <1>2, <1>4, <2>1 DEF DecodeCached
  <1>5. CASE DecodeJoin(t)
    <2> DEFINE s == IF inFlight[r.path] # None THEN inFlight[r.path]
                    ELSE CHOOSE i \in Slots : i \notin Held
               q == [r EXCEPT !.pc = "once", !.slot = s]
    <2>1. Go(t, q) /\ q.pc = "once"
      BY <1>1, <1>5 DEF DecodeJoin, Read
    <2> HIDE DEF q
    <2> QED
      BY <1>5, <2>1, MapsReader DEF DecodeJoin, Untouched, disk, ghosts
  <1>6. CASE DecodeRun(t)
    <2> DEFINE p == r.path
               q == IF p \in Virtual
                    THEN [r EXCEPT !.pc = "cache", !.path = SourceOf[p], !.outer = p,
                                   !.outerSlot = r.slot, !.slot = None]
                    ELSE [r EXCEPT !.pc = "map", !.entry = index[p]]
    <2>1. Go(t, q) /\ Untouched /\ shortMap' = shortMap /\ map' = map /\ p \in Paths
      BY <1>1, <1>6 DEF DecodeRun, ReaderShape, Untouched, disk, ghosts
    <2>2. q.pc = "cache" \/ (q.pc = "map" /\ p \in Files /\ q.entry = index[p])
      BY <1>1, <2>1 DEF Read, Paths
    <2> HIDE DEF q
    <2> QED
      BY <2>1, <2>2, MapsReader
  <1>7. CASE MapShared(t)
    BY <1>3, <1>7 DEF MapShared, Untouched, disk, ghosts
  <1>8. CASE MapOpen(t)
    <2> DEFINE q == [r EXCEPT !.pc = "keep", !.len = length]
    <2>1. Go(t, q) /\ q.pc = "keep" /\ q.len = length /\ q.entry = r.entry /\ Slicing(t)
      BY <1>1, <1>8 DEF MapOpen, Read, Slicing
    <2> HIDE DEF q
    <2> QED
      BY <1>8, <2>1, MapsReader DEF MapOpen, Untouched, disk, ghosts
  <1>9. CASE MapKeep(t)
    BY <1>3, <1>9 DEF MapKeep, Untouched, disk, ghosts
  <1>10. CASE DecodeRender(t)
    <2> DEFINE q == [r EXCEPT !.pc = "once", !.got = None]
    <2>1. Go(t, q) /\ q.pc = "once"
      BY <1>1, <1>10 DEF DecodeRender, Read
    <2> HIDE DEF q
    <2> QED
      BY <1>10, <2>1, MapsReader DEF DecodeRender, Untouched, disk, ghosts
  <1>11. CASE DecodeUnslot(t)
    <2> DEFINE got == slot[r.slot].val
               q == [r EXCEPT !.pc = "put", !.slot = None, !.got = got]
    <2>1. got \in Content \cup {None} /\ Untouched /\ shortMap' = shortMap /\ map' = map
      BY <1>1, <1>11 DEF DecodeUnslot, Read, ReaderShape, Once, Untouched, disk
    <2>2. q.pc = "put"
      BY <1>1 DEF Read
    <2> HIDE DEF q
    <2>3. Return(t, got) \/ Go(t, q)
      BY <1>11 DEF DecodeUnslot, q
    <2> HIDE DEF got
    <2> QED
      BY <1>2, <2>1, <2>2, <2>3, MapsReader
  <1>12. CASE DecodePut(t)
    <2>1. r.got \in Content \cup {None}
      BY <1>1 DEF Read
    <2> QED
      BY <1>2, <1>12, <2>1 DEF DecodePut, Untouched, disk
  <1>13. CASE DecodePanics(t)
    <2>1. Quiet.pc = "idle"
      BY DEF Quiet
    <2> QED
      BY <1>13, <2>1, MapsReader DEF DecodePanics, Untouched, disk
  <1> QED
    BY <1>4, <1>5, <1>6, <1>7, <1>8, <1>9, <1>10, <1>11, <1>12, <1>13 DEF DecodeStep

LEMMA MapsFlush ==
  ASSUME TInv, MapsOK,
         \/ \E p \in Files : Probe(p)
         \/ \E p \in Saved : Save(p)
         \/ TakeOverlay \/ FlushConvertFails \/ FlushPut \/ FlushAppend \/ FlushFails
         \/ FlushUnmap \/ FlushReload \/ FlushReloadFails \/ FlushInvalidate
  PROVE  MapsOK'
  <1>1. /\ fl \in Flushing /\ FlushShape /\ length \in Length /\ map \in Length \cup {None}
        /\ index \in [Files -> Content] /\ rd \in [Readers -> Read] /\ shortMap \in BOOLEAN
    BY DEF TInv, Types
  <1>2. ASSUME rd' = rd, map' = map, index' = index, shortMap' = shortMap, length' = length,
               fl'.pc = "reload" => fl.pc = "reload" /\ fl'.b = fl.b
        PROVE  MapsOK'
    <2>1. \A m : Mapped(m)' <=> Mapped(m)
      BY <1>2 DEF Mapped
    <2>2. \A t \in Readers : Slicing(t)' <=> Slicing(t)
      BY <1>2 DEF Slicing
    <2> QED
      BY <1>2, <2>1, <2>2 DEF MapsOK
  <1>3. CASE \E p \in Files : Probe(p)
    <2>1. rd' = rd /\ map' \in {map, length} /\ index' = index /\ shortMap' = shortMap /\ length' = length /\ fl' = fl
      BY <1>3 DEF Probe, Reading, disk
    <2>2. \A m : Mapped(m)' => Mapped(m) \/ m = length
      BY <2>1 DEF Mapped
    <2>3. \A t \in Readers : Slicing(t)' <=> Slicing(t)
      BY <2>1 DEF Slicing
    <2> QED
      BY <1>1, <2>1, <2>2, <2>3 DEF MapsOK, FlushShape
  <1>4. CASE \E p \in Saved : Save(p)
    BY <1>2, <1>4 DEF Save, Reading, disk, ghosts
  <1>5. CASE TakeOverlay
    BY <1>2, <1>5 DEF TakeOverlay, Reading, disk, ghosts
  <1>6. CASE FlushConvertFails
    BY <1>2, <1>6 DEF FlushConvertFails, Flush, NoFlush, Reading, disk
  <1>7. CASE FlushPut
    <2>1. fl'.pc = "append"
      BY <1>1, <1>7 DEF FlushPut, Flush, Flushing
    <2> QED
      BY <1>2, <1>7, <2>1 DEF FlushPut, Reading, disk
  <1>8. CASE FlushAppend
    <2>1. fl'.pc = "unmap" /\ rd' = rd /\ map' = map /\ index' = index /\ shortMap' = shortMap
          /\ length' = length + 1
      BY <1>1, <1>8 DEF FlushAppend, Flush, Flushing, Reading
    <2>2. \A m : Mapped(m)' <=> Mapped(m)
      BY <2>1 DEF Mapped
    <2>3. \A t \in Readers : (Slicing(t)' <=> Slicing(t)) /\ rd[t].entry \in Content
      BY <1>1, <2>1 DEF Slicing, Read
    <2>4. \A t \in Readers : Slicing(t) => rd[t].entry < length + 1
      BY <1>1, <2>3, NoneFacts DEF MapsOK, Content, Length
    <2> QED
      BY <2>1, <2>2, <2>3, <2>4 DEF MapsOK
  <1>9. ASSUME fl' = [AfterSource EXCEPT !.v = 0] \/ fl' = AfterSource \/ fl' = NoFlush
        PROVE  fl'.pc # "reload"
    BY <1>1, <1>9 DEF AfterSource, NoFlush, Flushing
  <1>10. CASE FlushFails
    BY <1>2, <1>9, <1>10 DEF FlushFails, Flush, Reading, disk
  <1>11. CASE FlushUnmap
    <2>1. rd' = rd /\ map' = None /\ length' = length
          /\ shortMap' = (shortMap \/ \E t \in Readers : rd[t].pc = "keep")
      BY <1>11 DEF FlushUnmap, Reading, disk
    <2>2. ~shortMap' => \A m : ~Mapped(m)'
      BY <2>1 DEF Mapped
    <2>3. \A t \in Readers : Slicing(t)' <=> Slicing(t)
      BY <2>1 DEF Slicing
    <2> QED
      BY <2>1, <2>2, <2>3 DEF MapsOK
  <1>12. CASE FlushReload
    <2>1. /\ rd' = rd /\ map' = map /\ shortMap' = shortMap /\ length' = length
          /\ index' = [index EXCEPT ![Source(fl.path)] = fl.b]
          /\ fl'.pc # "reload" /\ fl.pc = "reload"
      BY <1>9, <1>12 DEF FlushReload, Flush, Reading, disk
    <2>2. \A m : Mapped(m)' <=> Mapped(m)
      BY <2>1 DEF Mapped
    <2>3. \A t \in Readers : Slicing(t)' <=> Slicing(t)
      BY <2>1 DEF Slicing
    <2>4. \A f \in Files : index'[f] = index[f] \/ index'[f] = fl.b
      BY <1>1, <2>1
    <2> QED
      BY <2>1, <2>2, <2>3, <2>4 DEF MapsOK
  <1>13. CASE FlushReloadFails
    BY <1>2, <1>9, <1>13 DEF FlushReloadFails, Flush, Reading, disk
  <1>14. CASE FlushInvalidate
    BY <1>2, <1>9, <1>14 DEF FlushInvalidate, Flush, Reading, disk
  <1> QED
    BY <1>3, <1>4, <1>5, <1>6, <1>7, <1>8, <1>10, <1>11, <1>12, <1>13, <1>14

LEMMA MapsNext == ASSUME TInv, MapsOK, [Next]_vars PROVE MapsOK'
  <1>1. ASSUME NEW t \in Readers, NEW p \in Paths, ReadMemory(t, p) \/ ReadDecode(t, p)
        PROVE  MapsOK'
    <2>1. PICK q : Go(t, q) /\ q.pc \in {"idle", "cache"}
      <3>1. CASE ReadMemory(t, p)
        BY <3>1 DEF ReadMemory, Answer, Quiet
      <3>2. CASE ReadDecode(t, p)
        <4> DEFINE q == [Quiet EXCEPT !.pc = "cache", !.path = p, !.floor = Floor(p)]
        <4>1. q.pc = "cache"
          BY DEF Quiet
        <4> HIDE DEF q
        <4>2. Go(t, q)
          BY <3>2 DEF ReadDecode, q
        <4> QED
          BY <4>1, <4>2
      <3> QED
        BY <1>1, <3>1, <3>2
    <2> QED
      BY <1>1, <2>1, MapsReader DEF ReadMemory, ReadDecode, Untouched, disk, ghosts
  <1>2. CASE UNCHANGED vars
    BY <1>2 DEF vars, disk, ghosts, MapsOK, Mapped, Slicing
  <1>3. CASE Next
    BY <1>1, <1>3, MapsStep, MapsFlush DEF Next
  <1> QED
    BY <1>2, <1>3

-----------------------------------------------------------------------------
(* Contents                                                                *)

LEMMA CoherentInit == ASSUME Init PROVE CInv
  <1>1. Quiet.pc = "idle"
    BY DEF Quiet
  <1>2. \A t \in Readers : ReadOK(rd[t])
    BY <1>1 DEF Init, ReadOK, Holds
  <1>3. Stored /\ CopiesOK
    BY NoneFacts DEF Init, Stored, CopiesOK, NoFlush, Content
  <1> QED
    BY <1>2, <1>3, TypeInit, SlotsInit, MapsInit DEF Init, CInv, Coherent

\* A race once noted is never forgotten, nor is a short map.
LEMMA GotKept ==
  ASSUME raced \subseteq raced', saved' = saved, shortMap' = shortMap, NEW p \in Paths, NEW d
  PROVE  (Got(p, d) => Got(p, d)') /\ (Recent(p, d) => Recent(p, d)')
  BY DEF Got, Recent

\* A step of a reader: it holds what it may, and slots are set to what they may be.
LEMMA ReaderHolds ==
  ASSUME TInv, \A u \in Readers : ReadOK(rd[u]),
         Untouched, raced \subseteq raced', shortMap' = shortMap,
         NEW t \in Readers, NEW q \in Read, ReaderShape(q), Go(t, q), Holds(q),
         q.pc = "once" /\ slot'[q.slot].done => Got(q.path, slot'[q.slot].val),
         \A s \in Slots : slot'[s].done =>
           \/ slot[s].done /\ slot'[s].val = slot[s].val
           \/ \A x \in Paths : Ref(s, x) => Got(x, slot'[s].val)
  PROVE  \A u \in Readers : ReadOK(rd[u])'
  <1>1. SUFFICES ASSUME NEW u \in Readers PROVE ReadOK(rd[u])'
    OBVIOUS
  <1>2. rd'[u] = IF u = t THEN q ELSE rd[u]
    BY DEF Go, TInv, Types
  <1>3. rd[u] \in Read /\ ReaderShape(rd[u]) /\ ReadOK(rd[u])
    BY DEF TInv, Types
  <1> PICK r : r = rd'[u]
    OBVIOUS
  <1> PICK val : val = slot'[r.slot].val
    OBVIOUS
  <1>4. r \in Read /\ ReaderShape(r) /\ Holds(r)
    BY <1>2, <1>3 DEF ReadOK
  <1>5. r.pc = "once" /\ slot'[r.slot].done => Got(r.path, val)
    <2>1. CASE u = t
      BY <1>2, <2>1
    <2>2. CASE u # t
      <3>1. r.pc = "once" => r.slot \in Slots /\ r.path \in Paths /\ Ref(r.slot, r.path)
        BY <1>2, <1>4, <2>2, RefOwn DEF Read, ReaderShape
      <3> QED
        BY <1>2, <1>3, <2>2, <3>1 DEF ReadOK
    <2> QED
      BY <2>1, <2>2
  <1>6. r.pc # "idle" => r.path \in Paths
    BY <1>4 DEF ReaderShape
  <1>7. saved' = saved /\ blob' = blob
    BY DEF Untouched
  <1>8. /\ r.pc # "idle" => Source(r.path) \in raced' \/ r.floor <= saved'[Source(r.path)]
        /\ r.pc \in {"put", "render"} => Got(r.path, r.got)'
        /\ r.pc \in {"map", "keep"} => Recent(r.path, blob'[r.entry])
        /\ r.pc = "once" /\ slot'[r.slot].done => Got(r.path, val)'
    BY <1>4, <1>5, <1>6, <1>7 DEF Holds, Got, Recent
  <1> QED
    BY <1>7, <1>8 DEF ReadOK, Holds, Recent, Got

\* What a reader returns is fresh.
LEMMA ReturnFresh ==
  ASSUME CInv, NEW t \in Readers, rd[t].pc \notin {"idle", "render"},
         NEW content \in Content \cup {None}, Got(rd[t].path, content), Return(t, content)
  PROVE  /\ stale' = stale
         /\ Holds(Resumed(rd[t], content))
  <1> DEFINE r == rd[t]
  <1>1. r \in Read /\ ReaderShape(r) /\ Holds(r) /\ r.path \in Paths
        /\ saved \in [Files -> Content]
    BY DEF CInv, TInv, Types, ReadOK, ReaderShape
  <1>2. Source(r.path) \in raced \/ r.floor <= saved[Source(r.path)]
    BY <1>1 DEF Holds
  <1>3. Source(r.path) \in Files /\ r.floor \in Content
    BY <1>1, PathFacts DEF Read
  <1>4. CASE r.outer = None
    <2>1. Fresh(r, content)
      <3>1. saved[Source(r.path)] \in Int /\ r.floor \in Int
        BY <1>1, <1>3, NoneFacts DEF Content
      <3>2. content # None => content \in Int
        BY NoneFacts DEF Content
      <3> QED
        BY <1>2, <3>1, <3>2 DEF Got, Recent, Fresh
    <2>2. Resumed(r, content) = Quiet /\ Quiet.pc = "idle"
      BY <1>4 DEF Resumed, Quiet
    <2> QED
      BY <1>4, <2>1, <2>2 DEF Return, Answer, Holds
  <1>5. CASE r.outer # None
    <2> DEFINE q == Resumed(r, content)
    <2>1. r.outer \in Virtual /\ r.path = SourceOf[r.outer]
      BY <1>1, <1>5 DEF Read, ReaderShape
    <2>2. Source(r.outer) = r.path /\ Source(r.path) = r.path
      BY <2>1, PathFacts
    <2>3. q.pc = "render" /\ q.path = r.outer /\ q.got = content /\ q.floor = r.floor
      BY <1>1, <1>5 DEF Resumed, Read
    <2>4. stale' = stale
      BY <1>5 DEF Return
    <2> HIDE DEF q
    <2>5. Got(r.outer, content)
      BY <2>2 DEF Got, Recent
    <2>6. Holds(q)
      BY <1>2, <2>2, <2>3, <2>5 DEF Holds
    <2> QED
      BY <2>4, <2>6 DEF q
  <1> QED
    BY <1>4, <1>5

LEMMA ReadStep ==
  ASSUME CInv, NEW t \in Readers, NEW p \in Paths, ReadMemory(t, p) \/ ReadDecode(t, p)
  PROVE  (\A u \in Readers : ReadOK(rd[u])') /\ stale' = stale
  <1>1. /\ saved \in [Files -> Content] /\ Source(p) \in Files /\ CopiesOK /\ TInv
        /\ overlay \in [Paths -> Content \cup {None}] /\ cache \in [Paths -> Content \cup {None}]
        /\ \A u \in Readers : ReadOK(rd[u])
    BY PathFacts DEF CInv, TInv, Types
  <1>2. Source(p) \in raced \/ Floor(p) = saved[Source(p)]
    BY DEF Floor
  <1>3. Floor(p) \in Content
    BY <1>1, NoneFacts DEF Floor, Content
  <1>4. CASE ReadMemory(t, p)
    <2> DEFINE d == IF overlay[p] # None THEN overlay[p] ELSE cache[p]
               r == [Quiet EXCEPT !.path = p, !.floor = Floor(p)]
    <2>1. Answer(t, r, d) /\ d # None
      BY <1>4 DEF ReadMemory
    <2>2. d >= saved[Source(p)] \/ Source(p) \in raced
      BY <1>1, <2>1 DEF CopiesOK, Recent
    <2>3. r.path = p /\ r.floor = Floor(p)
      BY DEF Quiet
    <2> HIDE DEF d, r
    <2>4. Fresh(r, d)
      BY <1>2, <2>1, <2>2, <2>3 DEF Fresh
    <2>5. stale' = stale /\ Go(t, Quiet)
      BY <2>1, <2>4 DEF Answer
    <2>6. Quiet.pc = "idle" /\ Holds(Quiet)
      BY DEF Quiet, Holds
    <2>7. Untouched /\ raced' = raced /\ shortMap' = shortMap /\ slot' = slot
      BY <1>4 DEF ReadMemory, Untouched, disk, flights
    <2>8. \A u \in Readers : ReadOK(rd[u])'
      BY <1>1, <2>5, <2>6, <2>7, QuietShape, ReaderHolds
    <2> QED
      BY <2>5, <2>8
  <1>5. CASE ReadDecode(t, p)
    <2> DEFINE q == [Quiet EXCEPT !.pc = "cache", !.path = p, !.floor = Floor(p)]
    <2>1. q \in Read /\ ReaderShape(q) /\ q.pc = "cache" /\ q.path = p /\ q.floor = Floor(p)
      BY <1>3, QuietShape, NoneFacts DEF Quiet, Read, ReaderShape
    <2> HIDE DEF q
    <2>2. Go(t, q)
      BY <1>5 DEF ReadDecode, q
    <2>3. saved[Source(p)] <= saved[Source(p)]
      BY <1>1, NoneFacts DEF Content
    <2>4. Holds(q)
      BY <1>2, <2>1, <2>3 DEF Holds
    <2>5. Untouched /\ raced' = raced /\ shortMap' = shortMap /\ slot' = slot /\ stale' = stale
      BY <1>5 DEF ReadDecode, Untouched, disk, flights, ghosts
    <2>6. \A u \in Readers : ReadOK(rd[u])'
      BY <1>1, <2>1, <2>2, <2>4, <2>5, ReaderHolds
    <2> QED
      BY <2>5, <2>6
  <1> QED
    BY <1>4, <1>5

\* What a map yields is the last save or a newer one, or the map is short.
LEMMA SlicedGot ==
  ASSUME CInv, NEW t \in Readers, Slicing(t), NEW len \in Length, Mapped(len)
  PROVE  LET r == rd[t] IN
           Got(r.path, IF r.entry < len THEN blob[r.entry] ELSE None)
  <1> DEFINE r == rd[t]
  <1>1. Recent(r.path, blob[r.entry])
    BY DEF CInv, ReadOK, Holds, Slicing
  <1>2. r.entry \in Content /\ blob[r.entry] \in Content
    BY DEF CInv, TInv, Types, Read
  <1>3. ~shortMap => r.entry < len
    BY DEF CInv, MapsOK
  <1> QED
    BY <1>1, <1>2, <1>3, NoneFacts DEF Got

LEMMA DecodeHolds ==
  ASSUME CInv, NEW t \in Readers, DecodeStep(t) \/ DecodePanics(t)
  PROVE  (\A u \in Readers : ReadOK(rd[u])') /\ stale' = stale
  <1> DEFINE r == rd[t]
  <1>1. /\ r \in Read /\ ReaderShape(r) /\ ReadOK(r) /\ TInv /\ SlotsOK
        /\ \A u \in Readers : ReadOK(rd[u])
    BY DEF CInv, TInv, Types
  <1>2. /\ slot \in [Slots -> Once] /\ cache \in [Paths -> Content \cup {None}]
        /\ map \in Length \cup {None} /\ length \in Length /\ saved \in [Files -> Content]
    BY DEF CInv, TInv, Types
  <1>3. r.pc # "idle" => r.path \in Paths
    BY <1>1 DEF ReaderShape
  <1>4. r.slot # None => r.slot \in Slots
    BY <1>1 DEF Read
  <1>5. ASSUME NEW content \in Content \cup {None}, Got(r.path, content), Return(t, content),
               r.pc \notin {"idle", "render"}, Untouched, raced \subseteq raced',
               shortMap' = shortMap,
               \A s \in Slots : slot'[s].done => slot[s].done /\ slot'[s].val = slot[s].val
        PROVE  (\A u \in Readers : ReadOK(rd[u])') /\ stale' = stale
    <2> DEFINE q == Resumed(r, content)
    <2>1. stale' = stale /\ Holds(q)
      BY <1>5, ReturnFresh
    <2>2. q \in Read /\ Go(t, q)
      BY <1>1, <1>5, ReturnGoes
    <2>3. ReaderShape(q)
      BY <1>1, <1>5, ResumedShape
    <2>4. q.pc # "once"
      BY <1>1 DEF Resumed, Quiet, Read
    <2> HIDE DEF q
    <2>5. \A u \in Readers : ReadOK(rd[u])'
      BY <1>1, <1>5, <2>1, <2>2, <2>3, <2>4, ReaderHolds
    <2> QED
      BY <2>1, <2>5
  <1>6. ASSUME NEW val \in Content \cup {None}, Got(r.path, val), NEW q \in Read, ReaderShape(q),
               Go(t, q), q.pc = "once", q.path = r.path, q.slot = r.slot, q.floor = r.floor,
               r.pc \in {"map", "keep", "render"},
               slot' = [slot EXCEPT ![r.slot] = [by |-> None, done |-> TRUE, val |-> val]],
               Untouched, raced' = raced, shortMap' = shortMap, stale' = stale
        PROVE  (\A u \in Readers : ReadOK(rd[u])') /\ stale' = stale
    <2>1. r.slot \in Slots /\ r.path \in Paths
      BY <1>1, <1>3, <1>4, <1>6 DEF ReaderShape
    <2>2. slot'[r.slot].val = val /\ \A s \in Slots : s # r.slot => slot'[s] = slot[s]
      BY <1>2, <1>6, <2>1
    <2>3. \A x \in Paths : Ref(r.slot, x) => Got(x, val)
      <3>1. Ref(r.slot, r.path)
        BY RefOwn
      <3> QED
        BY <1>1, <1>6, <2>1, <3>1 DEF SlotsOK
    <2>4. Holds(q)
      BY <1>1, <1>6 DEF ReadOK, Holds
    <2>5. \A u \in Readers : ReadOK(rd[u])'
      BY <1>1, <1>6, <2>2, <2>3, <2>4, ReaderHolds
    <2> QED
      BY <1>6, <2>5
  <1>7. ASSUME NEW len \in Length, Mapped(len), Slicing(t), Sliced(t, r, len),
               Untouched, raced' = raced, shortMap' = shortMap, stale' = stale
        PROVE  (\A u \in Readers : ReadOK(rd[u])') /\ stale' = stale
    <2> DEFINE q == [r EXCEPT !.pc = "once", !.len = 0, !.entry = 0]
               val == IF r.entry < len THEN blob[r.entry] ELSE None
    <2>1. 0 \in Content /\ 0 \in 0 .. MaxSaves + 1
      BY NoneFacts DEF Content
    <2>2. q \in Read /\ ReaderShape(q)
      BY <1>1, <1>7, <2>1 DEF Read, ReaderShape, Slicing
    <2>3. q.pc = "once" /\ q.path = r.path /\ q.slot = r.slot /\ q.floor = r.floor
      BY <1>1 DEF Read
    <2>4. Go(t, q) /\ slot' = [slot EXCEPT ![r.slot] = [by |-> None, done |-> TRUE, val |-> val]]
      BY <1>7 DEF Sliced
    <2>5. val \in Content \cup {None}
      BY <1>1 DEF Read, TInv, Types
    <2>6. Got(r.path, val)
      BY <1>7, SlicedGot
    <2> HIDE DEF q, val
    <2> QED
      BY <1>6, <1>7, <2>2, <2>3, <2>4, <2>5, <2>6 DEF Slicing
  <1>8. CASE DecodeCached(t)
    <2>1. r.pc = "cache" /\ cache[r.path] # None
      BY <1>8 DEF DecodeCached
    <2>2. cache[r.path] \in Content \cup {None} /\ Got(r.path, cache[r.path])
      BY <1>2, <1>3, <2>1 DEF CInv, CopiesOK, Got
    <2>3. Untouched /\ raced' = raced /\ shortMap' = shortMap /\ slot' = slot
      BY <1>8 DEF DecodeCached, Untouched, disk, flights
    <2> QED
      BY <1>5, <1>8, <2>1, <2>2, <2>3 DEF DecodeCached
  <1>9. CASE DecodeJoin(t)
    <2> DEFINE s == IF inFlight[r.path] # None THEN inFlight[r.path]
                    ELSE CHOOSE i \in Slots : i \notin Held
               q == [r EXCEPT !.pc = "once", !.slot = s]
    <2>1. r.pc = "cache" /\ r.path \in Paths /\ inFlight[r.path] \in Slots \cup {None}
      BY <1>1, <1>3, <1>9 DEF DecodeJoin, TInv, Types
    <2>2. s \in Slots
      BY <2>1, FreeSlot
    <2>3. q \in Read /\ ReaderShape(q)
      BY <1>1, <2>1, <2>2, NoneFacts DEF Read, ReaderShape
    <2>4. q.pc = "once" /\ q.path = r.path /\ q.slot = s /\ q.floor = r.floor
      BY <1>1 DEF Read
    <2>5. Go(t, q) /\ Untouched /\ raced' = raced /\ shortMap' = shortMap /\ stale' = stale
          /\ slot' = IF inFlight[r.path] # None THEN slot ELSE [slot EXCEPT ![s] = Unset]
      BY <1>9 DEF DecodeJoin, Untouched, disk, ghosts
    <2>6. Holds(q)
      BY <1>1, <2>1, <2>4 DEF ReadOK, Holds
    <2>7. ~Unset.done
      BY DEF Unset
    <2>8. \A y \in Slots : slot'[y].done => slot[y].done /\ slot'[y].val = slot[y].val
      BY <1>2, <2>2, <2>5, <2>7
    <2>9. slot'[s].done => Got(r.path, slot'[s].val)
      <3>1. SUFFICES ASSUME slot'[s].done PROVE Got(r.path, slot[s].val)
        BY <2>2, <2>8
      <3>2. inFlight[r.path] = s
        BY <1>2, <2>2, <2>5, <2>7, <3>1
      <3>3. PICK u \in Readers : rd[u].pc = "once" /\ rd[u].slot = s
        BY <1>1, <2>2, <2>8, <3>1 DEF SlotsOK
      <3>4. rd[u].path \in Paths
        BY <1>1, <3>3 DEF TInv, Types, ReaderShape
      <3>5. Ref(s, rd[u].path) /\ Ref(s, r.path)
        BY <2>1, <3>2, <3>3, RefOwn
      <3>6. rd[u].path = r.path
        BY <1>1, <2>1, <2>2, <3>4, <3>5 DEF SlotsOK
      <3>7. ReadOK(rd[u]) /\ slot[s].done
        BY <1>1, <2>2, <2>8, <3>1
      <3> QED
        BY <3>3, <3>6, <3>7 DEF ReadOK
    <2>10. raced' = raced /\ shortMap' = shortMap /\ stale' = stale
      BY <2>5
    <2> HIDE DEF q, s
    <2>11. \A u \in Readers : ReadOK(rd[u])'
      BY <1>1, <2>3, <2>4, <2>5, <2>6, <2>8, <2>9, <2>10, ReaderHolds
    <2> QED
      BY <2>10, <2>11
  <1>10. CASE DecodeRun(t)
    <2> DEFINE p == r.path
               q == IF p \in Virtual
                    THEN [r EXCEPT !.pc = "cache", !.path = SourceOf[p], !.outer = p,
                                   !.outerSlot = r.slot, !.slot = None]
                    ELSE [r EXCEPT !.pc = "map", !.entry = index[p]]
    <2>1. /\ r.pc = "once" /\ p \in Paths /\ r.slot \in Slots /\ Go(t, q) /\ Untouched
          /\ raced' = raced /\ shortMap' = shortMap /\ stale' = stale
          /\ slot' = [slot EXCEPT ![r.slot].by = t] /\ ~slot[r.slot].done
      BY <1>1, <1>3, <1>4, <1>10 DEF DecodeRun, ReaderShape, Untouched, disk, ghosts
    <2>2. p \notin Virtual => p \in Files /\ index[p] \in Content
      BY <1>1, <2>1 DEF TInv, Types, Paths
    <2>3. q \in Read /\ ReaderShape(q)
      BY <1>1, <2>1, <2>2, NoneFacts, PathFacts DEF Read, ReaderShape
    <2>4. Source(p) \in raced \/ r.floor <= saved[Source(p)]
      BY <1>1, <2>1 DEF ReadOK, Holds
    <2>5. q.pc # "once" /\ Holds(q)
      <3>1. CASE p \in Virtual
        <4>1. q.pc = "cache" /\ q.path = SourceOf[p] /\ q.floor = r.floor
          BY <1>1, <3>1 DEF Read
        <4>2. Source(SourceOf[p]) = Source(p)
          BY <3>1, PathFacts
        <4> HIDE DEF q
        <4> QED
          BY <2>4, <4>1, <4>2 DEF Holds
      <3>2. CASE p \notin Virtual
        <4>1. q.pc = "map" /\ q.path = p /\ q.floor = r.floor /\ q.entry = index[p]
          BY <1>1, <3>2 DEF Read
        <4>2. Source(p) = p /\ blob[index[p]] >= saved[p]
          BY <2>2, <3>2, PathFacts DEF CInv, Stored
        <4> HIDE DEF q
        <4> QED
          BY <2>4, <4>1, <4>2 DEF Holds, Recent
      <3> QED
        BY <3>1, <3>2
    <2>6. \A s \in Slots : slot'[s].done => slot[s].done /\ slot'[s].val = slot[s].val
      BY <1>2, <2>1 DEF Once
    <2>7. raced' = raced /\ shortMap' = shortMap /\ stale' = stale
      BY <2>1
    <2> HIDE DEF q
    <2>8. \A u \in Readers : ReadOK(rd[u])'
      BY <1>1, <2>1, <2>3, <2>5, <2>6, <2>7, ReaderHolds
    <2> QED
      BY <2>7, <2>8
  <1>11. CASE MapShared(t)
    <2>1. map \in Length /\ Mapped(map) /\ Slicing(t)
      BY <1>2, <1>11 DEF MapShared, Mapped, Slicing
    <2> QED
      BY <1>7, <1>11, <2>1 DEF MapShared, Untouched, disk, ghosts
  <1>12. CASE MapOpen(t)
    <2> DEFINE q == [r EXCEPT !.pc = "keep", !.len = length]
    <2>1. length \in 0 .. MaxSaves + 1 /\ Go(t, q) /\ r.pc = "map" /\ Untouched /\ slot' = slot
          /\ raced' = raced /\ shortMap' = shortMap /\ stale' = stale
      BY <1>2, <1>12, NoneFacts DEF Length, MapOpen, flights, Untouched, disk, ghosts
    <2>2. q \in Read /\ ReaderShape(q)
      BY <1>1, <1>2, <2>1 DEF Read, ReaderShape
    <2>3. q.pc = "keep" /\ q.path = r.path /\ q.floor = r.floor /\ q.entry = r.entry
      BY <1>1 DEF Read
    <2> HIDE DEF q
    <2>4. Holds(q)
      BY <1>1, <2>1, <2>3 DEF ReadOK, Holds
    <2>5. raced' = raced /\ shortMap' = shortMap /\ stale' = stale
      BY <2>1
    <2>6. \A u \in Readers : ReadOK(rd[u])'
      BY <1>1, <2>1, <2>2, <2>3, <2>4, <2>5, ReaderHolds
    <2> QED
      BY <2>5, <2>6
  <1>13. CASE MapKeep(t)
    <2>1. r.len \in Length /\ Mapped(r.len) /\ Slicing(t)
      BY <1>1, <1>13, NoneFacts DEF MapKeep, ReaderShape, Mapped, Slicing
    <2> QED
      BY <1>7, <1>13, <2>1 DEF MapKeep, Untouched, disk, ghosts
  <1>14. CASE DecodeRender(t)
    <2> DEFINE q == [r EXCEPT !.pc = "once", !.got = None]
               val == r.got
    <2>1. /\ r.pc = "render" /\ Go(t, q) /\ Untouched
          /\ raced' = raced /\ shortMap' = shortMap /\ stale' = stale
          /\ slot' = [slot EXCEPT ![r.slot] = [by |-> None, done |-> TRUE, val |-> val]]
      BY <1>14 DEF DecodeRender, Untouched, disk, ghosts
    <2>2. q \in Read /\ ReaderShape(q) /\ val \in Content \cup {None}
      BY <1>1, <2>1 DEF Read, ReaderShape
    <2>3. q.pc = "once" /\ q.path = r.path /\ q.slot = r.slot /\ q.floor = r.floor
      BY <1>1 DEF Read
    <2>4. Got(r.path, val)
      BY <1>1, <2>1 DEF ReadOK, Holds
    <2> HIDE DEF q, val
    <2> QED
      BY <1>6, <2>1, <2>2, <2>3, <2>4
  <1>15. CASE DecodeUnslot(t)
    <2> DEFINE got == slot[r.slot].val
               q == [r EXCEPT !.pc = "put", !.slot = None, !.got = got]
    <2>1. r.pc = "once" /\ r.slot \in Slots /\ slot[r.slot].done
      BY <1>1, <1>4, <1>15 DEF DecodeUnslot, ReaderShape
    <2>2. got \in Content \cup {None} /\ Got(r.path, got)
      BY <1>1, <1>2, <2>1 DEF Once, ReadOK
    <2>3. ~Unset.done
      BY DEF Unset
    <2>4. /\ Untouched /\ raced' = raced /\ shortMap' = shortMap
          /\ \A s \in Slots : slot'[s].done => slot[s].done /\ slot'[s].val = slot[s].val
      BY <1>2, <1>15, <2>1, <2>3 DEF DecodeUnslot, Untouched, disk, ghosts
    <2>5. CASE got = None
      <3>1. Return(t, got)
        BY <1>15, <2>5 DEF DecodeUnslot
      <3> HIDE DEF got
      <3> QED
        BY <1>5, <2>1, <2>2, <2>4, <3>1
    <2>6. CASE got # None
      <3>1. Go(t, q) /\ stale' = stale
        BY <1>15, <2>6 DEF DecodeUnslot
      <3>2. q \in Read /\ ReaderShape(q)
        BY <1>1, <2>1, <2>2, <2>6, NoneFacts DEF Read, ReaderShape
      <3>3. q.pc = "put" /\ q.path = r.path /\ q.floor = r.floor /\ q.got = got
        BY <1>1 DEF Read
      <3> HIDE DEF q, got
      <3>4. Holds(q)
        BY <1>1, <2>1, <2>2, <3>3 DEF ReadOK, Holds
      <3>5. \A u \in Readers : ReadOK(rd[u])'
        BY <1>1, <2>4, <3>1, <3>2, <3>3, <3>4, ReaderHolds
      <3> QED
        BY <3>1, <3>5
    <2> QED
      BY <2>5, <2>6
  <1>16. CASE DecodePut(t)
    <2> DEFINE got == r.got
    <2>1. r.pc = "put" /\ Return(t, got) /\ Untouched /\ shortMap' = shortMap /\ slot' = slot
          /\ raced \subseteq raced'
      BY <1>16 DEF DecodePut, Untouched, disk, flights
    <2>2. got \in Content \cup {None} /\ Got(r.path, got)
      BY <1>1, <2>1 DEF Read, ReadOK, Holds
    <2> HIDE DEF got
    <2> QED
      BY <1>5, <2>1, <2>2
  <1>17. CASE DecodePanics(t)
    <2>1. /\ Go(t, Quiet) /\ Untouched /\ raced' = raced /\ shortMap' = shortMap /\ stale' = stale
          /\ slot' = [i \in Slots |-> IF slot[i].by = t THEN Unset ELSE slot[i]]
      BY <1>17 DEF DecodePanics, Untouched, disk, ghosts
    <2>2. ~Unset.done /\ Quiet.pc = "idle" /\ Holds(Quiet)
      BY DEF Unset, Quiet, Holds
    <2>3. \A s \in Slots : slot'[s].done => slot[s].done /\ slot'[s].val = slot[s].val
      BY <2>1, <2>2
    <2>4. \A u \in Readers : ReadOK(rd[u])'
      BY <1>1, <2>1, <2>2, <2>3, QuietShape, ReaderHolds
    <2> QED
      BY <2>1, <2>4
  <1> QED
    BY <1>8, <1>9, <1>10, <1>11, <1>12, <1>13, <1>14, <1>15, <1>16, <1>17 DEF DecodeStep

-----------------------------------------------------------------------------
(* Saves                                                                   *)

\* A flush works on the last save of all.
LEMMA FlushFacts ==
  ASSUME TInv, fl.pc # "idle"
  PROVE  /\ fl.path \in Saved /\ fl.path \in Paths /\ Source(fl.path) \in Files
         /\ Source(fl.path) \in Paths /\ Source(Source(fl.path)) = Source(fl.path)
         /\ fl.v \in Content /\ (fl.v # 0 => \A f \in Files : saved[f] <= fl.v)
         /\ fl.pc \in {"put", "append", "unmap", "reload"} => fl.v # 0
  BY PathFacts, ReadAssumption DEF TInv, FlushShape, Types, Flushing

\* A step of a flush: what readers hold is still what it was, and where a save is
\* reported, those inside a decode of the file have raced with it.
LEMMA ReadersStay ==
  ASSUME TInv, TInv', \A u \in Readers : ReadOK(rd[u]),
         rd' = rd, slot' = slot, raced \subseteq raced', shortMap => shortMap',
         \A f \in Files : saved'[f] >= saved[f],
         \A u \in Readers : rd[u].pc \notin {"idle", "cache"} =>
           Source(rd[u].path) \in raced' \/ saved'[Source(rd[u].path)] = saved[Source(rd[u].path)],
         \A u \in Readers : Slicing(u) => blob'[rd[u].entry] = blob[rd[u].entry]
  PROVE  \A u \in Readers : ReadOK(rd[u])'
  <1> SUFFICES ASSUME NEW u \in Readers PROVE ReadOK(rd[u])'
    OBVIOUS
  <1> DEFINE r == rd[u]
  <1>1. r \in Read /\ ReaderShape(r) /\ ReadOK(r)
    BY DEF TInv, Types
  <1>2. r.pc # "idle" => Source(r.path) \in Files
    BY <1>1, PathFacts DEF ReaderShape
  <1>3. /\ r.floor \in Int
        /\ \A f \in Files : saved[f] \in Int /\ saved'[f] \in Int
    BY <1>1, NoneFacts DEF Read, TInv, Types, Content
  <1>4. r.pc # "idle" => Source(r.path) \in raced' \/ r.floor <= saved'[Source(r.path)]
    BY <1>1, <1>2, <1>3 DEF ReadOK, Holds
  <1>5. r.pc \notin {"idle", "cache"} =>
          Source(r.path) \in raced' \/ saved'[Source(r.path)] = saved[Source(r.path)]
    OBVIOUS
  <1>6. r.pc \in {"put", "render"} => Got(r.path, r.got)'
    BY <1>1, <1>5 DEF ReadOK, Holds, Got, Recent
  <1>7. r.pc \in {"map", "keep"} => Recent(r.path, blob[r.entry])'
    BY <1>1, <1>5 DEF ReadOK, Holds, Recent, Slicing
  <1>8. r.pc = "once" /\ slot[r.slot].done => Got(r.path, slot[r.slot].val)'
    BY <1>1, <1>5 DEF ReadOK, Got, Recent
  <1> QED
    BY <1>4, <1>6, <1>7, <1>8 DEF ReadOK, Holds

\* Clients, and the steps of a flush that report no save.
LEMMA Unreported ==
  ASSUME CInv, TInv', rd' = rd, slot' = slot, raced \subseteq raced', shortMap => shortMap',
         saved' = saved, \A b \in Content : b < length => blob'[b] = blob[b]
  PROVE  \A u \in Readers : ReadOK(rd[u])'
  <1>1. /\ TInv /\ \A u \in Readers : ReadOK(rd[u])
        /\ \A u \in Readers : Slicing(u) => rd[u].entry < length
    BY DEF CInv, MapsOK
  <1>2. \A u \in Readers : rd[u].entry \in Content
    BY <1>1 DEF TInv, Types, Read
  <1>3. \A f \in Files : saved'[f] >= saved[f]
    BY <1>1, NoneFacts DEF TInv, Types, Content
  <1> QED
    BY <1>1, <1>2, <1>3, ReadersStay

\* The step that reports a save.
LEMMA Reported ==
  ASSUME CInv, TInv', rd' = rd, slot' = slot, shortMap' = shortMap, blob' = blob,
         fl.pc # "idle", fl.v # 0, SaveDone, NEW next, Flush(next)
  PROVE  \A u \in Readers : ReadOK(rd[u])'
  <1> DEFINE F == Source(fl.path)
  <1>1. TInv /\ (\A u \in Readers : ReadOK(rd[u])) /\ saved \in [Files -> Content]
    BY DEF CInv, TInv, Types
  <1>2. F \in Files /\ \A f \in Files : saved[f] <= fl.v
    BY <1>1, FlushFacts
  <1>3. \A f \in Files : saved'[f] = IF f = F THEN fl.v ELSE saved[f]
    BY <1>1, <1>2 DEF SaveDone
  <1>4. \A f \in Files : saved'[f] >= saved[f]
    BY <1>1, <1>2, <1>3, NoneFacts DEF Content
  <1>5. raced \subseteq raced' /\ (Decoding(fl.path) => F \in raced')
    BY DEF Flush
  <1>6. ASSUME NEW u \in Readers, rd[u].pc \notin {"idle", "cache"}
        PROVE  Source(rd[u].path) \in raced' \/ saved'[Source(rd[u].path)] = saved[Source(rd[u].path)]
    <2>1. Source(rd[u].path) \in Files
      BY <1>1, <1>6, PathFacts DEF TInv, ReaderShape
    <2>2. Source(rd[u].path) = F => Decoding(fl.path)
      BY <1>6 DEF Decoding
    <2> QED
      BY <1>3, <1>5, <2>1, <2>2
  <1> QED
    BY <1>1, <1>4, <1>5, <1>6, ReadersStay

\* A step of a reader leaves what is stored alone, and the copies but for one put.
LEMMA ReaderKeeps ==
  ASSUME CInv, Untouched, raced \subseteq raced',
         \/ cache' = cache
         \/ \E t \in Readers : DecodePut(t)
  PROVE  Stored' /\ CopiesOK'
  <1>1. TInv /\ Stored /\ CopiesOK /\ Types
    BY DEF CInv, TInv
  <1>2. Stored'
    BY <1>1 DEF Stored, Untouched
  <1>3. /\ \A p \in Paths : overlay'[p] # None => p \in Saved /\ overlay'[p] >= saved'[Source(p)]
        /\ fl'.v # 0 => overlay'[fl'.path] \in {None, fl'.v}
    BY <1>1 DEF CopiesOK, Untouched
  <1>4. CASE cache' = cache
    BY <1>1, <1>2, <1>3, <1>4 DEF CopiesOK, Recent, Untouched
  <1>5. ASSUME NEW t \in Readers, DecodePut(t) PROVE CopiesOK'
    <2> DEFINE r == rd[t]
               F == Source(fl.path)
    <2>1. r.pc = "put" /\ r.path \in Paths /\ r.got \in Content /\ Got(r.path, r.got)
      BY <1>1, <1>5, NoneFacts DEF CInv, ReadOK, Holds, DecodePut, TInv, Types, ReaderShape, Read
    <2>2. Recent(r.path, r.got)
      BY <2>1, NoneFacts DEF Got
    <2>3. cache'[r.path] = r.got /\ \A q \in Paths : q # r.path => cache'[q] \in {None, cache[q]}
      BY <1>1, <1>5, <2>1, CachePutKeeps DEF DecodePut
    <2>4. \A p \in Paths : cache'[p] # None => Recent(p, cache[p])'
      BY <1>1, <2>2, <2>3 DEF CopiesOK, Recent, Untouched
    <2>5. ASSUME fl.v # 0, fl.pc # "put", F \notin raced' PROVE cache'[F] \in {None, fl.v}
      <3>1. fl.pc # "idle"
        BY <1>1, <2>5 DEF TInv, FlushShape
      <3>2. F \in Paths /\ Source(F) = F
        BY <1>1, <3>1, FlushFacts
      <3>3. Source(r.path) # F
        BY <1>5, <2>5, <3>1 DEF DecodePut, Saving
      <3>4. cache'[F] \in {None, cache[F]} /\ F \notin raced
        BY <2>3, <2>5, <3>2, <3>3
      <3> QED
        BY <1>1, <2>5, <3>4 DEF CopiesOK
    <2> QED
      BY <1>3, <2>4, <2>5 DEF CopiesOK, Untouched
  <1> QED
    BY <1>2, <1>4, <1>5

\* What is stored and the copies of it when a step of a flush reports no save.
LEMMA FlushKeeps ==
  ASSUME CInv, TInv', saved' = saved, raced \subseteq raced',
         cache' = cache \/ FlushPut,
         \A f \in Files : blob'[index'[f]] >= saved[f],
         fl'.pc = "invalidate" /\ fl'.v # 0 => blob'[index'[Source(fl'.path)]] = fl'.v,
         \A p \in Paths : overlay'[p] # None =>
           \/ overlay'[p] = overlay[p]
           \/ p \in Saved /\ overlay'[p] >= saved[Source(p)],
         fl'.v # 0 => overlay'[fl'.path] \in {None, fl'.v},
         \/ fl'.v = 0
         \/ fl'.pc = "put"
         \/ fl'.path = fl.path /\ fl'.v = fl.v /\ (fl.pc # "put" \/ FlushPut)
  PROVE  Stored' /\ CopiesOK'
  <1> DEFINE F == Source(fl.path)
  <1>1. TInv /\ CopiesOK /\ Types
    BY DEF CInv, TInv
  <1>2. Stored'
    BY DEF Stored
  <1>3. \A p \in Paths : overlay'[p] # None => p \in Saved /\ overlay'[p] >= saved'[Source(p)]
    BY <1>1 DEF CopiesOK
  <1>4. FlushPut => /\ F \in Paths /\ Source(F) = F /\ Recent(F, fl.v) /\ cache'[F] = fl.v
                    /\ \A q \in Paths : q # F => cache'[q] \in {None, cache[q]}
    <2>1. SUFFICES ASSUME FlushPut
                   PROVE  /\ F \in Paths /\ Source(F) = F /\ Recent(F, fl.v) /\ cache'[F] = fl.v
                          /\ \A q \in Paths : q # F => cache'[q] \in {None, cache[q]}
      OBVIOUS
    <2>2. fl.pc = "put" /\ CachePut(F, fl.v)
      BY <2>1 DEF FlushPut
    <2>3. F \in Paths /\ F \in Files /\ Source(F) = F /\ fl.v \in Content /\ saved[F] <= fl.v
          /\ saved[F] \in Content
      BY <1>1, <2>2, FlushFacts DEF Types
    <2>4. fl.v >= saved[F]
      BY <2>3, NoneFacts DEF Content
    <2> QED
      BY <1>1, <2>2, <2>3, <2>4, CachePutKeeps DEF Recent
  <1>5. \A p \in Paths : cache'[p] # None => Recent(p, cache[p])'
    BY <1>1, <1>4 DEF CopiesOK, Recent
  <1>6. fl'.v # 0 /\ fl'.pc # "put" /\ Source(fl'.path) \notin raced' =>
          cache'[Source(fl'.path)] \in {None, fl'.v}
    BY <1>1, <1>4 DEF CopiesOK
  <1> QED
    BY <1>2, <1>3, <1>5, <1>6 DEF CopiesOK

\* A source written under one name has no copies of older saves when the save of it is
\* reported: neither under that name, nor as what its flush put.
LEMMA ReportKeeps ==
  ASSUME OneName, CInv, TInv', SaveDone, blob' = blob, fl.pc # "idle", fl.pc # "put", fl.v # 0,
         raced \subseteq raced', fl' = NoFlush, blob'[index'[Source(fl.path)]] = fl.v,
         \A f \in Files : f # Source(fl.path) => index'[f] = index[f],
         \/ fl.path \in Files /\ overlay' = overlay /\ cache' = cache
         \/ /\ fl.path \in Virtual
            /\ overlay' = [overlay EXCEPT ![fl.path] = None]
            /\ cache' = [cache EXCEPT ![fl.path] = None]
  PROVE  Stored' /\ CopiesOK'
  <1> DEFINE F == Source(fl.path)
  <1>1. /\ TInv /\ Stored /\ CopiesOK /\ Types
        /\ fl.path \in Saved /\ fl.path \in Paths /\ F \in Files /\ F \in Paths /\ Source(F) = F
        /\ fl.v \in Content
    BY FlushFacts DEF CInv, TInv
  <1>2. \A f \in Files : saved'[f] = IF f = F THEN fl.v ELSE saved[f]
    BY <1>1 DEF SaveDone, Types
  <1>3. fl'.pc = "idle" /\ fl'.v = 0
    BY DEF NoFlush
  <1>4. fl.v >= fl.v
    BY <1>1, NoneFacts DEF Content
  <1>5. Stored'
    BY <1>1, <1>2, <1>3, <1>4 DEF Stored
  <1>6. \A p \in Paths : /\ overlay'[p] \in {None, overlay[p]} /\ cache'[p] \in {None, cache[p]}
                         /\ fl.path \in Virtual /\ p = fl.path => overlay'[p] = None /\ cache'[p] = None
    BY <1>1, PathFacts DEF Types
  <1>7. \A p \in Paths : Source(p) = F => p = fl.path \/ p = F
    BY <1>1 DEF OneName
  <1>8. fl.path \in Virtual => fl.path # F
    BY <1>1, PathFacts
  <1>9. fl.path \in Files => fl.path = F
    BY PathFacts
  <1>10. ASSUME NEW p \in Paths, overlay'[p] # None
         PROVE  p \in Saved /\ overlay'[p] >= saved'[Source(p)]
    <2>1. overlay'[p] = overlay[p] /\ p \in Saved /\ overlay[p] >= saved[Source(p)]
      BY <1>1, <1>6, <1>10 DEF CopiesOK
    <2>2. CASE Source(p) # F
      BY <1>2, <2>1, <2>2, PathFacts
    <2>3. CASE Source(p) = F
      <3>1. p = F \/ fl.path \in Files
        BY <1>6, <1>7, <1>10, <2>3
      <3>2. fl.path \in Files
        <4>1. SUFFICES ASSUME p = F, fl.path \in Virtual PROVE FALSE
          BY <3>1
        <4>2. fl.path \in {p, Source(p)}
          BY <1>1, <2>1, <2>3 DEF OneName
        <4> QED
          BY <1>8, <2>3, <4>1, <4>2
      <3>3. p = fl.path
        BY <1>7, <1>9, <2>3, <3>2
      <3>4. overlay[p] = fl.v
        BY <1>1, <1>6, <1>10, <2>1, <3>3 DEF CopiesOK
      <3> QED
        BY <1>1, <1>2, <1>4, <2>1, <2>3, <3>4
    <2> QED
      BY <2>2, <2>3
  <1>11. ASSUME NEW p \in Paths, cache'[p] # None
         PROVE  Recent(p, cache[p])'
    <2>1. cache'[p] = cache[p] /\ Recent(p, cache[p])
      BY <1>1, <1>6, <1>11 DEF CopiesOK
    <2>2. CASE Source(p) # F
      BY <1>2, <2>1, <2>2, PathFacts DEF Recent
    <2>3. CASE Source(p) = F
      <3>1. p = F
        BY <1>6, <1>7, <1>9, <1>11, <2>3
      <3>2. F \in raced \/ cache[p] = fl.v
        BY <1>1, <1>11, <2>1, <3>1 DEF CopiesOK
      <3> QED
        BY <1>1, <1>2, <1>4, <2>1, <2>3, <3>2 DEF Recent
    <2> QED
      BY <2>2, <2>3
  <1> QED
    BY <1>3, <1>5, <1>10, <1>11 DEF CopiesOK

\* Clients, and the steps of a flush.
LEMMA FlushHolds ==
  ASSUME OneName, CInv, TInv',
         \/ \E p \in Files : Probe(p)
         \/ \E p \in Saved : Save(p)
         \/ TakeOverlay \/ FlushConvertFails \/ FlushPut \/ FlushAppend \/ FlushFails
         \/ FlushUnmap \/ FlushReload \/ FlushReloadFails \/ FlushInvalidate
  PROVE  Stored' /\ CopiesOK' /\ (\A u \in Readers : ReadOK(rd[u])') /\ stale' = stale
  <1>1. /\ TInv /\ Stored /\ CopiesOK /\ Types /\ FlushShape
        /\ fl \in Flushing /\ length \in Length /\ index \in [Files -> Content]
        /\ blob \in [Content -> Content] /\ saves \in Content /\ saved \in [Files -> Content]
        /\ overlay \in [Paths -> Content \cup {None}] /\ cache \in [Paths -> Content \cup {None}]
    BY DEF CInv, TInv, Types
  <1>2. \A b \in Content : b < length => blob[b] = blob[b]
    OBVIOUS
  <1>3. \A f \in Files : blob[index[f]] >= saved[f]
    BY <1>1 DEF Stored
  <1>4. fl.v # 0 => fl.pc # "idle" /\ overlay[fl.path] \in {None, fl.v}
    BY <1>1 DEF CopiesOK, FlushShape
  <1>5. NoFlush.v = 0 /\ NoFlush.pc = "idle"
    BY DEF NoFlush
  <1>6. ASSUME NEW next, Flush(next) PROVE fl' = next /\ raced \subseteq raced'
    BY <1>6 DEF Flush
  <1>7. CASE \E p \in Files : Probe(p)
    <2>1. /\ overlay' = overlay /\ cache' = cache /\ rd' = rd /\ slot' = slot /\ blob' = blob
          /\ index' = index /\ fl' = fl /\ saved' = saved /\ raced' = raced
          /\ shortMap' = shortMap
      BY <1>7 DEF Probe, caching, Reading, flights, disk
    <2>3. stale' = stale
      <3>1. PICK p \in Files : Probe(p)
        BY <1>7
      <3>2. p \in Files /\ Source(p) = p /\ blob[index[p]] \in Content /\ blob[index[p]] >= saved[p]
        BY <1>1, <1>3, PathFacts
      <3>3. Floor(p) <= blob[index[p]]
        BY <1>1, <3>2, NoneFacts DEF Floor, Content
      <3>4. Fresh([Quiet EXCEPT !.path = p, !.floor = Floor(p)], blob[index[p]])
        BY <3>2, <3>3, NoneFacts DEF Fresh, Quiet
      <3> QED
        BY <3>1, <3>4 DEF Probe
    <2>2. Stored' /\ CopiesOK'
      BY <1>1, <2>1 DEF Stored, CopiesOK, Recent
    <2> QED
      BY <1>2, <2>1, <2>2, <2>3, Unreported
  <1>8. CASE \E p \in Saved : Save(p)
    <2>1. PICK p \in Saved : Save(p)
      BY <1>8
    <2>2. /\ cache' = cache /\ rd' = rd /\ slot' = slot /\ blob' = blob
          /\ index' = index /\ saved' = saved /\ raced' = raced
          /\ shortMap' = shortMap /\ stale' = stale
          /\ overlay' = [overlay EXCEPT ![p] = saves + 1]
          /\ fl'.pc = "put" /\ fl'.path = p /\ fl'.v = saves + 1
      BY <2>1 DEF Save, caching, Reading, flights, disk, ghosts
    <2>3. p \in Paths /\ Source(p) \in Files
      BY PathFacts, ReadAssumption
    <2>4. \A f \in Files : saves + 1 >= saved[f]
      BY <1>1, NoneFacts DEF FlushShape, Content
    <2>5. \A x \in Paths : overlay'[x] = IF x = p THEN saves + 1 ELSE overlay[x]
      BY <1>1, <2>2
    <2>6. Stored' /\ CopiesOK'
      BY <1>3, <2>2, <2>3, <2>4, <2>5, FlushKeeps
    <2> QED
      BY <1>2, <2>2, <2>6, Unreported
  <1>9. CASE TakeOverlay
    <2>1. /\ cache' = cache /\ rd' = rd /\ slot' = slot /\ blob' = blob
          /\ index' = index /\ fl' = fl /\ saved' = saved /\ raced' = raced
          /\ shortMap' = shortMap /\ stale' = stale
          /\ \A p \in Paths : overlay'[p] = None
      BY <1>9 DEF TakeOverlay, caching, Reading, flights, disk, ghosts
    <2>2. fl.v # 0 => fl.path \in Paths
      BY <1>1, <1>4, FlushFacts
    <2>3. Stored' /\ CopiesOK'
      BY <1>1, <2>1, <2>2 DEF Stored, CopiesOK, Recent
    <2> QED
      BY <1>2, <2>1, <2>3, Unreported
  <1>10. CASE FlushConvertFails
    <2>1. /\ overlay' = overlay /\ cache' = cache /\ rd' = rd /\ slot' = slot /\ blob' = blob
          /\ index' = index /\ fl' = NoFlush /\ saved' = saved /\ raced \subseteq raced'
          /\ shortMap' = shortMap /\ stale' = stale
      BY <1>6, <1>10 DEF FlushConvertFails, caching, Reading, flights, disk
    <2>2. Stored' /\ CopiesOK'
      BY <1>3, <1>5, <2>1, FlushKeeps
    <2> QED
      BY <1>2, <2>1, <2>2, Unreported
  <1>11. CASE FlushPut
    <2> DEFINE next == [fl EXCEPT !.pc = "append"]
    <2>1. /\ overlay' = overlay /\ rd' = rd /\ slot' = slot /\ blob' = blob
          /\ index' = index /\ fl' = next /\ saved' = saved /\ raced \subseteq raced'
          /\ shortMap' = shortMap /\ stale' = stale
      BY <1>6, <1>11 DEF FlushPut, Reading, flights, disk
    <2>2. next.pc = "append" /\ next.path = fl.path /\ next.v = fl.v
      BY <1>1 DEF Flushing
    <2> HIDE DEF next
    <2>3. Stored' /\ CopiesOK'
      BY <1>3, <1>4, <1>11, <2>1, <2>2, FlushKeeps
    <2> QED
      BY <1>2, <2>1, <2>3, Unreported
  <1>12. CASE FlushAppend
    <2> DEFINE next == [fl EXCEPT !.pc = "unmap", !.b = length]
    <2>1. /\ overlay' = overlay /\ cache' = cache /\ rd' = rd /\ slot' = slot
          /\ blob' = [blob EXCEPT ![length] = fl.v] /\ fl.pc = "append"
          /\ index' = index /\ fl' = next /\ saved' = saved /\ raced \subseteq raced'
          /\ shortMap' = shortMap /\ stale' = stale
      BY <1>6, <1>12 DEF FlushAppend, caching, Reading, flights
    <2>2. next.pc = "unmap" /\ next.path = fl.path /\ next.v = fl.v
      BY <1>1 DEF Flushing
    <2>3. \A b \in Content : b < length => blob'[b] = blob[b]
      BY <1>1, <2>1, NoneFacts DEF Content, Length
    <2>4. \A f \in Files : blob'[index'[f]] >= saved[f]
      BY <1>1, <1>3, <2>1, <2>3 DEF FlushShape
    <2> HIDE DEF next
    <2>5. Stored' /\ CopiesOK'
      BY <1>4, <2>1, <2>2, <2>4, FlushKeeps
    <2> QED
      BY <2>1, <2>3, <2>5, Unreported
  <1>13. CASE FlushFails \/ FlushReloadFails
    <2>1. /\ overlay' = overlay /\ cache' = cache /\ rd' = rd /\ slot' = slot /\ blob' = blob
          /\ index' = index /\ fl' = [AfterSource EXCEPT !.v = 0] /\ saved' = saved
          /\ raced \subseteq raced' /\ shortMap' = shortMap /\ stale' = stale
      BY <1>6, <1>13 DEF FlushFails, FlushReloadFails, caching, Reading, flights, disk
    <2>2. fl'.v = 0
      BY <1>1, <2>1 DEF AfterSource, NoFlush, Flushing
    <2>3. Stored' /\ CopiesOK'
      BY <1>3, <2>1, <2>2, FlushKeeps
    <2> QED
      BY <1>2, <2>1, <2>3, Unreported
  <1>14. CASE FlushUnmap
    <2> DEFINE next == [fl EXCEPT !.pc = "reload"]
    <2>1. /\ overlay' = overlay /\ cache' = cache /\ rd' = rd /\ slot' = slot /\ blob' = blob
          /\ index' = index /\ fl' = next /\ saved' = saved /\ raced \subseteq raced'
          /\ (shortMap => shortMap') /\ stale' = stale /\ fl.pc = "unmap"
      BY <1>6, <1>14 DEF FlushUnmap, caching, Reading, flights, disk
    <2>2. next.pc = "reload" /\ next.path = fl.path /\ next.v = fl.v
      BY <1>1 DEF Flushing
    <2> HIDE DEF next
    <2>3. Stored' /\ CopiesOK'
      BY <1>3, <1>4, <2>1, <2>2, FlushKeeps
    <2> QED
      BY <1>2, <2>1, <2>3, Unreported
  <1>15. CASE FlushReload
    <2> DEFINE F == Source(fl.path)
    <2>1. /\ overlay' = overlay /\ cache' = cache /\ rd' = rd /\ slot' = slot /\ blob' = blob
          /\ index' = [index EXCEPT ![F] = fl.b] /\ Flush(AfterSource) /\ fl' = AfterSource
          /\ raced \subseteq raced' /\ shortMap' = shortMap /\ stale' = stale /\ fl.pc = "reload"
      BY <1>6, <1>15 DEF FlushReload, caching, Reading, flights, disk
    <2>2. /\ fl.v # 0 /\ blob[fl.b] = fl.v /\ F \in Files
          /\ \A f \in Files : saved[f] <= fl.v
      BY <1>1, <2>1, FlushFacts DEF FlushShape
    <2>3. \A f \in Files : index'[f] = IF f = F THEN fl.b ELSE index[f]
      BY <1>1, <2>1
    <2>4. CASE fl.path \in Virtual
      <3>1. saved' = saved
        BY <1>15, <2>4 DEF FlushReload
      <3>2. fl'.pc = "invalidate" /\ fl'.path = fl.path /\ fl'.v = fl.v
        BY <1>1, <2>1, <2>4 DEF AfterSource, Flushing
      <3>3. \A f \in Files : blob'[index'[f]] >= saved[f]
        <4>1. \A f \in Files : fl.v >= saved[f]
          BY <1>1, <2>2, NoneFacts DEF Content, Flushing
        <4> QED
          BY <1>3, <2>1, <2>2, <2>3, <4>1
      <3>4. Stored' /\ CopiesOK'
        BY <1>4, <2>1, <2>2, <2>3, <3>1, <3>2, <3>3, FlushKeeps
      <3> QED
        BY <1>2, <2>1, <3>1, <3>4, Unreported
    <2>5. CASE fl.path \notin Virtual
      <3>1. SaveDone /\ fl' = NoFlush
        BY <1>15, <2>1, <2>5 DEF FlushReload, AfterSource
      <3>2. fl.path \in Files
        BY <1>1, <2>1, <2>5, FlushFacts DEF Paths
      <3>3. Stored' /\ CopiesOK'
        BY <2>1, <2>2, <2>3, <3>1, <3>2, ReportKeeps
      <3>4. \A u \in Readers : ReadOK(rd[u])'
        BY <2>1, <2>2, <3>1, Reported
      <3> QED
        BY <2>1, <3>3, <3>4
    <2> QED
      BY <2>4, <2>5
  <1>16. CASE FlushInvalidate
    <2>1. /\ rd' = rd /\ slot' = slot /\ blob' = blob /\ index' = index
          /\ overlay' = [overlay EXCEPT ![fl.path] = None]
          /\ cache' = [cache EXCEPT ![fl.path] = None]
          /\ Flush(NoFlush) /\ fl' = NoFlush
          /\ raced \subseteq raced' /\ shortMap' = shortMap /\ stale' = stale
          /\ fl.pc = "invalidate" /\ fl.path \in Virtual
      BY <1>1, <1>6, <1>16 DEF FlushInvalidate, FlushShape, Reading, flights, disk
    <2>2. CASE fl.v = 0
      <3>1. saved' = saved
        BY <1>16, <2>2 DEF FlushInvalidate
      <3>2. \A p \in Paths : overlay'[p] \in {None, overlay[p]} /\ cache'[p] \in {None, cache[p]}
        BY <1>1, <2>1
      <3>3. Stored' /\ CopiesOK'
        BY <1>1, <1>3, <1>5, <2>1, <3>1, <3>2 DEF Stored, CopiesOK, Recent
      <3> QED
        BY <1>2, <2>1, <3>1, <3>3, Unreported
    <2>3. CASE fl.v # 0
      <3>1. SaveDone
        BY <1>16, <2>3 DEF FlushInvalidate
      <3>2. blob[index[Source(fl.path)]] = fl.v
        BY <1>1, <2>1, <2>3 DEF Stored
      <3>3. Stored' /\ CopiesOK'
        BY <2>1, <2>3, <3>1, <3>2, ReportKeeps
      <3>4. \A u \in Readers : ReadOK(rd[u])'
        BY <2>1, <2>3, <3>1, Reported
      <3> QED
        BY <2>1, <3>3, <3>4
    <2> QED
      BY <2>2, <2>3
  <1> QED
    BY <1>7, <1>8, <1>9, <1>10, <1>11, <1>12, <1>13, <1>14, <1>15, <1>16

LEMMA CoherentNext == ASSUME OneName, CInv, [Next]_vars PROVE CInv'
  <1>1. TInv' /\ SlotsOK' /\ MapsOK'
    BY TypeNext, SlotsNext, MapsNext DEF CInv
  <1>2. ASSUME NEW t \in Readers, NEW p \in Paths, ReadMemory(t, p) \/ ReadDecode(t, p)
        PROVE  Stored' /\ CopiesOK' /\ (\A u \in Readers : ReadOK(rd[u])') /\ stale' = stale
    <2>1. Untouched /\ raced' = raced /\ cache' = cache
      BY <1>2 DEF ReadMemory, ReadDecode, Untouched, caching, disk, ghosts
    <2> QED
      BY <1>2, <2>1, ReaderKeeps, ReadStep
  <1>3. ASSUME NEW t \in Readers, DecodeStep(t) \/ DecodePanics(t)
        PROVE  Stored' /\ CopiesOK' /\ (\A u \in Readers : ReadOK(rd[u])') /\ stale' = stale
    <2>1. Untouched /\ raced \subseteq raced' /\ (cache' = cache \/ DecodePut(t))
      BY <1>3 DEF DecodeStep, DecodeCached, DecodeJoin, DecodeRun, MapShared, MapOpen, MapKeep,
                  DecodeRender, DecodePanics, DecodeUnslot, DecodePut, Untouched, caching, disk, ghosts
    <2> QED
      BY <1>3, <2>1, ReaderKeeps, DecodeHolds
  <1>4. CASE UNCHANGED vars
    <2>1. Untouched /\ raced' = raced /\ cache' = cache /\ rd' = rd /\ slot' = slot
          /\ shortMap' = shortMap /\ stale' = stale
      BY <1>4 DEF vars, Untouched, caching, Reading, flights, disk, ghosts
    <2>2. Stored' /\ CopiesOK'
      BY <2>1, ReaderKeeps
    <2>3. \A u \in Readers : ReadOK(rd[u])'
      BY <1>1, <2>1, Unreported DEF Untouched
    <2> QED
      BY <1>1, <2>1, <2>2, <2>3 DEF CInv, Coherent
  <1>5. CASE Next
    <2>1. Stored' /\ CopiesOK' /\ (\A u \in Readers : ReadOK(rd[u])') /\ stale' = stale
      BY <1>1, <1>2, <1>3, <1>5, FlushHolds DEF Next
    <2> QED
      BY <1>1, <2>1 DEF CInv, Coherent
  <1> QED
    BY <1>4, <1>5

\* A read sent after the flush of a save is over returns what was saved or something
\* newer, or, from probe(), the raw bytes of such a version, but for the two races
\* named at Coherent, whoever else reads, saves, maps, caches and waits, if every source is saved under one
\* name.  (fs.rs: read, decode, get_mmap, cache_put, flush_path_sync,
\* invalidate_virtual_path)
THEOREM AlwaysCoherent == ASSUME OneName PROVE Spec => []Coherent
  <1>1. Init => CInv
    BY CoherentInit
  <1>2. CInv /\ [Next]_vars => CInv'
    BY CoherentNext
  <1>3. CInv => Coherent
    BY DEF CInv
  <1> QED
    BY <1>1, <1>2, <1>3, PTL DEF Spec
=============================================================================
