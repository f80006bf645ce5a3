------------------------------ MODULE PacMesh -------------------------------
\* Skinned meshes: the sections of a .pac file, the descriptors found in section 0,
\* the mesh parsed from the finest level, and the file rebuilt from an edited mesh.
\* (formats/mesh/pac.rs; repack/mesh: pac_builder.rs, donor.rs, quant.rs,
\* pam_builder.rs: align_submesh_order_like_original)
\*
\* A file is a byte string.  A float is four bytes of whole units of 1e-6, a normal's
\* component the ten bits it is stored in, a UV its two half floats.  What may fail
\* gives a set that is empty when it does.  Left out: the layout for files without
\* descriptors, sections with records between vertices and indices, and the normals
\* worked out for a mesh that has none.
EXTENDS Bytes

CONSTANT
  LinearMax      \* 64: up to so many vertices the nearest one is searched in order

Axes == 1 .. 3
Table == 16                       \* the section table: 8 slots of two u32
HeaderSize == 80
Steps == 32767                    \* of a quantized position
Epsilon == 1

Rounded(n, d) == (2 * n + d) \div (2 * d)
Abs(n) == IF n < 0 THEN -n ELSE n
At(s, k, default) == IF k \in DOMAIN s THEN s[k] ELSE default

-----------------------------------------------------------------------------
\* Sections and descriptors

Magic == <<80, 65, 82, 32>>
IsPar(file) == Len(file) >= HeaderSize /\ Cut(file, 0, 4) = Magic

\* Slots without a size are skipped; one that ends behind the file voids the table.
ParseParSections(file) ==
  LET Slot(st, k) ==
        LET comp == Unsigned(file, Table + 8 * k, 4)
            size == Unsigned(file, Table + 8 * k + 4, 4)
            stored == IF comp > 0 THEN comp ELSE size
        IN IF ~st.ok \/ size = 0 THEN st
           ELSE IF st.at + stored > Len(file) THEN [st EXCEPT !.ok = FALSE]
           ELSE [st EXCEPT !.at = @ + stored,
                           !.secs = Append(@, [index |-> k, offset |-> st.at, size |-> size])]
      end == FoldLeft(Slot, [ok |-> TRUE, at |-> HeaderSize, secs |-> <<>>], [k \in 1 .. 8 |-> k - 1])
  IN IF IsPar(file) /\ end.ok THEN end.secs ELSE <<>>

SectionOf(secs, index) == SelectSeq(secs, LAMBDA s : s.index = index)

\* The length-prefixed text that ends at `cursor`, and where it begins.
TextBefore(region, cursor) ==
  LET back == {b \in 2 .. Min({199, cursor}) :
                 /\ region[cursor - b + 1] = b - 1
                 /\ \A k \in cursor - b + 2 .. cursor : region[k] \in 32 .. 126}
      b == Min(back)
  IN IF back = {} THEN [text |-> <<0>>, at |-> cursor]
     ELSE [text |-> Cut(region, cursor - b + 1, b - 1), at |-> cursor - b]

FindNameStrings(region, start) ==
  LET material == TextBefore(region, start)
  IN [name |-> TextBefore(region, material.at).text, material |-> material.text]

Vec(region, at) == [i \in Axes |-> Unsigned(region, at + 4 * (i - 1), 4)]

\* A pattern of palette bytes: levels, where the two count tables lie, and what may
\* not stand in front of it.
Pattern(bytes, ic, not) == [bytes |-> bytes, lods |-> bytes[1], vc |-> 40, ic |-> ic, not |-> not]
Patterns == <<Pattern(<<4, 0, 1, 2, 3>>, 48, {}), Pattern(<<3, 0, 1, 1, 2>>, 46, {}),
              Pattern(<<3, 0, 1, 2>>, 46, {4}), Pattern(<<2, 0, 1>>, 44, {3, 4})>>

\* Descriptors are found by their palettes, 35 bytes into them, in file order.
FindPacDescriptors(file, sec0, nLods) ==
  LET region == Cut(file, sec0.offset, sec0.size)
      Counts(at, p, w, n) == [k \in 1 .. n |-> IF k <= p.lods THEN Unsigned(region, at + w * (k - 1), w) ELSE 0]
      Padded(p) == Max({nLods, 4, p.lods})
      Made(idx, p) ==
        LET start == idx - 35
        IN [name |-> FindNameStrings(region, start).name,
            material |-> FindNameStrings(region, start).material,
            lo |-> Vec(region, start + 11), extent |-> Vec(region, start + 23),
            vc |-> Counts(start + p.vc, p, 2, Padded(p)), ic |-> Counts(start + p.ic, p, 4, Padded(p)),
            palette |-> Cut(region, idx + 1, p.lods),
            at |-> sec0.offset + start, lods |-> p.lods]
      Matches(p) == {idx \in 35 .. sec0.size - Len(p.bytes) :
                       /\ Cut(region, idx, Len(p.bytes)) = p.bytes
                       /\ region[idx] \notin p.not
                       /\ idx - 35 + p.ic + p.lods * 4 <= sec0.size
                       /\ region[idx - 34] = 1}
      Real(d) == (\E k \in DOMAIN d.vc : d.vc[k] > 0) /\ \A k \in DOMAIN d.ic : d.ic[k] <= 20000000
      Of(k) == {Made(idx, Patterns[k]) : idx \in Matches(Patterns[k])}
      first == [k \in DOMAIN Patterns |->
                  {d \in Of(k) : Real(d) /\ \A j \in 1 .. k - 1 : \A e \in Of(j) : Real(e) => e.at # d.at}]
  IN SetToSortSeq(UNION {first[k] : k \in DOMAIN Patterns}, LAMBDA a, b : a.at < b.at)

-----------------------------------------------------------------------------
\* Vertex records

MarkerAt == 12
Marker == <<0, 0, 0, 60>>
Strides == <<40, 36, 32, 44, 48, 52, 56, 60, 64, 28, 24, 20, 16, 12, 8, 6>>

DetectPacVertexStride(file, start, end) ==
  LET Hits(stride) ==
        LET n == Min({(end - start) \div stride, 64})
        IN [n |-> n, hits |-> Cardinality({i \in 0 .. n - 1 :
              /\ start + i * stride + 16 <= end
              /\ Cut(file, start + i * stride + MarkerAt, 4) = Marker})]
      Better(best, stride) ==
        LET h == Hits(stride)
        IN IF \/ h.n < 4 \/ h.hits < best.hits
              \/ h.hits = best.hits /\ Abs(stride - 40) >= Abs(best.stride - 40)
           THEN best ELSE [stride |-> stride, hits |-> h.hits]
  IN FoldLeft(Better, [stride |-> 40, hits |-> -1], Strides).stride

QuantizePacU16(v, lo, extent) ==
  IF extent = 0 \/ v <= lo THEN 0 ELSE Min({Rounded((v - lo) * Steps, extent), Steps})

DecodePacPosition(q, lo, extent) == IF extent = 0 THEN lo ELSE lo + Rounded(q * extent, Steps)

\* nz, nx, ny in ten bits each; the two bits above them are kept.
PackPacNormal(n, old) ==
  LET low == LE(n[3] + 1024 * n[1] + 1048576 * n[2], 4) IN [low EXCEPT ![4] = @ + 64 * (old[4] \div 64)]

UnpackNormal(bytes) ==
  LET low == Unsigned([bytes EXCEPT ![4] = @ % 64], 0, 4)
  IN <<(low \div 1024) % 1024, low \div 1048576, low % 1024>>

NotANumber(half) == half % 32768 > 31744

\* The skin of a record: bones that count, with their weights, through the palette.
Skin(rec, d) ==
  LET slots == SelectSeq(<<1, 2, 3, 4>>, LAMBDA k : rec[32 + k] # 255 /\ rec[28 + k] # 0)
  IN IF Len(rec) < 36 THEN <<>>
     ELSE [j \in DOMAIN slots |-> [bone |-> At(d.palette, rec[32 + slots[j]] + 1, rec[32 + slots[j]]),
                                   weight |-> rec[28 + slots[j]]]]

DecodePacVertexRecord(rec, d) ==
  LET uv == <<Unsigned(rec, 8, 2), Unsigned(rec, 10, 2)>>
  IN [pos |-> [i \in Axes |-> DecodePacPosition(Unsigned(rec, 2 * (i - 1), 2), d.lo[i], d.extent[i])],
      uv |-> IF NotANumber(uv[1]) \/ NotANumber(uv[2]) THEN <<0, 0>> ELSE uv,
      normal |-> UnpackNormal(Cut(rec, 16, 4)), skin |-> Skin(rec, d)]

\* Position, UV and normal of an edited vertex in its donor's record.
ApplyPacVertexEdit(rec, v, lo, extent, clean) ==
  LET base == IF clean /\ Len(rec) >= 28 THEN Patched(Patched(rec, 6, Zeros(2)), 20, Zeros(8)) ELSE rec
      pos == Concat([i \in Axes |-> LE(QuantizePacU16(v.pos[i], lo[i], extent[i]), 2)])
      placed == Patched(Patched(base, 0, pos), 8, LE(v.uv[1], 2) \o LE(v.uv[2], 2))
  IN IF Len(rec) < 20 THEN placed
     ELSE Patched(placed, 16, PackPacNormal(v.normal, IF clean THEN Zeros(4) ELSE Cut(rec, 16, 4)))

\* The box around the vertices, a little larger on every side.
ComputeBbox(verts) ==
  LET On(i) == {verts[k].pos[i] : k \in DOMAIN verts}
      lo == [i \in Axes |-> IF verts = <<>> THEN 0 ELSE Min(On(i)) - Epsilon]
      hi == [i \in Axes |-> IF verts = <<>> THEN 1000000 ELSE Max(On(i)) + Epsilon]
  IN [lo |-> lo, extent |-> [i \in Axes |-> hi[i] - lo[i]]]

-----------------------------------------------------------------------------
\* Parsing

\* Vertices first and indices right behind them.
FindPacSectionLayout(sec, descs, lod, stride) ==
  LET verts == SumOf([k \in DOMAIN descs |-> descs[k].vc[lod]]) * stride
      indices == 2 * SumOf([k \in DOMAIN descs |-> descs[k].ic[lod]])
  IN IF verts + indices < sec.size THEN {} ELSE {[verts |-> 0, indices |-> verts]}

ReadPacIndices(file, sec, at, count) ==
  LET room == IF at < sec.size THEN (sec.size - at) \div 2 ELSE 0
  IN [k \in 1 .. Min({count, room}) |-> Unsigned(file, sec.offset + at + 2 * (k - 1), 2)]

\* Whose vertices a descriptor's indices mean, and how many: its own, those of another
\* one that has enough, or as many as there is room for.
Owner(descs, di, lod, top, room) ==
  LET vc(k) == descs[k].vc[lod]
      others == {k \in DOMAIN descs \ {di} : vc(k) > top}
  IN CASE top < vc(di) -> [desc |-> di, vc |-> vc(di)]
       [] others # {} -> [desc |-> Min(others), vc |-> vc(Min(others))]
       [] OTHER -> [desc |-> di, vc |-> IF top < room THEN top + 1 ELSE vc(di)]

Triangles(indices) ==
  [k \in 1 .. Len(indices) \div 3 |-> <<indices[3 * k - 2], indices[3 * k - 1], indices[3 * k]>>]

ParseSubmesh(file, sec, descs, di, lod, stride, layout, first) ==
  LET d == descs[di]
      Start(k) == layout.verts + stride * SumOf([j \in 1 .. k - 1 |-> descs[j].vc[lod]])
      indices == ReadPacIndices(file, sec, first, d.ic[lod])
      own == Owner(descs, di, lod, Max({-1} \cup {indices[k] : k \in DOMAIN indices}),
                   (layout.indices - Start(di)) \div stride)
      Off(k) == sec.offset + Start(own.desc) + (k - 1) * stride
      n == Cardinality({k \in 1 .. own.vc : Off(k) + stride <= Len(file)})
      vertices == [k \in 1 .. n |-> DecodePacVertexRecord(Cut(file, Off(k), stride), d)]
  IN [name |-> d.name, material |-> d.material, verts |-> vertices,
      faces |-> SelectSeq(Triangles(indices), LAMBDA f : \A c \in Axes : f[c] < n),
      offsets |-> [k \in 1 .. n |-> Off(k)], indexOffset |-> sec.offset + first,
      stride |-> stride, at |-> d.at, lods |-> d.lods, map |-> <<>>, clean |-> FALSE]

\* The finest level there is a section for; of the descriptors, those that have
\* vertices or indices in it.
ParseLevel(file, sec, descs, lod, stride, used) ==
  LET Before(j) == SumOf([i \in 1 .. j - 1 |-> descs[used[i]].ic[lod]])
  IN {[j \in DOMAIN used |-> ParseSubmesh(file, sec, descs, used[j], lod, stride, layout,
                                          layout.indices + 2 * Before(j))] :
        layout \in FindPacSectionLayout(sec, descs, lod, stride)}

ParseFinest(file, descs, geometry) ==
  LET sec == CHOOSE s \in geometry : \A t \in geometry : t.index <= s.index
      lod == 4 - sec.index + 1
      used == SelectSeq([k \in DOMAIN descs |-> k],
                        LAMBDA k : descs[k].vc[lod] > 0 \/ descs[k].ic[lod] > 0)
  IN IF descs = <<>> \/ geometry = {} \/ used = <<>> THEN {}
     ELSE ParseLevel(file, sec, descs, lod,
                     DetectPacVertexStride(file, sec.offset, sec.offset + sec.size), used)

SectionZero(secs) == SectionOf(secs, 0)[1]
LodCount(file, secs) == file[SectionZero(secs).offset + 5]
Descriptors(file, secs) == FindPacDescriptors(file, SectionZero(secs), LodCount(file, secs))

ParseSections(file, secs) ==
  IF SectionOf(secs, 0) = <<>> \/ SectionZero(secs).size < 5 \/ LodCount(file, secs) \notin 1 .. 10
  THEN {}
  ELSE ParseFinest(file, Descriptors(file, secs), {s \in Range(secs) : s.index \in 1 .. 4})

ParseWithDescriptors(file) == ParseSections(file, ParseParSections(file))

-----------------------------------------------------------------------------
\* Matching an edited mesh to the original

DistSq(p, q) == SumOf([i \in Axes |-> (p[i] - q[i]) * (p[i] - q[i])])
QuantizeKey(p) == [i \in Axes |-> Rounded(p[i], 10)]
FirstOf(ks, Cost(_)) == CHOOSE k \in ks : \A j \in ks : Cost(k) < Cost(j) \/ (Cost(k) = Cost(j) /\ k <= j)

\* The cells of a grid around the vertices, two along the longest side: below 125
\* vertices the code's cube root asks for no more.
CellsAcross == 2
Longest(verts) ==
  Max({1} \cup {Max({v.pos[i] : v \in Range(verts)}) - Min({v.pos[i] : v \in Range(verts)}) : i \in Axes})
Cell(verts, p) ==
  LET Toward0(n, d) == IF n < 0 THEN -((-n) \div d) ELSE n \div d
  IN [i \in Axes |-> Toward0((p[i] - Min({v.pos[i] : v \in Range(verts)})) * CellsAcross, Longest(verts))]

OwnShellFirst(verts, p) ==
  LET Shell(k) == Max({Abs(Cell(verts, verts[k].pos)[i] - Cell(verts, p)[i]) : i \in Axes})
      Cost(k) == <<Shell(k), DistSq(verts[k].pos, p)>>
      Less(a, b) == a[1] < b[1] \/ (a[1] = b[1] /\ a[2] <= b[2])
  IN CHOOSE k \in DOMAIN verts : \A j \in DOMAIN verts : Less(Cost(k), Cost(j))

\* Cubes of cells around the vertex's own, until no nearer one can follow or the cubes
\* are larger than the grid; with none found it is the first record.  (Of those equally
\* near the code takes the first in the order of cells, this the first in the file.)
ShellSearch(verts, p) ==
  LET here == Cell(verts, p)
      cells == [k \in DOMAIN verts |-> Cell(verts, verts[k].pos)]
      Shell(k) == Max({Abs(cells[k][i] - here[i]) : i \in Axes})
      Dist(k) == DistSq(verts[k].pos, p)
      seen[s \in 0 .. CellsAcross + 1] ==
        LET now == {k \in DOMAIN verts : Shell(k) = s}
            before == IF s = 0 THEN [ks |-> {}, done |-> FALSE] ELSE seen[s - 1]
            ks == before.ks \cup now
        IN IF before.done THEN before
           ELSE [ks |-> ks,
                 done |-> \E k \in ks : s * s * Longest(verts) * Longest(verts)
                                          > CellsAcross * CellsAcross * Dist(k)]
      found == seen[CellsAcross + 1].ks
  IN IF found = {} THEN 1 ELSE FirstOf(found, Dist)

ChoosePacDonorIndices(orig, new) ==
  LET Exact(p) == {k \in DOMAIN orig.verts : QuantizeKey(orig.verts[k].pos) = QuantizeKey(p)}
      Donor(p) == IF Exact(p) # {} THEN Min(Exact(p))
                  ELSE IF Len(orig.verts) <= LinearMax
                  THEN FirstOf(DOMAIN orig.verts, LAMBDA k : DistSq(orig.verts[k].pos, p))
                  ELSE ShellSearch(orig.verts, p)
  IN [k \in DOMAIN new.verts |-> IF orig.verts = <<>> THEN 1 ELSE Donor(new.verts[k].pos)]

Names(mesh) == [k \in DOMAIN mesh |-> mesh[k].name]
NameSet(mesh) == {mesh[k].name : k \in DOMAIN mesh}
Orders(s) == {[k \in DOMAIN s |-> s[f[k]]] : f \in {g \in [DOMAIN s -> DOMAIN s] :
                                                          \A a, b \in DOMAIN s : g[a] = g[b] => a = b}}

\* A hash map's values come in any order.
AlignSubmeshOrderLikeOriginal(original, new) ==
  LET odd == {k \in DOMAIN new : new[k].name = <<>> \/ \E j \in 1 .. k - 1 : new[j].name = new[k].name}
      ByName(name) == CHOOSE k \in DOMAIN new : new[k].name = name
  IN CASE Len(original) # Len(new) \/ Names(original) = Names(new) -> {new}
       [] odd # {} -> {Append(s, new[Min(odd)]) : s \in Orders(SubSeq(new, 1, Min(odd) - 1))}
       [] NameSet(original) # NameSet(new) -> Orders(new)
       [] OTHER -> {[k \in DOMAIN original |-> new[ByName(original[k].name)]]}

\* How unlike the counts are, as a ratio, and twice the distance of the boxes' centres,
\* squared: below a millimetre the former outweighs the latter.
PacSubmeshMatchScore(imported, orig) ==
  LET Centre(sm) == LET box == ComputeBbox(sm.verts) IN [i \in Axes |-> 2 * box.lo[i] + box.extent[i]]
      Sizes(f) == {1 + Len(imported[f]), 1 + Len(orig[f])}
  IN [more |-> Max(Sizes("verts")) * Max(Sizes("faces")), fewer |-> Min(Sizes("verts")) * Min(Sizes("faces")),
      centre |-> DistSq(Centre(imported), Centre(orig))]

Better(s, t) ==
  LET r == s.more * t.fewer - t.more * s.fewer IN r < 0 \/ (r = 0 /\ s.centre < t.centre)

Renamed(sm, orig) ==
  [sm EXCEPT !.name = orig.name, !.material = IF @ = <<>> THEN orig.material ELSE @]

\* A mesh with fewer parts than the original: by name, then the renamed ones by score,
\* largest first, then the unnamed ones in order; what is missing stays.
Called(imported, name) == {k \in DOMAIN imported : imported[k].name = name}

BestMatch(sm, original, free) ==
  LET score == [k \in free |-> PacSubmeshMatchScore(sm, original[k])]
  IN Min({k \in free : \A j \in free : ~Better(score[j], score[k])})
Placed(k, sm, original, st) == [j \in DOMAIN st \cup {k} |-> IF j = k THEN Renamed(sm, original[k]) ELSE st[j]]

MatchedByScore(original, unknown, left) ==
  LET Match(st, sm) == IF left \subseteq DOMAIN st THEN st
                       ELSE Placed(BestMatch(sm, original, left \ DOMAIN st), sm, original, st)
  IN FoldLeft(Match, <<>>, SortSeq(unknown, LAMBDA a, b : Len(a.verts) > Len(b.verts)))

Filled(original, imported, unnamed, left, matched) ==
  LET Nth(k) == Cardinality({j \in left \ DOMAIN matched : j <= k})
  IN [k \in DOMAIN original |->
        CASE k \notin left -> imported[Min(Called(imported, original[k].name))]
          [] k \in DOMAIN matched -> matched[k]
          [] OTHER -> At(unnamed, Nth(k), original[k])]

Merged(original, imported, left) ==
  Filled(original, imported, SelectSeq(imported, LAMBDA s : s.name = <<>>), left,
         MatchedByScore(original,
                        SelectSeq(imported, LAMBDA s : s.name # <<>> /\ s.name \notin NameSet(original)), left))

MergePartialPacImport(original, imported) ==
  IF Len(imported) >= Len(original) THEN imported
  ELSE Merged(original, imported, {k \in DOMAIN original : Called(imported, original[k].name) = {}})

RebuildForVerticesOnly(original, working) ==
  \E k \in DOMAIN original : Len(original[k].verts) # Len(working[k].verts) \/ original[k].stride < 12

PacNeedsFullRebuild(original, working) ==
  \E k \in DOMAIN original :
     \/ Len(original[k].verts) # Len(working[k].verts)
     \/ Len(original[k].faces) # Len(working[k].faces)
     \/ original[k].stride < 12

-----------------------------------------------------------------------------
\* Rebuilding

PatchPacDescriptorBounds(bytes, at, box) ==
  IF at + 35 > Len(bytes) THEN bytes
  ELSE Patched(bytes, at + 11, Concat([i \in Axes |-> LE(box.lo[i], 4)]) \o Concat([i \in Axes |-> LE(box.extent[i], 4)]))

FaceBytes(f) == Concat([c \in Axes |-> LE(f[c], 2)])
FacesFit(sm) == \A k \in DOMAIN sm.faces : \A c \in Axes : sm.faces[k][c] < Len(sm.verts)

\* The same counts: records and indices are replaced where they lie, unless one place
\* is to hold two things.
InPlaceUpdates(sm, new, box, file) ==
  LET Vertex(at, v) ==
        [at |-> at, bytes |-> ApplyPacVertexEdit(Cut(file, at, sm.stride), v, box.lo, box.extent, new.clean)]
  IN [v \in DOMAIN sm.offsets |-> Vertex(sm.offsets[v], new.verts[v])]
       \o [f \in DOMAIN new.faces |-> [at |-> sm.indexOffset + 6 * (f - 1), bytes |-> FaceBytes(new.faces[f])]]

Applied(updates, bounds) ==
  IF \/ \E a, b \in Range(updates) : a.at = b.at /\ a.bytes # b.bytes
     \/ \E a \in Range(updates) : a.at + Len(a.bytes) > Len(bounds)
  THEN {}
  ELSE {FoldLeft(LAMBDA f, u : Patched(f, u.at, u.bytes), bounds, updates)}

Bounded(file, original, boxes) ==
  FoldLeft(LAMBDA f, k : PatchPacDescriptorBounds(f, original[k].at, boxes[k]), file,
           [k \in DOMAIN original |-> k])
InBoxes(original, working, file, boxes) ==
  Applied(Concat([k \in DOMAIN original |-> InPlaceUpdates(original[k], working[k], boxes[k], file)]),
          Bounded(file, original, boxes))

BuildPacInPlace(original, working, file) ==
  IF \E k \in DOMAIN working : ~FacesFit(working[k]) THEN {}
  ELSE InBoxes(original, working, file, [k \in DOMAIN original |-> ComputeBbox(working[k].verts)])

\* A part's donors, as the mesh remembers them or by position.
DonorIndices(orig, new) ==
  LET byPosition == ChoosePacDonorIndices(orig, new)
      Known(k) == Len(new.map) = Len(new.verts) /\ new.map[k] \in 0 .. Len(orig.verts) - 1
  IN [k \in DOMAIN new.verts |-> IF Known(k) THEN new.map[k] + 1 ELSE byPosition[k]]

\* A part as it is stored in each of its levels, and its descriptor's new counts.
PrepareIn(box, donors, orig, new, desc, nLods, file) ==
  LET Donor(k) == Cut(file, orig.offsets[Min({donors[k], Len(orig.offsets)})], orig.stride)
  IN [verts |-> Concat([k \in DOMAIN new.verts |->
                          ApplyPacVertexEdit(Donor(k), new.verts[k], box.lo, box.extent, new.clean)]),
      faces |-> Concat([k \in DOMAIN new.faces |-> FaceBytes(new.faces[k])]),
      lods |-> Max({1, Min({nLods, IF orig.lods > 0 THEN orig.lods ELSE desc.lods})}),
      box |-> box, vcs |-> Concat([k \in 1 .. desc.lods |-> LE(Len(new.verts), 2)]),
      ics |-> Concat([k \in 1 .. desc.lods |-> LE(3 * Len(new.faces), 4)])]

PrepareSubmesh(orig, new, desc, nLods, file) ==
  PrepareIn(ComputeBbox(new.verts), DonorIndices(orig, new), orig, new, desc, nLods, file)

\* What each section holds: of a level, vertices and indices of the parts that have it.
Verts(ready, nLods, sec) ==
  Concat([k \in DOMAIN ready |-> IF nLods - sec < ready[k].lods THEN ready[k].verts ELSE <<>>])
Faces(ready, nLods, sec) ==
  Concat([k \in DOMAIN ready |-> IF nLods - sec < ready[k].lods THEN ready[k].faces ELSE <<>>])
Kept(file, found) == Concat([k \in DOMAIN found |-> Cut(file, found[k].offset, found[k].size)])

\* Section 0 with the descriptors' new bounds and counts.
Described(sec0, file, descs, ready) ==
  LET Describe(bytes, k) ==
        Patched(PatchPacDescriptorBounds(bytes, descs[k].at - sec0.offset, ready[k].box),
                descs[k].at - sec0.offset + 40, ready[k].vcs \o ready[k].ics)
  IN FoldLeft(Describe, Cut(file, sec0.offset, sec0.size), [k \in DOMAIN ready |-> k])

\* The slots, section 0 with the two tables of levels, finest last, and the sections.
Assembled(file, described, payload, split, nLods) ==
  LET Offset(sec) == HeaderSize + Len(described) + SumOf([k \in 1 .. sec - 1 |-> Len(payload[k])])
      Of(lod) == nLods - lod + 1
      tables == Concat([lod \in 1 .. nLods |-> LE(Offset(Of(lod)), 4)])
                  \o Concat([lod \in 1 .. nLods |-> LE(Offset(Of(lod)) + split[Of(lod)], 4)])
      slots == Zeros(4) \o LE(Len(described), 4)
                 \o Concat([k \in DOMAIN payload |-> Zeros(4) \o LE(Len(payload[k]), 4)])
  IN Cut(file, 0, Table) \o slots \o Patched(described, 5, tables) \o Concat(payload)

RebuildParts(file, secs, descs, ready) ==
  LET nLods == LodCount(file, secs)
      Payload(sec) == IF sec > nLods THEN Kept(file, SectionOf(secs, sec))
                      ELSE Verts(ready, nLods, sec) \o Faces(ready, nLods, sec)
  IN Assembled(file, Described(SectionZero(secs), file, descs, ready), [sec \in 1 .. 7 |-> Payload(sec)],
               [sec \in 1 .. nLods |-> Len(Verts(ready, nLods, sec))], nLods)

RebuildSections(original, working, file, secs, descs) ==
  IF \/ Len(descs) < Len(working) \/ 5 + 8 * LodCount(file, secs) > SectionZero(secs).size
     \/ \E k \in DOMAIN working : ~FacesFit(working[k])
  THEN {}
  ELSE {RebuildParts(file, secs, descs,
          [k \in DOMAIN original |->
             PrepareSubmesh(original[k], working[k], descs[k], LodCount(file, secs), file)])}

BuildPacFullRebuild(original, working, file) ==
  LET secs == ParseParSections(file)
  IN RebuildSections(original, working, file, secs, Descriptors(file, secs))

Built(original, working, file) ==
  IF Len(working) # Len(original) THEN {}
  ELSE IF PacNeedsFullRebuild(original, working) THEN BuildPacFullRebuild(original, working, file)
  ELSE BuildPacInPlace(original, working, file)

BuildPac(mesh, file) ==
  UNION {UNION {Built(original, working, file) :
                  working \in AlignSubmeshOrderLikeOriginal(original, MergePartialPacImport(original, mesh))} :
           original \in ParseWithDescriptors(file)}
=============================================================================
