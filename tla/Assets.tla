------------------------------- MODULE Assets -------------------------------
\* A session with one file of the game: the file is read in the form users edit,
\* edited, and stored again, several times over.  What is stored must go on showing
\* what was last saved, whatever the conversions between the two forms pass through.
\*
\* Each action is one save: the read that precedes it, the edit, and the conversion
\* back.  A conversion that refuses the edit leaves the file as it was.
EXTENDS Integers, Sequences, SequencesExt, FiniteSets

CONSTANTS
  Libraries, FullSetups,   \* see Vorbis and Audio
  LinearMax,               \* see PacMesh
  Shipped,                 \* of each kind, the files [stored, shows] a session may be about
  Recordings,              \* audio files, for their sound
  Payloads,                \* files a user may store where some other file was
  Phrases, Keys,           \* what may be typed in a line
  Paints,                  \* what a block of a texture is painted with: 4x4 pixels
  Places,                  \* where a vertex may be put
  FarPlaces,               \* and where only a new one is put, out of reach of the grid
  PartNames,               \* what a part that comes alone may be called
  MaxSaves, MaxLines, MaxVerts

ASSUME AssetsAssumption ==
  /\ DOMAIN Libraries = {"default", "aotuv"}
  /\ LinearMax \in Nat /\ MaxSaves \in Nat /\ MaxLines \in Nat /\ MaxVerts \in Nat

VARIABLES
  kind,      \* "packed", "user", "text", "texture", "audio" or "mesh"
  stored,    \* the file as it is stored
  meant,     \* what it was last saved as (no part of the code)
  saves

Kinds == {"packed", "user", "text", "texture", "audio", "mesh"}
vars == <<kind, stored, meant, saves>>

P == INSTANCE Containers
S == INSTANCE Strings
T == INSTANCE Textures
A == INSTANCE Audio
B == INSTANCE Bytes
M == INSTANCE PacMesh

-----------------------------------------------------------------------------
\* What a file shows

\* A texture without a view shows itself.
StoredChannels(px, fmt) == [p \in DOMAIN px |-> [ch \in T!Channels(fmt) |-> px[p][ch]]]
Seen(views, dds) == [pictures |-> views, unseen |-> IF views = {} THEN {dds} ELSE {}]
ShownTexture(dds) == Seen({StoredChannels(img.px, dds.fmt) : img \in T!RenderDdsPng(dds)}, dds)

\* What is heard, how long it is said to be, and the chunks that are not audio.
ShownAudio(wem) ==
  {[pages |-> A!ConvertWithAutoDetect(w), samples |-> w.fmt.samples, extra |-> w.extra] : w \in A!ParseWem(wem)}

Geometry(part) ==
  [name |-> part.name, faces |-> part.faces,
   verts |-> [k \in DOMAIN part.verts |-> [pos |-> part.verts[k].pos, uv |-> part.verts[k].uv,
                                           normal |-> part.verts[k].normal]]]
ShownMesh(mesh) == [k \in DOMAIN mesh |-> Geometry(mesh[k])]
Skins(mesh) == [k \in DOMAIN mesh |-> [v \in DOMAIN mesh[k].verts |-> {mesh[k].verts[v].skin}]]

Meshes(pac) == M!ParseWithDescriptors(pac)
TheMesh(pac) == CHOOSE mesh \in Meshes(pac) : TRUE

\* The sections behind the levels; where the level tables say that each level's
\* vertices and indices begin.
Sections(pac) == M!ParseParSections(pac)
VertexBytes(mesh) == FoldLeft(LAMBDA n, part : n + part.stride * Len(part.verts), 0, mesh)
OtherSections(pac, secs) ==
  {M!Cut(pac, s.offset, s.size) : s \in {t \in Range(secs) : t.index > M!LodCount(pac, secs)}}
TableEntry(pac, secs, table, sec) ==
  M!Unsigned(pac, M!SectionZero(secs).offset + 5 + 4 * ((table + 1) * M!LodCount(pac, secs) - sec.index), 4)

MeshAndRest(mesh, others) == [parts |-> ShownMesh(mesh), skins |-> Skins(mesh), others |-> others]

ShownPac(pac) == MeshAndRest(TheMesh(pac), OtherSections(pac, Sections(pac)))

Init ==
  /\ kind \in Kinds
  /\ \E file \in Shipped[kind] : stored = file.stored /\ meant = file.shows
  /\ saves = 0

Open(k) == kind = k /\ saves < MaxSaves
Saved(s, m) == stored' = s /\ meant' = m /\ saves' = saves + 1 /\ UNCHANGED kind

-----------------------------------------------------------------------------
\* Files as they are

Store(file, entry) ==
  Saved([bytes |-> P!Processed(file, entry), entry |-> P!Repacked(file, entry)], {P!Plain(file)})

\* A shipped file is replaced: its record keeps its type and its cipher.
ReplacePacked == Open("packed") /\ \E file \in Payloads : Store(file, stored.entry)

\* A user file is stored again.
ReplaceUser == Open("user") /\ \E file \in Payloads : Store(file, P!AddedEntry(stored.entry))

-----------------------------------------------------------------------------
\* Strings

\* A line as the view writes it, and as another program may: the value first, no
\* spaces but at its front.
OtherLine(e) ==
  <<32, 123>> \o S!Label(S!ValueWord) \o <<58>> \o S!PushJsonStr(e.value) \o <<44>>
    \o S!Label(S!KeyWord) \o <<58>> \o S!PushJsonStr(e.key) \o <<125>>
Lines(e) == {S!Line(e), OtherLine(e)}
Texts == [key : Keys, value : Phrases]

SaveText(lines, entries) == Saved(S!ParsePalocJsonl(lines), entries)

Put(lines, n, line) == [k \in DOMAIN lines |-> IF k = n THEN line ELSE lines[k]]

EditLine ==
  /\ Open("text")
  /\ \E n \in DOMAIN meant, e \in Texts : \E line \in Lines(e) :
       SaveText(Put(S!RenderPaloc(stored), n, line), [meant EXCEPT ![n] = e])

AddLine ==
  /\ Open("text") /\ Len(meant) < MaxLines
  /\ \E e \in Texts : \E line \in Lines(e) :
       SaveText(S!RenderPaloc(stored) \o <<<<>>, line>>, Append(meant, e))

DropLine ==
  /\ Open("text")
  /\ \E n \in DOMAIN meant : SaveText(RemoveAt(S!RenderPaloc(stored), n), RemoveAt(meant, n))

-----------------------------------------------------------------------------
\* Textures

Painted(img, n, paint) ==
  [img EXCEPT !.px = [p \in DOMAIN @ |-> IF T!BlockOf(img, p[1], p[2]) = n
                                         THEN paint[T!InBlock(p[1], p[2])] ELSE @[p]]]

\* What has no view is not to be replaced by a picture, which holds one surface only.
SaveTexture(img) ==
  \E px \in {(IF img.type = "rgb" THEN T!Rgba(img) ELSE img).px}, made \in {T!ParsePngToDds(img, stored)} :
    IF made = {} THEN Saved(stored, meant)
    ELSE \E dds \in made :
           Saved(dds, IF meant.unseen # {} THEN meant ELSE Seen({StoredChannels(px, stored.fmt)}, dds))

Types == {"rgba", "rgb", "gray"}

Paint ==
  /\ Open("texture")
  /\ \E img \in T!RenderDdsPng(stored), n \in DOMAIN stored.blocks, paint \in Paints, type \in Types :
       SaveTexture([Painted(img, n, paint) EXCEPT !.type = type])

\* A picture that was never a view is put in the place of a texture.
Overwrite ==
  /\ Open("texture")
  /\ \E paint \in Paints, type \in Types :
       SaveTexture([w |-> 4, h |-> 4, type |-> type,
                    px |-> [p \in (0 .. 3) \X (0 .. 3) |-> paint[T!InBlock(p[1], p[2])]]])

-----------------------------------------------------------------------------
\* Audio

\* A muxer that puts two packets on a page.
Merged(pages) ==
  IF Len(pages) < 5 THEN pages
  ELSE SubSeq(pages, 1, 3)
         \o <<[granule |-> pages[5].granule, segs |-> pages[4].segs \o pages[5].segs,
               payload |-> pages[4].payload \o pages[5].payload]>>
         \o SubSeq(pages, 6, Len(pages))

ThroughOgg ==
  /\ Open("audio")
  /\ \E pages \in A!WemToOgg(stored) : \E wem \in A!OggToWem(pages) : Saved(wem, meant)

\* The sound of another recording, unless it does not fit.
ReplaceAudio ==
  /\ Open("audio")
  /\ \E other \in Recordings, merged \in BOOLEAN : \E pages \in A!WemToOgg(other) :
     \E made \in {A!ReplaceWemAudio(stored, IF merged THEN Merged(pages) ELSE pages)} :
       IF made = {} THEN Saved(stored, meant)
       ELSE \E wem \in made, heard \in {UNION {w.pages : w \in ShownAudio(other)}} :
              Saved(wem, {[m EXCEPT !.pages = heard, !.samples = A!LastGranulePosition(pages)] : m \in meant})

-----------------------------------------------------------------------------
\* Meshes

\* The grid is searched for vertices less than its side and one cell away; a small part
\* is searched as a whole.
InReach(part, d) ==
  \/ Len(part.verts) <= LinearMax
  \/ d * M!CellsAcross * M!CellsAcross
       < (M!CellsAcross + 1) * (M!CellsAcross + 1) * M!Longest(part.verts) * M!Longest(part.verts)

\* The skins of the vertices of the part as it was that lie there, to five decimals, or
\* of the nearest ones in reach; when there is none, any of the part's.
NearestSkins(part, pos) ==
  LET Dist(k) == M!DistSq(part.verts[k].pos, pos)
      there == {k \in DOMAIN part.verts : M!QuantizeKey(part.verts[k].pos) = M!QuantizeKey(pos)}
      nearest == {k \in DOMAIN part.verts : \A j \in DOMAIN part.verts : Dist(k) <= Dist(j)}
      donors == CASE there # {} -> there
                  [] \E k \in nearest : InReach(part, Dist(k)) -> nearest
                  [] OTHER -> DOMAIN part.verts
  IN {part.verts[k].skin : k \in donors}

\* A rebuilt part takes the records of the nearest vertices; one whose vertices all
\* stay keeps its own, as do vertices of which the import tells where they were.
SkinsAfter(old, new) ==
  [k \in DOMAIN old |->
     [v \in DOMAIN new[k].verts |->
        IF ~M!PacNeedsFullRebuild(old, new) \/ v - 1 \in Range(new[k].map)
        THEN {old[k].verts[v].skin} ELSE NearestSkins(old[k], new[k].verts[v].pos)]]

\* `given` is what the import hands over, `whole` the mesh the user means by it, `old`
\* the one the file shows.
SaveMesh(old, given, whole) ==
  \E pac \in M!BuildPac(given, stored) :
     Saved(pac, [parts |-> ShownMesh(whole), skins |-> SkinsAfter(old, whole), others |-> meant.others])

Moved(mesh, k, v, pos) == [mesh EXCEPT ![k].verts[v].pos = pos]
OnlyPart(mesh, k, name) == <<[mesh[k] EXCEPT !.name = name]>>

SaveWhole(mesh, whole) == SaveMesh(mesh, whole, whole)

MoveVertex ==
  /\ Open("mesh")
  /\ \E mesh \in Meshes(stored) : \E k \in DOMAIN mesh : \E v \in DOMAIN mesh[k].verts, pos \in Places :
       SaveWhole(mesh, Moved(mesh, k, v, pos))

\* A new vertex and a face that uses it.  With a map the import knows of the others
\* where they were.
Grown(mesh, k, pos, mapped, n) ==
  [mesh EXCEPT
     ![k].verts = Append(@, [@[1] EXCEPT !.pos = pos]),
     ![k].faces = Append(@, <<0, 1, n>>),
     ![k].map = IF mapped THEN [v \in 1 .. n + 1 |-> IF v > n THEN -1 ELSE v - 1] ELSE <<>>]
AddVertex ==
  /\ Open("mesh")
  /\ \E mesh \in Meshes(stored) : \E k \in DOMAIN mesh, pos \in Places \cup FarPlaces, mapped \in BOOLEAN :
       /\ Len(mesh[k].verts) < MaxVerts
       /\ SaveWhole(mesh, Grown(mesh, k, pos, mapped, Len(mesh[k].verts)))

DropFace ==
  /\ Open("mesh")
  /\ \E mesh \in Meshes(stored) : \E k \in DOMAIN mesh :
       Len(mesh[k].faces) > 1 /\ SaveWhole(mesh, [mesh EXCEPT ![k].faces = Tail(@)])

\* The parts come in another order.
Reorder ==
  /\ Open("mesh")
  /\ \E mesh \in Meshes(stored) : \E k \in DOMAIN mesh, pos \in Places :
       SaveMesh(mesh, Reverse(Moved(mesh, k, 1, pos)), Moved(mesh, k, 1, pos))

\* Only the edited part comes back, under another name, or under none when it is the
\* first one.
GivePart ==
  /\ Open("mesh")
  /\ \E mesh \in Meshes(stored) : \E k \in DOMAIN mesh, pos \in Places, name \in PartNames :
       /\ name = <<>> => k = 1
       /\ SaveMesh(mesh, OnlyPart(Moved(mesh, k, 1, pos), k, name), Moved(mesh, k, 1, pos))

-----------------------------------------------------------------------------

Next ==
  \/ ReplacePacked \/ ReplaceUser
  \/ EditLine \/ AddLine \/ DropLine
  \/ Paint \/ Overwrite
  \/ ThroughOgg \/ ReplaceAudio
  \/ MoveVertex \/ AddVertex \/ DropFace \/ Reorder \/ GivePart

Spec == Init /\ [][Next]_vars

-----------------------------------------------------------------------------
\* A file of the game comes out of the archive as it was packed, and a replaced or a
\* user's file as it was given: however its bytes lie in the archive, whether enciphered
\* or not, and whatever was stored in its place before, the ladder of layouts that
\* reading tries takes the right one.
UnpackedIsOriginal == kind \in {"packed", "user"} => P!ReadEntry(stored.bytes, stored.entry) = meant

\* Localisation lines are found again in the byte stream they were written to, with
\* their keys and texts, in order, also when they were typed by another program; what
\* separates one from the next is never taken for a line.
StringsKept == kind = "text" => S!ScanEntries(stored) = meant

\* The channels a texture stores are those of the last picture saved: painted blocks
\* are as painted, the others as before, whatever number of times the picture was
\* decoded and encoded, and a texture that has no view, or a picture that cannot
\* become one, leaves the file alone.
TexturesKept == kind = "texture" => ShownTexture(stored) = meant

\* A WEM plays the headers and packets it played before it went through Ogg, or those
\* of the recording put in its place, for as long, with the chunks it had besides.
PacketsKept == kind = "audio" => ShownAudio(stored) = meant

\* The mesh read from a saved .pac is the one that was saved, in the original's order of
\* parts, whether it was written in place or rebuilt; the sections that are not meshes
\* come through, and the level tables of a rebuilt file point at its sections.
Levelled(secs, size) ==
  \A sec \in Range(secs) : sec.index \in 1 .. M!LodCount(stored, secs) =>
    /\ TableEntry(stored, secs, 0, sec) = sec.offset
    /\ TableEntry(stored, secs, 1, sec) - sec.offset = size
MeshReadsBack ==
  kind = "mesh" =>
    /\ ShownMesh(TheMesh(stored)) = meant.parts
    /\ OtherSections(stored, Sections(stored)) = meant.others
    /\ Levelled(Sections(stored), VertexBytes(TheMesh(stored)))

\* A vertex keeps its bones as long as it is known where it was; one of a rebuilt part
\* that is new or has moved has those of a nearest vertex of the part as it was, which
\* the search over the grid of cells must not miss when it is less than the longest side
\* of the part and one cell away.  (Further off the search may end with nothing, and the
\* vertex gets the bones of the part's first record, however far that is.)
BonesFollow ==
  kind = "mesh" =>
    \A skins \in {Skins(mesh) : mesh \in Meshes(stored)} : \A k \in DOMAIN skins :
      \A v \in DOMAIN skins[k] : skins[k][v] \subseteq meant.skins[k][v]
=============================================================================
