------------------------------ MODULE MCAssets ------------------------------
\* Small files of each kind, built the way the game's own tools lay them out.
EXTENDS Assets, TLC

-----------------------------------------------------------------------------
\* Archives: a picture with three mips and a file of two sections.

Bytes(n, v) == [k \in 1 .. n |-> P!Raw(v)]
Slots(ss) == [k \in 1 .. 11 |-> IF k \in DOMAIN ss THEN ss[k] ELSE [comp |-> 0, size |-> 0]]
Dds(fmt, data) ==
  [magic |-> "DDS", fmt |-> fmt, w |-> 4, h |-> 4, mips |-> IF fmt = "L8" THEN 3 ELSE 1, slots |-> Slots(<<>>), data |-> data]
Par(data) == [Dds("none", data) EXCEPT !.magic = "PAR", !.slots = Slots(<<[comp |-> 0, size |-> 16], [comp |-> 0, size |-> 3]>>)]

Mip0 == Bytes(16, 7)
Mip1 == Bytes(4, 8)
Mip2 == Bytes(1, 9)
Picture == Dds("L8", Mip0 \o Mip1 \o Mip2)
Wide == Dds("BC7", Bytes(20, 1) \o Bytes(16, 3))
Sectioned == Par(Bytes(16, 5) \o Bytes(3, 6))
Odd == Dds("odd", Bytes(19, 4))

Lz4(s) == P!Lz4Compress(s)
Comp(n) == [comp |-> n, size |-> 0]

InOne(f) == [f EXCEPT !.data = Lz4(@)]
PerMip == [Picture EXCEPT !.data = Lz4(Mip0) \o Mip1 \o Mip2, !.slots = Slots(<<Comp(Len(Lz4(Mip0))), Comp(4)>>)]
FirstMip == [Picture EXCEPT !.data = Lz4(Mip0) \o Mip1 \o Mip2]
BySection == [Sectioned EXCEPT !.data = Lz4(Bytes(16, 5)) \o Bytes(3, 6), !.slots[1].comp = Len(Lz4(Bytes(16, 5)))]
OfMip == [Wide EXCEPT !.data = Bytes(20, 1) \o Lz4(Bytes(16, 3)), !.slots = Slots(<<Comp(Len(Lz4(Bytes(16, 3))))>>)]

Entry(bytes, file, type, secret) ==
  [comp |-> bytes.len, orig |-> P!Size(file), type |-> type, secret |-> secret, name |-> "a.dds"]
Packed(bytes, file, type, secret) ==
  [shows |-> {P!Plain(file)},
   stored |-> [bytes |-> IF secret THEN P!Crypt(bytes, "a.dds") ELSE bytes, entry |-> Entry(bytes, file, type, secret)]]
Layouts ==
  {<<InOne(Picture), Picture>>, <<InOne(Odd), Odd>>,
   <<PerMip, [Picture EXCEPT !.slots = PerMip.slots]>>, <<FirstMip, Picture>>,
   <<BySection, Sectioned>>, <<OfMip, [Wide EXCEPT !.slots = OfMip.slots]>>, <<Picture, Picture>>}
Packings ==
  {<<P!Plain(l[1]), l[2], "type1">> : l \in Layouts}
    \cup {<<P!Lz4Whole(P!Plain(Sectioned)), Sectioned, "lz4">>,
          <<[P!Plain(Odd) EXCEPT !.packed = "zlib", !.len = 99], Odd, "zlib">>,
          <<P!Plain(Odd), Odd, "none">>}
PackedFiles == {Packed(p[1], p[2], p[3], secret) : p \in Packings, secret \in BOOLEAN}
UserFiles == {Packed(P!Lz4Whole(P!Plain(Odd)), Odd, "lz4", secret) : secret \in BOOLEAN}

MCPayloads == {Picture, Sectioned, Odd, Wide}

-----------------------------------------------------------------------------
\* Strings: numbered and named ones behind a count, one with characters that a line
\* escapes.

Speech == <<34, 72, 92, 10, 11, 44, 58>>
MCPhrases == {Speech, <<72, 105>>, <<>>, <<107>>}
MCKeys == {<<49, 50>>, <<109, 46, 97>>, <<118>>}

TextFile ==
  S!Word(2) \o S!Word(0) \o S!Prefixed(<<55>>) \o S!Prefixed(Speech) \o S!Prefixed(<<109, 95>>) \o S!Prefixed(<<>>)
TextFiles == {[stored |-> TextFile,
               shows |-> <<[key |-> <<55>>, value |-> Speech], [key |-> <<109, 95>>, value |-> <<>>]>>]}

-----------------------------------------------------------------------------
\* Textures

Rgb(r, g, b, a) == [r |-> r, g |-> g, b |-> b, a |-> a]
Warm == Rgb(74, 72, 65, 30)
Dark == Rgb(8, 12, 16, 2)
Halves(c, d) == [k \in 0 .. 15 |-> IF k % 4 < 2 THEN c ELSE d]
MCPaints == {Halves(Warm, Dark), Halves(Dark, Warm), Halves(Dark, Dark)}

Ramp == [c0 |-> 30, c1 |-> 2, idx |-> [k \in 0 .. 15 |-> k % 8]]
Fade == [c0 |-> T!To565(Warm), c1 |-> T!To565(Dark), idx |-> [k \in 0 .. 15 |-> k % 4]]
Block(fmt) == [k \in DOMAIN T!Parts(fmt) |-> IF T!Parts(fmt)[k] = "colour" THEN Fade ELSE Ramp]
Texture(fmt, w) ==
  [fmt |-> fmt, dx10 |-> FALSE, cubemap |-> FALSE, volume |-> FALSE, array |-> 1, mips |-> 1, w |-> w, h |-> 4,
   blocks |-> [n \in 0 .. T!BlocksAcross(w) - 1 |-> IF T!Encodable([fmt |-> fmt]) THEN Block(fmt) ELSE <<>>]]
Dx10(dds, n) == [dds EXCEPT !.dx10 = TRUE, !.array = n, !.mips = 3]

Pictures ==
  {Texture("Bc1", 5), Texture("Bc3", 5), Texture("Bc4", 6), Dx10(Texture("Bc5", 4), 1),
   Dx10(Texture("Bc1", 4), 2), [Texture("Bc3", 4) EXCEPT !.cubemap = TRUE],
   [Texture("Bc1", 4) EXCEPT !.volume = TRUE], Texture("Bc7", 4)}
TextureFiles == {[stored |-> dds, shows |-> ShownTexture(dds)] : dds \in Pictures}

-----------------------------------------------------------------------------
\* Audio: a field is its value and how many bits it takes in Vorbis and in Wwise form.

F(v, n) == <<v, n, n>>
Form(fields, form) == FlattenSeq([k \in DOMAIN fields |-> B!Bits(fields[k][1], fields[k][form])])

\* Codebooks: with a lookup table; ordered by length; with unused entries.
Book1(v) ==
  <<<<2, 16, 4>>, <<4, 24, 14>>, <<0, 1, 1>>, <<2, 0, 3>>, <<0, 1, 1>>, <<1, 5, 2>>, <<2, 5, 2>>, <<v, 5, 2>>,
    <<3, 5, 2>>, <<1, 4, 1>>, <<7, 30, 30>>, <<0, 2, 2>>, <<9, 30, 30>>, <<1, 2, 2>>, <<1, 4, 4>>, <<0, 1, 1>>,
    <<3, 2, 2>>, <<v, 2, 2>>>>
Book2(v) == <<<<1, 16, 4>>, <<3, 24, 14>>, <<1, 1, 1>>, <<v, 5, 5>>, <<1, 2, 2>>, <<2, 2, 2>>, <<0, 4, 1>>>>
Book3(v) == <<<<1, 16, 4>>, <<3, 24, 14>>, <<0, 1, 1>>, <<3, 0, 3>>, <<1, 1, 1>>, <<1, 1, 1>>, <<v, 5, 3>>,
              <<0, 1, 1>>, <<1, 1, 1>>, <<5, 5, 3>>, <<0, 4, 1>>>>
Books == [default |-> <<Book1(0), Book2(1)>>, aotuv |-> <<Book3(2), Book2(3)>>]

Library(books) ==
  LET packed == [k \in DOMAIN books |-> B!Finish(Form(books[k], 3))]
      Start(k) == B!SumOf([j \in 1 .. k |-> Len(packed[j])])
  IN FlattenSeq(packed) \o FlattenSeq([k \in 1 .. Len(books) + 1 |-> B!LE(Start(k - 1), 4)])
       \o B!LE(Start(Len(books)), 4)
MCLibraries == [l \in DOMAIN Books |-> Library(Books[l])]

\* Time domain, floor, residue, mapping and two modes of a setup.
Setup(x) ==
  <<<<0, 6, 0>>, <<0, 16, 0>>,
    F(0, 6), <<1, 16, 0>>, F(2, 5), F(0, 4), F(1, 4), F(1, 3), F(0, 2), F(x, 8), F(0, 3), F(1, 2), F(4, 8),
    F(5, 8), F(6, 8), F(1, 2), F(3, 4), F(1, 3), F(2, 3), F(3, 3),
    F(0, 6), <<2, 16, 2>>, F(0, 24), F(9, 24), F(3, 24), F(1, 6), F(2, 8), F(1, 3), F(0, 1), F(4, 3), F(1, 1),
    F(1, 5), F(7, 8), F(8, 8), F(9, 8),
    F(0, 6), <<0, 16, 0>>, F(1, 1), F(1, 4), F(1, 1), F(0, 8), F(0, 1), F(1, 1), F(0, 2), F(0, 4), F(1, 4),
    F(0, 8), F(1, 8), F(0, 8), F(0, 8), F(1, 8), F(0, 8),
    F(1, 6), F(0, 1), <<0, 16, 0>>, <<0, 16, 0>>, F(0, 8), F(1, 1), <<0, 16, 0>>, <<0, 16, 0>>, F(0, 8), <<1, 1, 0>>>>
FullSetup(lib, ids, x) ==
  <<5, 118, 111, 114, 98, 105, 115>>
    \o B!Finish(B!Bits(Len(ids) - 1, 8)
                \o FlattenSeq([k \in DOMAIN ids |-> Form(<<<<5653314, 24, 0>>>> \o Books[lib][ids[k] + 1], 2)])
                \o Form(Setup(x), 2))
Stripped(ids, x) ==
  B!Finish(B!Bits(Len(ids) - 1, 8) \o FlattenSeq([k \in DOMAIN ids |-> B!Bits(ids[k], 10)]) \o Form(Setup(x), 3))
MCFullSetups == {FullSetup("default", <<0, 1>>, 3), FullSetup("aotuv", <<1, 0>>, 4)}

Preamble == <<1, 2, 3, 4>>
Format(channels, setup) ==
  A!LE(65535, 2) \o A!LE(channels, 2) \o A!LE(48000, 4) \o A!Zeros(8) \o A!LE(48, 2) \o A!Zeros(6)
    \o A!LE(70, 4) \o A!Zeros(12) \o A!LE(Len(Preamble), 4) \o A!LE(Len(Preamble) + 2 + Len(setup), 4)
    \o A!Zeros(16) \o <<8, 11>>
Riff(body) == <<82, 73, 70, 70>> \o A!LE(Len(body), 4) \o body
Chunk(id, body) == A!WriteChunk([id |-> id, body |-> body])
Wem(channels, setup, packets) ==
  Riff(<<87, 65, 86, 69>> \o Chunk(A!FmtId, Format(channels, setup)) \o Chunk(<<99, 117, 101, 32>>, <<1, 2, 3>>)
       \o Chunk(A!DataId, Preamble \o A!LE(Len(setup), 2) \o setup \o A!DataChunk2Byte(packets)))

\* Channels, books, setup and packets of the recordings.
Takes == {<<2, <<0, 1>>, 3, <<<<1, 5>>, <<7, 9>>, <<0, 254>>>>>>, <<2, <<1, 0>>, 4, <<<<2, 5, 8>>, <<3, 77>>>>>>,
          <<1, <<0, 1>>, 3, <<<<1, 5>>, <<6, 1>>>>>>}
MCRecordings == {Wem(t[1], Stripped(t[2], t[3]), t[4]) : t \in Takes}
AudioFiles == {[stored |-> wem, shows |-> ShownAudio(wem)] : wem \in MCRecordings}

-----------------------------------------------------------------------------
\* Meshes: two parts in two levels, the sections of their two coarser levels empty.

At(x, y, z) == <<x, y, z>>
MCPlaces == {At(40, 50, 60), At(44, 14, 24)}
MCFarPlaces == {At(30, 230, 40)}
MCPartNames == {<<122>>, <<>>}
Body == <<At(10, 10, 10), At(50, 10, 20), At(10, 60, 30), At(30, 30, 90)>>
Belt == <<At(100, 100, 100), At(150, 110, 120), At(110, 160, 130)>>
BoxOf(ps) == M!ComputeBbox([k \in DOMAIN ps |-> [pos |-> ps[k]]])

VertexRecord(p, box, bone) ==
  FlattenSeq([i \in 1 .. 3 |-> M!LE(M!QuantizePacU16(p[i], box.lo[i], box.extent[i]), 2)])
    \o <<9, 9>> \o M!LE(15360 + bone, 2) \o M!LE(14336, 2) \o M!Marker \o <<bone, 2, 8, 160>>
    \o M!Zeros(8) \o <<200, 55, 0, 0, bone, 1, 255, 255, 0, 0, 0, 0>>
Descriptor(name, box, verts, indices) ==
  <<Len(name)>> \o name \o <<1, 109>> \o <<1>> \o M!Zeros(10)
    \o FlattenSeq([i \in 1 .. 3 |-> M!LE(box.lo[i], 4)]) \o FlattenSeq([i \in 1 .. 3 |-> M!LE(box.extent[i], 4)])
    \o <<2, 0, 1, 0, 0>> \o M!LE(verts, 2) \o M!LE(verts, 2) \o M!LE(indices, 4) \o M!LE(indices, 4)
Records(ps, box, bone) == FlattenSeq([k \in DOMAIN ps |-> VertexRecord(ps[k], box, bone + k)])
Level == Records(Body, BoxOf(Body), -1) \o Records(Belt, BoxOf(Belt), 9)
           \o <<0, 0, 1, 0, 2, 0, 0, 0, 2, 0, 3, 0>> \o <<0, 0, 1, 0, 2, 0>>
Collision == <<7, 7, 7>>

SectionZero(n) ==
  M!Zeros(4) \o <<4>> \o M!LE(231 + n, 4) \o M!LE(231, 4) \o M!Zeros(8)
    \o M!LE(231 + n + 280, 4) \o M!LE(231 + 280, 4) \o M!Zeros(8)
    \o Descriptor(<<97, 49>>, BoxOf(Body), 4, 6) \o Descriptor(<<98, 49>>, BoxOf(Belt), 3, 3)
PacOf(sec0, level) ==
  M!Magic \o M!Zeros(12)
    \o FlattenSeq([k \in 1 .. 8 |-> M!Zeros(4) \o M!LE(CASE k = 1 -> Len(sec0) [] k \in {4, 5} -> Len(level)
                                                        [] k = 6 -> Len(Collision) [] OTHER -> 0, 4)])
    \o sec0 \o level \o level \o Collision
Pac == PacOf(SectionZero(Len(Level)), Level)
MeshFiles == {[stored |-> pac, shows |-> ShownPac(pac)] : pac \in {Pac}}

-----------------------------------------------------------------------------

MCShipped ==
  [packed |-> PackedFiles, user |-> UserFiles, text |-> TextFiles,
   texture |-> TextureFiles, audio |-> AudioFiles, mesh |-> MeshFiles]
=============================================================================
