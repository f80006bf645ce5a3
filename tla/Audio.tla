------------------------------- MODULE Audio --------------------------------
\* Wwise audio files and their Ogg form: the RIFF container, the Ogg pages, the
\* comment that carries what Ogg cannot, and the three conversions.
\* (audio/wem.rs, ogg.rs, mod.rs)
\*
\* An Ogg file is a sequence of pages [granule, segs, payload]; serial and sequence
\* numbers and checksums are left out.  In the comment a number takes four bytes, and
\* its labels one letter in all.
EXTENDS Vorbis

CONSTANT
  FullSetups     \* the setup packets of the recordings there are (see Ww2ogg)

MaxLace == 255

-----------------------------------------------------------------------------
\* WEM

IsRiff(s) == Len(s) >= 12 /\ Cut(s, 0, 4) \in {<<82, 73, 70, 70>>, <<82, 73, 70, 88>>}
             /\ Cut(s, 8, 4) = <<87, 65, 86, 69>>
Size32(s, at) == Unsigned(IF s[4] = 88 THEN Reverse(Cut(s, at, 4)) ELSE Cut(s, at, 4), 0, 4)
FmtId == <<102, 109, 116, 32>>
DataId == <<100, 97, 116, 97>>

\* The chunks of a file; a missing pad byte at the end is no error.
Chunks(s) ==
  LET from[at \in 0 .. Len(s) + 1] ==
        CASE at + 4 > Len(s) -> {<<>>}
          [] at + 8 > Len(s) -> {}
          [] OTHER ->
               LET n == Size32(s, at + 4)
               IN IF at + 8 + n > Len(s) THEN {}
                  ELSE {<<[id |-> Cut(s, at, 4), body |-> Cut(s, at + 8, n)]>> \o more :
                          more \in from[at + 8 + n + (n % 2)]}
  IN IF IsRiff(s) THEN from[12] ELSE {}

OfId(chunks, id) == SelectSeq(chunks, LAMBDA c : c.id = id)

\* Where the vorb fields lie in a fmt chunk.
Vorb == 24
SampleCount(fmt) == Unsigned(fmt, Vorb, 4)
SetupOffset(fmt) == Unsigned(fmt, Vorb + 16, 4)
FirstAudio(fmt)  == Unsigned(fmt, Vorb + 20, 4)

ParseFmt(raw) ==
  IF Len(raw) >= Vorb + 42 /\ Unsigned(raw, 0, 2) \in {65534, 65535} /\ Unsigned(raw, 16, 2) = 48
  THEN {[raw |-> raw, channels |-> Unsigned(raw, 2, 2), rate |-> Unsigned(raw, 4, 4),
         samples |-> SampleCount(raw), setup |-> SetupOffset(raw), first |-> FirstAudio(raw),
         bs |-> Cut(raw, Vorb + 40, 2)]}
  ELSE {}

\* Only the 0x30 layout is known, and with it packet headers of two bytes.
DetectFormat(fmt) == 2

ParseWem(s) ==
  UNION {LET fmts == OfId(chunks, FmtId)
             datas == OfId(chunks, DataId)
         IN IF fmts = <<>> \/ datas = <<>> THEN {}
            ELSE {[fmt |-> f, header |-> DetectFormat(f), data |-> datas[Len(datas)].body,
                   extra |-> SelectSeq(chunks, LAMBDA c : c.id \notin {FmtId, DataId})] :
                    f \in ParseFmt(fmts[Len(fmts)].body)} : chunks \in Chunks(s)}

PatchButSamples(fmt, samples, setup, first, bs) ==
  Patched(Patched(fmt, Vorb + 16, LE(setup, 4) \o LE(first, 4)), Vorb + 40, bs)

PatchFmtVorb(fmt, samples, setup, first, bs) ==
  Patched(Patched(Patched(fmt, Vorb, LE(samples, 4)), Vorb + 16, LE(setup, 4) \o LE(first, 4)),
          Vorb + 40, bs)

WriteChunk(c) == c.id \o LE(Len(c.body), 4) \o c.body \o (IF Len(c.body) % 2 = 1 THEN <<0>> ELSE <<>>)

\* The offset of the bytes of the first data chunk.
FindDataContentOffset(s) ==
  LET from[at \in 0 .. Len(s) + 1] ==
        IF at + 8 > Len(s) THEN {}
        ELSE IF Cut(s, at, 4) = DataId THEN {at + 8}
        ELSE LET n == Unsigned(s, at + 4, 4)
                 next == at + 8 + n + (n % 2)
             IN IF next > Len(s) THEN {} ELSE from[next]
  IN from[12]

-----------------------------------------------------------------------------
\* Ogg pages

BuildSegmentTable(n) ==
  [k \in 1 .. n \div MaxLace |-> MaxLace] \o <<n % MaxLace>>
    \o (IF n > 0 /\ n % MaxLace = 0 THEN <<0>> ELSE <<>>)

PayloadLen(page) == SumOf(page.segs)

\* The payload of all pages cut by their lacing values: a packet ends with the first
\* value below 255, and a packet without bytes is dropped.
ExtractVorbisPackets(pages) ==
  LET Segment(st, n) ==
        LET now == st.current \o Cut(st.bytes, 0, n)
            ends == n < MaxLace /\ now # <<>>
        IN [current |-> IF ends THEN <<>> ELSE now, bytes |-> Rest(st.bytes, n),
            packets |-> IF ends THEN Append(st.packets, now) ELSE st.packets]
      Page(st, page) == FoldLeft(Segment, [st EXCEPT !.bytes = page.payload], page.segs)
      end == FoldLeft(Page, [current |-> <<>>, bytes |-> <<>>, packets |-> <<>>], pages)
  IN IF end.current = <<>> THEN end.packets ELSE Append(end.packets, end.current)

\* One entry for each page behind the third.
ExtractGranulePositions(pages, audio) ==
  [k \in 1 .. Min({audio, IF Len(pages) < 3 THEN 0 ELSE Len(pages) - 3}) |-> pages[k + 3].granule]

NoGranule == -1
LastGranulePosition(pages) ==
  FoldLeft(LAMBDA last, p : IF p.granule = NoGranule THEN last ELSE p.granule, 0, pages)

Mark(kind) == <<kind, 118, 111, 114, 98, 105, 115>>
HasMark(packet, kind) == Len(packet) >= 7 /\ Cut(packet, 0, 7) = Mark(kind)

RebuildPage(page, payload) ==
  [page EXCEPT !.segs = BuildSegmentTable(Len(payload)), !.payload = payload]

ReplaceCommentPacket(pages, comment) ==
  LET at == {k \in DOMAIN pages : HasMark(pages[k].payload, 3)}
  IN IF at = {} THEN {} ELSE {[pages EXCEPT ![Min(at)] = RebuildPage(@, comment)]}

ParseIdHeader(packet) ==
  IF Len(packet) >= 30 /\ HasMark(packet, 1) /\ packet[12] # 0 /\ Unsigned(packet, 12, 4) # 0
  THEN {[channels |-> packet[12], rate |-> Unsigned(packet, 12, 4),
         bs |-> <<packet[29] % 16, packet[29] \div 16>>]}
  ELSE {}

-----------------------------------------------------------------------------
\* WEM_ROUNDTRIP_V1

TagLetter == 87
HexEncode(s) == Concat([k \in DOMAIN s |-> <<s[k] \div 16, s[k] % 16>>])
HexDecode(h) == IF Len(h) % 2 # 0 THEN {}
                ELSE {[k \in 1 .. Len(h) \div 2 |-> 16 * h[2 * k - 1] + h[2 * k]]}
Field(s) == LE(Len(s), 4) \o s

BuildVorbisCommentPacket(vendor, comments) ==
  Mark(3) \o Field(vendor) \o LE(Len(comments), 4)
    \o Concat([k \in DOMAIN comments |-> Field(comments[k])]) \o <<1>>

BuildRoundtripComment(wem, s) ==
  LET setup == wem.fmt.setup
      size == Unsigned(wem.data, setup, 2)
      header == Cut(s, 0, CHOOSE n \in FindDataContentOffset(s) : TRUE)
      tag == <<TagLetter>> \o LE(wem.header, 4) \o LE(wem.fmt.channels, 4)
               \o Field(HexEncode(header)) \o Field(HexEncode(Cut(wem.data, 0, setup)))
               \o Field(HexEncode(Cut(wem.data, setup, 2 + size)))
  IN BuildVorbisCommentPacket([k \in 1 .. 8 |-> 119], <<tag>>)

ParseMeta(tag) ==
  LET FieldAt(at) == Cut(tag, at + 4, Unsigned(tag, at, 4))
      a == 9
      b == a + 4 + Len(FieldAt(a))
      c == b + 4 + Len(FieldAt(b))
  IN IF tag = <<>> \/ tag[1] # TagLetter THEN {}
     ELSE {[packetHeader |-> Unsigned(tag, 1, 4), channels |-> Unsigned(tag, 5, 4),
            header |-> h, preamble |-> p, setup |-> s] :
             h \in HexDecode(FieldAt(a)), p \in HexDecode(FieldAt(b)), s \in HexDecode(FieldAt(c))}

\* The first comment that is a tag.
ParseRoundtripComment(packet) ==
  LET first == 7 + 4 + Unsigned(packet, 7, 4)
      Next(st, k) ==
        LET n == Unsigned(packet, st.at, 4)
        IN [at |-> st.at + 4 + n,
            meta |-> IF st.meta # {} THEN st.meta ELSE ParseMeta(Cut(packet, st.at + 4, n))]
  IN IF Len(packet) < 11 \/ ~HasMark(packet, 3) THEN {}
     ELSE FoldLeft(Next, [at |-> first + 4, meta |-> {}],
                   [k \in 1 .. Unsigned(packet, first, 4) |-> k]).meta

-----------------------------------------------------------------------------
\* ww2ogg: headers and packets put back in Vorbis form.  A setup packet is found
\* among those there are; with the wrong library none fits.

DefaultLut == Lut("default")
AotuvLut == Lut("aotuv")

WwisePackets(data, first) ==
  LET from[at \in 0 .. Len(data)] ==
        IF at + 2 > Len(data) \/ at + 2 + Unsigned(data, at, 2) > Len(data) THEN <<>>
        ELSE <<Cut(data, at + 2, Unsigned(data, at, 2))>> \o from[at + 2 + Unsigned(data, at, 2)]
  IN IF first > Len(data) THEN <<>> ELSE from[first]

\* The type bit in front, and the window bits of a long block from its neighbours.
VorbisPackets(packets, modes) ==
  LET w == Ilog(Len(modes) - 1)
      Long(k) == LET mode == Value(Cut(ToBits(packets[k]), 0, w))
                 IN IF k \in DOMAIN packets /\ mode < Len(modes) THEN modes[mode + 1] ELSE 0
  IN [k \in DOMAIN packets |->
        Finish(<<0>> \o Cut(ToBits(packets[k]), 0, w)
               \o (IF Long(k) = 1 THEN <<IF k = 1 THEN 0 ELSE Long(k - 1),
                                         IF k = Len(packets) THEN 0 ELSE Long(k + 1)>> ELSE <<>>)
               \o Rest(ToBits(packets[k]), w))]

OnePage(packet, granule) ==
  [granule |-> granule, payload |-> packet,
   segs |-> [k \in 1 .. Len(packet) \div MaxLace |-> MaxLace] \o <<Len(packet) % MaxLace>>]

IdHeader(fmt) ==
  Mark(1) \o LE(0, 4) \o <<fmt.channels>> \o LE(fmt.rate, 4) \o LE(0, 4) \o LE(0, 4) \o LE(0, 4)
    \o <<fmt.bs[1] + 16 * fmt.bs[2], 1>>

OggPages(fmt, full, audio) ==
  <<OnePage(IdHeader(fmt), 0), OnePage(BuildVorbisCommentPacket(<<>>, <<>>), 0), OnePage(full, 0)>>
    \o [k \in DOMAIN audio |-> OnePage(audio[k], k)]
SetupsOf(stripped, channels, lut) ==
  {full \in FullSetups : StripSetupHeader(full, channels, lut) = {stripped}}

Ww2ogg(wem, lut) ==
  UNION {{OggPages(wem.fmt, full, VorbisPackets(WwisePackets(wem.data, wem.fmt.first), modes)) :
            modes \in ExtractModes(full, wem.fmt.channels)} :
           full \in SetupsOf(Cut(wem.data, wem.fmt.setup + 2, Unsigned(wem.data, wem.fmt.setup, 2)),
                             wem.fmt.channels, lut)}

-----------------------------------------------------------------------------
\* Conversions

OrElse(first, second) == IF first # {} THEN first ELSE second
\* Ww2ogg, the library and its validation (external), gives what the stripped setup stands
\* for with the books of a library, and nothing when a book is of the other one.  Only a
\* mismatch of sizes and a stream that does not decode make the code try the second; any
\* other error ends the conversion, and here no action takes place.  An undecodable stream
\* of the second, which the code returns with a warning, is left out.
ConvertWithAutoDetect(wem) == OrElse(Ww2ogg(wem, DefaultLut), Ww2ogg(wem, AotuvLut))

WemToOgg(s) ==
  UNION {UNION {ReplaceCommentPacket(pages, BuildRoundtripComment(wem, s)) :
                  pages \in ConvertWithAutoDetect(wem)} : wem \in ParseWem(s)}

\* The data chunk of the tag is put behind its header, whose last four bytes and RIFF
\* size are set.
RejoinedWem(meta, content) ==
  LET n == Len(meta.header)
  IN Patched(Patched(meta.header, n - 4, LE(Len(content), 4)), 4, LE(n + Len(content) - 8, 4))
       \o content

StrippedAudio(packets, channels) ==
  UNION {StripAll(Rest(packets, 3), modes) : modes \in ExtractModes(packets[3], channels)}

DataChunk(header, pages, stripped) ==
  CASE header = 2 -> {DataChunk2Byte(stripped)}
    [] header = 6 -> {DataChunk6Byte(ExtractGranulePositions(pages, Len(stripped)), stripped)}
    [] OTHER -> {}
WemsOf(meta, pages, packets) ==
  UNION {{RejoinedWem(meta, meta.preamble \o meta.setup \o body) :
            body \in DataChunk(meta.packetHeader, pages, stripped)} :
           stripped \in StrippedAudio(packets, meta.channels)}
WithItsTag(pages, packets) ==
  IF Len(packets) < 3 THEN {}
  ELSE UNION {WemsOf(meta, pages, packets) : meta \in ParseRoundtripComment(packets[2])}

OggToWem(pages) == WithItsTag(pages, ExtractVorbisPackets(pages))

\* A stripped setup by the first library that has all its books.
StrippedByEither(setup, channels) ==
  OrElse(StripSetupHeader(setup, channels, DefaultLut), StripSetupHeader(setup, channels, AotuvLut))

RebuiltWem(orig, id, setup, packets, samples) ==
  LET head == LE(Len(setup), 2) \o setup
      fmt == PatchFmtVorb(orig.fmt.raw, samples, 0, Len(head), id.bs)
      chunks == <<[id |-> FmtId, body |-> fmt]>> \o orig.extra
                  \o <<[id |-> DataId, body |-> head \o DataChunk2Byte(packets)]>>
      body == <<87, 65, 86, 69>> \o Concat([k \in DOMAIN chunks |-> WriteChunk(chunks[k])])
  IN <<82, 73, 70, 70>> \o LE(Len(body), 4) \o body

Fits(orig, id) == orig.header = 2 /\ id.channels = orig.fmt.channels /\ id.rate = orig.fmt.rate
Replacements(origs, id, packets, samples) ==
  {RebuiltWem(orig, id, setup, audio, samples) :
     orig \in {o \in origs : Fits(o, id)}, setup \in StrippedByEither(packets[3], id.channels),
     audio \in StrippedAudio(packets, id.channels)}
ReplacedBy(origs, packets, samples) ==
  IF Len(packets) < 4 THEN {} ELSE UNION {Replacements(origs, id, packets, samples) : id \in ParseIdHeader(packets[1])}

ReplaceWemAudio(s, pages) ==
  ReplacedBy(ParseWem(s), ExtractVorbisPackets(pages), LastGranulePosition(pages))
=============================================================================
