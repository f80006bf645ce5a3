------------------------------- MODULE Vorbis -------------------------------
\* What Wwise strips from Vorbis headers and packets: the bit streams of a codebook,
\* a setup packet and an audio packet, in Vorbis form and in Wwise form.
\* (audio/ogg.rs)
\*
\* A bit string is a sequence of 0 .. 1, the lowest bit of a byte first.
\* What may fail gives a set that is empty when it does.
EXTENDS Bytes

CONSTANT
  Libraries      \* [default, aotuv |-> bytes of a packed codebook library]

-----------------------------------------------------------------------------
\* Bits

\* A reader, what is written on the way, and what is remembered of it.
Reader(bytes) == [src |-> ToBits(bytes), at |-> 0, ok |-> TRUE, out |-> <<>>, n |-> 0, list |-> <<>>]
Ahead(st, n) == Cut(st.src, st.at, IF st.at + n <= Len(st.src) THEN n ELSE 0)
Val(st, n) == Value(Ahead(st, n))
Skip(st, n) == [st EXCEPT !.at = @ + n, !.ok = @ /\ st.at + n <= Len(st.src)]
Put(st, bits) == [st EXCEPT !.out = @ \o bits]
Copy(st, n) == Put(Skip(st, n), Ahead(st, n))
Resize(st, n, w) == Put(Skip(st, n), Bits(Val(st, n), w))
Need(st, fact) == [st EXCEPT !.ok = @ /\ fact]

Times(n, st, Step(_)) ==
  LET run[k \in 0 .. n] == IF k = 0 THEN st ELSE Step(run[k - 1]) IN run[n]
CopyIf(bit, st, n) == IF bit = 1 THEN Copy(st, n) ELSE st

Ilog(v) == IF v = 0 THEN 0 ELSE CHOOSE n \in 1 .. 25 : 2^(n - 1) <= v /\ v < 2^n

Quantvals(entries, dims) ==
  CHOOSE v \in 0 .. entries : v^dims <= entries /\ (v + 1)^dims > entries

-----------------------------------------------------------------------------
\* Codebooks

\* The run lengths of an ordered book, one for each codeword length there may be:
\* their widths shrink as entries are used up.
MaxLength == 32
OrderedLengths(st, entries) ==
  LET Run(s, w) == [Copy(s, w) EXCEPT !.n = @ + Val(s, w)]
      Count(s) == IF s.n >= entries \/ ~s.ok THEN s ELSE Run(s, Ilog(entries - s.n))
  IN Times(MaxLength, [Copy(st, 5) EXCEPT !.n = 0], Count)

\* The lengths of the other books, `w` bits each in the source and 5 written.
PlainLengths(st, entries, w) ==
  LET Length(s) == Resize(s, w, 5)
      Used(s) == IF Val(s, 1) = 0 THEN Copy(s, 1) ELSE Length(Copy(s, 1))
  IN IF Val(st, 1) = 1 THEN Times(entries, Copy(st, 1), Used) ELSE Times(entries, Copy(st, 1), Length)

Lookup(st, values) == Copy(Copy(st, 64 + 4 + 1), values * (Val(Skip(st, 64), 4) + 1))
Quantised(kind, st, entries, dims) ==
  IF kind \in {1, 2} THEN Lookup(st, IF kind = 1 THEN Quantvals(entries, dims) ELSE entries * dims) ELSE st

\* One entry of a library, 4 + 14 bits of size, as a Vorbis codebook.
ExpandPackedCodebook(packed) ==
  LET Plain(s, entries) == Need(PlainLengths(Skip(s, 3), entries, Val(s, 3)), Val(s, 3) \in 1 .. 5)
      Lengths(s, entries) ==
        IF Val(s, 1) = 1 THEN OrderedLengths(Copy(s, 1), entries) ELSE Plain(Copy(s, 1), entries)
      Values(s, entries, dims) == Quantised(Val(s, 1), Resize(s, 1, 4), entries, dims)
      Book(s, entries, dims) ==
        Values(Lengths(Put(Skip(s, 18), Bits(5653314, 24) \o Bits(dims, 16) \o Bits(entries, 24)), entries),
               entries, dims)
      From(s) == Book(s, Val(Skip(s, 4), 14), Val(s, 4))
  IN From(Reader(packed))

\* A Vorbis codebook, copied.
ReadFullCodebook(st) ==
  LET Lengths(s, entries) ==
        IF Val(s, 1) = 1 THEN OrderedLengths(Copy(s, 1), entries) ELSE PlainLengths(Copy(s, 1), entries, 5)
      Values(s, entries, dims) == Quantised(Val(s, 4), Copy(s, 4), entries, dims)
      Book(s, entries, dims) == Values(Lengths(Copy(s, 64), entries), entries, dims)
  IN Book(Need([st EXCEPT !.out = <<>>], Val(st, 24) = 5653314), Val(Skip(st, 40), 24), Val(Skip(st, 24), 16))

\* The packed books of a library: their offsets, and the offset of those, at its end.
ParsePackedLibrary(bytes) ==
  LET Off(table, k) == Unsigned(bytes, table + 4 * k, 4)
      Books(table) == [k \in 1 .. (Len(bytes) - 4 - table) \div 4 - 1 |->
                         Cut(bytes, Off(table, k - 1), Off(table, k) - Off(table, k - 1))]
  IN Books(Unsigned(bytes, Len(bytes) - 4, 4))

\* build_lut: the number of a book by its bytes; of two that are equal, the later.
Lut(name) ==
  LET Numbers(books) == [b \in Range(books) |-> Max({k \in DOMAIN books : books[k] = b}) - 1]
      Expanded(packed) == [k \in DOMAIN packed |-> Finish(ExpandPackedCodebook(packed[k]).out)]
  IN Numbers(Expanded(ParsePackedLibrary(Libraries[name])))

-----------------------------------------------------------------------------
\* The setup packet

Counted(st, Step(_)) == Times(Val(st, 6) + 1, Copy(st, 6), Step)
Restart(st) == [st EXCEPT !.n = 0, !.list = <<>>]

StripFloor(st) ==
  LET Class(s) ==
        [Copy(s, 5 + (IF Val(Skip(s, 3), 2) = 0 THEN 0 ELSE 8) + 8 * 2^Val(Skip(s, 3), 2))
           EXCEPT !.list = Append(@, Val(s, 3) + 1)]
      Classes(s, pc) == Times(Max({0} \cup {pc[k] : k \in DOMAIN pc}) + 1, s, Class)
      Points(s, pc) ==
        Copy(Copy(s, 6), SumOf([k \in DOMAIN pc |-> s.list[pc[k] + 1]]) * Val(Skip(s, 2), 4))
      Floor(pc) == Points(Classes(Restart(Copy(st, 5 + 4 * Len(pc))), pc), pc)
  IN Floor([k \in 1 .. Val(st, 5) |-> Val(Skip(st, 5 + 4 * (k - 1)), 4)])

StripResidue(st) ==
  LET Stages(s, flag, used) == [Copy(s, IF flag = 1 THEN 9 ELSE 4) EXCEPT !.n = @ + SumOf(Bits(used, 8))]
      High(s) == IF Val(Skip(s, 3), 1) = 1 THEN 8 * Val(Skip(s, 4), 5) ELSE 0
      Cascade(s) == Stages(s, Val(Skip(s, 3), 1), Val(s, 3) + High(s))
      Books(s) == Copy(s, 8 * s.n)
  IN Books(Times(Val(Skip(st, 72), 6) + 1, Restart(Copy(st, 72 + 6 + 8)), Cascade))

\* Two bits are reserved: only the stripping checks them.
MappingPart(st, channels, reserved) ==
  LET Coupling(s) ==
        CopyIf(Val(s, 1), Copy(s, 1), 8 + 2 * (Val(Skip(s, 1), 8) + 1) * Ilog(channels - 1))
      Checked(s) == Copy(Need(s, Val(s, 2) \in reserved), 2)
      Submaps(n) ==
        Copy(Checked(Coupling(CopyIf(Val(st, 1), Copy(st, 1), 4))),
             (IF n > 1 THEN 4 * channels ELSE 0) + 24 * n)
  IN Submaps(IF Val(st, 1) = 1 THEN Val(Skip(st, 1), 4) + 1 ELSE 1)

StripMapping(st, channels) == MappingPart(Need(Skip(st, 16), Val(st, 16) = 0), channels, {0})

SetupMark == <<5, 118, 111, 114, 98, 105, 115>>
IsSetup(packet) == Len(packet) >= 7 /\ Cut(packet, 0, 7) = SetupMark

\* The books in front, the time domains (which are all dropped) and the bit behind.
Books(st, Book(_)) == Times(Val(st, 8) + 1, Copy(st, 8), Book)
SkipDomains(st) == Skip(st, 6 + 16 * (Val(st, 6) + 1))
Framed(st) == Need(Skip(st, 1), Val(st, 1) = 1)

\* A book becomes its number in the library, after what was written before it.
Numbered(full, book, out, lut) ==
  [full EXCEPT !.out = out \o (IF book \in DOMAIN lut THEN Bits(lut[book], 10) ELSE <<>>),
               !.ok = @ /\ book \in DOMAIN lut]
ReplaceBook(full, out, lut) == Numbered(full, Finish(full.out), out, lut)

StripMode(st) == Copy(Skip(Copy(st, 1), 32), 8)
StripParts(st, channels) ==
  LET Floor(s) == StripFloor(Need(Skip(s, 16), Val(s, 16) = 1))
      Residue(s) == StripResidue(Resize(s, 16, 2))
      Mapping(s) == StripMapping(s, channels)
  IN Counted(Counted(Counted(Counted(st, Floor), Residue), Mapping), StripMode)

IfOk(end, result) == IF end.ok THEN {result} ELSE {}
Written(end) == IfOk(end, Finish(end.out))

StripSetupHeader(packet, channels, lut) ==
  LET Book(s) == ReplaceBook(ReadFullCodebook(s), s.out, lut)
  IN IF IsSetup(packet)
     THEN Written(Framed(StripParts(SkipDomains(Books(Reader(Rest(packet, 7)), Book)), channels)))
     ELSE {}

\* The same parts, walked through for the block flags of the modes behind them.
SkipExpandedFloor(st) == [StripFloor(Skip(st, 16)) EXCEPT !.out = <<>>]
SkipExpandedResidue(st) == [StripResidue(Skip(st, 16)) EXCEPT !.out = <<>>]
SkipExpandedMapping(st, channels) ==
  [MappingPart(Skip(st, 16), channels, 0 .. 3) EXCEPT !.out = <<>>]

ModeFlags(st) ==
  LET Mode(s) == Skip(Copy(s, 1), 40) IN Times(Val(st, 6) + 1, [Skip(st, 6) EXCEPT !.out = <<>>], Mode)
SkipParts(st, channels) ==
  LET Mapping(s) == SkipExpandedMapping(s, channels)
  IN Counted(Counted(Counted(st, SkipExpandedFloor), SkipExpandedResidue), Mapping)

Flags(end) == IfOk(end, end.out)
ExtractModes(packet, channels) ==
  IF IsSetup(packet)
  THEN Flags(ModeFlags(SkipParts(SkipDomains(Books(Reader(Rest(packet, 7)), ReadFullCodebook)), channels)))
  ELSE {}

-----------------------------------------------------------------------------
\* Audio packets

StripAudioPacket(packet, modes) ==
  LET Windows(mode) == IF mode < Len(modes) /\ modes[mode + 1] = 1 THEN 2 ELSE 0
      Result(mode, end) == IF mode < Len(modes) /\ end.ok THEN {Finish(end.out)} ELSE {}
      From(st, w, mode) ==
        Result(mode, Copy(Skip(Copy(Skip(st, 1), w), Windows(mode)), Max({0, 8 * (Len(packet) - 1) - w})))
      Strip(st, w) == IF packet # <<>> /\ Val(st, 1) = 0 THEN From(st, w, Val(Skip(st, 1), w)) ELSE {}
  IN Strip(Reader(packet), Ilog(Len(modes) - 1))

\* All packets, or none when one is refused.
StripAll(packets, modes) ==
  LET Whole(each) == IF \E k \in DOMAIN each : each[k] = {} THEN {}
                     ELSE {[k \in DOMAIN each |-> CHOOSE p \in each[k] : TRUE]}
  IN Whole([k \in DOMAIN packets |-> StripAudioPacket(packets[k], modes)])

DataChunk2Byte(packets) == Concat([k \in DOMAIN packets |-> LE(Len(packets[k]), 2) \o packets[k]])

DataChunk6Byte(granules, packets) ==
  Concat([k \in 1 .. Min({Len(granules), Len(packets)}) |->
            LE(granules[k], 4) \o LE(Len(packets[k]), 2) \o packets[k]])
=============================================================================
