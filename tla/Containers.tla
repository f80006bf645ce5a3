----------------------------- MODULE Containers -----------------------------
\* How a file's bytes lie in a PAZ archive and how they come out again: the
\* compression types of a PAMT record, and the ladder of layouts tried for
\* type 1.  (compression/mod.rs, user_group.rs: add, engine.rs: repack, manager.rs:
\* read_entry_inner)
\*
\* A byte string is a sequence of records [t, a, b]: a plain byte ("raw", value),
\* or what an LZ4 block is made of: a token ("tok", literals, match length; its
\* extension bytes are part of it) and the two bytes of an offset ("off").  So
\* bytes no encoder wrote do not decode: the one assumption made of LZ4 data.
\*
\* A file is its magic, the pixel format and size of a DDS header, the eleven
\* reserved words of that header or the eight size slots of a PAR, and the bytes
\* behind them.  A file compressed or encrypted as a whole is wrapped in a record
\* [packed, key, file, len] that tells how.
EXTENDS Integers, Sequences, SequencesExt

DdsLen == 128       \* the legacy DDS header
ParLen == 80        \* the header and slots of a PAR
Dx10Len == 20       \* the DX10 extension behind a DDS header
Slack == 16         \* what a stored per-mip size may exceed the mip by
Explicit == 11      \* reserved words

None == {}
Some(x) == {x}

Raw(v)    == [t |-> "raw", a |-> v, b |-> 0]
Token(l, m) == [t |-> "tok", a |-> l, b |-> m]
Offset(o) == <<[t |-> "off", a |-> o, b |-> 0], [t |-> "off", a |-> o, b |-> 1]>>

Take(s, at, n) == SubSeq(s, at + 1, at + n)
Drop(s, n) == SubSeq(s, n + 1, Len(s))
Saturating(n) == IF n < 0 THEN 0 ELSE n

-----------------------------------------------------------------------------
\* LZ4

\* `match_len` bytes copied from `offset` back, which may overlap what is copied.
Repeated(out, o, n) ==
  out \o [k \in 1 .. n |-> out[Len(out) - o + 1 + ((k - 1) % o)]]

\* One sequence of a block at st.at: literals, then a match.  `room` is what may
\* still be decoded; literals that fill it end the block as "full".
Sequence(body, st, room) ==
  LET tok == body[st.at + 1]
      left == Saturating(room - Len(st.out))
      bad == [st EXCEPT !.is = "bad"]
      lits == st.out \o Take(body, st.at + 1, tok.a)
      off == st.at + 1 + tok.a
  IN CASE st.at >= Len(body) \/ tok.t # "tok" -> bad
       [] off > Len(body) -> bad
       [] tok.a >= left -> [st EXCEPT !.out = @ \o Take(body, st.at + 1, left),
                                      !.at = st.at + 1 + left, !.is = "full"]
       [] off + 2 > Len(body) -> [bad EXCEPT !.out = lits, !.at = off]
       [] OTHER ->
            LET o == body[off + 1]
                n == tok.b
            IN IF o.t # "off" \/ o.a = 0 \/ o.a > Len(lits) \/ n > room - Len(lits)
               THEN bad
               ELSE [st EXCEPT !.at = off + 2, !.out = Repeated(lits, o.a, n)]

Decoded(body, room) ==
  FoldLeft(LAMBDA st, b : IF st.is = "more" THEN Sequence(body, st, room) ELSE st,
           [at |-> 0, out |-> <<>>, is |-> "more"], body)

\* lz4::decompress: at most `size` bytes, and fewer when the block holds fewer.
Lz4Output(end, data) ==
  IF end.at = Len(data) /\ (end.is = "full" \/ end.out # <<>>) THEN Some(end.out) ELSE None
Lz4Decompress(data, size) == Lz4Output(Decoded(data, size), data)

\* compress_lz4, on data that is one byte repeated or that repeats nothing: what
\* an LZ4 encoder may emit for it.  The last five bytes are always literals.
Lz4Compress(s) ==
  IF Len(s) > 10 /\ \A k \in 2 .. Len(s) - 5 : s[k] = s[1]
  THEN <<Token(1, Len(s) - 6), s[1]>> \o Offset(1)
         \o <<Token(5, 0)>> \o Take(s, Len(s) - 5, 5)
  ELSE <<Token(Len(s), 0)>> \o s

-----------------------------------------------------------------------------
\* DDS headers, as far as the decoder needs them

\* [bytes per 4x4 block, bits per pixel, DX10 header?] of a pixel format.
MipFormat ==
  [BC1 |-> [block |-> 8, bpp |-> 0, dx10 |-> FALSE],
   BC7 |-> [block |-> 16, bpp |-> 0, dx10 |-> TRUE],
   L8  |-> [block |-> 0, bpp |-> 8, dx10 |-> FALSE]]

DataOffset(file) == IF file.fmt \in DOMAIN MipFormat /\ MipFormat[file.fmt].dx10
                    THEN Dx10Len ELSE 0

RawMipSize(file, level) ==
  LET Side(n) == IF n \div 2^level = 0 THEN 1 ELSE n \div 2^level
      w == Side(file.w)
      h == Side(file.h)
      f == MipFormat[file.fmt]
  IN IF f.block > 0 THEN ((w + 3) \div 4) * ((h + 3) \div 4) * f.block
     ELSE (w * h * f.bpp) \div 8

MipSizes(file) == [k \in 1 .. file.mips |-> RawMipSize(file, k - 1)]
Total(sizes) == FoldLeft(LAMBDA n, s : n + s, 0, sizes)
HeaderLen(file) == IF file.magic = "PAR" THEN ParLen ELSE DdsLen
Size(file) == HeaderLen(file) + Len(file.data)
ExpectedTotal(file) == HeaderLen(file) + DataOffset(file) + Total(MipSizes(file))

-----------------------------------------------------------------------------
\* The type-1 layouts.  Each gives a set: empty when it does not apply.

\* What a fold over pieces has: `used` bytes more are read and `out` is their content.
Failed(st) == [st EXCEPT !.ok = FALSE]
Joined(st, used, out) ==
  IF out = None THEN Failed(st)
  ELSE [st EXCEPT !.at = @ + used, !.out = @ \o (CHOOSE o \in out : TRUE)]
Unread == [ok |-> TRUE, at |-> 0, out |-> <<>>, done |-> FALSE]

\* Strategy 1: a PAR whose sections are LZ4 blocks or raw.
Content(blob, s) == IF s.comp > 0 THEN Lz4Decompress(blob, s.size) ELSE Some(blob)
Section(st, data, s, n) ==
  IF st.at + n > Len(data) THEN Failed(st) ELSE Joined(st, n, Content(Take(data, st.at, n), s))
Expanded(file, end) ==
  [file EXCEPT !.data = end.out, !.slots = [k \in DOMAIN @ |-> [@[k] EXCEPT !.comp = 0]]]
Unsectioned(file, end) ==
  IF end.ok /\ \E k \in DOMAIN file.slots : file.slots[k].size > 0 /\ file.slots[k].comp > 0
  THEN Some(Expanded(file, end)) ELSE None

ParSections(file) ==
  LET Sec(st, s) ==
        IF ~st.ok \/ s.size = 0 THEN st
        ELSE Section(st, file.data, s, IF s.comp > 0 THEN s.comp ELSE s.size)
  IN Unsectioned(file, FoldLeft(Sec, Unread, file.slots))

\* Strategy 2: everything behind the 128 bytes is one block.
PrefixedLz4(file, size) ==
  IF size <= DdsLen THEN Some(file)
  ELSE {[file EXCEPT !.data = d] : d \in Lz4Decompress(file.data, size - DdsLen)}

\* Strategy 3: each mip is stored with the size a reserved word tells, the mips
\* from the first zero on raw.
Reserved(file) ==
  [k \in 1 .. (IF file.mips < Explicit THEN file.mips ELSE Explicit) |-> file.slots[k].comp]

OnDisk(file, k) == IF k <= Len(Reserved(file)) THEN Reserved(file)[k] ELSE 0

MipContent(chunk, raw) == IF Len(chunk) = raw THEN Some(chunk) ELSE Lz4Decompress(chunk, raw)
Within(body, at, n) == IF at + n > Len(body) THEN None ELSE Some(Take(body, at, n))
RawMips(st, body, n) == Joined([st EXCEPT !.done = TRUE], n, Within(body, st.at, n))
StoredMip(st, body, n, raw) ==
  Joined(st, n, UNION {MipContent(chunk, raw) : chunk \in Within(body, st.at, n)})
MipChunk(st, file, body, k) ==
  IF OnDisk(file, k) = 0 THEN RawMips(st, body, Total(SubSeq(MipSizes(file), k, file.mips)))
  ELSE StoredMip(st, body, OnDisk(file, k), RawMipSize(file, k - 1))

WithBody(file, out) == [file EXCEPT !.data = Take(@, 0, DataOffset(file)) \o out]
Body(file) == Drop(file.data, DataOffset(file))
AllMips(file, body, end) == IF end.ok /\ end.at = Len(body) THEN Some(WithBody(file, end.out)) ELSE None
ReadMips(file, body) ==
  LET Mip(st, k) == IF st.done \/ ~st.ok THEN st ELSE MipChunk(st, file, body, k)
  IN AllMips(file, body, FoldLeftDomain(Mip, Unread, MipSizes(file)))

PerMipSizes(file, size) ==
  IF /\ ExpectedTotal(file) = size
     /\ \A k \in DOMAIN Reserved(file) : Reserved(file)[k] <= RawMipSize(file, k - 1) + Slack
     /\ \E k \in DOMAIN Reserved(file) : Reserved(file)[k] # 0
  THEN {out \in ReadMips(file, Body(file)) : Size(out) = size} ELSE None

\* Strategy 4: a block that holds the first mip, and the other mips raw behind
\* its last literals.
WithTail(body, top, tail) ==
  IF top.is = "full" /\ Len(body) - top.at = tail THEN Some(top.out \o Drop(body, top.at)) ELSE None
DecodeLz4TopMip(body, first, tail) == WithTail(body, Decoded(body, first), tail)
FirstMipTail(file, size) ==
  {WithBody(file, out) :
     out \in {o \in DecodeLz4TopMip(Body(file), RawMipSize(file, 0), Total(Tail(MipSizes(file)))) :
                ExpectedTotal(file) = size}}

LongEnough(outs, size) == {[o EXCEPT !.data = Take(@, 0, size - HeaderLen(o))] :
                             o \in {r \in outs : Size(r) >= size}}

KnownFormat(file) == file.fmt \in DOMAIN MipFormat

OrElse(first, second) == IF first # None THEN first ELSE second
ByMips(file, size) ==
  IF ~KnownFormat(file) THEN None
  ELSE OrElse(LongEnough(PerMipSizes(file, size), size), LongEnough(FirstMipTail(file, size), size))
Type1Dds(file, size) ==
  IF size <= Size(file) THEN None ELSE OrElse(LongEnough(PrefixedLz4(file, size), size), ByMips(file, size))

Type1(file, size) ==
  CASE Size(file) = size -> Some(file)
    [] Size(file) # size /\ file.magic = "DDS" -> Type1Dds(file, size)
    [] Size(file) # size /\ file.magic = "PAR" -> OrElse(LongEnough(ParSections(file), size), Some(file))
    [] OTHER -> Some(file)

-----------------------------------------------------------------------------
\* decompress() and its callers

Plain(file) == [packed |-> "no", key |-> "", file |-> file, len |-> Size(file)]

\* compress_lz4 of a whole file.
Lz4Whole(stored) ==
  [stored EXCEPT !.packed = "lz4", !.len = HeaderLen(stored.file) + Len(Lz4Compress(stored.file.data))]

\* lz4 and zlib undo what an encoder of that kind wrote, lz4 in `size` bytes.
Unwrap(stored, how, size) ==
  IF stored.packed # how \/ (how = "lz4" /\ Size(stored.file) > size)
  THEN None ELSE Some([Plain(stored.file) EXCEPT !.key = stored.key])

Decompress(stored, size, type) ==
  CASE type = "none" -> Some(stored)
    [] type = "type1" -> {[Plain(f) EXCEPT !.key = stored.key] : f \in Type1(stored.file, size)}
    [] type \in {"lz4", "zlib"} -> Unwrap(stored, type, size)
    [] OTHER -> None   \* "custom", and every number above 4

\* ChaCha20 with a key made of the lower-cased basename, the same both ways.
Crypt(stored, name) ==
  [stored EXCEPT !.key = CASE @ = "" -> name [] @ = name -> "" [] OTHER -> "garbled"]

\* A record's file as read_entry_inner gives it: an entry as long as its file is plain.
Clear(stored, entry) == IF entry.secret THEN Crypt(stored, entry.name) ELSE stored
Opened(clear, entry) ==
  IF entry.comp # entry.orig /\ entry.type # "none" THEN Decompress(clear, entry.orig, entry.type) ELSE Some(clear)
ReadEntry(stored, entry) == Opened(Clear(stored, entry), entry)

\* What repack() appends for a shipped entry.
Processed(file, entry) ==
  LET packed == IF entry.type = "lz4" THEN Lz4Whole(Plain(file)) ELSE Plain(file)
  IN IF entry.secret THEN Crypt(packed, entry.name) ELSE packed

RepackedWithoutSize(file, entry) == [entry EXCEPT !.comp = Processed(file, entry).len]

Repacked(file, entry) ==
  [entry EXCEPT !.comp = Processed(file, entry).len, !.orig = Size(file)]

\* UserGroup::add compresses every file (should_compress).
AddedEntry(entry) == [entry EXCEPT !.type = "lz4"]
=============================================================================
