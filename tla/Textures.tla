------------------------------ MODULE Textures ------------------------------
\* Textures and their PNG view: which .dds files are offered, how their blocks are
\* decoded to pixels, and how an edited image is encoded again.
\* (dds.rs; virtual_files.rs: render_dds_png, parse_png_to_dds)
\*
\* A texture is its header [fmt, dx10, cubemap, volume, array, mips, w, h] and one
\* record per 4x4 block and part of it; a pixel is [r, g, b, a], 0 .. 255 each.
\* Only the formats the encoder knows have a decoder here: the view refuses the
\* others.
EXTENDS Integers, Sequences, FiniteSets

Side == 4                                   \* pixels along a block
Cells == 0 .. Side * Side - 1
CellSum(f) == LET upTo[k \in Cells] == f[k] + (IF k = 0 THEN 0 ELSE upTo[k - 1])
              IN upTo[Side * Side - 1]

\* The position of the first least or greatest value of a function on 0 .. n.
FirstMin(f) == CHOOSE i \in DOMAIN f :
                 \A j \in DOMAIN f : f[i] < f[j] \/ (f[i] = f[j] /\ i <= j)
FirstMax(f) == CHOOSE i \in DOMAIN f :
                 \A j \in DOMAIN f : f[i] > f[j] \/ (f[i] = f[j] /\ i <= j)

Abs(n) == IF n < 0 THEN -n ELSE n

-----------------------------------------------------------------------------
\* Headers

Formats == {"Bc1", "Bc2", "Bc3", "Bc4", "Bc5", "Bc7", "Rgba32"}
Encodable(dds) == dds.fmt \in {"Bc1", "Bc3", "Bc4", "Bc5"}

Shape(dds) ==
  CASE dds.cubemap -> "Cubemap"
    [] dds.volume -> "Volume"
    [] dds.dx10 /\ dds.array > 1 -> "Array"
    [] dds.mips > 1 -> "Mipmapped"
    [] OTHER -> "Simple2d"

RoundTrippable(dds) == Shape(dds) \in {"Simple2d", "Mipmapped"}

\* The parts of a block, in file order: a ramp of one channel, or colours.
Parts(fmt) == CASE fmt = "Bc1" -> <<"colour">> [] fmt = "Bc3" -> <<"a", "colour">>
                [] fmt = "Bc4" -> <<"r">>      [] fmt = "Bc5" -> <<"r", "g">>

BlocksAcross(n) == (n + Side - 1) \div Side
BlockOf(dds, x, y) == (y \div Side) * BlocksAcross(dds.w) + (x \div Side)
InBlock(x, y) == (y % Side) * Side + (x % Side)

-----------------------------------------------------------------------------
\* Decoding

Colour(r, g, b, a) == [r |-> r, g |-> g, b |-> b, a |-> a]
Number(c) == c.r * 2048 + c.g * 32 + c.b                \* a 5:6:5 colour as u16

Rgb565(c) == Colour((c.r * 255) \div 31, (c.g * 255) \div 63, (c.b * 255) \div 31, 255)

Lerp3(p, q, num, denom) ==
  LET Mix(a, b) == (a * (denom - num) + b * num) \div denom
  IN Colour(Mix(p.r, q.r), Mix(p.g, q.g), Mix(p.b, q.b), 255)

\* The four colours of a block; BC3 has no transparent one.
ColourLut(fmt, c0, c1) ==
  LET p == Rgb565(c0)
      q == Rgb565(c1)
  IN IF fmt = "Bc1" /\ Number(c0) <= Number(c1)
     THEN <<p, q, Lerp3(p, q, 1, 2), Colour(0, 0, 0, 0)>>
     ELSE <<p, q, Lerp3(p, q, 1, 3), Lerp3(p, q, 2, 3)>>

\* bc4_lut: the cast to u8 comes before the division.
Bc4Lut(a0, a1) ==
  <<a0, a1>> \o
  IF a0 > a1
  THEN [i \in 1 .. 6 |-> (((7 - i) * a0 + i * a1) % 256) \div 7]
  ELSE [i \in 1 .. 4 |-> (((5 - i) * a0 + i * a1) % 256) \div 5] \o <<0, 255>>

RampOf(part, k) == Bc4Lut(part.c0, part.c1)[part.idx[k] + 1]
ColourOf(fmt, part, k) == ColourLut(fmt, part.c0, part.c1)[part.idx[k] + 1]

\* The blue of a BC5 pixel is worked out of red and green: it is not stored.
Derived == 255

DecodePixel(fmt, block, k) ==
  CASE fmt = "Bc1" -> ColourOf(fmt, block[1], k)
    [] fmt = "Bc3" -> [ColourOf(fmt, block[2], k) EXCEPT !.a = RampOf(block[1], k)]
    [] fmt = "Bc4" -> LET v == RampOf(block[1], k) IN Colour(v, v, v, 255)
    [] fmt = "Bc5" -> Colour(RampOf(block[1], k), RampOf(block[2], k), Derived, 255)

Pixels(img) == (0 .. img.w - 1) \X (0 .. img.h - 1)

\* decode_dds_to_rgba: what lies past the last block of a short file stays zero.
DecodeDds(dds) ==
  [w |-> dds.w, h |-> dds.h, type |-> "rgba",
   px |-> [p \in Pixels(dds) |->
             LET n == BlockOf(dds, p[1], p[2])
             IN IF n \in DOMAIN dds.blocks
                THEN DecodePixel(dds.fmt, dds.blocks[n], InBlock(p[1], p[2]))
                ELSE Colour(0, 0, 0, 0)]]

RenderDdsPng(dds) ==
  IF RoundTrippable(dds) /\ Encodable(dds) THEN {DecodeDds(dds)} ELSE {}

-----------------------------------------------------------------------------
\* Encoding

\* The pixels of a block, those past the edge repeating the last row and column.
Extract4x4(img, n) ==
  LET bx == (n % BlocksAcross(img.w)) * Side
      by == (n \div BlocksAcross(img.w)) * Side
      Clamp(v, size) == IF v < size THEN v ELSE size - 1
  IN [k \in Cells |-> img.px[<<Clamp(bx + (k % Side), img.w), Clamp(by + (k \div Side), img.h)>>]]

\* One power step from (1, 1, 1) on the covariance of the colours: the row sums of
\* the matrix, here about the first pixel and times 256, which orders the pixels
\* along the axis the same way.
Axis(block) ==
  LET Rel(ch) == [k \in Cells |-> block[k][ch] - block[0][ch]]
      Cov(a, b) == 16 * CellSum([k \in Cells |-> Rel(a)[k] * Rel(b)[k]])
                   - CellSum(Rel(a)) * CellSum(Rel(b))
      row == [ch \in {"r", "g", "b"} |-> Cov(ch, "r") + Cov(ch, "g") + Cov(ch, "b")]
  IN IF \A ch \in DOMAIN row : row[ch] = 0 THEN [ch \in DOMAIN row |-> 1] ELSE row

Along(block) ==
  LET axis == Axis(block)
      Rel(k, ch) == block[k][ch] - block[0][ch]
  IN [k \in Cells |-> Rel(k, "r") * axis["r"] + Rel(k, "g") * axis["g"] + Rel(k, "b") * axis["b"]]

To565(p) == [r |-> p.r \div 8, g |-> p.g \div 4, b |-> p.b \div 8]

To888(c) == Colour(c.r * 8 + c.r \div 4, c.g * 4 + c.g \div 16, c.b * 8 + c.b \div 4, 255)

Lerp3Rgb(p, q, wa, wb) ==
  LET Mix(a, b) == (a * wa + b * wb) \div (wa + wb)
  IN Colour(Mix(p.r, q.r), Mix(p.g, q.g), Mix(p.b, q.b), 255)

Palette(c0, c1) ==
  LET p == To888(c0)
      q == To888(c1)
  IN IF Number(c0) >= Number(c1)
     THEN <<p, q, Lerp3Rgb(p, q, 2, 1), Lerp3Rgb(p, q, 1, 2)>>
     ELSE <<p, q, Lerp3Rgb(p, q, 1, 1), Colour(0, 0, 0, 255)>>

Distance(p, q) ==
  LET Sq(n) == n * n IN Sq(p.r - q.r) + Sq(p.g - q.g) + Sq(p.b - q.b)

Bc1Block(block) ==
  LET along == Along(block)
      c0 == To565(block[FirstMax(along)])
      c1 == To565(block[FirstMin(along)])
      palette == Palette(c0, c1)
      Nearest(p) == FirstMin([j \in 0 .. 3 |-> Distance(p, palette[j + 1])])
  IN [c0 |-> c0, c1 |-> c1, idx |-> [k \in Cells |-> Nearest(block[k])]]

Bc4Block(block, ch) ==
  LET vals == [k \in Cells |-> block[k][ch]]
      r0 == vals[FirstMax(vals)]
      r1 == vals[FirstMin(vals)]
      refs == <<r0, r1>> \o [i \in 1 .. 6 |-> ((7 - i) * r0 + i * r1) \div 7]
      Nearest(v) == FirstMin([j \in 0 .. 7 |-> Abs(v - refs[j + 1])])
  IN [c0 |-> r0, c1 |-> r1, idx |-> [k \in Cells |-> Nearest(vals[k])]]

EncodePart(part, block) == IF part = "colour" THEN Bc1Block(block) ELSE Bc4Block(block, part)

EncodeBlocks(fmt, img) ==
  [n \in 0 .. BlocksAcross(img.w) * BlocksAcross(img.h) - 1 |->
     LET block == Extract4x4(img, n)
     IN [k \in DOMAIN Parts(fmt) |-> EncodePart(Parts(fmt)[k], block)]]

\* make_dds: one surface behind a legacy header, whatever the original had.
MakeDds(fmt, img) ==
  [fmt |-> fmt, dx10 |-> FALSE, cubemap |-> FALSE, volume |-> FALSE, array |-> 1, mips |-> 1,
   w |-> img.w, h |-> img.h, blocks |-> EncodeBlocks(fmt, img)]

Rgba(img) ==
  IF img.type = "rgba" THEN img
  ELSE [img EXCEPT !.type = "rgba", !.px = [p \in DOMAIN img.px |-> [img.px[p] EXCEPT !.a = 255]]]

ParseForAnyShape(img, original) ==
  IF img.type \in {"rgba", "rgb"} /\ Encodable(original) THEN {MakeDds(original.fmt, Rgba(img))} ELSE {}

\* In a set that is empty when the save is refused.
ParsePngToDds(img, original) ==
  IF RoundTrippable(original) /\ img.type \in {"rgba", "rgb"} /\ Encodable(original)
  THEN {MakeDds(original.fmt, Rgba(img))} ELSE {}

\* The channels a format stores.
Channels(fmt) == CASE fmt = "Bc1" -> {"r", "g", "b"} [] fmt = "Bc3" -> {"r", "g", "b", "a"}
                   [] fmt = "Bc4" -> {"r"} [] fmt = "Bc5" -> {"r", "g"}
=============================================================================
