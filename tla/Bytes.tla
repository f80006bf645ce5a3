------------------------------- MODULE Bytes --------------------------------
\* Byte strings, as sequences of 0 .. 255, and the little-endian numbers in them.
\* Offsets count from 0.
EXTENDS Integers, Sequences, SequencesExt, FiniteSetsExt

LE(n, w) == [k \in 1 .. w |-> (n \div 256^(k - 1)) % 256]
Unsigned(s, at, w) == FoldRight(LAMBDA b, n : 256 * n + b, SubSeq(s, at + 1, at + w), 0)
Cut(s, at, n) == SubSeq(s, at + 1, at + n)
Rest(s, n) == SubSeq(s, n + 1, Len(s))
Patched(s, at, bytes) == Cut(s, 0, at) \o bytes \o Rest(s, at + Len(bytes))
Zeros(n) == [k \in 1 .. n |-> 0]
SumOf(ns) == FoldLeft(LAMBDA a, b : a + b, 0, ns)
Concat(ss) == FoldLeft(LAMBDA a, b : a \o b, <<>>, ss)

\* Bit strings, the lowest bit of a byte first; zeros fill the last byte.
ToBits(bytes) == [k \in 1 .. 8 * Len(bytes) |-> (bytes[(k - 1) \div 8 + 1] \div 2^((k - 1) % 8)) % 2]
Bits(v, n) == [k \in 1 .. n |-> (v \div 2^(k - 1)) % 2]
Value(bits) == FoldRight(LAMBDA b, n : 2 * n + b, bits, 0)

Finish(bits) ==
  LET n == (Len(bits) + 7) \div 8
      all == bits \o [k \in 1 .. 8 * n - Len(bits) |-> 0]
  IN [k \in 1 .. n |-> Value(Cut(all, 8 * (k - 1), 8))]
=============================================================================
