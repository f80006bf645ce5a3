------------------------------ MODULE Strings -------------------------------
\* Localisation files and their JSON view: the byte stream of a .paloc, the entries
\* found in it, the lines the view shows and what is written back.
\* (paloc.rs, virtual_files.rs: render_paloc, parse_paloc_jsonl)
\*
\* Bytes are numbers and text is ASCII, except that the words `key` and `value` are
\* one character each, so that a line is short.
EXTENDS Integers, Sequences, SequencesExt

KeyWord == 107      \* the characters that stand for the two words
ValueWord == 118
MaxStr == 50000000
MaxKey == 200       \* of a symbolic key

Word(n) == <<n % 256, (n \div 256) % 256, (n \div 65536) % 256, n \div 16777216>>

WordAt(data, off) ==
  data[off + 1] + 256 * data[off + 2] + 65536 * data[off + 3] + 16777216 * data[off + 4]

Digit(c)  == c \in 48 .. 57
Letter(c) == c \in (65 .. 90) \cup (97 .. 122)
Control(c) == c < 9 \/ c \in 14 .. 31

NumericKey(s) == \A k \in DOMAIN s : Digit(s[k])

SymbolicKey(s) ==
  /\ Len(s) \in 1 .. MaxKey
  /\ Letter(s[1]) \/ s[1] = 95
  /\ \A k \in DOMAIN s : Letter(s[k]) \/ Digit(s[k]) \/ s[k] \in {95, 46, 45}

\* The strings of a stream, skipping what is not one four bytes at a time.
ScanStrings(data) ==
  LET n == Len(data)
      Bad(off, len) == \/ len > MaxStr \/ off + 4 + len > n
                       \/ \E k \in off + 5 .. off + 4 + len : Control(data[k])
      from[off \in 0 .. n + 4] ==
        IF off + 4 > n THEN <<>>
        ELSE LET len == WordAt(data, off)
             IN IF Bad(off, len) THEN from[off + 4]
                ELSE <<SubSeq(data, off + 5, off + 4 + len)>> \o from[off + 4 + len]
  IN from[4]

\* An empty marker, a number and a text; or a symbol and a text; or one string that
\* belongs to neither.
ScanEntries(data) ==
  LET s == ScanStrings(data)
      Entry(k, v) == <<[key |-> s[k], value |-> s[v]]>>
      from[i \in 1 .. Len(s) + 3] ==
        CASE i > Len(s) -> <<>>
          [] i + 2 <= Len(s) /\ s[i] = <<>> /\ NumericKey(s[i + 1]) -> Entry(i + 1, i + 2) \o from[i + 3]
          [] i + 1 <= Len(s) /\ SymbolicKey(s[i]) -> Entry(i, i + 1) \o from[i + 2]
          [] OTHER -> from[i + 1]
  IN from[1]

Prefixed(s) == Word(Len(s)) \o s

SerializeUnmarked(entries) ==
  FoldLeft(LAMBDA out, e : out \o Prefixed(e.key) \o Prefixed(e.value), Word(0), entries)

SerializePaloc(entries) ==
  FoldLeft(LAMBDA out, e : out \o Word(0) \o Prefixed(e.key) \o Prefixed(e.value), Word(0), entries)

-----------------------------------------------------------------------------
\* JSON lines

Quote == 34
Backslash == 92
Colon == 58
Hex(d) == IF d < 10 THEN 48 + d ELSE 87 + d
Unhex(c) == IF Digit(c) THEN c - 48 ELSE c - 87

ShortOf(c) == CASE c = 10 -> 110 [] c = 13 -> 114 [] c = 9 -> 116 [] OTHER -> c

Escaped(c) ==
  CASE c \in {Quote, Backslash, 10, 13, 9} -> <<Backslash, ShortOf(c)>>
    [] c < 32 -> <<Backslash, 117, 48, 48, Hex(c \div 16), Hex(c % 16)>>
    [] OTHER -> <<c>>

PushJsonStr(s) ==
  FoldLeft(LAMBDA out, c : out \o Escaped(c), <<Quote>>, s) \o <<Quote>>

Label(word) == <<Quote, word, Quote>>
Line(e) == <<123>> \o Label(KeyWord) \o <<Colon, 32>> \o PushJsonStr(e.key) \o <<44, 32>>
             \o Label(ValueWord) \o <<Colon, 32>> \o PushJsonStr(e.value) \o <<125>>

RenderPaloc(data) == LET es == ScanEntries(data) IN [k \in DOMAIN es |-> Line(es[k])]

Unescaped(c) == CASE c = 110 -> 10 [] c = 114 -> 13 [] c = 116 -> 9 [] OTHER -> c

\* The text of a JSON string, in a set that is empty when it does not end.
ParseJsonString(t) ==
  LET from[k \in 1 .. Len(t) + 6] ==
        CASE k > Len(t) -> {}
          [] t[k] = Quote -> {<<>>}
          [] t[k] = Backslash /\ k = Len(t) -> {}
          [] t[k] = Backslash /\ t[k + 1] = 117 ->
               IF k + 5 > Len(t) THEN {}
               ELSE {<<16 * Unhex(t[k + 4]) + Unhex(t[k + 5])>> \o s : s \in from[k + 6]}
          [] t[k] = Backslash -> {<<Unescaped(t[k + 1])>> \o s : s \in from[k + 2]}
          [] OTHER -> {<<t[k]>> \o s : s \in from[k + 1]}
  IN IF t = <<>> \/ t[1] # Quote THEN {} ELSE from[2]

TrimStart(t) ==
  LET text == {k \in DOMAIN t : t[k] # 32}
  IN IF text = {} THEN <<>> ELSE SubSeq(t, CHOOSE k \in text : \A j \in text : k <= j, Len(t))

After(t, s) ==   \* what follows the first s in t
  LET at == {k \in 1 .. Len(t) - Len(s) + 1 : SubSeq(t, k, k + Len(s) - 1) = s}
      k == CHOOSE x \in at : \A y \in at : x <= y
  IN IF at = {} THEN {} ELSE {SubSeq(t, k + Len(s), Len(t))}

ExtractJsonField(line, word) ==
  UNION {UNION {ParseJsonString(TrimStart(v)) : v \in After(rest, <<Colon>>)} :
           rest \in After(line, Label(word))}

OrEmpty(texts) == IF texts = {} THEN <<>> ELSE CHOOSE t \in texts : TRUE

ParsePalocJsonl(lines) ==
  LET full == SelectSeq(lines, LAMBDA l : TrimStart(l) # <<>>)
  IN SerializePaloc([k \in DOMAIN full |->
       [key |-> OrEmpty(ExtractJsonField(full[k], KeyWord)),
        value |-> OrEmpty(ExtractJsonField(full[k], ValueWord))]])
=============================================================================
