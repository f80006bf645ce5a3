---------------------------- MODULE InodesProofs ----------------------------
\* Proofs about the names of the Linux mount: what the kernel holds, what is gone, and
\* what listings show.
EXTENDS Inodes, TLAPS, NaturalsInduction, WellFoundedInduction, SequenceTheorems

-----------------------------------------------------------------------------
\* Paths

IsSegs(s) == s \in Seq(ToSet(s))

LEMMA SegsIn ==
  ASSUME NEW S, NEW s \in Seq(S)
  PROVE  IsSegs(s) /\ Len(s) \in Nat /\ DOMAIN s = 1 .. Len(s)
<1>1. s \in [1 .. Len(s) -> S] /\ Len(s) \in Nat /\ DOMAIN s = 1 .. Len(s)
  BY LenProperties
<1>2. \A i \in DOMAIN s : s[i] \in ToSet(s)
  BY DEF ToSet
<1>3. s \in [1 .. Len(s) -> ToSet(s)]
  BY <1>1, <1>2
<1>4. s \in Seq(ToSet(s))
  BY <1>1, <1>3
<1>5. QED BY <1>1, <1>4 DEF IsSegs

\* One segment more.
LEMMA OneMore ==
  ASSUME NEW s, IsSegs(s), NEW x, NEW t, t = s \o <<x>>
  PROVE  /\ IsSegs(t) /\ t # <<>> /\ Len(t) = Len(s) + 1 /\ Len(s) \in Nat
         /\ \A i \in 1 .. Len(s) : t[i] = s[i]
         /\ Last(t) = x /\ t[Len(s) + 1] = x /\ Front(t) = s
<1> DEFINE S == ToSet(s) \cup {x}
<1>1. s \in Seq(S)
  BY SeqMonotonic DEF IsSegs
<1>2. <<x>> \in Seq(S) /\ Len(<<x>>) = 1 /\ <<x>>[1] = x
  OBVIOUS
<1> HIDE DEF S
<1>3. /\ t \in Seq(S) /\ Len(t) = Len(s) + Len(<<x>>)
      /\ \A i \in 1 .. Len(s) + Len(<<x>>) : t[i] = IF i <= Len(s) THEN s[i] ELSE <<x>>[i - Len(s)]
  BY <1>1, <1>2, ConcatProperties
<1>4. IsSegs(t) /\ Len(s) \in Nat
  BY <1>1, <1>3, SegsIn
<1>5. /\ Len(t) = Len(s) + 1 /\ t[Len(s) + 1] = x
      /\ \A i \in 1 .. Len(s) : t[i] = s[i]
  BY <1>2, <1>3, <1>4
<1>6. SubSeq(t, 1, Len(s)) = s
  <2>1. \A i \in 1 .. Len(s) : t[i] \in S
    BY <1>1, <1>5, ElementOfSeq
  <2>2. /\ SubSeq(t, 1, Len(s)) \in Seq(S)
        /\ Len(SubSeq(t, 1, Len(s))) = Len(s)
        /\ \A i \in 1 .. Len(s) : SubSeq(t, 1, Len(s))[i] = t[i]
    BY <1>4, <2>1, SubSeqProperties
  <2>3. QED BY <1>1, <1>5, <2>2, SeqEqual
<1>7. Front(t) = s
  BY <1>4, <1>5, <1>6 DEF Front
<1>8. Last(t) = x
  BY <1>5 DEF Last
<1>9. t # <<>>
  BY <1>4, <1>5
<1>10. QED BY <1>4, <1>5, <1>7, <1>8, <1>9

\* A name is its parent's path and its last segment.
LEMMA NameParts ==
  ASSUME NEW p, IsName(p)
  PROVE  /\ p.at = None /\ p.segs # <<>> /\ IsSegs(p.segs) /\ Len(p.segs) \in Nat \ {0}
         /\ Sub(Parent(p), <<FileName(p)>>) = p
<1> DEFINE s == p.segs
           S == ToSet(s)
<1>1. p = Plain(s) /\ s # <<>> /\ s \in Seq(S)
  BY DEF IsName
<1>2. Len(s) \in Nat \ {0} /\ IsSegs(s)
  BY <1>1, EmptySeq DEF IsSegs
<1>3. p.at = None
  BY <1>1 DEF Plain
<1>4. Front(s) \o <<Last(s)>> = s
  <2>1. SubSeq(s, 1, Len(s)) = SubSeq(s, 1, Len(s) - 1) \o <<s[Len(s)]>>
    BY <1>1, <1>2, SubSeqRecursiveSecond
  <2>2. SubSeq(s, 1, Len(s)) = s
    BY <1>1, SubSeqFull
  <2>3. QED BY <2>1, <2>2 DEF Front, Last
<1>5. Sub(Parent(p), <<FileName(p)>>) = p
  <2>1. Sub(Plain(Front(s)), <<Last(s)>>) = Plain(Front(s) \o <<Last(s)>>)
    BY DEF Sub, Plain
  <2>2. QED BY <1>1, <1>4, <2>1 DEF Parent, FileName
<1>6. QED BY <1>1, <1>2, <1>3, <1>5

LEMMA ListedParts ==
  ASSUME NEW d \in Listed
  PROVE  d = Plain(d.segs) /\ d.at = None /\ IsSegs(d.segs)
<1>1. CASE d = RootDir
  <2>1. <<>> \in Seq({})
    BY EmptySeq
  <2>2. IsSegs(<<>>)
    BY <2>1, SegsIn
  <2>3. QED BY <1>1, <2>2 DEF RootDir, Plain
<1>2. CASE IsName(d)
  BY <1>2, NameParts DEF IsName
<1>3. QED BY <1>1, <1>2, NamesAssumption

\* Nothing is below a file.
LEMMA NotBelow ==
  ASSUME NEW p \in Files, NEW q \in Files
  PROVE  ~Under(q, p)
<1>1. p.segs # <<>>
  BY NamesAssumption DEF IsName
<1>2. QED BY <1>1, NamesAssumption DEF Under

-----------------------------------------------------------------------------
\* Invented paths

LEMMA RootPlain == ~Synthetic(RootDir)
  BY DEF Synthetic, RootOf, Classify, KindOf, RootDir, Plain

\* A path is of a bundle's kind by three segments at most.
LEMMA KindBelow ==
  ASSUME NEW p, NEW s, NEW n \in Nat, p.at = None, p.segs = s, Len(s) = n, n > 1, s[1] = PrefabRoot,
         n = 2 \/ s[3] \in {AssetsDir, FbmDir} \/ (n = 3 /\ s[3] \in {Manifest, Original, MeshFbx})
  PROVE  KindOf(p) # "other"
  BY DEF KindOf

LEMMA KindUp ==
  ASSUME NEW p, NEW s, NEW n \in Nat, p.segs = s, Len(s) = n, KindOf(p) # "other"
  PROVE  /\ p.at = None /\ n > 0 /\ s[1] = PrefabRoot
         /\ KindOf(p) = "root" => n = 1
         /\ KindOf(p) = "bundle" => n = 2
         /\ KindOf(p) = "assets" => n > 2 /\ s[3] = AssetsDir
         /\ KindOf(p) = "fbm" => n > 2 /\ s[3] = FbmDir
  BY SMTT(30) DEF KindOf

LEMMA SubOf ==
  ASSUME NEW s, NEW x
  PROVE  Sub(Plain(s), <<x>>) = Plain(s \o <<x>>) /\ Plain(s).at = None /\ Plain(s).segs = s
<1>1. Sub(Plain(s), <<x>>) = Plain(s \o <<x>>)
  BY DEF Sub, Plain
<1>2. Plain(s).at = None /\ Plain(s).segs = s
  BY DEF Plain
<1>3. QED BY <1>1, <1>2

\* What is listed below an invented directory is invented.
LEMMA InventedBelow ==
  ASSUME NEW d, d = Plain(d.segs), IsSegs(d.segs), Synthetic(d), NEW x,
         \/ KindOf(d) \in {"other", "root", "assets", "fbm"}
         \/ KindOf(d) = "bundle" /\ x \in {Manifest, Original, AssetsDir, MeshFbx, FbmDir}
  PROVE  Synthetic(Sub(d, <<x>>))
<1> DEFINE s == d.segs
           t == d.segs \o <<x>>
           c == Sub(d, <<x>>)
<1>1. c = Plain(t) /\ c.at = None /\ c.segs = t /\ d.at = None
  <2>1. d = Plain(s)
    OBVIOUS
  <2> HIDE DEF s
  <2>2. Sub(Plain(s), <<x>>) = Plain(s \o <<x>>) /\ Plain(s \o <<x>>).at = None
        /\ Plain(s \o <<x>>).segs = s \o <<x>> /\ Plain(s).at = None
    BY SubOf
  <2>3. QED BY <2>1, <2>2 DEF s
<1>2. /\ Len(t) = Len(s) + 1 /\ Len(s) \in Nat /\ t # <<>>
      /\ t[Len(s) + 1] = x /\ \A i \in 1 .. Len(s) : t[i] = s[i]
  BY OneMore
<1>3. s # <<>> => Len(s) > 0
  BY EmptySeq DEF IsSegs
<1> HIDE DEF t, c
<1>4. CASE KindOf(d) = "other"
  <2>1. RootOf(d) # {}
    BY <1>4 DEF Synthetic, Classify
  <2>2. s # <<>> /\ t[1] = s[1]
    BY <1>2, <1>3, <2>1 DEF RootOf
  <2>3. RootOf(c) = RootOf(d)
    BY <1>1, <1>2, <2>2 DEF RootOf
  <2>4. QED BY <2>1, <2>3 DEF Synthetic, c
<1>5. CASE KindOf(d) # "other"
  <2>1. Len(s) > 0 /\ s[1] = PrefabRoot
    BY <1>2, <1>5, KindUp
  <2>2. KindOf(d) = "root" => Len(t) = 2
    BY <1>2, KindUp
  <2>3. KindOf(d) = "bundle" => Len(t) = 3 /\ t[3] = x
    BY <1>2, KindUp
  <2>4. KindOf(d) \in {"assets", "fbm"} => Len(t) > 3 /\ t[3] \in {AssetsDir, FbmDir}
    BY <1>2, KindUp
  <2>5. t[1] = PrefabRoot /\ Len(t) > 1 /\ Len(t) \in Nat
    BY <1>2, <2>1
  <2>6. Len(t) = 2 \/ t[3] \in {AssetsDir, FbmDir} \/ (Len(t) = 3 /\ t[3] \in {Manifest, Original, MeshFbx})
    BY <1>5, <2>2, <2>3, <2>4
  <2>7. KindOf(c) # "other"
    BY <1>1, <2>5, <2>6, KindBelow
  <2>8. QED BY <2>7 DEF Synthetic, Classify, c
<1>6. QED BY <1>4, <1>5

LEMMA InventedListing ==
  ASSUME NEW d \in Listed, Synthetic(d), NEW e \in SynthListing(tree, d)
  PROVE  e = Entry(e.path, e.isDir) /\ Synthetic(e.path)
<1> DEFINE made(x, b) == Entry(Sub(d, <<x>>), b)
<1>0. d = Plain(d.segs) /\ IsSegs(d.segs)
  BY ListedParts
<1>1. \A x, b : made(x, b) = Entry(made(x, b).path, made(x, b).isDir) /\ made(x, b).path = Sub(d, <<x>>)
  BY DEF Entry
<1>2. CASE KindOf(d) = "other"
  <2>1. \E x, b : e = made(x, b)
    BY <1>2 DEF SynthListing, Classify, ViewListing
  <2>2. PICK x, b : e = made(x, b)
    BY <2>1
  <2>3. Synthetic(Sub(d, <<x>>))
    BY <1>0, <1>2, InventedBelow
  <2>4. QED BY <1>1, <2>2, <2>3
<1>3. CASE KindOf(d) # "other"
  <2>1. e \in PrefabListing(tree, d)
    BY <1>3 DEF SynthListing, Classify
  <2>2. Classify(d).kind = KindOf(d)
    BY DEF Classify
  <2>3. CASE KindOf(d) \in {"root", "assets", "fbm"}
    <3>1. \E x, b : e = made(x, b)
      BY <2>1, <2>2, <2>3 DEF PrefabListing
    <3>2. PICK x, b : e = made(x, b)
      BY <3>1
    <3>3. Synthetic(Sub(d, <<x>>))
      BY <1>0, <2>3, InventedBelow
    <3>4. QED BY <1>1, <3>2, <3>3
  <2>4. CASE KindOf(d) = "bundle"
    <3>1. \E x \in {Manifest, Original, AssetsDir, MeshFbx, FbmDir} : \E b : e = made(x, b)
      BY <2>1, <2>2, <2>4 DEF PrefabListing
    <3>2. PICK x \in {Manifest, Original, AssetsDir, MeshFbx, FbmDir} : \E b : e = made(x, b)
      BY <3>1
    <3>3. Synthetic(Sub(d, <<x>>))
      BY <1>0, <2>4, <3>2, InventedBelow
    <3>4. QED BY <1>1, <3>2, <3>3
  <2>5. CASE KindOf(d) \notin {"root", "assets", "fbm", "bundle"}
    <3>1. PrefabListing(tree, d) = {}
      BY <2>2, <2>5 DEF PrefabListing
    <3>2. QED BY <2>1, <3>1
  <2>6. QED BY <2>3, <2>4, <2>5
<1>4. QED BY <1>2, <1>3

-----------------------------------------------------------------------------
\* Entries and listings

\* A name that nobody invented is registered as the kind of thing it is used for.
Kinded(e) == ~Synthetic(e.path) => (e.isDir <=> e.path \notin Files)

\* Lists(d, e): what the listing of directory d may say.
Lists(d, e) ==
  /\ e = Entry(e.path, e.isDir)
  /\ IF Synthetic(d) THEN Synthetic(e.path)
     ELSE /\ Parent(e.path) = d
          /\ Kinded(e)
          /\ ~e.isDir => e.path \in DOMAIN tree

\* A path cut to one segment below a directory it lies in.
LEMMA Cut ==
  ASSUME NEW d \in Listed, NEW p \in Files, Under(p, d),
         NEW c, c = [at |-> p.at, segs |-> SubSeq(p.segs, 1, Len(d.segs) + 1)]
  PROVE  /\ Parent(c) = d /\ c.at = None /\ c.segs # <<>>
         /\ c = p \/ c \notin Files
<1> DEFINE k == Len(d.segs)
           s == p.segs
           S == ToSet(p.segs)
           t == SubSeq(s, 1, k + 1)
<1>1. d = Plain(d.segs) /\ d.at = None /\ IsSegs(d.segs) /\ k \in Nat /\ DOMAIN d.segs = 1 .. k
  BY ListedParts, SegsIn DEF IsSegs
<1>2. p = Plain(s) /\ p.at = None /\ s \in Seq(S) /\ Len(s) \in Nat \ {0}
  BY NamesAssumption, NameParts DEF IsName
<1>3. k < Len(s) /\ SubSeq(s, 1, k) = d.segs
  <2>1. CASE d.segs = <<>>
    <3>1. k = 0
      BY <2>1
    <3>2. SubSeq(s, 1, 0) = <<>>
      BY SubSeqEmpty
    <3>3. QED BY <1>2, <2>1, <3>1, <3>2
  <2>2. CASE d.segs # <<>>
    <3>1. k <= Len(s) /\ SubSeq(d.segs, 1, k) = SubSeq(s, 1, k) /\ d.segs # s
      BY <2>2 DEF Under, IsStrictPrefix, IsPrefix
    <3>2. SubSeq(d.segs, 1, k) = d.segs
      BY <1>1, SubSeqFull DEF IsSegs
    <3>3. SubSeq(s, 1, Len(s)) = s
      BY <1>2, SubSeqFull
    <3>4. k # Len(s)
      BY <3>1, <3>2, <3>3
    <3>5. QED BY <1>1, <1>2, <3>1, <3>2, <3>4
  <2>3. QED BY <2>1, <2>2
<1>4. t \in Seq(S) /\ Len(t) = k + 1 /\ \A i \in 1 .. k + 1 : t[i] = s[i]
  <2>1. \A i \in 1 .. k + 1 : s[i] \in S
    BY <1>1, <1>2, <1>3, ElementOfSeq
  <2>2. /\ SubSeq(s, 1, k + 1) \in Seq(S)
        /\ Len(SubSeq(s, 1, k + 1)) = IF 1 <= k + 1 THEN k + 1 - 1 + 1 ELSE 0
        /\ \A i \in 1 .. k + 1 - 1 + 1 : SubSeq(s, 1, k + 1)[i] = s[1 + i - 1]
    BY <1>1, <2>1, SubSeqProperties
  <2>3. QED BY <1>1, <2>2
<1>5. c.at = None /\ c.segs = t /\ c = Plain(t)
  BY <1>2 DEF Plain
<1> HIDE DEF t, k, s
<1>6. SubSeq(t, 1, k) = SubSeq(s, 1, k)
  BY <1>1, <1>2, <1>3, <1>4
<1>7. Front(t) = d.segs
  BY <1>1, <1>3, <1>4, <1>6 DEF Front
<1>8. Parent(c) = d
  BY <1>1, <1>5, <1>7 DEF Parent
<1>9. t # <<>>
  BY <1>1, <1>4
<1>10. CASE Len(s) = k + 1
  <2>1. t = s
    BY <1>2, <1>4, <1>10, SeqEqual
  <2>2. QED BY <1>2, <1>5, <1>8, <1>9, <2>1
<1>11. CASE Len(s) # k + 1
  <2>1. k + 1 <= Len(s) /\ SubSeq(t, 1, k + 1) = SubSeq(s, 1, k + 1) /\ t # s
    <3>1. SubSeq(t, 1, k + 1) = t
      BY <1>4, SubSeqFull
    <3>2. QED BY <1>1, <1>2, <1>3, <1>4, <1>11, <3>1 DEF t
  <2>2. IsStrictPrefix(t, s)
    BY <1>4, <2>1 DEF IsStrictPrefix, IsPrefix
  <2>3. c \notin Files
    BY <1>5, <2>2, NamesAssumption DEF s
  <2>4. QED BY <1>5, <1>8, <1>9, <2>3
<1>12. QED BY <1>10, <1>11

LEMMA PlainListing ==
  ASSUME DOMAIN tree \subseteq Files, NEW d \in Listed, NEW e \in EntriesOfDir(d)
  PROVE  Lists(d, e)
<1>1. CASE Synthetic(d)
  BY <1>1, InventedListing DEF EntriesOfDir, Lists
<1>2. CASE ~Synthetic(d) /\ e \in Children(tree, d)
  <2>1. PICK p \in DOMAIN tree :
          /\ Under(p, d)
          /\ \E c : /\ c = [at |-> p.at, segs |-> SubSeq(p.segs, 1, Len(d.segs) + 1)]
                   /\ e = [path |-> c, isDir |-> c \notin DOMAIN tree]
    BY <1>2 DEF Children
  <2>2. PICK c :
          /\ Under(p, d) /\ c = [at |-> p.at, segs |-> SubSeq(p.segs, 1, Len(d.segs) + 1)]
          /\ e = [path |-> c, isDir |-> c \notin DOMAIN tree]
    BY <2>1
  <2>3. p \in Files
    OBVIOUS
  <2>4. Parent(c) = d /\ (c = p \/ c \notin Files)
    <3>1. d \in Listed /\ Under(p, d) /\ c = [at |-> p.at, segs |-> SubSeq(p.segs, 1, Len(d.segs) + 1)]
      BY <2>2
    <3>2. QED BY ONLY <2>3, <3>1, Cut
  <2>5. e.path = c /\ (e.isDir <=> c \notin DOMAIN tree) /\ e = Entry(e.path, e.isDir)
    BY <2>2 DEF Entry
  <2>6. QED BY <1>2, <2>4, <2>5 DEF Lists, Kinded
<1>3. CASE ~Synthetic(d) /\ e \notin Children(tree, d)
  <2>1. d = RootDir /\ \E n \in {r.name : r \in Roots} \cup {PrefabRoot} : e = Entry(Plain(<<n>>), TRUE)
    BY <1>3 DEF EntriesOfDir
  <2>2. PICK n \in {r.name : r \in Roots} \cup {PrefabRoot} : e = Entry(Plain(<<n>>), TRUE)
    BY <2>1
  <2>3. e.path = Plain(<<n>>) /\ e.isDir /\ e = Entry(e.path, e.isDir)
    BY <2>2 DEF Entry
  <2>4. Parent(e.path) = RootDir
    <3>1. SubSeq(<<n>>, 1, 0) = <<>>
      BY SubSeqEmpty
    <3>2. QED BY <2>3, <3>1 DEF Parent, RootDir, Front, Plain
  <2>5. Synthetic(e.path)
    <3>1. CASE n = PrefabRoot
      BY <2>3, <3>1 DEF Synthetic, Classify, KindOf, Plain
    <3>2. CASE n # PrefabRoot
      BY <2>3, <3>2 DEF Synthetic, RootOf, Plain
    <3>3. QED BY <3>1, <3>2
  <2>6. QED BY <1>3, <2>1, <2>3, <2>4, <2>5 DEF Lists, Kinded
<1>4. QED BY <1>1, <1>2, <1>3

-----------------------------------------------------------------------------
\* The inode map

LEMMA Least ==
  ASSUME NEW S \in SUBSET Nat, S # {}
  PROVE  Min(S) \in S
<1> DEFINE R == {ss \in Nat \X Nat : ss[1] < ss[2]}
<1>1. IsWellFoundedOn(R, Nat)
  BY NatLessThanWellFounded DEF OpToRel
<1>2. PICK x \in S : \A y \in S : <<y, x>> \notin R
  <2> HIDE DEF R
  <2> QED BY <1>1, WFMin
<1>3. \A y \in S : ~(y < x)
  BY <1>2
<1>4. \E z \in S : \A y \in S : z <= y
  BY <1>3
<1>5. QED BY <1>4 DEF Min

\* Draining keeps what is in the map and adds what is in a batch, if it is under its
\* own path.
LEMMA Merging ==
  ASSUME NEW map, NEW batches, IsSegs(batches)
  PROVE  /\ DOMAIN map \subseteq DOMAIN Merged(map, batches)
         /\ \A i \in DOMAIN map : Merged(map, batches)[i] = map[i]
         /\ \A i \in DOMAIN Merged(map, batches) \ DOMAIN map :
              /\ Merged(map, batches)[i].path = i
              /\ \E n \in DOMAIN batches : Merged(map, batches)[i] \in batches[n]
         /\ \A n \in DOMAIN batches : \A e \in batches[n] : e.path \in DOMAIN Merged(map, batches)
<1> DEFINE batched(p) == {i \in DOMAIN batches : \E e \in batches[i] : e.path = p}
           new == {e.path : e \in UNION ToSet(batches)}
           picked(p) == CHOOSE e \in batches[Min(batched(p))] : e.path = p
           m == Merged(map, batches)
<1>1. m = [p \in DOMAIN map \cup new |-> IF p \in DOMAIN map THEN map[p] ELSE picked(p)]
  BY DEF Merged
<1>2. \A p \in new : \E n \in DOMAIN batches : \E e \in batches[n] : e.path = p
  BY DEF ToSet
<1>3. \A n \in DOMAIN batches : \A e \in batches[n] : e.path \in new
  BY DEF ToSet
<1>4. DOMAIN batches \subseteq Nat
  BY SegsIn DEF IsSegs
<1>5. \A p \in new : picked(p).path = p /\ \E n \in DOMAIN batches : picked(p) \in batches[n]
  <2> SUFFICES ASSUME NEW p \in new
               PROVE  picked(p).path = p /\ \E n \in DOMAIN batches : picked(p) \in batches[n]
    OBVIOUS
  <2>1. batched(p) # {} /\ batched(p) \in SUBSET Nat
    BY <1>2, <1>4
  <2>2. Min(batched(p)) \in batched(p)
    <3> HIDE DEF batched
    <3> QED BY <2>1, Least
  <2>3. QED BY <2>2
<1> HIDE DEF new, picked, m
<1>6. QED BY <1>1, <1>3, <1>5 DEF m

-----------------------------------------------------------------------------
\* The inductive invariant

Names ==
  /\ DOMAIN tree \subseteq Files
  /\ overlay \subseteq Writable
  /\ synth \subseteq Makeable
  /\ gone \subseteq Writable \ (DOMAIN tree \cup overlay)
  /\ \A p \in DOMAIN tree \cup gone : ~Synthetic(p)

\* An inode stands for the path it was made for, or for the file that this one was
\* renamed to.
Stands(i, e, away) ==
  /\ e = Entry(e.path, e.isDir)
  /\ e.path = i => Kinded(e)
  /\ e.path # i => i \in away /\ ~e.isDir /\ e.path \in Writable

Registered == \A i \in DOMAIN paths : Stands(i, paths[i], gone)

Queued ==
  /\ IsSegs(queue)
  /\ \A n \in DOMAIN queue : \A e \in queue[n] : e = Entry(e.path, e.isDir) /\ Kinded(e)

Kernel == \A p \in DOMAIN known : known[p] \in DOMAIN Drained /\ Drained[known[p]].path = p

\* What is listed, or about to be, is registered and there.
Listings ==
  /\ DOMAIN listing = Listed
  /\ \A d \in Listed : \A e \in listing[d].entries : Lists(d, e) /\ e.path \in DOMAIN Drained

Building(j) ==
  /\ j = [pc |-> j.pc, dir |-> j.dir, entries |-> j.entries]
  /\ j.pc \in {"idle", "list", "queue", "serve"}
  /\ j.pc # "idle" => j.dir \in Listed
  /\ j.pc \in {"queue", "serve"} => \A e \in j.entries : Lists(j.dir, e)
  /\ j.pc = "serve" => \A e \in j.entries : e.path \in DOMAIN Drained

Jobs == DOMAIN job = Pool /\ \A t \in Pool : Building(job[t])

NInv == Names /\ Registered /\ Queued /\ Kernel /\ Listings /\ Jobs

-----------------------------------------------------------------------------
\* What the invariant says of lookups

LEMMA Draining ==
  ASSUME Registered, Queued
  PROVE  /\ DOMAIN paths \subseteq DOMAIN Drained
         /\ \A i \in DOMAIN Drained : Stands(i, Drained[i], gone)
<1>1. /\ DOMAIN paths \subseteq DOMAIN Drained
      /\ \A i \in DOMAIN paths : Drained[i] = paths[i]
      /\ \A i \in DOMAIN Drained \ DOMAIN paths :
           Drained[i].path = i /\ \E n \in DOMAIN queue : Drained[i] \in queue[n]
  BY Merging DEF Drained, Queued
<1>2. QED BY <1>1 DEF Registered, Queued, Stands

\* A client's name stands for the path that it spells.
LEMMA PathFound ==
  ASSUME NInv, NEW p \in Files \cup Makeable \cup LookedUp, Reachable(p)
  PROVE  PathOf(p) = p
<1>1. Drained[known[Parent(p)]].path = Parent(p)
  BY DEF NInv, Kernel, Reachable, Knows
<1>2. QED BY <1>1, NameParts, NamesAssumption DEF PathOf

LEMMA PlainLookup ==
  ASSUME NEW p, ~Synthetic(p)
  PROVE  LookupKind(p) = IF p \in DOMAIN tree THEN "file"
                         ELSE IF DirExists(p) \/ FlaggedDir(p) THEN "dir"
                         ELSE IF p \in DOMAIN Drained /\ p \in overlay THEN "file"
                         ELSE "absent"
<1>1. RootOf(p) = {} /\ Classify(p).kind = "other"
  BY DEF Synthetic
<1>2. Resolve(p) = {} /\ ResolveDir(p) = {}
  BY <1>1 DEF Resolve, ResolveDir
<1>3. LookupSynth(tree, p) = "absent"
  BY <1>1, <1>2 DEF LookupSynth
<1>4. QED BY <1>1, <1>3 DEF LookupKind, Present

LEMMA FileNoDir ==
  ASSUME NInv, NEW p \in Files, ~Synthetic(p)
  PROVE  ~DirExists(p) /\ ~FlaggedDir(p)
<1>1. p \notin synth
  BY NamesAssumption DEF NInv, Names
<1>2. ~HoldsFiles(tree, p)
  BY NotBelow DEF HoldsFiles, NInv, Names
<1>3. p \in DOMAIN Drained => ~Drained[p].isDir
  BY Draining DEF NInv, Stands, Kinded
<1>4. QED BY <1>1, <1>2, <1>3 DEF DirExists, FlaggedDir

LEMMA GoneAbsent ==
  ASSUME NInv, NEW p \in gone
  PROVE  LookupKind(p) = "absent"
<1>1. p \in Files /\ ~Synthetic(p) /\ p \notin DOMAIN tree /\ p \notin overlay
  BY DEF NInv, Names, Files
<1>2. QED BY <1>1, PlainLookup, FileNoDir

LEMMA ListedHere ==
  ASSUME NInv, NEW d, NEW e, Lists(d, e)
  PROVE  e.path \notin gone
<1> SUFFICES ASSUME e.path \in gone PROVE FALSE
  OBVIOUS
<1>1. e.path \in Files /\ ~Synthetic(e.path) /\ e.path \notin DOMAIN tree
  BY DEF NInv, Names, Files
<1>2. QED BY <1>1 DEF Lists, Kinded

-----------------------------------------------------------------------------
\* The invariant under the parts of a step

LEMMA NoSegs == IsSegs(<<>>) /\ DOMAIN <<>> = {}
<1>1. <<>> \in Seq({}) /\ Len(<<>>) = 0
  BY EmptySeq
<1>2. IsSegs(<<>>) /\ DOMAIN <<>> = 1 .. Len(<<>>)
  BY <1>1, SegsIn
<1>3. QED BY <1>1, <1>2

LEMMA InitN == Init => NInv
<1> SUFFICES ASSUME Init PROVE NInv
  OBVIOUS
<1>1. Names
  BY NamesAssumption DEF Init, Names, Files
<1>2. RootDir \notin Files
  BY NamesAssumption DEF RootDir, Plain, IsName
<1>3. DOMAIN paths = {RootDir} /\ paths[RootDir] = Entry(RootDir, TRUE)
  BY DEF Init
<1>4. Registered
  <2>1. DOMAIN paths = {RootDir} /\ paths[RootDir] = Entry(RootDir, TRUE)
    BY <1>3
  <2>2. Stands(RootDir, Entry(RootDir, TRUE), gone)
    BY <1>2 DEF Stands, Kinded, Entry
  <2>3. QED BY <2>1, <2>2 DEF Registered
<1>5. Queued
  BY NoSegs DEF Init, Queued
<1>6. Kernel
  <2>1. DOMAIN paths \subseteq DOMAIN Drained /\ \A i \in DOMAIN paths : Drained[i] = paths[i]
    BY <1>5, Merging DEF Drained, Queued
  <2>2. RootDir \in DOMAIN paths /\ paths[RootDir].path = RootDir
    BY <1>3 DEF Entry
  <2>3. DOMAIN known = {RootDir} /\ known[RootDir] = RootDir
    BY DEF Init
  <2>4. QED BY <2>1, <2>2, <2>3 DEF Kernel
<1>7. Listings
  BY DEF Init, Listings, NoSlot
<1>8. Jobs
  BY DEF Init, Jobs, Building, NoJob
<1>9. QED BY <1>1, <1>4, <1>5, <1>6, <1>7, <1>8 DEF NInv

\* A handler that registers: the map is what it says, and the queue is empty.
LEMMA Registers ==
  ASSUME NEW m, Register(m)
  PROVE  /\ Queued'
         /\ DOMAIN Drained' = DOMAIN m
         /\ \A i \in DOMAIN m : Drained'[i] = m[i]
         /\ (\A i \in DOMAIN m : Stands(i, m[i], gone')) => Registered'
<1>2. IsSegs(<<>>) /\ DOMAIN <<>> = {}
  BY NoSegs
<1>3. paths' = m /\ queue' = <<>>
  BY DEF Register
<1>4. Queued'
  BY <1>2, <1>3 DEF Queued
<1>5. Drained' = Merged(m, <<>>)
  BY <1>3 DEF Drained
<1>6. /\ DOMAIN Merged(m, <<>>) = DOMAIN m
      /\ \A i \in DOMAIN m : Merged(m, <<>>)[i] = m[i]
  BY <1>2, Merging
<1>7. (\A i \in DOMAIN m : Stands(i, m[i], gone')) => Registered'
  BY <1>3 DEF Registered
<1>8. QED BY <1>4, <1>5, <1>6, <1>7

\* The kernel learns nothing but names that stand for themselves.
LEMMA KernelStep ==
  ASSUME Kernel, DOMAIN Drained \subseteq DOMAIN Drained',
         \A i \in DOMAIN Drained : Drained'[i].path = Drained[i].path,
         \A p \in DOMAIN known' :
           \/ p \in DOMAIN known /\ known'[p] = known[p]
           \/ known'[p] = p /\ p \in DOMAIN Drained' /\ Drained'[p].path = p
  PROVE  Kernel'
<1>1. ASSUME NEW p \in DOMAIN known' PROVE known'[p] \in DOMAIN Drained' /\ Drained'[known'[p]].path = p
  <2>1. CASE p \in DOMAIN known /\ known'[p] = known[p]
    BY <2>1 DEF Kernel
  <2>2. CASE known'[p] = p /\ p \in DOMAIN Drained' /\ Drained'[p].path = p
    BY <2>2
  <2>3. QED BY <2>1, <2>2
<1>2. QED BY <1>1 DEF Kernel

\* A file that leaves the tree was in no listing but its directory's.
LEMMA ListsStay ==
  ASSUME NEW d, NEW e, Lists(d, e),
         \A p \in DOMAIN tree \ DOMAIN tree' : Parent(p) # d \/ Synthetic(d)
  PROVE  Lists(d, e)'
<1>1. CASE Synthetic(d)
  BY <1>1 DEF Lists
<1>2. CASE ~Synthetic(d)
  BY <1>2 DEF Lists
<1>3. QED BY <1>1, <1>2

LEMMA ListingsStep ==
  ASSUME Listings, DOMAIN Drained \subseteq DOMAIN Drained', DOMAIN listing' = Listed,
         \A d \in Listed : listing'[d] = listing[d] \/ listing'[d] = NoSlot,
         \A p \in DOMAIN tree \ DOMAIN tree' : Parent(p) \in Listed => listing'[Parent(p)] = NoSlot
  PROVE  Listings'
<1>1. ASSUME NEW d \in Listed, NEW e \in listing'[d].entries
      PROVE  Lists(d, e)' /\ e.path \in DOMAIN Drained'
  <2>1. listing'[d] # NoSlot
    BY <1>1 DEF NoSlot
  <2>2. Lists(d, e) /\ e.path \in DOMAIN Drained
    BY <1>1, <2>1 DEF Listings
  <2>3. \A p \in DOMAIN tree \ DOMAIN tree' : Parent(p) # d
    BY <2>1
  <2>4. QED BY <2>2, <2>3, ListsStay
<1>2. QED BY <1>1 DEF Listings

LEMMA JobsStep ==
  ASSUME Jobs, DOMAIN Drained \subseteq DOMAIN Drained', UNCHANGED job,
         \A p \in DOMAIN tree \ DOMAIN tree' : Unlocked(Parent(p))
  PROVE  Jobs'
<1>1. ASSUME NEW t \in Pool, NEW e, Lists(job[t].dir, e) PROVE Lists(job[t].dir, e)'
  <2>1. \A p \in DOMAIN tree \ DOMAIN tree' : Parent(p) # job[t].dir
    BY DEF Unlocked
  <2>2. QED BY <1>1, <2>1, ListsStay
<1>2. QED BY <1>1 DEF Jobs, Building

-----------------------------------------------------------------------------
\* Steps

\* A call of the session thread that leaves the builders alone.
LEMMA Handles ==
  ASSUME NInv, Names', NEW m, Register(m), DOMAIN Drained \subseteq DOMAIN m,
         \A i \in DOMAIN m : Stands(i, m[i], gone'),
         \A p \in DOMAIN known' : known'[p] \in DOMAIN m /\ m[known'[p]].path = p,
         UNCHANGED job, DOMAIN listing' = Listed,
         \A d \in Listed : listing'[d] = listing[d] \/ listing'[d] = NoSlot,
         \A p \in DOMAIN tree \ DOMAIN tree' :
           Unlocked(Parent(p)) /\ (Parent(p) \in Listed => listing'[Parent(p)] = NoSlot)
  PROVE  NInv'
<1>1. Queued' /\ DOMAIN Drained' = DOMAIN m /\ (\A i \in DOMAIN m : Drained'[i] = m[i]) /\ Registered'
  BY Registers
<1>2. Kernel'
  BY <1>1 DEF Kernel
<1>3. Listings'
  BY <1>1, ListingsStep DEF NInv
<1>4. Jobs'
  BY <1>1, JobsStep DEF NInv
<1>5. QED BY <1>1, <1>2, <1>3, <1>4 DEF NInv

\* The map with one name ensured, when no other name is made again.
LEMMA Ensures ==
  ASSUME NInv, NEW p, NEW e, e = Entry(e.path, e.isDir), e.path = p,
         p \notin DOMAIN Drained => Kinded(e),
         NEW m, m = [i \in DOMAIN Drained \cup {p} |-> IF i \in DOMAIN Drained THEN Drained[i] ELSE e],
         \A i \in gone \ gone' : i \in DOMAIN Drained => Drained[i].path = i
  PROVE  /\ DOMAIN m = DOMAIN Drained \cup {p}
         /\ \A i \in DOMAIN Drained : m[i] = Drained[i]
         /\ p \notin DOMAIN Drained => m[p] = e
         /\ \A i \in DOMAIN m : Stands(i, m[i], gone')
<1>1. \A i \in DOMAIN Drained : Stands(i, Drained[i], gone)
  BY Draining DEF NInv
<1>2. \A i \in DOMAIN Drained : Stands(i, Drained[i], gone')
  BY <1>1 DEF Stands
<1>3. p \notin DOMAIN Drained => Stands(p, e, gone')
  BY DEF Stands
<1>4. /\ DOMAIN m = DOMAIN Drained \cup {p}
      /\ \A i \in DOMAIN m : m[i] = IF i \in DOMAIN Drained THEN Drained[i] ELSE e
  OBVIOUS
<1>5. QED BY <1>2, <1>3, <1>4

\* What the kernel learns of a name, or forgets.
LEMMA LearnsName ==
  ASSUME Kernel, NEW m, DOMAIN Drained \subseteq DOMAIN m,
         \A i \in DOMAIN Drained : m[i] = Drained[i],
         NEW p, Forget(p) \/ (Learn(p, p) /\ p \in DOMAIN m /\ m[p].path = p)
  PROVE  \A q \in DOMAIN known' : known'[q] \in DOMAIN m /\ m[known'[q]].path = q
<1>1. CASE Forget(p)
  BY <1>1 DEF Forget, Kernel
<1>2. CASE Learn(p, p) /\ p \in DOMAIN m /\ m[p].path = p
  BY <1>2 DEF Learn, Kernel
<1>3. QED BY <1>1, <1>2

LEMMA LookupN ==
  ASSUME NInv, NEW p \in LookedUp, Lookup(p)
  PROVE  NInv'
<1>1. PathOf(p) = p /\ UNCHANGED <<tree, synth, overlay, listing, job, gone>>
  BY PathFound DEF Lookup
<1>2. Names'
  BY <1>1 DEF NInv, Names
<1>3. DOMAIN listing' = Listed
  BY <1>1 DEF NInv, Listings
<1>4. CASE LookupKind(p) = "absent"
  <2>1. Forget(p) /\ Register(Drained)
    BY <1>1, <1>4 DEF Lookup
  <2>2. \A i \in DOMAIN Drained : Stands(i, Drained[i], gone')
    BY <1>1, Draining DEF NInv
  <2>3. PICK m : m = Drained
    OBVIOUS
  <2>4. \A q \in DOMAIN known' : known'[q] \in DOMAIN m /\ m[known'[q]].path = q
    BY <2>1, <2>3, LearnsName DEF NInv
  <2>5. QED BY <1>1, <1>2, <1>3, <2>1, <2>2, <2>3, <2>4, Handles
<1>5. CASE LookupKind(p) # "absent"
  <2>1. PICK e, m : /\ e = Entry(p, LookupKind(p) = "dir")
                    /\ m = [i \in DOMAIN Drained \cup {p} |-> IF i \in DOMAIN Drained THEN Drained[i] ELSE e]
    OBVIOUS
  <2>2. Learn(p, p) /\ Register(m)
    BY <1>1, <1>5, <2>1 DEF Lookup, Ensured
  <2>3. e = Entry(e.path, e.isDir) /\ e.path = p /\ (e.isDir <=> LookupKind(p) = "dir")
    BY <2>1 DEF Entry
  <2>4. p \notin DOMAIN Drained => Kinded(e)
    <3> SUFFICES ASSUME p \notin DOMAIN Drained, ~Synthetic(p)
                 PROVE  LookupKind(p) = "dir" <=> p \notin Files
      BY <2>3 DEF Kinded
    <3>1. p \in DOMAIN tree => p \in Files
      BY DEF NInv, Names
    <3>2. p \in Files => ~DirExists(p) /\ ~FlaggedDir(p)
      BY FileNoDir
    <3>3. QED BY <1>5, <3>1, <3>2, PlainLookup
  <2>5. /\ DOMAIN m = DOMAIN Drained \cup {p}
        /\ \A i \in DOMAIN Drained : m[i] = Drained[i]
        /\ p \notin DOMAIN Drained => m[p] = e
        /\ \A i \in DOMAIN m : Stands(i, m[i], gone')
    BY <1>1, <2>1, <2>3, <2>4, Ensures
  <2>6. m[p].path = p
    <3>1. p \notin gone
      BY <1>5, GoneAbsent
    <3>2. QED BY <1>1, <2>3, <2>5, <3>1 DEF Stands
  <2>7. \A q \in DOMAIN known' : known'[q] \in DOMAIN m /\ m[known'[q]].path = q
    BY <2>2, <2>5, <2>6, LearnsName DEF NInv
  <2>8. QED BY <1>1, <1>2, <1>3, <2>2, <2>5, <2>7, Handles
<1>6. QED BY <1>4, <1>5

LEMMA Drops ==
  ASSUME NEW dirs, Drop(dirs)
  PROVE  /\ DOMAIN listing' = Listed
         /\ \A d \in Listed : listing'[d] = listing[d] \/ listing'[d] = NoSlot
         /\ \A d \in dirs : d \in Listed => listing'[d] = NoSlot
  BY DEF Drop

LEMMA CreateN ==
  ASSUME NInv, NEW p \in Writable, Create(p)
  PROVE  NInv'
<1>1. /\ PathOf(p) = p
      /\ LookupKind(p) = "absent"
      /\ p \in DOMAIN Drained => Drained[p] = Entry(p, FALSE)
      /\ Register(Ensured(p, FALSE))
      /\ overlay' = overlay \cup {p} /\ gone' = gone \ {p}
      /\ Drop({Parent(p)})
      /\ Learn(p, p)
      /\ UNCHANGED <<tree, synth, job>>
  BY PathFound DEF Create, Change, Files
<1>2. Names'
  BY <1>1 DEF NInv, Names
<1>3. PICK e, m : /\ e = Entry(p, FALSE)
                  /\ m = [i \in DOMAIN Drained \cup {p} |-> IF i \in DOMAIN Drained THEN Drained[i] ELSE e]
  OBVIOUS
<1>4. Register(m)
  BY <1>1, <1>3 DEF Ensured
<1>5. e = Entry(e.path, e.isDir) /\ e.path = p /\ e.isDir = FALSE
  BY <1>3 DEF Entry
<1>6. Kinded(e)
  BY <1>5 DEF Kinded, Files
<1>7. \A i \in gone \ gone' : i \in DOMAIN Drained => Drained[i].path = i
  BY <1>1, <1>3, <1>5
<1>8. /\ DOMAIN m = DOMAIN Drained \cup {p}
      /\ \A i \in DOMAIN Drained : m[i] = Drained[i]
      /\ p \notin DOMAIN Drained => m[p] = e
      /\ \A i \in DOMAIN m : Stands(i, m[i], gone')
  <2>1. NInv /\ e = Entry(e.path, e.isDir) /\ e.path = p /\ (p \notin DOMAIN Drained => Kinded(e))
    BY <1>5, <1>6
  <2>2. m = [i \in DOMAIN Drained \cup {p} |-> IF i \in DOMAIN Drained THEN Drained[i] ELSE e]
    BY <1>3
  <2>3. QED BY ONLY <1>7, <2>1, <2>2, Ensures
<1>9. m[p].path = p
  BY <1>1, <1>3, <1>5, <1>8
<1>10. \A q \in DOMAIN known' : known'[q] \in DOMAIN m /\ m[known'[q]].path = q
  BY <1>1, <1>8, <1>9, LearnsName DEF NInv
<1>11. QED BY <1>1, <1>2, <1>4, <1>8, <1>10, Drops, Handles

LEMMA MkdirN ==
  ASSUME NInv, NEW p \in Makeable, Mkdir(p)
  PROVE  NInv'
<1>1. /\ PathOf(p) = p
      /\ p \notin DOMAIN Drained
      /\ synth' = synth \cup {p}
      /\ Register(Ensured(p, TRUE))
      /\ Drop({Parent(p)})
      /\ Learn(p, p)
      /\ UNCHANGED <<tree, overlay, job, gone>>
  BY PathFound DEF Mkdir, Change
<1>2. Names'
  BY <1>1 DEF NInv, Names
<1>3. PICK e, m : /\ e = Entry(p, TRUE)
                  /\ m = [i \in DOMAIN Drained \cup {p} |-> IF i \in DOMAIN Drained THEN Drained[i] ELSE e]
  OBVIOUS
<1>4. Register(m)
  BY <1>1, <1>3 DEF Ensured
<1>5. e = Entry(e.path, e.isDir) /\ e.path = p /\ e.isDir = TRUE
  BY <1>3 DEF Entry
<1>6. Kinded(e)
  BY <1>5, NamesAssumption DEF Kinded
<1>7. /\ DOMAIN m = DOMAIN Drained \cup {p}
      /\ \A i \in DOMAIN Drained : m[i] = Drained[i]
      /\ p \notin DOMAIN Drained => m[p] = e
      /\ \A i \in DOMAIN m : Stands(i, m[i], gone')
  <2>1. NInv /\ e = Entry(e.path, e.isDir) /\ e.path = p /\ (p \notin DOMAIN Drained => Kinded(e))
    BY <1>5, <1>6
  <2>2. m = [i \in DOMAIN Drained \cup {p} |-> IF i \in DOMAIN Drained THEN Drained[i] ELSE e]
    BY <1>3
  <2>3. \A i \in gone \ gone' : i \in DOMAIN Drained => Drained[i].path = i
    BY <1>1
  <2>4. QED BY ONLY <2>1, <2>2, <2>3, Ensures
<1>8. \A q \in DOMAIN known' : known'[q] \in DOMAIN m /\ m[known'[q]].path = q
  BY <1>1, <1>5, <1>7, LearnsName DEF NInv
<1>9. QED BY <1>1, <1>2, <1>4, <1>7, <1>8, Drops, Handles

\* Calls that register nothing and forget the name they are about.
LEMMA Forgets ==
  ASSUME NInv, Names', NEW p, Register(Drained), Forget(p), UNCHANGED job,
         gone \subseteq gone', NEW dirs, Drop(dirs),
         \A q \in DOMAIN tree \ DOMAIN tree' : Unlocked(Parent(q)) /\ Parent(q) \in dirs
  PROVE  NInv'
<1>1. \A i \in DOMAIN Drained : Stands(i, Drained[i], gone')
  BY Draining DEF NInv, Stands
<1>2. PICK m : m = Drained
  OBVIOUS
<1>3. \A q \in DOMAIN known' : known'[q] \in DOMAIN m /\ m[known'[q]].path = q
  BY <1>2, LearnsName DEF NInv
<1>4. QED BY <1>1, <1>2, <1>3, Drops, Handles

LEMMA RmdirN ==
  ASSUME NInv, NEW p \in Makeable, Rmdir(p)
  PROVE  NInv'
<1>1. /\ synth' = synth \ {PathOf(p)}
      /\ Register(Drained) /\ Drop({Parent(PathOf(p))}) /\ Forget(p)
      /\ UNCHANGED <<tree, overlay, job, gone>>
  BY DEF Rmdir
<1>2. Names'
  BY <1>1 DEF NInv, Names
<1>3. QED BY <1>1, <1>2, Forgets

LEMMA UnlinkN ==
  ASSUME NInv, NEW p \in Writable, Unlink(p)
  PROVE  NInv'
<1>1. /\ PathOf(p) = p /\ Unlocked(Parent(p)) /\ ~Synthetic(p)
      /\ DOMAIN tree' = DOMAIN tree \ {p} /\ overlay' = overlay \ {p} /\ gone' = gone \cup {p}
      /\ Register(Drained) /\ Drop({Parent(p)}) /\ Forget(p)
      /\ UNCHANGED <<synth, job>>
  BY PathFound DEF Unlink, Change, Files, Keep, Plainly
<1>2. Names'
  BY <1>1 DEF NInv, Names
<1>3. QED BY <1>1, <1>2, Forgets

LEMMA UnlinkViewN ==
  ASSUME NInv, NEW p \in LookedUp, UnlinkView(p)
  PROVE  NInv'
<1>1. /\ overlay' = overlay \ {PathOf(p)}
      /\ Register(Drained) /\ Drop({Parent(PathOf(p))}) /\ Forget(p)
      /\ UNCHANGED <<tree, synth, job, gone>>
  BY DEF UnlinkView
<1>2. Names'
  BY <1>1 DEF NInv, Names
<1>3. QED BY <1>1, <1>2, Forgets

\* A rename repoints the inodes of its two names, and the kernel has the file by one of
\* them.
LEMMA RenameN ==
  ASSUME NInv, NEW p \in Writable, NEW q \in Writable, Rename(p, q)
  PROVE  NInv'
<1>1. /\ PathOf(p) = p /\ PathOf(q) = q /\ p # q /\ p \in DOMAIN known
      /\ Unlocked(Parent(p)) /\ ~Synthetic(p) /\ ~Synthetic(q)
      /\ Present(tree, p) => IsUser(p)
      /\ OwnInodes(p, q, p, q)
      /\ Register(Repointed(p, q)) /\ RenameDrops(p, q)
      /\ overlay' = (overlay \ {p}) \cup {q} /\ gone' = (gone \cup {p}) \ {q}
      /\ known' = [n \in (DOMAIN known \ {p}) \cup {q} |-> IF n = q THEN known[p] ELSE known[n]]
      /\ UNCHANGED <<synth, job>>
  BY PathFound DEF Rename, Change, Files, Plainly, Knows
<1>2. /\ DOMAIN tree' \subseteq (DOMAIN tree \ {p}) \cup {q}
      /\ DOMAIN tree \ {p} \subseteq DOMAIN tree'
  <2>1. CASE IsUser(p)
    <3>1. tree' = Upsert(Keep(tree, LAMBDA f : f # p), NewUser(q))
      BY <1>1, <2>1 DEF Rename
    <3>2. QED BY <3>1 DEF Upsert, Keep, NewUser
  <2>2. CASE ~IsUser(p)
    <3>1. UNCHANGED tree /\ p \notin DOMAIN tree
      BY <1>1, <2>2 DEF Rename, Present
    <3>2. QED BY <3>1
  <2>3. QED BY <2>1, <2>2
<1>3. Names'
  BY <1>1, <1>2 DEF NInv, Names, Files
<1>4. PICK m : m = Repointed(p, q)
  OBVIOUS
<1>5. /\ DOMAIN m = DOMAIN Drained \cup {p, q}
      /\ m[p] = Entry(q, FALSE) /\ m[q] = Entry(q, FALSE)
      /\ \A i \in DOMAIN Drained \ {p, q} : m[i] = Drained[i]
  BY <1>4 DEF Repointed
<1>6. \A i \in DOMAIN m : Stands(i, m[i], gone')
  <2>1. \A i \in DOMAIN Drained \ {p, q} : Stands(i, m[i], gone')
    <3>1. \A i \in DOMAIN Drained : Stands(i, Drained[i], gone)
      BY Draining DEF NInv
    <3>2. QED BY <1>1, <1>5, <3>1 DEF Stands
  <2>2. Stands(p, Entry(q, FALSE), gone') /\ Stands(q, Entry(q, FALSE), gone')
    BY <1>1 DEF Stands, Entry, Kinded, Files
  <2>3. QED BY <1>5, <2>1, <2>2
<1>7. \A n \in DOMAIN known' : known'[n] \in DOMAIN m /\ m[known'[n]].path = n
  <2>1. known'[q] = known[p] /\ known[p] \in {p, q}
    BY <1>1 DEF OwnInodes
  <2>2. \A n \in DOMAIN known' \ {q} : n \in DOMAIN known \ {p} /\ known'[n] = known[n] /\ known[n] \notin {p, q}
    BY <1>1 DEF OwnInodes
  <2>3. m[p].path = q /\ m[q].path = q
    BY <1>5 DEF Entry
  <2>4. ASSUME NEW n \in DOMAIN known' \ {q} PROVE known'[n] \in DOMAIN m /\ m[known'[n]].path = n
    <3>1. n \in DOMAIN known /\ known'[n] = known[n] /\ known[n] \notin {p, q}
      BY <2>2, <2>4
    <3>2. known[n] \in DOMAIN Drained /\ Drained[known[n]].path = n
      BY <3>1 DEF NInv, Kernel
    <3>3. QED BY <1>5, <3>1, <3>2
  <2>5. known'[q] \in DOMAIN m /\ m[known'[q]].path = q
    BY <1>5, <2>1, <2>3
  <2>6. QED BY <2>4, <2>5
<1>8. \A f \in DOMAIN tree \ DOMAIN tree' :
        Unlocked(Parent(f)) /\ (Parent(f) \in Listed => listing'[Parent(f)] = NoSlot)
  BY <1>1, <1>2, Drops DEF RenameDrops
<1>9. QED BY <1>1, <1>3, <1>4, <1>5, <1>6, <1>7, <1>8, Drops, Handles DEF RenameDrops

-----------------------------------------------------------------------------
\* Steps that leave the inode map and the queue alone, and steps of listings

LEMMA Stays ==
  ASSUME UNCHANGED <<paths, queue>>
  PROVE  Drained' = Drained
  BY DEF Drained

LEMMA SaveN ==
  ASSUME NInv, NEW p \in Writable, Save(p)
  PROVE  NInv'
<1>1. /\ p \in overlay /\ ~Synthetic(p) /\ DOMAIN tree' = DOMAIN tree \cup {p} /\ overlay' \subseteq overlay
      /\ UNCHANGED <<synth, paths, queue, listing, job, known, gone>>
  BY DEF Save, Plainly, Upsert, NewUser
<1>2. Names'
  BY <1>1 DEF NInv, Names, Files
<1>3. Drained' = Drained
  BY <1>1, Stays
<1>4. Registered' /\ Queued' /\ Kernel'
  BY <1>1, <1>3 DEF NInv, Registered, Queued, Kernel
<1>5. Listings'
  BY <1>1, <1>3, ListingsStep DEF NInv, Listings
<1>6. Jobs'
  BY <1>1, <1>3, JobsStep DEF NInv
<1>7. QED BY <1>2, <1>4, <1>5, <1>6 DEF NInv

\* The entries of a listing stand for themselves.
LEMMA ListedStands ==
  ASSUME NInv, NEW d, NEW e, Lists(d, e), e.path \in DOMAIN Drained
  PROVE  Drained[e.path].path = e.path
<1>1. e.path \notin gone
  BY ListedHere
<1>2. Stands(e.path, Drained[e.path], gone)
  BY Draining DEF NInv
<1>3. QED BY <1>1, <1>2 DEF Stands

\* One builder goes on.
LEMMA JobMoves ==
  ASSUME Jobs, NEW t \in Pool, NEW j, Building(j)',
         DOMAIN job' = Pool, job'[t] = j, \A u \in Pool \ {t} : job'[u] = job[u],
         DOMAIN Drained \subseteq DOMAIN Drained', \A c, e : Lists(c, e) => Lists(c, e)'
  PROVE  Jobs'
  BY DEF Jobs, Building

LEMMA ReaddirplusN ==
  ASSUME NInv, NEW t \in Pool, NEW d \in Listed, Readdirplus(t, d)
  PROVE  NInv'
<1>1. /\ Register(Drained)
      /\ UNCHANGED <<tree, synth, overlay, gone>>
  BY DEF Readdirplus
<1>2. Names'
  BY <1>1 DEF NInv, Names
<1>3. \A i \in DOMAIN Drained : Stands(i, Drained[i], gone')
  BY <1>1, Draining DEF NInv
<1>4. CASE listing[d].done
  <2>1. Told(listing[d].entries) /\ UNCHANGED <<listing, job>>
    BY <1>4 DEF Readdirplus
  <2>2. PICK m : m = Drained
    OBVIOUS
  <2>3. \A e \in listing[d].entries : e.path \in DOMAIN Drained /\ Drained[e.path].path = e.path
    BY ListedStands DEF NInv, Listings
  <2>4. ASSUME NEW n \in DOMAIN known' PROVE known'[n] \in DOMAIN m /\ m[known'[n]].path = n
    BY <2>1, <2>2, <2>3, <2>4 DEF Told, NInv, Kernel
  <2>5. DOMAIN listing' = Listed
    BY <2>1 DEF NInv, Listings
  <2>6. QED BY <1>1, <1>2, <1>3, <2>1, <2>2, <2>4, <2>5, Handles
<1>5. CASE ~listing[d].done
  <2>1. /\ listing' = [listing EXCEPT ![d] = [NoSlot EXCEPT !.by = t]]
        /\ job' = [job EXCEPT ![t] = [NoJob EXCEPT !.pc = "list", !.dir = d]]
        /\ UNCHANGED known
    BY <1>5 DEF Readdirplus
  <2>2. /\ Queued' /\ Registered' /\ DOMAIN Drained' = DOMAIN Drained
        /\ \A i \in DOMAIN Drained : Drained'[i] = Drained[i]
    <3>1. PICK m : m = Drained
      OBVIOUS
    <3>2. Register(m) /\ \A i \in DOMAIN m : Stands(i, m[i], gone')
      BY <1>1, <1>3, <3>1
    <3>3. Queued' /\ Registered' /\ DOMAIN Drained' = DOMAIN m /\ \A i \in DOMAIN m : Drained'[i] = m[i]
      BY <3>2, Registers
    <3>4. QED BY <3>1, <3>3
  <2>3. Kernel'
    BY <2>1, <2>2, KernelStep DEF NInv
  <2>4. \A c, e : Lists(c, e) => Lists(c, e)'
    BY <1>1, ListsStay
  <2>5. Listings'
    <3>1. DOMAIN listing' = Listed
      BY <2>1 DEF NInv, Listings
    <3>2. listing'[d].entries = {} /\ \A c \in Listed \ {d} : listing'[c] = listing[c]
      BY <2>1 DEF NoSlot, NInv, Listings
    <3>3. QED BY <2>2, <2>4, <3>1, <3>2 DEF NInv, Listings
  <2>6. Jobs'
    <3>1. PICK j : j = [pc |-> "list", dir |-> d, entries |-> {}]
      OBVIOUS
    <3>2. DOMAIN job' = Pool /\ job'[t] = j /\ \A u \in Pool \ {t} : job'[u] = job[u]
      BY <2>1, <3>1 DEF NInv, Jobs, NoJob
    <3>3. Building(j)'
      BY <3>1 DEF Building
    <3>4. QED BY <2>2, <2>4, <3>2, <3>3, JobMoves DEF NInv
  <2>7. QED BY <1>2, <2>2, <2>3, <2>5, <2>6 DEF NInv
<1>6. QED BY <1>4, <1>5

LEMMA BuildListN ==
  ASSUME NInv, NEW t \in Pool, BuildList(t)
  PROVE  NInv'
<1>1. /\ job[t].pc = "list" /\ job[t].dir \in Listed
      /\ job[t] = [pc |-> "list", dir |-> job[t].dir, entries |-> job[t].entries]
      /\ job' = [job EXCEPT ![t].pc = "queue", ![t].entries = EntriesOfDir(job[t].dir)]
      /\ UNCHANGED <<tree, synth, overlay, paths, queue, listing, known, gone>>
  BY DEF BuildList, NInv, Jobs, Building
<1>2. PICK d, j : d = job[t].dir /\ j = [pc |-> "queue", dir |-> d, entries |-> EntriesOfDir(d)]
  OBVIOUS
<1>3. DOMAIN job' = Pool /\ job'[t] = j /\ \A u \in Pool \ {t} : job'[u] = job[u]
  BY <1>1, <1>2 DEF NInv, Jobs
<1>4. \A e \in EntriesOfDir(d) : Lists(d, e)
  BY <1>1, <1>2, PlainListing DEF NInv, Names
<1>5. \A c, e : Lists(c, e) => Lists(c, e)'
  BY <1>1, ListsStay
<1>6. Building(j)'
  <2>1. d \in Listed /\ \A e \in EntriesOfDir(d) : Lists(d, e)'
    BY <1>1, <1>2, <1>4, <1>5
  <2>2. j.pc = "queue" /\ j.dir = d /\ j.entries = EntriesOfDir(d)
        /\ j = [pc |-> j.pc, dir |-> j.dir, entries |-> j.entries]
    BY <1>2
  <2>3. QED BY <2>1, <2>2 DEF Building
<1>7. Drained' = Drained
  BY <1>1, Stays
<1>8. Jobs'
  BY <1>3, <1>5, <1>6, <1>7, JobMoves DEF NInv
<1>9. Listings'
  BY <1>1, <1>7, ListingsStep DEF NInv, Listings
<1>10. Names' /\ Registered' /\ Queued' /\ Kernel'
  BY <1>1, <1>7 DEF NInv, Names, Registered, Queued, Kernel
<1>11. QED BY <1>8, <1>9, <1>10 DEF NInv

\* One batch more: what is drained keeps what it stands for.
LEMMA OneBatchMore ==
  ASSUME Queued, NEW es, queue' = Append(queue, es), UNCHANGED paths
  PROVE  /\ IsSegs(queue')
         /\ DOMAIN queue \subseteq DOMAIN queue'
         /\ \A n \in DOMAIN queue' : (n \in DOMAIN queue /\ queue'[n] = queue[n]) \/ queue'[n] = es
         /\ DOMAIN Drained \subseteq DOMAIN Drained'
         /\ \A i \in DOMAIN Drained : Drained'[i].path = Drained[i].path
         /\ \A e \in es : e.path \in DOMAIN Drained'
<1>1. PICK q, r : q = queue /\ r = queue'
  OBVIOUS
<1>2. IsSegs(q) /\ DOMAIN q = 1 .. Len(q)
  BY <1>1, SegsIn DEF Queued, IsSegs
<1>3. /\ IsSegs(r) /\ Len(r) = Len(q) + 1 /\ Len(q) \in Nat
      /\ \A i \in 1 .. Len(q) : r[i] = q[i]
      /\ r[Len(q) + 1] = es
  <2>1. PICK S : S = ToSet(q) \cup {es}
    OBVIOUS
  <2>2. q \in Seq(S) /\ es \in S /\ r = Append(q, es)
    BY <1>1, <1>2, <2>1, SeqMonotonic DEF IsSegs
  <2>3. /\ r \in Seq(S) /\ Len(r) = Len(q) + 1
        /\ \A i \in 1 .. Len(q) : r[i] = q[i]
        /\ r[Len(q) + 1] = es
    BY <2>2, AppendProperties
  <2>4. QED BY <2>2, <2>3, SegsIn
<1>4. DOMAIN r = 1 .. Len(q) + 1
  BY <1>3, SegsIn DEF IsSegs
<1>5. /\ DOMAIN q \subseteq DOMAIN r
      /\ \A n \in DOMAIN q : r[n] = q[n]
      /\ \A n \in DOMAIN r : n \in DOMAIN q \/ r[n] = es
      /\ Len(q) + 1 \in DOMAIN r /\ r[Len(q) + 1] = es
  BY <1>2, <1>3, <1>4
<1>6. PICK map : map = paths
  OBVIOUS
<1>7. Drained = Merged(map, q) /\ Drained' = Merged(map, r)
  BY <1>1, <1>6 DEF Drained
<1>8. \A i \in DOMAIN Merged(map, q) :
        i \in DOMAIN Merged(map, r) /\ Merged(map, r)[i].path = Merged(map, q)[i].path
  <2> SUFFICES ASSUME NEW i \in DOMAIN Merged(map, q)
               PROVE  i \in DOMAIN Merged(map, r) /\ Merged(map, r)[i].path = Merged(map, q)[i].path
    OBVIOUS
  <2>1. /\ DOMAIN map \subseteq DOMAIN Merged(map, r)
        /\ \A k \in DOMAIN map : Merged(map, r)[k] = map[k] /\ Merged(map, q)[k] = map[k]
        /\ \A k \in DOMAIN Merged(map, r) \ DOMAIN map : Merged(map, r)[k].path = k
        /\ \A n \in DOMAIN r : \A e \in r[n] : e.path \in DOMAIN Merged(map, r)
    BY <1>2, <1>3, Merging
  <2>2. CASE i \in DOMAIN map
    BY <2>1, <2>2
  <2>3. CASE i \notin DOMAIN map
    <3>1. Merged(map, q)[i].path = i /\ \E n \in DOMAIN q : Merged(map, q)[i] \in q[n]
      BY <1>2, <2>3, Merging
    <3>2. i \in DOMAIN Merged(map, r)
      BY <1>5, <2>1, <3>1
    <3>3. QED BY <2>1, <2>3, <3>1, <3>2
  <2>4. QED BY <2>2, <2>3
<1>9. \A e \in es : e.path \in DOMAIN Merged(map, r)
  BY <1>3, <1>5, Merging
<1>10. QED BY <1>1, <1>3, <1>5, <1>7, <1>8, <1>9

LEMMA BuildQueueN ==
  ASSUME NInv, NEW t \in Pool, BuildQueue(t)
  PROVE  NInv'
<1>1. PICK d, es : d = job[t].dir /\ es = job[t].entries
  OBVIOUS
<1>2. /\ job[t] = [pc |-> "queue", dir |-> d, entries |-> es] /\ d \in Listed
      /\ \A e \in es : Lists(d, e)
      /\ queue' = Append(queue, es)
      /\ job' = [job EXCEPT ![t].pc = "serve"]
      /\ UNCHANGED <<tree, synth, overlay, paths, listing, known, gone>>
  BY <1>1 DEF BuildQueue, NInv, Jobs, Building
<1>3. /\ IsSegs(queue')
      /\ \A n \in DOMAIN queue' : (n \in DOMAIN queue /\ queue'[n] = queue[n]) \/ queue'[n] = es
      /\ DOMAIN Drained \subseteq DOMAIN Drained'
      /\ \A i \in DOMAIN Drained : Drained'[i].path = Drained[i].path
      /\ \A e \in es : e.path \in DOMAIN Drained'
  BY <1>2, OneBatchMore DEF NInv
<1>4. \A e \in es : e = Entry(e.path, e.isDir) /\ Kinded(e)
  BY <1>2 DEF Lists, Kinded
<1>5. Queued'
  BY <1>3, <1>4 DEF NInv, Queued
<1>6. \A c, e : Lists(c, e) => Lists(c, e)'
  BY <1>2, ListsStay
<1>7. Jobs'
  <2>1. PICK j : j = [pc |-> "serve", dir |-> d, entries |-> es]
    OBVIOUS
  <2>2. DOMAIN job' = Pool /\ job'[t] = j /\ \A u \in Pool \ {t} : job'[u] = job[u]
    BY <1>2, <2>1 DEF NInv, Jobs
  <2>3. Building(j)'
    <3>1. \A e \in es : Lists(d, e)' /\ e.path \in DOMAIN Drained'
      BY <1>2, <1>3, <1>6
    <3>2. j.pc = "serve" /\ j.dir = d /\ j.entries = es
          /\ j = [pc |-> j.pc, dir |-> j.dir, entries |-> j.entries]
      BY <2>1
    <3>3. QED BY <1>2, <3>1, <3>2 DEF Building
  <2>4. QED BY <1>3, <1>6, <2>2, <2>3, JobMoves DEF NInv
<1>8. Listings'
  BY <1>2, <1>3, ListingsStep DEF NInv, Listings
<1>9. Kernel'
  BY <1>2, <1>3, KernelStep DEF NInv
<1>10. Names' /\ Registered'
  BY <1>2 DEF NInv, Names, Registered
<1>11. QED BY <1>5, <1>7, <1>8, <1>9, <1>10 DEF NInv

LEMMA BuildServeN ==
  ASSUME NInv, NEW t \in Pool, BuildServe(t)
  PROVE  NInv'
<1>1. PICK d, es : d = job[t].dir /\ es = job[t].entries
  OBVIOUS
<1>2. /\ d \in Listed /\ \A e \in es : Lists(d, e) /\ e.path \in DOMAIN Drained
      /\ listing' = IF listing[d].by # t THEN listing
                    ELSE [listing EXCEPT ![d] = [by |-> None, done |-> TRUE, entries |-> es]]
      /\ Told(es)
      /\ job' = [job EXCEPT ![t] = NoJob]
      /\ UNCHANGED <<tree, synth, overlay, paths, queue, gone>>
  BY <1>1 DEF BuildServe, NInv, Jobs, Building
<1>3. Drained' = Drained
  BY <1>2, Stays
<1>4. \A c, e : Lists(c, e) => Lists(c, e)'
  BY <1>2, ListsStay
<1>5. Kernel'
  <2>1. \A e \in es : Drained[e.path].path = e.path
    BY <1>2, ListedStands
  <2>2. QED BY <1>2, <1>3, <2>1 DEF Told, NInv, Kernel
<1>6. Listings'
  <2>1. DOMAIN listing' = Listed
    BY <1>2 DEF NInv, Listings
  <2>2. \A c \in Listed : listing'[c] = listing[c] \/ (c = d /\ listing'[c].entries = es)
    BY <1>2 DEF NInv, Listings
  <2>3. ASSUME NEW c \in Listed, NEW e \in listing'[c].entries
        PROVE  Lists(c, e)' /\ e.path \in DOMAIN Drained'
    <3>1. Lists(c, e) /\ e.path \in DOMAIN Drained
      BY <1>2, <2>2, <2>3 DEF NInv, Listings
    <3>2. QED BY <1>3, <1>4, <3>1
  <2>4. QED BY <2>1, <2>3 DEF Listings
<1>7. Jobs'
  <2>1. Building(NoJob)'
    BY DEF Building, NoJob
  <2>2. DOMAIN job' = Pool /\ job'[t] = NoJob /\ \A u \in Pool \ {t} : job'[u] = job[u]
    BY <1>2 DEF NInv, Jobs
  <2>3. QED BY <1>3, <1>4, <2>1, <2>2, JobMoves DEF NInv
<1>8. Names' /\ Registered' /\ Queued'
  BY <1>2 DEF NInv, Names, Registered, Queued
<1>9. QED BY <1>5, <1>6, <1>7, <1>8 DEF NInv

LEMMA StutterN ==
  ASSUME NInv, UNCHANGED vars
  PROVE  NInv'
<1>1. Drained' = Drained
  BY Stays DEF vars
<1>2. \A d, e : Lists(d, e) <=> Lists(d, e)'
  BY DEF vars, Lists
<1>3. Names' /\ Registered' /\ Queued' /\ Kernel'
  BY <1>1 DEF vars, NInv, Names, Registered, Queued, Kernel
<1>4. Listings'
  BY <1>1, <1>2 DEF vars, NInv, Listings
<1>5. Jobs'
  BY <1>1, JobsStep DEF vars, NInv
<1>6. QED BY <1>3, <1>4, <1>5 DEF NInv

LEMMA NextN == NInv /\ [Next]_vars => NInv'
<1> SUFFICES ASSUME NInv, [Next]_vars PROVE NInv'
  OBVIOUS
<1>1. CASE \E p \in LookedUp : Lookup(p)
  BY <1>1, LookupN
<1>2. CASE \E t \in Pool, d \in Listed : Readdirplus(t, d)
  BY <1>2, ReaddirplusN
<1>3. CASE \E t \in Pool : BuildList(t)
  BY <1>3, BuildListN
<1>4. CASE \E t \in Pool : BuildQueue(t)
  BY <1>4, BuildQueueN
<1>5. CASE \E t \in Pool : BuildServe(t)
  BY <1>5, BuildServeN
<1>6. CASE \E p \in Writable : Create(p)
  BY <1>6, CreateN
<1>7. CASE \E p \in Writable : Unlink(p)
  BY <1>7, UnlinkN
<1>8. CASE \E p \in Writable : Save(p)
  BY <1>8, SaveN
<1>9. CASE \E p, q \in Writable : Rename(p, q)
  BY <1>9, RenameN
<1>10. CASE \E p \in Makeable : Mkdir(p)
  BY <1>10, MkdirN
<1>11. CASE \E p \in Makeable : Rmdir(p)
  BY <1>11, RmdirN
<1>12. CASE \E p \in LookedUp : UnlinkView(p)
  BY <1>12, UnlinkViewN
<1>13. CASE UNCHANGED vars
  BY <1>13, StutterN
<1>14. QED
  BY <1>1, <1>2, <1>3, <1>4, <1>5, <1>6, <1>7, <1>8, <1>9, <1>10, <1>11, <1>12, <1>13 DEF Next

LEMMA AlwaysN == Spec => []NInv
  BY InitN, NextN, PTL DEF Spec

-----------------------------------------------------------------------------
\* What follows

LEMMA NamesFromN == NInv => NamesReach
<1> SUFFICES ASSUME NInv, NEW p \in DOMAIN known
             PROVE  /\ known[p] \in DOMAIN Drained
                    /\ Drained[known[p]].path = p
                    /\ ~Synthetic(p) /\ LookupKind(p) # "absent" => GetattrKind(known[p]) = LookupKind(p)
  BY DEF NamesReach
<1>1. known[p] \in DOMAIN Drained /\ Drained[known[p]].path = p
  BY DEF NInv, Kernel
<1>2. PICK i, e : i = known[p] /\ e = Drained[i]
  OBVIOUS
<1>3. Stands(i, e, gone) /\ e.path = p
  BY <1>1, <1>2, Draining DEF NInv
<1>4. ASSUME ~Synthetic(p), LookupKind(p) # "absent"
      PROVE  GetattrKind(i) = LookupKind(p)
  <2>1. GetattrKind(i) = IF e.isDir THEN "dir" ELSE "file"
    BY <1>1, <1>2 DEF GetattrKind
  <2>2. CASE p \in Files
    <3>1. LookupKind(p) = "file"
      BY <1>4, <2>2, PlainLookup, FileNoDir
    <3>2. ~e.isDir
      BY <1>3, <1>4, <2>2 DEF Stands, Kinded
    <3>3. QED BY <2>1, <3>1, <3>2
  <2>3. CASE p \notin Files
    <3>1. p \notin DOMAIN tree /\ p \notin overlay
      BY <2>3 DEF NInv, Names, Files
    <3>2. LookupKind(p) = "dir"
      BY <1>4, <3>1, PlainLookup
    <3>3. e.isDir
      BY <1>3, <1>4, <2>3 DEF Stands, Kinded, Files
    <3>4. QED BY <2>1, <3>2, <3>3
  <2>4. QED BY <2>2, <2>3
<1>5. QED BY <1>1, <1>2, <1>4

\* Whenever a builder's batch arrives: a name the kernel holds leads to the file of that
\* name, and getattr says of it what lookup says, for clients whose renames keep to the
\* inodes of their two names (OwnInodes) and whose new files and directories do not take
\* a name whose inode stands for something else (Create, Mkdir).  Without these two
\* the code fails, against the comment at fs.rs:1675.
\* (fs.rs: drain, ensure_path, rename, readdirplus, getattr, lookup)
THEOREM NamesAlwaysReach == Spec => []NamesReach
  BY AlwaysN, NamesFromN, PTL

LEMMA GoneFromN == NInv => GoneIsGone
  BY GoneAbsent DEF GoneIsGone

\* A name that was removed or renamed away resolves no more, whatever inode it has,
\* until a file of that name is made again.
\* (fs.rs: lookup, rename, unlink)
THEOREM GoneAlwaysGone == Spec => []GoneIsGone
  BY AlwaysN, GoneFromN, PTL

LEMMA ListingsFromN == NInv => ListingsExist
  BY DEF NInv, Listings, Lists, ListingsExist, Present

\* A cached listing of a plain directory names no file that left the tree, whichever
\* builder was under way when it left.
\* (fs.rs: dir_slot, rename, unlink, readdirplus)
THEOREM ListingsAlwaysExist == Spec => []ListingsExist
  BY AlwaysN, ListingsFromN, PTL
=============================================================================
