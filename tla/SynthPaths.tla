----------------------------- MODULE SynthPaths -----------------------------
\* The paths the mounts invent: virtual roots (`.dds.png/ui/x.dds.png` renders
\* `ui/x.dds`) and prefab bundles (`_prefabs/<stem>/...` shows what a prefab refers
\* to).  What a path stands for is worked out three times in the code, to list,
\* to look up and to read.  (virtual_files.rs, prefab_view.rs, fs.rs: lookup,
\* build_*_dir_entries, decode)
\*
\* A name is its stem and extensions, `x.dds.png` is <<"x", "dds", "png">>; paths
\* and trees are those of VfsTree.
EXTENDS VfsTree, FiniteSetsExt

CONSTANTS
  Roots,        \* VIRTUAL_ROOTS: records [name, ext, suffix]
  PrefabRoot,   \* `_prefabs`
  RefsOf,       \* what a prefab refers to: [prefab path -> Seq(path)]
  MeshOf,       \* <StaticMesh Path> candidates of a .pami: [path -> Seq(path)]
  Platform      \* "linux" or "windows"

ASSUME SynthAssumption ==
  /\ \A r, q \in Roots : r.name = q.name \/ r.ext = q.ext => r = q
  /\ PrefabRoot \notin {r.name : r \in Roots}
  /\ \A p \in DOMAIN RefsOf : DOMAIN RefsOf[p] = 1 .. Len(RefsOf[p])
  /\ Platform \in {"linux", "windows"}

Ends(name, ext) == Len(name) > 1 /\ Last(name) = ext

FileName(p) == Last(p.segs)

WithName(p, name) == [p EXCEPT !.segs[Len(p.segs)] = name]

HasExt(p, ext) == p.segs # <<>> /\ Ends(FileName(p), ext)

Entry(p, isDir) == [path |-> p, isDir |-> isDir]

Sub(p, segs) == [p EXCEPT !.segs = @ \o segs]

-----------------------------------------------------------------------------
\* Virtual roots

RootOf(p) == {r \in Roots : p.at = None /\ p.segs # <<>> /\ p.segs[1] = r.name}

Rest(p) == Plain(Tail(p.segs))

IsView(p, r) ==
  LET n == FileName(p)
  IN Len(p.segs) > 1 /\ Len(n) > 2 /\ Last(n) = r.suffix /\ Ends(Front(n), r.ext)

\* The source of a view, in a set that is empty when the path is none.
Resolve(p) == {WithName(Rest(p), Front(FileName(p))) : r \in {q \in RootOf(p) : IsView(p, q)}}

\* The directory a virtual directory mirrors, and the extension it shows.
ResolveDir(p) == {[real |-> Rest(p), root |-> r] : r \in {q \in RootOf(p) : ~IsView(p, q)}}

OfExt(tree, ext) == {q \in DOMAIN tree : HasExt(q, ext)}

ViewListing(tree, p, dir) ==
  LET real  == Children(tree, dir.real)
      found == OfExt(tree, dir.root.ext)
  IN {Entry(Sub(p, <<FileName(e.path)>>), TRUE) : e \in {c \in real : c.isDir /\ HoldsExt(found, c.path)}}
     \cup
     {Entry(Sub(p, <<Append(FileName(e.path), dir.root.suffix)>>), FALSE) :
        e \in {c \in real : ~c.isDir /\ c.path \in found}}

ViewDirExists(tree, dir) ==
  dir.real.segs = <<>> \/ HoldsExt(OfExt(tree, dir.root.ext), dir.real)

-----------------------------------------------------------------------------
\* Prefab bundles

Stem(p) == <<FileName(p)[1]>>

\* PrefabIndex: one prefab per stem (of two, the sort keeps either).  The code collects
\* them at the first use and keeps them, so one made or removed later is not noticed; here
\* they are read off the tree, for clients that make and remove none.
Prefabs(tree) == {p \in DOMAIN tree : HasExt(p, "prefab")}

Bundles(tree) == {Stem(p) : p \in Prefabs(tree)}

FullPath(tree, stem) == CHOOSE p \in Prefabs(tree) : Stem(p) = stem

Manifest  == <<"manifest", "json">>
Original  == <<"prefab", "prefab">>
AssetsDir == <<"assets">>
MeshFbx   == <<"mesh", "fbx">>
FbmDir    == <<"mesh", "fbm">>

\* What a path is by its form alone.
KindOf(p) ==
  LET s == p.segs
      n == Len(s)
  IN IF p.at # None \/ n = 0 \/ s[1] # PrefabRoot THEN "other"
     ELSE IF n = 1 THEN "root"
     ELSE IF n = 2 THEN "bundle"
     ELSE CASE s[3] = AssetsDir          -> "assets"
            [] s[3] = FbmDir             -> "fbm"
            [] n = 3 /\ s[3] = Manifest  -> "manifest"
            [] n = 3 /\ s[3] = Original  -> "original"
            [] n = 3 /\ s[3] = MeshFbx   -> "mesh"
            [] OTHER                     -> "other"

\* rel is what follows assets/ or mesh.fbm/.
Classify(p) ==
  [kind |-> KindOf(p), stem |-> IF Len(p.segs) > 1 THEN p.segs[2] ELSE None,
   rel |-> Plain(SubSeq(p.segs, 4, Len(p.segs)))]

MeshExts == {"pac", "pam", "pamlod"}

Present(tree, p) == p \in DOMAIN tree

\* resolve_assets: each reference once, in order.
Assets(tree, prefab) ==
  IF prefab \notin DOMAIN tree THEN <<>>
  ELSE LET refs == RefsOf[prefab]
           again(i) == \E j \in 1 .. i - 1 : refs[j] = refs[i]
       IN [i \in 1 .. Cardinality(ToSet(refs)) |->
             refs[CHOOSE k \in DOMAIN refs : /\ ~again(k)
                   /\ Cardinality({j \in 1 .. k : ~again(j)}) = i]]

AssetsWith(tree, prefab, exts) ==
  SelectSeq(Assets(tree, prefab),
            LAMBDA a : Present(tree, a) /\ \E x \in exts : HasExt(a, x))

\* cdfuse: an alias beside each asset that is there and has a virtual form;
AliasesLinux(tree, a) ==
  IF ~Present(tree, a) THEN <<>>
  ELSE SetToSeq({WithName(a, Append(FileName(a), r.suffix)) :
                   r \in {q \in Roots : HasExt(a, q.ext)}})

\* cdwinfs: a PNG beside each texture, there or not.
AliasesWindows(tree, a) ==
  IF HasExt(a, "dds") THEN <<WithName(a, Append(FileName(a), "png"))>> ELSE <<>>

Aliases(tree, a) ==
  IF Platform = "linux" THEN AliasesLinux(tree, a) ELSE AliasesWindows(tree, a)

\* list_asset_entries: where each file under assets/ comes from.
AssetEntries(tree, prefab) ==
  LET refs == Assets(tree, prefab)
      of(a) == [i \in DOMAIN Aliases(tree, a) |->
                  [rel |-> Aliases(tree, a)[i], from |-> a, alias |-> TRUE]]
               \o <<[rel |-> a, from |-> a, alias |-> FALSE]>>
  IN FlattenSeq([i \in DOMAIN refs |-> of(refs[i])])

\* (Slip: the path is only looked for among the assets as they are.)
AssetAtRaw(tree, prefab, rel) ==
  LET all == AssetEntries(tree, prefab)
  IN {all[i] : i \in {k \in DOMAIN all : all[k].from = rel /\ ~all[k].alias}}

\* resolve_asset_relpath: the first that fits.
AssetAt(tree, prefab, rel) ==
  LET all == AssetEntries(tree, prefab)
  IN {all[i] : i \in {k \in DOMAIN all : /\ all[k].rel = rel
                                        /\ \A j \in 1 .. k - 1 : all[j].rel # rel}}

\* png_path_for_dds
Png(dds) == WithName(dds, Append(Front(FileName(dds)), "png"))

Textures(tree, prefab) == AssetsWith(tree, prefab, {"dds"})

PngSource(tree, prefab, rel) == {t \in ToSet(Textures(tree, prefab)) : Png(t) = rel}

\* children_at_prefix
ChildrenAt(rels, prefix) ==
  {[name |-> r.segs[Len(prefix.segs) + 1], isDir |-> Len(r.segs) > Len(prefix.segs) + 1] :
     r \in {q \in rels : IsStrictPrefix(prefix.segs, q.segs)}}

AssetRels(tree, prefab) == {e.rel : e \in ToSet(AssetEntries(tree, prefab))}
PngRels(tree, prefab)   == {Png(t) : t \in ToSet(Textures(tree, prefab))}

IsSubdir(rels, rel) == \E q \in rels : IsStrictPrefix(rel.segs, q.segs)

\* primary_mesh_path: a mesh it refers to, or the mesh of a .pami it refers to.
PrimaryMesh(tree, prefab) ==
  LET direct == AssetsWith(tree, prefab, MeshExts)
      pamis  == AssetsWith(tree, prefab, {"pami"})
      found  == FlattenSeq([i \in DOMAIN pamis |->
                   SelectSeq(MeshOf[pamis[i]], LAMBDA p : Present(tree, p))])
      all    == direct \o found
  IN IF all = <<>> THEN {} ELSE {all[1]}

-----------------------------------------------------------------------------
\* lookup(), build_prefab_dir_entries() and decode() for bundles

LookupPrefab(tree, p) ==
  LET c == Classify(p)
      full == FullPath(tree, c.stem)
      sort(file, dir) == IF file THEN "file" ELSE IF dir THEN "dir" ELSE "absent"
  IN IF c.kind = "root" THEN "dir"
     ELSE IF c.stem \notin Bundles(tree) THEN "absent"
     ELSE
     CASE c.kind = "bundle" -> "dir"
       [] c.kind \in {"manifest", "original"} -> "file"
       [] c.kind \in {"assets", "fbm"} /\ c.rel.segs = <<>> ->
            sort(FALSE, c.kind = "assets" \/ PrimaryMesh(tree, full) # {})
       [] c.kind = "assets" /\ c.rel.segs # <<>> ->
            sort(AssetAt(tree, full, c.rel) # {}, IsSubdir(AssetRels(tree, full), c.rel))
       [] c.kind = "mesh" -> sort(PrimaryMesh(tree, full) # {}, FALSE)
       [] c.kind = "fbm" /\ c.rel.segs # <<>> ->
            sort(PngSource(tree, full, c.rel) # {}, IsSubdir(PngRels(tree, full), c.rel))

PrefabListing(tree, p) ==
  LET c == Classify(p)
      full == FullPath(tree, c.stem)
      mesh == IF PrimaryMesh(tree, full) = {} THEN {}
              ELSE {Entry(Sub(p, <<MeshFbx>>), FALSE), Entry(Sub(p, <<FbmDir>>), TRUE)}
      at(rels) == {Entry(Sub(p, <<e.name>>), e.isDir) : e \in ChildrenAt(rels, c.rel)}
  IN IF c.kind = "root" THEN {Entry(Sub(p, <<s>>), TRUE) : s \in Bundles(tree)}
     ELSE IF c.stem \notin Bundles(tree) THEN {}
     ELSE
     CASE c.kind = "bundle" ->
            {Entry(Sub(p, <<Manifest>>), FALSE), Entry(Sub(p, <<Original>>), FALSE),
             Entry(Sub(p, <<AssetsDir>>), TRUE)} \cup mesh
       [] c.kind = "assets" -> at(AssetRels(tree, full))
       [] c.kind = "fbm" -> at(PngRels(tree, full))
       [] OTHER -> {}

\* The files decode() reads to answer for a path; {} is EIO.
SourcesOfPrefab(tree, p) ==
  LET c == Classify(p)
      full == FullPath(tree, c.stem)
  IN CASE c.kind \in {"manifest", "original"} -> {full}
       [] c.kind = "assets" -> {e.from : e \in AssetAt(tree, full, c.rel)}
       [] c.kind = "mesh" -> PrimaryMesh(tree, full)
       [] c.kind = "fbm" -> PngSource(tree, full, c.rel)
       [] OTHER -> {}

-----------------------------------------------------------------------------
\* Listing, lookup and reading agree about the invented paths.

Synthetic(p) == RootOf(p) # {} \/ Classify(p).kind # "other"

LookupSynth(tree, p) ==
  IF Classify(p).kind # "other" THEN LookupPrefab(tree, p)
  ELSE IF \E q \in Resolve(p) : Present(tree, q) THEN "file"
  ELSE IF \E d \in ResolveDir(p) : ViewDirExists(tree, d) THEN "dir"
  ELSE "absent"

SynthListing(tree, p) ==
  IF Classify(p).kind # "other" THEN PrefabListing(tree, p)
  ELSE UNION {ViewListing(tree, p, d) : d \in ResolveDir(p)}

SynthSources(tree, p) ==
  IF Classify(p).kind # "other" THEN SourcesOfPrefab(tree, p) ELSE Resolve(p)

\* The entries of all directories down to Depth below the mount.
SynthEntries(tree, Depth) ==
  LET top == {Entry(Plain(<<r.name>>), TRUE) : r \in Roots} \cup {Entry(Plain(<<PrefabRoot>>), TRUE)}
      level[n \in 1 .. Depth] ==
        IF n = 1 THEN top
        ELSE UNION {SynthListing(tree, e.path) : e \in {d \in level[n - 1] : d.isDir}}
  IN UNION {level[n] : n \in 1 .. Depth}

MissingAsset(tree, p) ==
  LET c == Classify(p)
  IN c.kind = "assets" /\ c.rel \notin DOMAIN tree
     /\ c.rel \in ToSet(Assets(tree, FullPath(tree, c.stem)))

\* What a listing shows, lookup finds, as the same sort of thing, and a file of it can
\* be read, except an asset that the prefab names and the archives lack; and what
\* lookup finds beside listed entries is listed.
SynthAgreeOn(tree, Depth) ==
  LET shown == SynthEntries(tree, Depth)
      names == {FileName(e.path) : e \in shown} \cup {FileName(p) : p \in DOMAIN tree}
  IN /\ \A e \in shown :
          /\ LookupSynth(tree, e.path) = IF e.isDir THEN "dir" ELSE "file"
          /\ \/ e.isDir
             \/ MissingAsset(tree, e.path)
             \/ SynthSources(tree, e.path) \in (SUBSET DOMAIN tree) \ {{}}
     /\ \A e \in {d \in shown : d.isDir /\ Len(d.path.segs) < Depth}, n \in names :
          LET p == Sub(e.path, <<n>>)
          IN LookupSynth(tree, p) # "absent" => p \in {x.path : x \in shown}
=============================================================================
