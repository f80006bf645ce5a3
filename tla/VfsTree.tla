------------------------------ MODULE VfsTree ------------------------------
\* The index of cdcore::vfs::manager as a value: a function from virtual paths
\* to the group and the record they lead to, and what VfsManager does with it.
\*
\* A path is its segments and the tag after an '@' in the first one:
\* `sound@0005/a.wem` is [at |-> 5, segs |-> <<"sound", "a.wem">>].  Names with
\* an '@' in a later segment are those in AtNames.
EXTENDS Naturals, Sequences, SequencesExt, FiniteSets

CONSTANTS None, AtNames

Plain(segs) == [at |-> None, segs |-> segs]

\* strip_group_alias, canonicalize_first_segment: whatever follows the '@' goes.
Canonical(p) == Plain(p.segs)

AliasOf(p, g) == [at |-> g, segs |-> p.segs]

IsPath(p) == p = AliasOf(p, p.at)

InDir(p) == Len(p.segs) > 1

\* `path.contains('@')`
HasAt(p) == p.at # None \/ \E i \in DOMAIN p.segs : p.segs[i] \in AtNames

Keep(tree, Test(_)) == [p \in {q \in DOMAIN tree : Test(q)} |-> tree[p]]

Upsert(tree, new) ==
  [p \in DOMAIN tree \cup DOMAIN new |->
     IF p \in DOMAIN new THEN new[p] ELSE tree[p]]

EntriesOf(g, pamt) == [p \in DOMAIN pamt |-> [g |-> g, v |-> pamt[p]]]

WithoutGroup(tree, g) == Keep(tree, LAMBDA p : tree[p].g # g)

\* (Slip: the old entries of the group are left in.)
ReinstallOver(tree, g, pamt) == Upsert(tree, EntriesOf(g, pamt))

\* reload_group: one write lock around both.
Reinstall(tree, g, pamt) == Upsert(WithoutGroup(tree, g), EntriesOf(g, pamt))

\* load_all_groups: in the order of the group names, so the last one wins.
LoadAll(pamts) ==
  LET holders(p) == {g \in DOMAIN pamts : p \in DOMAIN pamts[g]}
      last(S)    == CHOOSE g \in S : \A h \in S : h <= g
  IN [p \in UNION {DOMAIN pamts[g] : g \in DOMAIN pamts} |->
        LET g == last(holders(p)) IN [g |-> g, v |-> pamts[g][p]]]

MultiDirs(tree) ==
  LET plain == {p \in DOMAIN tree : ~HasAt(p) /\ InDir(p)}
  IN {d \in {p.segs[1] : p \in plain} :
        \E p, q \in plain : /\ p.segs[1] = d /\ q.segs[1] = d
                            /\ tree[p].g # tree[q].g}

\* expose_multi_package_dirs: an alias for the winner of each path, after every
\* path with an '@' anywhere has been dropped.
Expose(tree) ==
  LET dirs    == MultiDirs(tree)
      named   == {p \in DOMAIN tree : ~HasAt(p) /\ InDir(p) /\ p.segs[1] \in dirs}
      aliases == [a \in {AliasOf(p, tree[p].g) : p \in named} |-> tree[Canonical(a)]]
  IN IF dirs = {} THEN tree
     ELSE Upsert(Keep(tree, LAMBDA p : ~HasAt(p)), aliases)

Under(p, dir) ==
  IF dir.segs = <<>> THEN TRUE
  ELSE p.at = dir.at /\ IsStrictPrefix(dir.segs, p.segs)

\* list_dir_*: direct children; a name that is a file and a directory is listed
\* as the file, which sorts first.
Children(tree, dir) ==
  LET n     == Len(dir.segs) + 1
      below == {p \in DOMAIN tree : Under(p, dir)}
      first == {[at |-> p.at, segs |-> SubSeq(p.segs, 1, n)] : p \in below}
  IN {[path |-> c, isDir |-> c \notin DOMAIN tree] : c \in first}

HoldsFiles(tree, dir) == \E p \in DOMAIN tree : Under(p, dir)

\* subtree_has_ext, with the files of that extension given.
HoldsExt(found, dir) == \E p \in found : Under(p, dir)

=============================================================================
