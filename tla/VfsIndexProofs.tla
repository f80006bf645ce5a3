--------------------------- MODULE VfsIndexProofs ---------------------------
\* Proofs about the index of a mount: its types and NoShadow whatever the threads
\* do, and what it keeps when no two of them are at one file or group.
EXTENDS VfsIndex, TLAPS, NaturalsInduction, WellFoundedInduction

-----------------------------------------------------------------------------
\* Names

\* A name that clients may give a file of their own.
Own(p) == p = Canonical(p) /\ \A g \in Groups : p \notin Shipped[g]

\* The name of a file, or its alias in the user group.
Named(p) == p = Canonical(p) \/ p \in UserAliases(p)

\* An alias leads back to the file it is an alias of, and is no such file.
LEMMA Aliases ==
  ASSUME NEW p, NEW g
  PROVE  /\ Canonical(Canonical(p)) = Canonical(p)
         /\ Canonical(AliasOf(p, g)) = Canonical(p)
         /\ AliasOf(Canonical(p), g) = AliasOf(p, g)
         /\ AliasOf(p, g).at = g /\ Canonical(p).at = None
         /\ InDir(Canonical(p)) <=> InDir(p)
         /\ UserAliases(Canonical(p)) = UserAliases(p)
  BY DEF Canonical, AliasOf, Plain, InDir, UserAliases

LEMMA ShippedNames ==
  ASSUME NEW g \in Groups, NEW p \in Shipped[g]
  PROVE  p = Canonical(p) /\ ~HasAt(p) /\ ~Own(p)
  BY IndexAssumption DEF IsPath, AliasOf, Canonical, Plain, HasAt, Own

LEMMA UserGroupApart == UserGroup \notin Groups /\ UserGroup # None /\ UserGroup \in AllGroups
  BY IndexAssumption DEF AllGroups

\* An alias of a file of a client's own, or its name, is one of two.
LEMMA TwoNames ==
  ASSUME NEW p, Named(p)
  PROVE  p \in {Canonical(p)} \cup UserAliases(Canonical(p))
  BY Aliases DEF Named

LEMMA PlainNamed ==
  ASSUME NEW p, Named(p), p.at = None
  PROVE  p = Canonical(p)
  BY Aliases, UserGroupApart DEF Named, UserAliases

-----------------------------------------------------------------------------
\* Records of the user group

Records(recs, n) ==
  /\ \A r \in recs : r.v \in 0 .. n /\ Named(r.path) /\ Own(Canonical(r.path))
  /\ \A r, s \in recs : Canonical(r.path) = Canonical(s.path) => r = s

\* The record that is found for a path is the one there is.
LEMMA OneVersion ==
  ASSUME NEW recs, NEW r \in recs,
         \A q, s \in recs : Canonical(q.path) = Canonical(s.path) => q = s
  PROVE  VersionIn(recs, r.path) = r.v
  BY DEF VersionIn

LEMMA RecordsMigrated ==
  ASSUME NEW n, NEW recs, Records(recs, n)
  PROVE  Records(Migrated(recs), n) /\ \A r \in Migrated(recs) : r.path = Canonical(r.path)
<1> DEFINE new(r) == [path |-> Canonical(r.path), v |-> r.v]
<1>1. Migrated(recs) = {new(r) : r \in recs}
  BY DEF Migrated
<1>2. \A r \in recs : new(r).path = Canonical(r.path) /\ new(r).v = r.v
                      /\ Canonical(new(r).path) = Canonical(r.path)
  BY Aliases
<1>3. QED BY <1>1, <1>2 DEF Records, Named

LEMMA RecordsSubset ==
  ASSUME NEW n, NEW recs, NEW some \in SUBSET recs, Records(recs, n)
  PROVE  Records(some, n)
  BY DEF Records

LEMMA RecordsAdded ==
  ASSUME NEW n, NEW recs, Records(recs, n), \A r \in recs : r.path = Canonical(r.path),
         NEW p, Own(p), NEW v \in 0 .. n
  PROVE  /\ Records(Added(recs, p, v), n)
         /\ \A r \in Added(recs, p, v) : r.path = Canonical(r.path)
  BY DEF Records, Added, Dropped, Named, Own

-----------------------------------------------------------------------------
\* Loading the groups of a mount

\* Of any groups there is a last one: they are numbers below that of the user group.
LEMMA LastGroup ==
  ASSUME NEW S \in SUBSET AllGroups, S # {}
  PROVE  \E g \in S : \A h \in S : h <= g
<1> DEFINE R == {ss \in Nat \X Nat : ss[1] < ss[2]}
           T == {UserGroup - g : g \in S}
<1>1. \A g \in AllGroups : g \in Nat /\ g <= UserGroup /\ UserGroup \in Nat
  BY IndexAssumption DEF AllGroups
<1>2. T \subseteq Nat /\ T # {}
  BY <1>1
<1>3. IsWellFoundedOn(R, Nat)
  BY NatLessThanWellFounded DEF OpToRel
<1>4. PICK x \in T : \A y \in T : <<y, x>> \notin R
  <2> HIDE DEF T, R
  <2> QED BY <1>2, <1>3, WFMin
<1>5. \A y \in T : ~(y < x)
  BY <1>2, <1>4
<1>6. QED BY <1>1, <1>5

\* What a path leads to after loading: the record of a group that has the path.
LEMMA Loaded ==
  ASSUME NEW pamts, DOMAIN pamts = AllGroups
  PROVE  /\ DOMAIN LoadAll(pamts) = UNION {DOMAIN pamts[g] : g \in AllGroups}
         /\ \A p \in DOMAIN LoadAll(pamts) :
              \E g \in AllGroups : /\ p \in DOMAIN pamts[g]
                                   /\ LoadAll(pamts)[p] = [g |-> g, v |-> pamts[g][p]]
<1> DEFINE holders(p) == {g \in DOMAIN pamts : p \in DOMAIN pamts[g]}
           last(S)    == CHOOSE g \in S : \A h \in S : h <= g
           all        == UNION {DOMAIN pamts[g] : g \in DOMAIN pamts}
<1>1. LoadAll(pamts) = [p \in all |-> [g |-> last(holders(p)), v |-> pamts[last(holders(p))][p]]]
  BY DEF LoadAll
<1>2. \A p \in all : last(holders(p)) \in holders(p)
  <2> SUFFICES ASSUME NEW p \in all PROVE last(holders(p)) \in holders(p)
    OBVIOUS
  <2>1. holders(p) \in SUBSET AllGroups /\ holders(p) # {}
    OBVIOUS
  <2> HIDE DEF holders
  <2>2. QED BY <2>1, LastGroup
<1> HIDE DEF last
<1>3. QED BY <1>1, <1>2

\* A path leads where it should, with records recs in the user group and PAMTs d: to
\* the record of the shipped file, or to a client's own.
Right(t, p, recs, d) ==
  \/ \E g \in Groups : /\ Canonical(p) \in Shipped[g]
                       /\ t[p] = [g |-> g, v |-> d[g][Canonical(p)]]
  \/ /\ Named(p)
     /\ \E r \in recs : r.path = Canonical(p) /\ t[p] = [g |-> UserGroup, v |-> r.v]

LEMMA LoadedRight ==
  ASSUME NEW n, NEW recs, Records(recs, n), NEW d, NEW pamts,
         pamts = [g \in AllGroups |-> IF g = UserGroup THEN AsPamt(recs) ELSE d[g]],
         \A g \in Groups : DOMAIN d[g] = Shipped[g]
  PROVE  /\ \A p \in DOMAIN LoadAll(pamts) :
              Right(LoadAll(pamts), p, Migrated(recs), d) /\ (p.at = None => p = Canonical(p))
         /\ \A g \in Groups : Shipped[g] \subseteq DOMAIN LoadAll(pamts)
<1>1. DOMAIN pamts = AllGroups /\ \A g \in Groups : pamts[g] = d[g]
  BY UserGroupApart DEF AllGroups
<1>2. pamts[UserGroup] = [p \in PathsOf(recs) |-> VersionIn(recs, p)]
  BY UserGroupApart DEF AsPamt
<1> DEFINE all == LoadAll(pamts)
<1>0. /\ DOMAIN all = UNION {DOMAIN pamts[g] : g \in AllGroups}
      /\ \A p \in DOMAIN all :
           \E g \in AllGroups : p \in DOMAIN pamts[g] /\ all[p] = [g |-> g, v |-> pamts[g][p]]
  <2>1. DOMAIN pamts = AllGroups
    BY <1>1
  <2>2. QED BY ONLY <2>1, Loaded
<1>3. ASSUME NEW p \in DOMAIN LoadAll(pamts)
      PROVE  Right(LoadAll(pamts), p, Migrated(recs), d) /\ (p.at = None => p = Canonical(p))
  <2>1. PICK g \in AllGroups : /\ p \in DOMAIN pamts[g]
                               /\ LoadAll(pamts)[p] = [g |-> g, v |-> pamts[g][p]]
    BY <1>0
  <2>2. CASE g \in Groups
    BY <1>1, <2>1, <2>2, ShippedNames DEF Right
  <2>3. CASE g = UserGroup
    <3>1. PICK r \in recs : r.path = p
      BY <1>2, <2>1, <2>3 DEF PathsOf
    <3>2. pamts[g][p] = r.v
      BY <1>2, <2>1, <2>3, <3>1, OneVersion DEF Records
    <3>3. [path |-> Canonical(p), v |-> r.v] \in Migrated(recs)
      BY <3>1 DEF Migrated
    <3>4. Named(p)
      BY <3>1 DEF Records
    <3>5. QED BY <2>1, <2>3, <3>2, <3>3, <3>4, PlainNamed DEF Right
  <2>4. QED BY <2>2, <2>3 DEF AllGroups
<1>4. \A g \in Groups : Shipped[g] \subseteq DOMAIN LoadAll(pamts)
  <2>1. ASSUME NEW g \in Groups PROVE g \in AllGroups /\ DOMAIN pamts[g] = Shipped[g]
    BY <1>1 DEF AllGroups
  <2> QED BY <1>0, <2>1
<1>5. QED BY <1>3, <1>4

\* Exposing keeps the paths without an '@', and an alias leads where its file does.
LEMMA Exposed ==
  ASSUME NEW t, \A p \in DOMAIN t : t[p].g # None /\ (p.at = None => p = Canonical(p))
  PROVE  /\ \A p \in DOMAIN t : ~HasAt(p) => p \in DOMAIN Expose(t)
         /\ \A a \in DOMAIN Expose(t) :
              \E p \in DOMAIN t : /\ Expose(t)[a] = t[p]
                                  /\ a = p \/ (p = Canonical(p) /\ InDir(p) /\ a = AliasOf(p, t[p].g))
<1> DEFINE dirs    == MultiDirs(t)
           named   == {p \in DOMAIN t : ~HasAt(p) /\ InDir(p) /\ p.segs[1] \in dirs}
           aliases == [a \in {AliasOf(p, t[p].g) : p \in named} |-> t[Canonical(a)]]
           kept    == [p \in {q \in DOMAIN t : ~HasAt(q)} |-> t[p]]
<1>1. CASE dirs = {}
  BY <1>1 DEF Expose, Keep
<1>2. CASE dirs # {}
  <2>1. Expose(t) = Upsert(kept, aliases)
    BY <1>2 DEF Expose, Keep
  <2>2. DOMAIN kept = {p \in DOMAIN t : ~HasAt(p)} /\ \A p \in DOMAIN kept : kept[p] = t[p]
    OBVIOUS
  <2>3. \A p \in named : p \in DOMAIN t /\ p = Canonical(p) /\ InDir(p)
                         /\ Canonical(AliasOf(p, t[p].g)) = p
    BY Aliases DEF HasAt
  <2>4. \A a \in DOMAIN aliases :
          \E p \in DOMAIN t : aliases[a] = t[p] /\ p = Canonical(p) /\ InDir(p) /\ a = AliasOf(p, t[p].g)
    <3> HIDE DEF named
    <3> QED BY <2>3
  <2> HIDE DEF aliases, kept
  <2>5. /\ DOMAIN Upsert(kept, aliases) = DOMAIN kept \cup DOMAIN aliases
        /\ \A a \in DOMAIN Upsert(kept, aliases) :
             Upsert(kept, aliases)[a] = IF a \in DOMAIN aliases THEN aliases[a] ELSE kept[a]
    BY DEF Upsert
  <2>6. QED BY <2>1, <2>2, <2>4, <2>5
<1>3. QED BY <1>1, <1>2

-----------------------------------------------------------------------------
\* Mounting

\* The records of a group added to a tree.
LEMMA WithEntries ==
  ASSUME NEW t, NEW n, NEW recs, Records(recs, n)
  PROVE  LET new == Upsert(t, EntriesOf(UserGroup, AsPamt(recs)))
         IN /\ DOMAIN new = DOMAIN t \cup PathsOf(recs)
            /\ \A r \in recs : new[r.path] = [g |-> UserGroup, v |-> r.v]
            /\ \A p \in DOMAIN t \ PathsOf(recs) : new[p] = t[p]
<1> DEFINE entries == EntriesOf(UserGroup, AsPamt(recs))
<1>1. DOMAIN entries = PathsOf(recs)
  BY DEF EntriesOf, AsPamt
<1>2. \A r \in recs : r.path \in PathsOf(recs) /\ VersionIn(recs, r.path) = r.v
  BY OneVersion DEF PathsOf, Records
<1>3. \A r \in recs : entries[r.path] = [g |-> UserGroup, v |-> r.v]
  BY <1>2 DEF EntriesOf, AsPamt
<1> HIDE DEF entries
<1>4. QED BY <1>1, <1>2, <1>3 DEF Upsert, entries

LEMMA ExposedRight ==
  ASSUME NEW t, NEW recs, NEW d,
         \A p \in DOMAIN t : Right(t, p, recs, d) /\ (p.at = None => p = Canonical(p))
  PROVE  /\ \A p \in DOMAIN Expose(t) : Right(Expose(t), p, recs, d)
         /\ \A g \in Groups : Shipped[g] \subseteq DOMAIN t => Shipped[g] \subseteq DOMAIN Expose(t)
<1>1. \A p \in DOMAIN t : t[p].g \in AllGroups
  BY UserGroupApart DEF Right, AllGroups
<1>2. \A p \in DOMAIN t : t[p].g # None
  BY <1>1, IndexAssumption
<1>3. /\ \A p \in DOMAIN t : ~HasAt(p) => p \in DOMAIN Expose(t)
      /\ \A a \in DOMAIN Expose(t) :
           \E p \in DOMAIN t : /\ Expose(t)[a] = t[p]
                               /\ a = p \/ (p = Canonical(p) /\ InDir(p) /\ a = AliasOf(p, t[p].g))
  BY <1>2, Exposed
<1>4. ASSUME NEW a \in DOMAIN Expose(t) PROVE Right(Expose(t), a, recs, d)
  <2>1. PICK p \in DOMAIN t : /\ Expose(t)[a] = t[p]
                              /\ a = p \/ (p = Canonical(p) /\ InDir(p) /\ a = AliasOf(p, t[p].g))
    BY <1>3
  <2>2. CASE a = p
    BY <2>1, <2>2 DEF Right
  <2>3. CASE p = Canonical(p) /\ InDir(p) /\ a = AliasOf(p, t[p].g)
    <3>1. Canonical(a) = Canonical(p) /\ InDir(a)
      BY <2>3, Aliases
    <3>2. t[p].g = UserGroup => Named(a)
      BY <2>3, <3>1, Aliases DEF Named, UserAliases
    <3>3. QED BY <2>1, <3>1, <3>2 DEF Right
  <2>4. QED BY <2>1, <2>2, <2>3
<1>5. QED BY <1>3, <1>4, ShippedNames

\* After mounting, every path leads where it should, every shipped file is found, and
\* so is every record that was not pruned.
MountedRight(recs, d, n) ==
  LET t == MountedTree(recs, d)
      kept == Pruned(Migrated(recs))
  IN /\ \A p \in DOMAIN t : Right(t, p, kept, d)
     /\ \A g \in Groups : Shipped[g] \subseteq DOMAIN t
     /\ \A r \in kept : r.path \in DOMAIN t /\ t[r.path] = [g |-> UserGroup, v |-> r.v]
     /\ Records(kept, n) /\ \A r \in kept : r.path = Canonical(r.path)

LEMMA MountRight ==
  ASSUME NEW n, NEW recs, Records(recs, n), NEW d,
         \A g \in Groups : DOMAIN d[g] = Shipped[g]
  PROVE  MountedRight(recs, d, n)
<1> DEFINE migrated == Migrated(recs)
           pamts    == [g \in AllGroups |-> IF g = UserGroup THEN AsPamt(recs) ELSE d[g]]
           loaded   == LoadAll(pamts)
           shown    == Expose(loaded)
           withUser == Upsert(shown, EntriesOf(UserGroup, AsPamt(migrated)))
           stale    == Stale(migrated)
           dead     == stale \cup UNION {UserAliases(p) : p \in stale}
           t        == MountedTree(recs, d)
           kept     == Pruned(migrated)
<1>1. Records(migrated, n) /\ \A r \in migrated : r.path = Canonical(r.path)
  BY RecordsMigrated
<1>2. kept \in SUBSET migrated /\ \A r \in migrated : r \in kept <=> r.path \notin stale
  BY DEF Pruned
<1>3. Records(kept, n) /\ \A r \in kept : r.path = Canonical(r.path)
  BY <1>1, <1>2, RecordsSubset
<1>4. /\ \A p \in DOMAIN loaded : Right(loaded, p, migrated, d) /\ (p.at = None => p = Canonical(p))
      /\ \A g \in Groups : Shipped[g] \subseteq DOMAIN loaded
  BY LoadedRight
<1>5. t = [p \in {q \in DOMAIN withUser : q \notin dead} |-> withUser[p]]
  BY DEF MountedTree, Keep
<1> HIDE DEF loaded, pamts
<1>6. /\ \A p \in DOMAIN shown : Right(shown, p, migrated, d)
      /\ \A g \in Groups : Shipped[g] \subseteq DOMAIN shown
  BY <1>4, ExposedRight
<1> HIDE DEF shown, t, kept, migrated
<1>7. /\ DOMAIN withUser = DOMAIN shown \cup PathsOf(migrated)
      /\ \A r \in migrated : withUser[r.path] = [g |-> UserGroup, v |-> r.v]
      /\ \A p \in DOMAIN shown \ PathsOf(migrated) : withUser[p] = shown[p]
  BY <1>1, WithEntries
<1>8. \A p \in DOMAIN withUser : Right(withUser, p, migrated, d)
  <2>1. ASSUME NEW p \in PathsOf(migrated) PROVE Right(withUser, p, migrated, d)
    <3>1. PICK r \in migrated : r.path = p
      BY DEF PathsOf
    <3>2. QED BY <1>1, <1>7, <3>1 DEF Right, Named
  <2>2. ASSUME NEW p \in DOMAIN shown \ PathsOf(migrated) PROVE Right(withUser, p, migrated, d)
    BY <1>6, <1>7 DEF Right
  <2>3. QED BY <1>7, <2>1, <2>2
<1>9. stale \subseteq PathsOf(migrated)
  BY DEF Stale
<1>10. \A p \in stale : p = Canonical(p) /\ Own(p)
  BY <1>1, <1>9 DEF PathsOf, Records
<1>11. ASSUME NEW p \in dead PROVE Canonical(p) \in stale /\ (p = Canonical(p) => p \in stale)
  <2>1. CASE p \in stale
    BY <1>10, <2>1
  <2>2. CASE p \notin stale
    <3>1. PICK q \in stale : p \in UserAliases(q)
      BY <2>2
    <3>2. p = AliasOf(q, UserGroup) /\ q = Canonical(q)
      BY <1>10, <3>1 DEF UserAliases
    <3>3. Canonical(p) = q /\ p # Canonical(p)
      BY <3>2, Aliases, UserGroupApart
    <3>4. QED BY <3>3
  <2>3. QED BY <2>1, <2>2
<1>12. \A p \in DOMAIN withUser : p \notin dead => p \in DOMAIN t /\ t[p] = withUser[p]
  BY <1>5
<1>13. ASSUME NEW p \in DOMAIN t PROVE Right(t, p, kept, d)
  <2>1. p \in DOMAIN withUser /\ p \notin dead /\ t[p] = withUser[p]
    BY <1>5
  <2>2. Right(withUser, p, migrated, d)
    BY <1>8, <2>1
  <2>3. ASSUME Named(p) PROVE Canonical(p) \notin stale
    BY <1>9, <2>1, <2>3, Aliases, TwoNames DEF dead
  <2>4. \A r \in migrated : r.path = Canonical(p) /\ Named(p) => r \in kept
    BY <1>2, <2>3
  <2>5. QED BY <2>1, <2>2, <2>4 DEF Right
<1>14. ASSUME NEW g \in Groups, NEW p \in Shipped[g] PROVE p \in DOMAIN t
  <2>1. p = Canonical(p) /\ ~Own(p)
    BY ShippedNames
  <2>2. p \notin dead
    BY <1>10, <1>11, <2>1
  <2>3. QED BY <1>6, <1>7, <1>12, <2>2
<1>15. ASSUME NEW r \in kept PROVE r.path \in DOMAIN t /\ t[r.path] = [g |-> UserGroup, v |-> r.v]
  <2>1. r \in migrated /\ r.path \notin stale /\ r.path = Canonical(r.path)
    BY <1>1, <1>2
  <2>2. r.path \notin dead /\ r.path \in PathsOf(migrated)
    BY <1>11, <2>1 DEF PathsOf
  <2>3. QED BY <1>7, <1>12, <2>1, <2>2
<1>16. QED BY <1>3, <1>13, <1>14, <1>15 DEF t, kept, migrated, MountedRight

-----------------------------------------------------------------------------
\* What holds whatever the threads do

Pamts(d) ==
  /\ DOMAIN d = Groups
  /\ \A g \in Groups : DOMAIN d[g] = Shipped[g] /\ \A p \in Shipped[g] : d[g][p] \in 0 .. changes

\* A path of the tree leads to a shipped file of that name, or to a client's own.
Leads(p) ==
  /\ tree[p] = [g |-> tree[p].g, v |-> tree[p].v] /\ tree[p].v \in 0 .. changes
  /\ \/ tree[p].g \in Groups /\ Canonical(p) \in Shipped[tree[p].g]
     \/ tree[p].g = UserGroup /\ Named(p) /\ Own(Canonical(p))

AtFiles == {"add", "insert", "forget"}
AtGroups == {"parse", "install"}

\* A thread is at a client's file or at a group, with what it read of it.
Working(r, n) ==
  \/ r = Idle
  \/ /\ r = [Idle EXCEPT !.pc = r.pc, !.path = r.path, !.v = r.v]
     /\ r.pc \in AtFiles /\ Own(r.path) /\ r.v \in 0 .. n
  \/ /\ r = [Idle EXCEPT !.pc = r.pc, !.g = r.g, !.got = r.got]
     /\ r.pc \in AtGroups /\ r.g \in Groups
     /\ r.pc = "install" => /\ DOMAIN r.got = Shipped[r.g]
                            /\ \A p \in Shipped[r.g] : r.got[p] \in 0 .. n

Mounted ==
  /\ up \in BOOLEAN /\ changes \in 0 .. MaxChanges
  /\ ~up => DOMAIN cache = {} /\ DOMAIN tree = {} /\ files = {} /\ \A t \in Threads : th[t] = Idle

OnDisk == Pamts(disk) /\ (up => Pamts(cache)) /\ Records(userDisk, changes)

OwnFiles == Records(files, changes) /\ \A r \in files : r.path = Canonical(r.path)

Tree ==
  /\ \A p \in DOMAIN tree : Leads(p)
  /\ up => \A g \in Groups : Shipped[g] \subseteq DOMAIN tree

AtWork == DOMAIN th = Threads /\ \A t \in Threads : Working(th[t], changes)

BInv == Mounted /\ OnDisk /\ OwnFiles /\ Tree /\ AtWork

\* More versions than there were change nothing of it.
LEMMA RecordsKeep ==
  ASSUME NEW recs, NEW n \in Nat, NEW m \in Nat, n <= m, Records(recs, n)
  PROVE  Records(recs, m)
  BY DEF Records

LEMMA WorkKeeps ==
  ASSUME NEW r, NEW n \in Nat, NEW m \in Nat, n <= m, Working(r, n)
  PROVE  Working(r, m)
  BY DEF Working

\* A step of thread t, after which its record is r.
Turn(t, r) ==
  DOMAIN th' = Threads /\ th'[t] = r /\ \A u \in Threads \ {t} : th'[u] = th[u]

LEMMA Turns ==
  ASSUME BInv, NEW t \in Threads, NEW r, Begin(t, r)
  PROVE  Turn(t, r)
  BY DEF Turn, Begin, BInv, AtWork

LEMMA Ends ==
  ASSUME BInv, NEW t \in Threads, Done(t)
  PROVE  Turn(t, Idle)
  BY DEF Turn, Done, BInv, AtWork

LEMMA TurnKeeps ==
  ASSUME BInv, NEW t \in Threads, NEW r, Turn(t, r), Working(r, changes'),
         changes \in Nat, changes' \in Nat, changes <= changes'
  PROVE  AtWork'
<1>1. \A u \in Threads \ {t} : Working(th'[u], changes')
  BY WorkKeeps DEF BInv, AtWork, Turn
<1>2. QED BY <1>1 DEF AtWork, Turn

LEMMA EndKeeps ==
  ASSUME BInv, NEW t \in Threads, Done(t), changes \in Nat, changes' = changes
  PROVE  AtWork'
<1>1. Turn(t, Idle) /\ Working(Idle, changes')
  BY Ends DEF Working
<1>2. QED BY <1>1, TurnKeeps

\* A thread that is at work is so while the mount is up.
LEMMA UpAtWork ==
  ASSUME BInv, NEW t \in Threads, th[t].pc # "idle"
  PROVE  up
  BY DEF BInv, Mounted, Idle

LEMMA AtFile1 ==
  ASSUME BInv, NEW t \in Threads, th[t].pc \in AtFiles
  PROVE  /\ up /\ Own(th[t].path) /\ th[t].v \in 0 .. changes /\ changes \in Nat
         /\ th[t] = [Idle EXCEPT !.pc = th[t].pc, !.path = th[t].path, !.v = th[t].v]
<1>1. Working(th[t], changes) /\ th[t] # Idle
  BY DEF BInv, AtWork, Idle, AtFiles
<1>2. th[t].pc \notin AtGroups
  BY DEF AtFiles, AtGroups
<1>3. QED BY <1>1, <1>2, UpAtWork, IndexAssumption DEF Working, AtFiles, BInv, Mounted

LEMMA AtGroup1 ==
  ASSUME BInv, NEW t \in Threads, th[t].pc \in AtGroups
  PROVE  /\ up /\ th[t].g \in Groups /\ changes \in Nat
         /\ th[t] = [Idle EXCEPT !.pc = th[t].pc, !.g = th[t].g, !.got = th[t].got]
         /\ th[t].pc = "install" =>
              /\ DOMAIN th[t].got = Shipped[th[t].g]
              /\ \A p \in Shipped[th[t].g] : th[t].got[p] \in 0 .. changes
<1>1. Working(th[t], changes) /\ th[t] # Idle
  BY DEF BInv, AtWork, Idle, AtGroups
<1>2. th[t].pc \notin AtFiles
  BY DEF AtFiles, AtGroups
<1>3. QED BY <1>1, <1>2, UpAtWork, IndexAssumption DEF Working, AtGroups, BInv, Mounted

\* An idle thread has nothing.
LEMMA Idles ==
  ASSUME BInv, NEW t \in Threads, th[t].pc = "idle"
  PROVE  th[t] = Idle
  BY DEF BInv, AtWork, Working, AtFiles, AtGroups

LEMMA Numbers == ASSUME BInv PROVE changes \in Nat
  BY IndexAssumption DEF BInv, Mounted

LEMMA InitB == Init => BInv
<1> SUFFICES ASSUME Init PROVE BInv
  OBVIOUS
<1>1. Mounted
  <2>1. changes \in 0 .. MaxChanges
    BY IndexAssumption DEF Init
  <2>2. QED BY <2>1 DEF Init, Mounted
<1>2. Records(userDisk, 0)
  <2>1. userDisk \in Legacy
    BY DEF Init
  <2>2. ASSUME NEW r \in userDisk PROVE r.v \in 0 .. 0 /\ Named(r.path) /\ Own(Canonical(r.path))
    <3>1. r.v = 0 /\ Named(r.path) /\ \A g \in Groups : Canonical(r.path) \notin Shipped[g]
      BY <2>1, LegacyAssumption DEF Named
    <3>2. QED BY <3>1, Aliases DEF Own
  <2>3. QED BY <2>1, <2>2, LegacyAssumption DEF Records
<1>3. OnDisk
  BY <1>2 DEF Init, OnDisk, Pamts
<1>4. OwnFiles /\ Tree /\ AtWork
  BY DEF Init, OwnFiles, Records, Tree, AtWork, Working
<1>5. QED BY <1>1, <1>3, <1>4 DEF BInv

\* A client's file that create_user_file lets pass is no shipped one.
LEMMA CheckedOwn ==
  ASSUME BInv, up, NEW p,
         Canonical(p) \in DOMAIN tree => tree[Canonical(p)].g = UserGroup
  PROVE  Own(Canonical(p))
<1> DEFINE c == Canonical(p)
<1>1. c = Canonical(c)
  BY Aliases
<1>2. ASSUME NEW g \in Groups, c \in Shipped[g] PROVE FALSE
  <2>1. c \in DOMAIN tree /\ Leads(c)
    BY <1>2 DEF BInv, Tree
  <2>2. Own(Canonical(c))
    BY <2>1, UserGroupApart DEF Leads
  <2>3. QED BY <1>1, <1>2, <2>2, ShippedNames
<1>3. QED BY <1>1, <1>2 DEF Own

LEMMA HeldOwn ==
  ASSUME BInv, NEW c, Holds(files, c)
  PROVE  Own(c)
  BY DEF BInv, OwnFiles, Records, Holds, PathsOf

\* Steps that leave tree and PAMTs alone.
LEMMA TreeStays ==
  ASSUME BInv, UNCHANGED <<disk, up, tree, cache>>, changes' \in 0 .. MaxChanges, changes <= changes'
  PROVE  /\ Tree' /\ Pamts(disk)' /\ (up => Pamts(cache))'
         /\ \A recs : Records(recs, changes) => Records(recs, changes')
<1>1. changes \in Nat /\ changes' \in Nat
  BY Numbers, IndexAssumption
<1>2. Tree'
  BY <1>1 DEF BInv, Tree, Leads
<1>3. Pamts(disk)' /\ (up => Pamts(cache))'
  BY <1>1 DEF BInv, OnDisk, Pamts
<1>4. QED BY <1>1, <1>2, <1>3, RecordsKeep

LEMMA CreateCheckB ==
  ASSUME BInv, NEW t \in Threads, NEW p, CreateCheck(t, p)
  PROVE  BInv'
<1> DEFINE c == Canonical(p)
           r == [Idle EXCEPT !.pc = "add", !.path = c, !.v = changes + 1]
<1>1. up /\ UNCHANGED <<disk, userDisk, up, tree, cache, files>> /\ Turn(t, r)
      /\ changes' = changes + 1 /\ changes < MaxChanges /\ changes \in Nat
  BY Numbers, Turns DEF CreateCheck
<1>2. changes' \in 0 .. MaxChanges /\ changes <= changes' /\ changes' \in Nat
  BY <1>1, IndexAssumption
<1>3. Own(c)
  BY <1>1, CheckedOwn DEF CreateCheck
<1>4. Working(r, changes')
  BY <1>1, <1>3 DEF Working, Idle, AtFiles
<1>5. AtWork'
  BY <1>1, <1>2, <1>4, TurnKeeps
<1>6. Mounted'
  BY <1>1, <1>2 DEF BInv, Mounted
<1>7. OnDisk' /\ OwnFiles' /\ Tree'
  BY <1>1, <1>2, TreeStays DEF BInv, OnDisk, OwnFiles
<1>8. QED BY <1>5, <1>6, <1>7 DEF BInv

LEMMA CreateAddB ==
  ASSUME BInv, NEW t \in Threads, CreateAdd(t)
  PROVE  BInv'
<1> DEFINE r == [th[t] EXCEPT !.pc = "insert"]
<1>1. th[t].pc = "add" /\ files' = Added(files, th[t].path, th[t].v) /\ userDisk' = files' /\ Turn(t, r)
      /\ UNCHANGED <<disk, up, tree, cache, changes>>
  BY Turns DEF CreateAdd
<1>2. up /\ Own(th[t].path) /\ th[t].v \in 0 .. changes /\ changes \in Nat
      /\ th[t] = [Idle EXCEPT !.pc = th[t].pc, !.path = th[t].path, !.v = th[t].v]
  BY <1>1, AtFile1 DEF AtFiles
<1>3. Working(r, changes')
  BY <1>1, <1>2 DEF Working, Idle, AtFiles
<1>4. AtWork'
  BY <1>1, <1>2, <1>3, TurnKeeps
<1>5. Mounted'
  BY <1>1, <1>2 DEF BInv, Mounted
<1>6. OwnFiles' /\ Records(userDisk', changes')
  BY <1>1, <1>2, RecordsAdded DEF BInv, OwnFiles
<1>7. OnDisk' /\ Tree'
  BY <1>1, <1>6, TreeStays DEF BInv, OnDisk, Mounted
<1>8. QED BY <1>4, <1>5, <1>6, <1>7 DEF BInv

LEMMA CreateAddFailsB ==
  ASSUME BInv, NEW t \in Threads, CreateAddFails(t)
  PROVE  BInv'
<1>1. th[t].pc = "add" /\ Done(t) /\ UNCHANGED <<disk, up, tree, cache, changes>>
  BY DEF CreateAddFails
<1>2. up /\ Own(th[t].path) /\ th[t].v \in 0 .. changes /\ changes \in Nat
  BY <1>1, AtFile1 DEF AtFiles
<1>3. files' \in {files, Added(files, th[t].path, th[t].v)} /\ userDisk' \in {userDisk, files'}
  BY DEF CreateAddFails
<1>4. AtWork'
  BY <1>1, <1>2, EndKeeps
<1>5. Mounted'
  BY <1>1, <1>2 DEF BInv, Mounted
<1>6. OwnFiles' /\ Records(userDisk', changes')
  BY <1>1, <1>2, <1>3, RecordsAdded DEF BInv, OwnFiles, OnDisk
<1>7. OnDisk' /\ Tree'
  BY <1>1, <1>6, TreeStays DEF BInv, OnDisk, Mounted
<1>8. QED BY <1>4, <1>5, <1>6, <1>7 DEF BInv

LEMMA ForgetRecord ==
  ASSUME NEW c
  PROVE  [Idle EXCEPT !.pc = "forget", !.path = c] = [Idle EXCEPT !.pc = "forget", !.path = c, !.v = 0]
<1>1. Idle.v = 0
  BY DEF Idle
<1>2. [Idle EXCEPT !.pc = "forget", !.path = c] = [Idle EXCEPT !.pc = "forget", !.path = c, !.v = Idle.v]
  OBVIOUS
<1>3. QED BY <1>1, <1>2

LEMMA RemoveDropB ==
  ASSUME BInv, NEW t \in Threads, NEW p, RemoveDrop(t, p) \/ RemoveDropFails(t, p)
  PROVE  BInv'
<1> DEFINE c == Canonical(p)
           r == [Idle EXCEPT !.pc = "forget", !.path = c]
<1>1. /\ up /\ Holds(files, c) /\ files' = Dropped(files, c) /\ userDisk' \in {userDisk, files'}
      /\ UNCHANGED <<disk, up, tree, cache, changes>> /\ changes \in Nat
      /\ Turn(t, r) \/ th' = th
  BY Numbers, Turns DEF RemoveDrop, RemoveDropFails
<1>2. Own(c)
  BY <1>1, HeldOwn
<1>3. Working(r, changes')
  <2>1. r.pc = "forget" /\ r.path = c /\ r.v = 0
    BY DEF Idle
  <2>2. r = [Idle EXCEPT !.pc = "forget", !.path = c, !.v = 0]
    BY ONLY ForgetRecord
  <2> HIDE DEF r
  <2>3. QED BY <1>1, <1>2, <2>1, <2>2 DEF Working, AtFiles
<1>4. AtWork'
  <2>1. CASE Turn(t, r)
    BY <1>1, <1>3, <2>1, TurnKeeps
  <2>2. CASE th' = th
    BY <1>1, <2>2 DEF BInv, AtWork, Working
  <2>3. QED BY <1>1, <2>1, <2>2
<1>5. Mounted'
  BY <1>1 DEF BInv, Mounted
<1>6. OwnFiles' /\ Records(userDisk', changes')
  <2>1. files' \in SUBSET files
    BY <1>1 DEF Dropped
  <2>2. QED BY <1>1, <2>1, RecordsSubset DEF BInv, OwnFiles, OnDisk
<1>7. OnDisk' /\ Tree'
  BY <1>1, <1>6, TreeStays DEF BInv, OnDisk, Mounted
<1>8. QED BY <1>4, <1>5, <1>6, <1>7 DEF BInv

\* The names of a client's own file, and no other name, are Canonical to it.
LEMMA NamesOf ==
  ASSUME NEW c, Own(c)
  PROVE  /\ \A p \in {c} \cup UserAliases(c) : Named(p) /\ Canonical(p) = c
         /\ \A p : Named(p) /\ Canonical(p) = c => p \in {c} \cup UserAliases(c)
         /\ \A g \in Groups : Shipped[g] \cap ({c} \cup UserAliases(c)) = {}
<1>1. c = Canonical(c)
  BY DEF Own
<1>2. ASSUME NEW p \in UserAliases(c)
      PROVE  Canonical(p) = c /\ p \in UserAliases(p) /\ p.at = UserGroup
  BY <1>1, <1>2, Aliases DEF UserAliases
<1>3. \A p \in {c} \cup UserAliases(c) : Named(p) /\ Canonical(p) = c
  BY <1>1, <1>2 DEF Named
<1>4. \A g \in Groups : \A p \in Shipped[g] : p.at = None
  BY ShippedNames DEF HasAt
<1>5. QED BY <1>1, <1>2, <1>3, <1>4, TwoNames, UserGroupApart DEF Own

\* What create_user_file puts into the tree.
LEMMA Inserts ==
  ASSUME BInv, NEW t \in Threads, CreateInsert(t)
  PROVE  LET c     == th[t].path
             names == {c} \cup UserAliases(c)
         IN /\ up /\ Own(c) /\ th[t].v \in 0 .. changes /\ changes \in Nat
            /\ th[t].pc = "insert" /\ Done(t)
            /\ UNCHANGED <<disk, userDisk, up, cache, files, changes, failedGroups>>
            /\ failedFiles' = failedFiles \ {c}
            /\ DOMAIN tree' = DOMAIN tree \cup names
            /\ \A p \in names : tree'[p] = [g |-> UserGroup, v |-> th[t].v]
            /\ \A p \in DOMAIN tree \ names : tree'[p] = tree[p]
            /\ \A p \in names : Named(p) /\ Canonical(p) = c
            /\ \A p : Named(p) /\ Canonical(p) = c => p \in names
<1> DEFINE c     == th[t].path
           names == {c} \cup UserAliases(c)
           add   == [p \in names |-> [g |-> UserGroup, v |-> th[t].v]]
<1>1. /\ th[t].pc = "insert" /\ Done(t)
      /\ UNCHANGED <<disk, userDisk, up, cache, files, changes, failedGroups>>
      /\ failedFiles' = failedFiles \ {c}
      /\ tree' = Upsert(tree, add)
  BY DEF CreateInsert
<1>2. up /\ Own(c) /\ th[t].v \in 0 .. changes /\ changes \in Nat
  BY <1>1, AtFile1 DEF AtFiles
<1>3. DOMAIN add = names /\ \A p \in names : add[p] = [g |-> UserGroup, v |-> th[t].v]
  OBVIOUS
<1>4. /\ \A p \in names : Named(p) /\ Canonical(p) = c
      /\ \A p : Named(p) /\ Canonical(p) = c => p \in names
  BY <1>2, NamesOf
<1> HIDE DEF add, names
<1>5. /\ DOMAIN tree' = DOMAIN tree \cup names
      /\ \A p \in names : tree'[p] = [g |-> UserGroup, v |-> th[t].v]
      /\ \A p \in DOMAIN tree \ names : tree'[p] = tree[p]
  BY <1>1, <1>3 DEF Upsert
<1>6. QED BY <1>1, <1>2, <1>4, <1>5 DEF names

LEMMA CreateInsertB ==
  ASSUME BInv, NEW t \in Threads, CreateInsert(t)
  PROVE  BInv'
<1> DEFINE c     == th[t].path
           names == {c} \cup UserAliases(c)
<1>1. /\ up /\ Own(c) /\ th[t].v \in 0 .. changes /\ changes \in Nat
      /\ Done(t) /\ UNCHANGED <<disk, userDisk, up, cache, files, changes>>
      /\ DOMAIN tree' = DOMAIN tree \cup names
      /\ \A p \in names : tree'[p] = [g |-> UserGroup, v |-> th[t].v]
      /\ \A p \in DOMAIN tree \ names : tree'[p] = tree[p]
      /\ \A p \in names : Named(p) /\ Canonical(p) = c
  BY Inserts
<1> HIDE DEF names, c
<1>2. ASSUME NEW p \in DOMAIN tree' PROVE Leads(p)'
  BY <1>1, UserGroupApart DEF BInv, Tree, Leads
<1>3. Tree'
  BY <1>1, <1>2 DEF BInv, Tree
<1>4. Mounted' /\ OnDisk' /\ OwnFiles'
  BY <1>1 DEF BInv, Mounted, OnDisk, OwnFiles, Pamts
<1>5. AtWork'
  BY <1>1, EndKeeps
<1>6. QED BY <1>3, <1>4, <1>5 DEF BInv

LEMMA RemoveForgetB ==
  ASSUME BInv, NEW t \in Threads, RemoveForget(t)
  PROVE  BInv'
<1> DEFINE c     == th[t].path
           names == {c} \cup UserAliases(c)
<1>1. th[t].pc = "forget" /\ Done(t) /\ UNCHANGED <<disk, userDisk, up, cache, files, changes>>
      /\ tree' = [p \in {q \in DOMAIN tree : q \notin names} |-> tree[p]]
  BY DEF RemoveForget, Keep
<1>2. up /\ Own(c) /\ changes \in Nat
  BY <1>1, AtFile1 DEF AtFiles
<1>3. \A g \in Groups : Shipped[g] \cap names = {}
  BY <1>2, NamesOf
<1> HIDE DEF names, c
<1>4. Tree'
  BY <1>1, <1>3 DEF BInv, Tree, Leads
<1>5. Mounted' /\ OnDisk' /\ OwnFiles'
  BY <1>1, <1>2 DEF BInv, Mounted, OnDisk, OwnFiles, Pamts
<1>6. AtWork'
  BY <1>1, <1>2, EndKeeps
<1>7. QED BY <1>4, <1>5, <1>6 DEF BInv

\* A save gives one record of one group the new version.
LEMMA SaveEdits ==
  ASSUME BInv, NEW t \in Threads, NEW p \in DOMAIN tree, Save(t, p) \/ SaveFails(t, p)
  PROVE  LET g == tree[p].g
             new == [cache[g] EXCEPT ![Canonical(p)] = changes + 1]
         IN /\ up /\ g \in Groups /\ Canonical(p) \in Shipped[g]
            /\ th[t].pc = "idle" /\ FreeGroup(t, g)
            /\ changes \in Nat /\ changes' = changes + 1 /\ changes' \in 0 .. MaxChanges
            /\ DOMAIN new = Shipped[g] /\ new[Canonical(p)] = changes + 1
            /\ \A q \in Shipped[g] \ {Canonical(p)} : new[q] = cache[g][q]
            /\ disk' \in {disk, [disk EXCEPT ![g] = new]}
            /\ UNCHANGED <<userDisk, up, tree, cache, files, failedFiles>>
<1> DEFINE g == tree[p].g
           new == [cache[g] EXCEPT ![Canonical(p)] = changes + 1]
<1>1. /\ up /\ g \in Groups /\ th[t].pc = "idle" /\ FreeGroup(t, g) /\ changes < MaxChanges
      /\ changes' = changes + 1 /\ UNCHANGED <<userDisk, up, tree, cache, files, failedFiles>>
      /\ disk' \in {disk, [disk EXCEPT ![g] = new]}
  BY DEF Save, SaveFails
<1>2. Canonical(p) \in Shipped[g]
  BY <1>1, UserGroupApart DEF BInv, Tree, Leads
<1>3. DOMAIN cache[g] = Shipped[g]
  BY <1>1 DEF BInv, OnDisk, Pamts
<1>4. changes \in Nat /\ changes' \in 0 .. MaxChanges
  BY <1>1, Numbers, IndexAssumption
<1>5. QED BY <1>1, <1>2, <1>3, <1>4

LEMMA SaveB ==
  ASSUME BInv, NEW t \in Threads, NEW p \in DOMAIN tree, Save(t, p) \/ SaveFails(t, p)
  PROVE  BInv'
<1> DEFINE g   == tree[p].g
           c   == Canonical(p)
           new == [cache[g] EXCEPT ![c] = changes + 1]
           r   == [Idle EXCEPT !.pc = "parse", !.g = g]
<1>1. /\ up /\ g \in Groups /\ c \in Shipped[g]
      /\ changes \in Nat /\ changes' = changes + 1 /\ changes' \in 0 .. MaxChanges
      /\ DOMAIN new = Shipped[g] /\ new[c] = changes + 1
      /\ \A q \in Shipped[g] \ {c} : new[q] = cache[g][q]
      /\ disk' \in {disk, [disk EXCEPT ![g] = new]}
      /\ UNCHANGED <<userDisk, up, tree, cache, files, failedFiles>>
  BY SaveEdits
<1>2. \A n \in 0 .. changes : n \in 0 .. changes'
  BY <1>1
<1>3. \A q \in Shipped[g] : new[q] \in 0 .. changes'
  BY <1>1, <1>2 DEF BInv, OnDisk, Pamts
<1> HIDE DEF new
<1>4. Pamts(disk)' /\ (up => Pamts(cache))'
  BY <1>1, <1>2, <1>3 DEF BInv, OnDisk, Pamts
<1>5. Records(userDisk, changes)' /\ Records(files, changes)'
  BY <1>1, RecordsKeep DEF BInv, OnDisk, OwnFiles
<1>6. OnDisk' /\ OwnFiles'
  BY <1>1, <1>4, <1>5 DEF OnDisk, OwnFiles, BInv
<1>7. Tree'
  BY <1>1, <1>2 DEF BInv, Tree, Leads
<1>8. AtWork'
  <2>1. CASE Turn(t, r)
    <3>1. Working(r, changes')
      BY <1>1 DEF Working, Idle, AtGroups
    <3>2. QED BY <1>1, <2>1, <3>1, TurnKeeps
  <2>2. CASE th' = th
    <3>1. \A u \in Threads : Working(th[u], changes')
      BY <1>1, WorkKeeps DEF BInv, AtWork
    <3>2. QED BY <2>2, <3>1 DEF BInv, AtWork, Working
  <2>3. QED BY <2>1, <2>2, Turns DEF Save, SaveFails
<1>9. Mounted'
  BY <1>1 DEF BInv, Mounted
<1>10. QED BY <1>6, <1>7, <1>8, <1>9 DEF BInv

LEMMA ReloadParseB ==
  ASSUME BInv, NEW t \in Threads, ReloadParse(t)
  PROVE  BInv'
<1> DEFINE r == [th[t] EXCEPT !.pc = "install", !.got = disk[th[t].g]]
<1>1. th[t].pc = "parse" /\ Turn(t, r) /\ UNCHANGED <<disk, userDisk, up, tree, cache, files, changes>>
  BY Turns DEF ReloadParse
<1>2. /\ up /\ th[t].g \in Groups /\ changes \in Nat
      /\ th[t] = [Idle EXCEPT !.pc = th[t].pc, !.g = th[t].g, !.got = th[t].got]
  BY <1>1, AtGroup1 DEF AtGroups
<1>3. /\ r = [Idle EXCEPT !.pc = "install", !.g = th[t].g, !.got = disk[th[t].g]]
      /\ r.pc = "install" /\ r.g = th[t].g /\ r.got = disk[th[t].g]
  BY <1>2 DEF Idle
<1>4. DOMAIN disk[th[t].g] = Shipped[th[t].g] /\ \A p \in Shipped[th[t].g] : disk[th[t].g][p] \in 0 .. changes
  BY <1>2 DEF BInv, OnDisk, Pamts
<1> HIDE DEF r
<1>5. Working(r, changes')
  BY <1>1, <1>2, <1>3, <1>4 DEF Working, AtGroups
<1>6. AtWork'
  BY <1>1, <1>2, <1>5, TurnKeeps
<1>7. Mounted' /\ OnDisk' /\ OwnFiles' /\ Tree'
  BY <1>1, <1>2 DEF BInv, Mounted, OnDisk, OwnFiles, Tree, Pamts, Leads
<1>8. QED BY <1>6, <1>7 DEF BInv

LEMMA ReloadFailsB ==
  ASSUME BInv, NEW t \in Threads, ReloadFails(t)
  PROVE  BInv'
<1>1. th[t].pc = "parse" /\ Done(t) /\ UNCHANGED <<disk, userDisk, up, tree, cache, files, changes>>
  BY DEF ReloadFails
<1>2. up /\ changes \in Nat
  BY <1>1, AtGroup1 DEF AtGroups
<1>3. AtWork'
  BY <1>1, <1>2, EndKeeps
<1>4. Mounted' /\ OnDisk' /\ OwnFiles' /\ Tree'
  BY <1>1, <1>2 DEF BInv, Mounted, OnDisk, OwnFiles, Tree, Pamts, Leads
<1>5. QED BY <1>3, <1>4 DEF BInv

\* reload_group replaces what the group has in the tree.
LEMMA Reinstalls ==
  ASSUME BInv, NEW t \in Threads, ReloadInstall(t)
  PROVE  LET g   == th[t].g
             got == th[t].got
         IN /\ up /\ g \in Groups /\ changes \in Nat /\ th[t].pc = "install" /\ Done(t)
            /\ UNCHANGED <<disk, userDisk, up, files, changes, failedFiles>>
            /\ failedGroups' = failedGroups \ {g}
            /\ DOMAIN got = Shipped[g] /\ \A p \in Shipped[g] : got[p] \in 0 .. changes
            /\ DOMAIN tree' = {p \in DOMAIN tree : tree[p].g # g} \cup Shipped[g]
            /\ \A p \in Shipped[g] : tree'[p] = [g |-> g, v |-> got[p]] /\ p = Canonical(p)
            /\ \A p \in DOMAIN tree' \ Shipped[g] : p \in DOMAIN tree /\ tree[p].g # g /\ tree'[p] = tree[p]
            /\ DOMAIN cache' = Groups /\ cache'[g] = got
            /\ \A h \in Groups \ {g} : cache'[h] = cache[h]
<1> DEFINE g       == th[t].g
           got     == th[t].got
           kept    == [p \in {q \in DOMAIN tree : tree[q].g # g} |-> tree[p]]
           entries == [p \in DOMAIN got |-> [g |-> g, v |-> got[p]]]
<1>1. /\ th[t].pc = "install" /\ Done(t) /\ UNCHANGED <<disk, userDisk, up, files, changes, failedFiles>>
      /\ failedGroups' = failedGroups \ {g}
      /\ tree' = Upsert(kept, entries) /\ cache' = [cache EXCEPT ![g] = got]
  BY DEF ReloadInstall, Reinstall, WithoutGroup, Keep, EntriesOf
<1>2. /\ up /\ g \in Groups /\ changes \in Nat
      /\ DOMAIN got = Shipped[g] /\ \A p \in Shipped[g] : got[p] \in 0 .. changes
  BY <1>1, AtGroup1 DEF AtGroups
<1>3. /\ DOMAIN cache' = Groups /\ cache'[g] = got
      /\ \A h \in Groups \ {g} : cache'[h] = cache[h]
  BY <1>1, <1>2 DEF BInv, OnDisk, Pamts
<1>4. \A p \in Shipped[g] : p = Canonical(p)
  BY <1>2, ShippedNames
<1>5. /\ DOMAIN kept = {p \in DOMAIN tree : tree[p].g # g} /\ \A p \in DOMAIN kept : kept[p] = tree[p]
      /\ DOMAIN entries = Shipped[g] /\ \A p \in Shipped[g] : entries[p] = [g |-> g, v |-> got[p]]
  BY <1>2
<1> HIDE DEF kept, entries
<1>6. /\ DOMAIN tree' = {p \in DOMAIN tree : tree[p].g # g} \cup Shipped[g]
      /\ \A p \in Shipped[g] : tree'[p] = [g |-> g, v |-> got[p]]
      /\ \A p \in DOMAIN tree' \ Shipped[g] : p \in DOMAIN tree /\ tree[p].g # g /\ tree'[p] = tree[p]
  BY <1>1, <1>5 DEF Upsert
<1>7. QED BY <1>1, <1>2, <1>3, <1>4, <1>6

LEMMA ReloadInstallB ==
  ASSUME BInv, NEW t \in Threads, ReloadInstall(t)
  PROVE  BInv'
<1> DEFINE g   == th[t].g
           got == th[t].got
<1>1. /\ up /\ g \in Groups /\ changes \in Nat /\ Done(t)
      /\ UNCHANGED <<disk, userDisk, up, files, changes>>
      /\ DOMAIN got = Shipped[g] /\ \A p \in Shipped[g] : got[p] \in 0 .. changes
      /\ DOMAIN tree' = {p \in DOMAIN tree : tree[p].g # g} \cup Shipped[g]
      /\ \A p \in Shipped[g] : tree'[p] = [g |-> g, v |-> got[p]] /\ p = Canonical(p)
      /\ \A p \in DOMAIN tree' \ Shipped[g] : p \in DOMAIN tree /\ tree[p].g # g /\ tree'[p] = tree[p]
      /\ DOMAIN cache' = Groups /\ cache'[g] = got
      /\ \A h \in Groups \ {g} : cache'[h] = cache[h]
  BY Reinstalls
<1> HIDE DEF g, got
<1>2. ASSUME NEW p \in DOMAIN tree' PROVE Leads(p)'
  <2>1. CASE p \in Shipped[g]
    <3>0. tree'[p] = [g |-> g, v |-> got[p]]
      BY <1>1, <2>1
    <3>1. tree'[p].g = g /\ tree'[p].v = got[p] /\ tree'[p] = [g |-> tree'[p].g, v |-> tree'[p].v]
      BY ONLY <3>0
    <3>2. QED BY <1>1, <2>1, <3>1 DEF Leads
  <2>2. CASE p \notin Shipped[g]
    BY <1>1, <2>2 DEF BInv, Tree, Leads
  <2>3. QED BY <2>1, <2>2
<1>3. ASSUME NEW h \in Groups, NEW p \in Shipped[h] PROVE p \in DOMAIN tree'
  <2>1. p \in DOMAIN tree /\ Leads(p)
    BY <1>1 DEF BInv, Tree
  <2>2. tree[p].g = g => p \in Shipped[g]
    BY <1>1, <2>1, ShippedNames, UserGroupApart DEF Leads
  <2>3. QED BY <1>1, <2>1, <2>2
<1>4. Tree'
  BY <1>2, <1>3 DEF Tree
<1>5. Mounted' /\ OnDisk' /\ OwnFiles'
  <2>1. Pamts(cache)'
    BY <1>1 DEF BInv, OnDisk, Pamts
  <2>2. QED BY <1>1, <2>1 DEF BInv, Mounted, OnDisk, OwnFiles, Pamts
<1>6. AtWork'
  BY <1>1, EndKeeps
<1>7. QED BY <1>4, <1>5, <1>6 DEF BInv

LEMMA MountB ==
  ASSUME BInv, Mount
  PROVE  BInv'
<1> DEFINE kept == Pruned(Migrated(userDisk))
           t    == MountedTree(userDisk, disk)
<1>1. ~up /\ files' = kept /\ userDisk' = kept /\ tree' = t /\ cache' = disk /\ up' = TRUE
      /\ UNCHANGED <<disk, th, changes>>
  BY DEF Mount
<1>2. /\ \A p \in DOMAIN t : Right(t, p, kept, disk)
      /\ \A g \in Groups : Shipped[g] \subseteq DOMAIN t
      /\ Records(kept, changes) /\ \A r \in kept : r.path = Canonical(r.path)
  <2>1. Records(userDisk, changes) /\ \A g \in Groups : DOMAIN disk[g] = Shipped[g]
    BY DEF BInv, OnDisk, Pamts
  <2>2. MountedRight(userDisk, disk, changes)
    BY <2>1, MountRight
  <2>3. QED BY <2>2 DEF MountedRight
<1> HIDE DEF kept, t
<1>3. ASSUME NEW p \in DOMAIN tree' PROVE Leads(p)'
  <2>1. Right(t, p, kept, disk)
    BY <1>1, <1>2
  <2>2. CASE \E g \in Groups : Canonical(p) \in Shipped[g] /\ t[p] = [g |-> g, v |-> disk[g][Canonical(p)]]
    BY <1>1, <2>2 DEF BInv, OnDisk, Pamts, Leads
  <2>3. CASE Named(p) /\ \E r \in kept : r.path = Canonical(p) /\ t[p] = [g |-> UserGroup, v |-> r.v]
    BY <1>1, <1>2, <2>3 DEF Records, Leads
  <2>4. QED BY <2>1, <2>2, <2>3 DEF Right
<1>4. Tree'
  BY <1>1, <1>2, <1>3 DEF Tree
<1>5. Mounted' /\ OnDisk' /\ OwnFiles' /\ AtWork'
  BY <1>1, <1>2 DEF BInv, Mounted, OnDisk, OwnFiles, Pamts, AtWork, Working
<1>6. QED BY <1>4, <1>5 DEF BInv

LEMMA StopB ==
  ASSUME BInv, Stop
  PROVE  BInv'
<1>1. /\ DOMAIN tree' = {} /\ DOMAIN cache' = {} /\ files' = {} /\ up' = FALSE
      /\ th' = [t \in Threads |-> Idle] /\ UNCHANGED <<disk, userDisk, changes>>
  BY DEF Stop
<1>2. QED BY <1>1 DEF BInv, Mounted, OnDisk, OwnFiles, Records, Pamts, Tree, AtWork, Working

LEMMA NextB ==
  ASSUME BInv, [Next]_vars
  PROVE  BInv'
<1>1. CASE Mount
  BY <1>1, MountB
<1>2. CASE Stop
  BY <1>2, StopB
<1>3. ASSUME NEW t \in Threads, NEW p \in AskedFor,
             CreateCheck(t, p) \/ RemoveDrop(t, p) \/ RemoveDropFails(t, p)
      PROVE  BInv'
  BY <1>3, CreateCheckB, RemoveDropB
<1>4. ASSUME NEW t \in Threads,
             CreateAdd(t) \/ CreateAddFails(t) \/ CreateInsert(t) \/ RemoveForget(t)
      PROVE  BInv'
  BY <1>4, CreateAddB, CreateAddFailsB, CreateInsertB, RemoveForgetB
<1>5. ASSUME NEW t \in Threads, NEW p \in DOMAIN tree, Save(t, p) \/ SaveFails(t, p)
      PROVE  BInv'
  BY <1>5, SaveB
<1>6. ASSUME NEW t \in Threads, ReloadParse(t) \/ ReloadInstall(t) \/ ReloadFails(t)
      PROVE  BInv'
  BY <1>6, ReloadParseB, ReloadInstallB, ReloadFailsB
<1>7. CASE UNCHANGED vars
  BY <1>7 DEF vars, BInv, Mounted, OnDisk, OwnFiles, Pamts, Tree, Leads, AtWork, Working
<1>8. QED BY <1>1, <1>2, <1>3, <1>4, <1>5, <1>6, <1>7 DEF Next

LEMMA AlwaysB == Spec => []BInv
  BY InitB, NextB, PTL DEF Spec

\* The maps have their shapes and the tree names known groups only, whatever the
\* threads do to one file or group at a time.  (manager.rs, user_group.rs)
THEOREM TypesHold == Spec => []TypeOK
<1>1. BInv => TypeOK
  <2> SUFFICES ASSUME BInv PROVE TypeOK
    OBVIOUS
  <2>1. up \in BOOLEAN /\ changes \in 0 .. MaxChanges /\ DOMAIN disk = Groups
        /\ \A g \in Groups : DOMAIN disk[g] = Shipped[g]
    BY DEF BInv, Mounted, OnDisk, Pamts
  <2>2. DOMAIN cache = IF up THEN Groups ELSE {}
    BY DEF BInv, Mounted, OnDisk, Pamts
  <2>3. \A p \in DOMAIN tree : tree[p].g \in AllGroups /\ tree[p].v \in 0 .. MaxChanges
    BY <2>1, IndexAssumption DEF BInv, Tree, Leads, AllGroups
  <2>4. \A t \in Threads : th[t].pc \in {"idle", "add", "insert", "forget", "parse", "install"}
    <3>1. SUFFICES ASSUME NEW t \in Threads
                   PROVE  th[t].pc \in {"idle", "add", "insert", "forget", "parse", "install"}
      OBVIOUS
    <3>2. Working(th[t], changes)
      BY DEF BInv, AtWork
    <3>3. th[t].pc = "idle" \/ th[t].pc \in AtFiles \cup AtGroups
      BY <3>2 DEF Working, Idle
    <3>4. QED BY <3>3 DEF AtFiles, AtGroups
  <2>5. ~up => DOMAIN tree = {} /\ files = {} /\ \A t \in Threads : th[t] = Idle
    BY DEF BInv, Mounted
  <2>6. QED BY <2>1, <2>2, <2>3, <2>4, <2>5 DEF TypeOK
<1>2. QED BY <1>1, AlwaysB, PTL

\* The user group never has a record with the path of a shipped file, also when the
\* check of create_user_file is overtaken by reloads, and whichever threads are at one
\* file or group: if it had none when first mounted (LegacyAssumption).  One that an
\* older build left there is migrated from alias to name and kept.
\* (manager.rs: create_user_file, reload_group, init_user_group)
THEOREM NeverShadows == Spec => []NoShadow
<1>1. BInv => NoShadow
  BY ShippedNames DEF BInv, OwnFiles, Records, NoShadow, PathsOf
<1>2. QED BY <1>1, AlwaysB, PTL


-----------------------------------------------------------------------------
\* Client files, when no two threads are at one

\* Another thread than t is at the file.
Shared(t, c) == \E u \in Threads \ {t} : th[u].pc \in AtFiles /\ th[u].path = c

\* No thread is at the file, and its last change was not reported failed.
Quiet(c) == c \notin failedFiles /\ \A t \in Threads : ~(th[t].pc \in AtFiles /\ th[t].path = c)

\* The tree has the record of the file under its name, and under no name another one.
Agrees(c) ==
  /\ \A r \in files : r.path = c =>
       c \in DOMAIN tree /\ tree[c] = [g |-> UserGroup, v |-> r.v]
  /\ \A p \in DOMAIN tree : tree[p].g = UserGroup /\ Canonical(p) = c =>
       \E r \in files : r.path = c /\ r.v = tree[p].v

\* What a thread that is at a file has yet to tell the tree.
Pending(t) ==
  /\ th[t].pc = "insert" => \E r \in files : r.path = th[t].path /\ r.v = th[t].v
  /\ th[t].pc = "forget" => \A r \in files : r.path # th[t].path

OwnPaths == PathsOf(files) \cup {Canonical(p) : p \in DOMAIN tree}

FInv ==
  /\ \A t \in Threads : th[t].pc \in AtFiles => ~Shared(t, th[t].path)
  /\ \A t \in Threads : Pending(t)
  /\ \A c \in OwnPaths : Quiet(c) => Agrees(c)

LEMMA QuietAgrees ==
  ASSUME FInv, NEW c, Quiet(c)
  PROVE  Agrees(c)
<1>1. CASE c \in OwnPaths
  BY <1>1 DEF FInv
<1>2. CASE c \notin OwnPaths
  BY <1>2 DEF OwnPaths, PathsOf, Agrees
<1>3. QED BY <1>1, <1>2

\* Steps of threads that are at no file.
LEMMA FilesStay ==
  ASSUME BInv, FInv, UNCHANGED <<files, failedFiles>>,
         \A u \in Threads : th'[u] = th[u] \/ (th[u].pc \notin AtFiles /\ th'[u].pc \notin AtFiles),
         \A p \in DOMAIN tree : tree[p].g = UserGroup => p \in DOMAIN tree' /\ tree'[p] = tree[p],
         \A p \in DOMAIN tree' : tree'[p].g = UserGroup => p \in DOMAIN tree /\ tree'[p] = tree[p]
  PROVE  FInv'
<1>1. \A u \in Threads : th[u].pc \in AtFiles \/ th'[u].pc \in AtFiles => th'[u] = th[u]
  OBVIOUS
<1>2. \A t \in Threads : th'[t].pc \in AtFiles => ~Shared(t, th[t].path)'
  BY <1>1 DEF FInv, Shared
<1>3. \A t \in Threads : Pending(t)'
  BY <1>1 DEF FInv, Pending, AtFiles
<1>4. ASSUME NEW c, Quiet(c)' PROVE Agrees(c)'
  <2>1. Quiet(c)
    BY <1>1, <1>4 DEF Quiet
  <2>2. Agrees(c)
    BY <2>1, QuietAgrees
  <2>3. QED BY <2>2 DEF Agrees
<1>5. QED BY <1>1, <1>2, <1>3, <1>4 DEF FInv

\* A step of a thread at a client's file c that no other thread is at.
LEMMA FileStep ==
  ASSUME BInv, FInv, NEW t \in Threads, NEW c, ~Shared(t, c),
         \A u \in Threads \ {t} : th'[u] = th[u],
         th[t].pc \in AtFiles => th[t].path = c,
         th'[t].pc \in AtFiles => th'[t].path = c,
         \A r : r.path # c => (r \in files' <=> r \in files),
         \A d : d # c => (d \in failedFiles' <=> d \in failedFiles),
         \A p : Canonical(p) # c => (p \in DOMAIN tree' <=> p \in DOMAIN tree),
         \A p \in DOMAIN tree : Canonical(p) # c => tree'[p] = tree[p],
         c = Canonical(c),
         \A r \in files : r.path = Canonical(r.path),
         Pending(t)',
         Quiet(c)' => Agrees(c)'
  PROVE  FInv'
<1>1. ASSUME NEW u \in Threads, th'[u].pc \in AtFiles PROVE ~Shared(u, th[u].path)'
  <2>1. CASE u = t
    BY <1>1, <2>1 DEF Shared
  <2>2. CASE u # t
    <3>1. th'[u] = th[u] /\ th[u].pc \in AtFiles /\ th[u].path # c /\ ~Shared(u, th[u].path)
      BY <1>1, <2>2 DEF Shared, FInv
    <3>2. QED BY <2>2, <3>1 DEF Shared
  <2>3. QED BY <2>1, <2>2
<1>2. ASSUME NEW u \in Threads PROVE Pending(u)'
  <2>1. CASE u = t
    BY <2>1
  <2>2. CASE u # t
    <3>1. th'[u] = th[u] /\ Pending(u) /\ (th[u].pc \in AtFiles => th[u].path # c)
      BY <2>2 DEF Shared, FInv
    <3>2. QED BY <3>1 DEF Pending, AtFiles
  <2>3. QED BY <2>1, <2>2
<1>3. ASSUME NEW d, Quiet(d)' PROVE Agrees(d)'
  <2>1. CASE d = c
    BY <1>3, <2>1
  <2>2. CASE d # c
    <3>1. Quiet(d)
      BY <1>3, <2>2 DEF Quiet
    <3>2. Agrees(d)
      BY <3>1, QuietAgrees
    <3>3. \A r \in files' : r.path = d => r \in files /\ d = Canonical(d)
      BY <2>2
    <3>4. \A r \in files : r.path = d => r \in files'
      BY <2>2
    <3>5. QED BY <2>2, <3>2, <3>3, <3>4 DEF Agrees
  <2>3. QED BY <2>1, <2>2
<1>4. QED BY <1>1, <1>2, <1>3 DEF FInv

\* A thread that begins at a file begins alone.
LEMMA FreeAlone ==
  ASSUME Overlap = FALSE, NEW t \in Threads, NEW c, FreeFile(t, c)
  PROVE  ~Shared(t, c)
  BY DEF FreeFile, Free, AtFile, Shared

LEMMA CreateCheckF ==
  ASSUME Overlap = FALSE, BInv, FInv, NEW t \in Threads, NEW p, CreateCheck(t, p)
  PROVE  FInv'
<1> DEFINE c == Canonical(p)
           r == [Idle EXCEPT !.pc = "add", !.path = c, !.v = changes + 1]
<1>1. /\ th[t].pc = "idle" /\ FreeFile(t, c) /\ Turn(t, r)
      /\ UNCHANGED <<tree, files, failedFiles>>
  BY Turns DEF CreateCheck
<1>2. r.pc = "add" /\ r.path = c
  BY DEF Idle
<1>3. ~Shared(t, c)
  BY <1>1, FreeAlone
<1>4. c = Canonical(c)
  BY Aliases
<1> HIDE DEF r, c
<1>5. Pending(t)'
  BY <1>1, <1>2 DEF Pending, Turn
<1>6. ~Quiet(c)'
  BY <1>1, <1>2 DEF Quiet, Turn, AtFiles
<1>7. QED BY <1>1, <1>2, <1>3, <1>4, <1>5, <1>6, FileStep DEF Turn, AtFiles, BInv, OwnFiles

\* What a thread that is at a file knows.
LEMMA AtFile2 ==
  ASSUME BInv, FInv, NEW t \in Threads, th[t].pc \in AtFiles
  PROVE  /\ ~Shared(t, th[t].path) /\ th[t].path = Canonical(th[t].path) /\ Pending(t)
         /\ \A r \in files : r.path = Canonical(r.path)
  BY AtFile1 DEF FInv, Own, BInv, OwnFiles

LEMMA CreateAddF ==
  ASSUME BInv, FInv, NEW t \in Threads, CreateAdd(t)
  PROVE  FInv'
<1> PICK c : c = th[t].path
  OBVIOUS
<1> DEFINE n == th[t].v
           r == [th[t] EXCEPT !.pc = "insert"]
<1>1. /\ th[t].pc = "add" /\ Turn(t, r) /\ files' = Dropped(files, c) \cup {[path |-> c, v |-> n]}
      /\ UNCHANGED <<tree, failedFiles>>
  BY Turns DEF CreateAdd, Added
<1>2. th[t] = [Idle EXCEPT !.pc = th[t].pc, !.path = th[t].path, !.v = th[t].v]
  BY <1>1, AtFile1 DEF AtFiles
<1>3. r.pc = "insert" /\ r.path = c /\ r.v = n
  BY <1>2 DEF Idle
<1>4. ~Shared(t, c) /\ c = Canonical(c) /\ \A s \in files : s.path = Canonical(s.path)
  BY <1>1, AtFile2 DEF AtFiles
<1> HIDE DEF r, n
<1>5. [path |-> c, v |-> n] \in files' /\ [path |-> c, v |-> n].path = c /\ [path |-> c, v |-> n].v = n
  BY <1>1
<1>6. Pending(t)'
  BY <1>1, <1>3, <1>5 DEF Pending, Turn
<1>7. ~Quiet(c)'
  BY <1>1, <1>3 DEF Quiet, Turn, AtFiles
<1>8. \A s : s.path # c => (s \in files' <=> s \in files)
  BY <1>1 DEF Dropped
<1>9. QED BY <1>1, <1>3, <1>4, <1>6, <1>7, <1>8, FileStep DEF Turn, AtFiles

LEMMA CreateAddFailsF ==
  ASSUME BInv, FInv, NEW t \in Threads, CreateAddFails(t)
  PROVE  FInv'
<1> PICK c : c = th[t].path
  OBVIOUS
<1>1. /\ th[t].pc = "add" /\ Turn(t, Idle) /\ files' \in {files, Added(files, c, th[t].v)}
      /\ failedFiles' = failedFiles \cup {c} /\ UNCHANGED tree
  BY Ends DEF CreateAddFails
<1>2. ~Shared(t, c) /\ c = Canonical(c) /\ \A s \in files : s.path = Canonical(s.path)
  BY <1>1, AtFile2 DEF AtFiles
<1>3. Pending(t)' /\ ~Quiet(c)'
  BY <1>1 DEF Pending, Turn, Idle, Quiet
<1>4. \A s : s.path # c => (s \in files' <=> s \in files)
  BY <1>1 DEF Added, Dropped
<1>5. th'[t].pc \notin AtFiles
  BY <1>1 DEF Turn, Idle, AtFiles
<1>6. QED BY <1>1, <1>2, <1>3, <1>4, <1>5, FileStep DEF Turn

LEMMA CreateInsertF ==
  ASSUME BInv, FInv, NEW t \in Threads, CreateInsert(t)
  PROVE  FInv'
<1> PICK c : c = th[t].path
  OBVIOUS
<1> DEFINE names == {c} \cup UserAliases(c)
<1>1. /\ th[t].pc = "insert" /\ Turn(t, Idle) /\ UNCHANGED files
      /\ failedFiles' = failedFiles \ {c}
      /\ DOMAIN tree' = DOMAIN tree \cup names
      /\ \A p \in names : tree'[p] = [g |-> UserGroup, v |-> th[t].v]
      /\ \A p \in DOMAIN tree \ names : tree'[p] = tree[p]
      /\ \A p \in names : Canonical(p) = c
      /\ \A p : Named(p) /\ Canonical(p) = c => p \in names
      /\ c \in names
  BY Inserts, Ends
<1>2. ~Shared(t, c) /\ c = Canonical(c) /\ Pending(t) /\ \A s \in files : s.path = Canonical(s.path)
  BY <1>1, AtFile2 DEF AtFiles
<1>3. th'[t].pc \notin AtFiles /\ Pending(t)'
  BY <1>1 DEF Turn, Idle, AtFiles, Pending
<1>4. Tree
  BY DEF BInv
<1> HIDE DEF names
<1>5. PICK s \in files : s.path = c /\ s.v = th[t].v
  BY <1>1, <1>2 DEF Pending
<1>6. \A r \in files : r.path = c => r = s
  BY <1>2, <1>5 DEF BInv, OwnFiles, Records
<1>7. \A p \in DOMAIN tree' : tree'[p].g = UserGroup /\ Canonical(p) = c => p \in names
  BY <1>1, <1>4, UserGroupApart DEF Tree, Leads
<1>8. Agrees(c)'
  <2>1. \A r \in files' : r.path = c => c \in DOMAIN tree' /\ tree'[c] = [g |-> UserGroup, v |-> r.v]
    BY <1>1, <1>5, <1>6
  <2>2. \A p \in names : tree'[p].v = s.v
    BY <1>1, <1>5
  <2>3. QED BY <1>1, <1>5, <1>7, <2>1, <2>2 DEF Agrees
<1>9. QED BY <1>1, <1>2, <1>3, <1>8, FileStep DEF Turn

LEMMA RemoveDropF ==
  ASSUME Overlap = FALSE, BInv, FInv, NEW t \in Threads, NEW p, RemoveDrop(t, p) \/ RemoveDropFails(t, p)
  PROVE  FInv'
<1> DEFINE c == Canonical(p)
           r == [Idle EXCEPT !.pc = "forget", !.path = c]
<1>1. /\ th[t].pc = "idle" /\ FreeFile(t, c) /\ files' = Dropped(files, c) /\ UNCHANGED tree
      /\ \/ Turn(t, r) /\ UNCHANGED failedFiles
         \/ th' = th /\ failedFiles' = failedFiles \cup {c}
  BY Turns DEF RemoveDrop, RemoveDropFails
<1>2. r.pc = "forget" /\ r.path = c
  BY DEF Idle
<1>3. ~Shared(t, c)
  BY <1>1, FreeAlone
<1>4. c = Canonical(c)
  BY Aliases
<1> HIDE DEF r, c
<1>5. \A s : s.path # c => (s \in files' <=> s \in files)
  BY <1>1 DEF Dropped
<1>6. \A s \in files' : s.path # c
  BY <1>1 DEF Dropped
<1>7. Pending(t)' /\ ~Quiet(c)'
  BY <1>1, <1>2, <1>6 DEF Pending, Turn, Quiet, AtFiles
<1>8. \A s \in files : s.path = Canonical(s.path)
  BY DEF BInv, OwnFiles
<1>9. QED BY <1>1, <1>2, <1>3, <1>4, <1>5, <1>7, <1>8, FileStep DEF Turn, AtFiles

LEMMA RemoveForgetF ==
  ASSUME BInv, FInv, NEW t \in Threads, RemoveForget(t)
  PROVE  FInv'
<1> PICK c : c = th[t].path
  OBVIOUS
<1> DEFINE names == {c} \cup UserAliases(c)
<1>1. /\ th[t].pc = "forget" /\ Turn(t, Idle) /\ UNCHANGED <<files, failedFiles>>
      /\ tree' = [p \in {q \in DOMAIN tree : q \notin names} |-> tree[p]]
  BY Ends DEF RemoveForget, Keep
<1>2. ~Shared(t, c) /\ c = Canonical(c) /\ Pending(t) /\ \A s \in files : s.path = Canonical(s.path)
  BY <1>1, AtFile2 DEF AtFiles
<1>3. /\ \A p \in names : Canonical(p) = c
      /\ \A p : Named(p) /\ Canonical(p) = c => p \in names
  BY <1>1, AtFile1, NamesOf DEF AtFiles
<1>4. th'[t].pc \notin AtFiles /\ Pending(t)'
  BY <1>1 DEF Turn, Idle, AtFiles, Pending
<1>5. Tree
  BY DEF BInv
<1> HIDE DEF names
<1>6. \A p \in DOMAIN tree' : tree'[p].g = UserGroup => Canonical(p) # c
  BY <1>1, <1>3, <1>5, UserGroupApart DEF Tree, Leads
<1>7. Agrees(c)'
  BY <1>1, <1>2, <1>6 DEF Agrees, Pending
<1>8. /\ \A p : Canonical(p) # c => (p \in DOMAIN tree' <=> p \in DOMAIN tree)
      /\ \A p \in DOMAIN tree : Canonical(p) # c => tree'[p] = tree[p]
  BY <1>1, <1>3
<1>9. QED BY <1>1, <1>2, <1>4, <1>7, <1>8, FileStep DEF Turn

-----------------------------------------------------------------------------
\* Groups, when no two threads are at one

\* Another thread than t is at the group.
SharedGroup(t, g) == \E u \in Threads \ {t} : th[u].pc \in AtGroups /\ th[u].g = g

\* No thread is at the group, and its last save or reload was not reported failed.
QuietGroup(g) ==
  g \notin failedGroups /\ \A t \in Threads : ~(th[t].pc \in AtGroups /\ th[t].g = g)

\* The cached PAMT and the tree have what is on disk.
Current(g) ==
  /\ cache[g] = disk[g]
  /\ \A p \in DOMAIN tree : tree[p].g = g => tree[p].v = disk[g][Canonical(p)]

GInv ==
  /\ \A t \in Threads : th[t].pc \in AtGroups => ~SharedGroup(t, th[t].g)
  /\ \A t \in Threads : th[t].pc = "install" => th[t].got = disk[th[t].g]
  /\ up => \A g \in Groups : QuietGroup(g) => Current(g)

\* Steps of threads that are at no group.
LEMMA GroupsStay ==
  ASSUME BInv, GInv, UNCHANGED <<disk, up, cache>>,
         \A g \in failedGroups : g \in failedGroups',
         \A u \in Threads : th'[u] = th[u] \/ (th[u].pc \notin AtGroups /\ th'[u].pc \notin AtGroups),
         \A p \in DOMAIN tree' : tree'[p].g \in Groups => p \in DOMAIN tree /\ tree'[p] = tree[p]
  PROVE  GInv'
<1>1. \A u \in Threads : th[u].pc \in AtGroups \/ th'[u].pc \in AtGroups => th'[u] = th[u]
  OBVIOUS
<1>2. \A t \in Threads : th'[t].pc \in AtGroups => ~SharedGroup(t, th[t].g)'
  BY <1>1 DEF GInv, SharedGroup
<1>3. \A t \in Threads : th'[t].pc = "install" => th'[t].got = disk'[th'[t].g]
  BY <1>1 DEF GInv, AtGroups
<1>4. ASSUME up', NEW g \in Groups, QuietGroup(g)' PROVE Current(g)'
  <2>1. QuietGroup(g)
    BY <1>1, <1>4 DEF QuietGroup
  <2>2. Current(g)
    BY <1>4, <2>1 DEF GInv
  <2>3. QED BY <2>2 DEF Current
<1>5. QED BY <1>1, <1>2, <1>3, <1>4 DEF GInv

\* A step of a thread at a group g that no other thread is at.
LEMMA GroupStep ==
  ASSUME BInv, GInv, NEW t \in Threads, NEW g \in Groups, ~SharedGroup(t, g), UNCHANGED up,
         \A u \in Threads \ {t} : th'[u] = th[u],
         th[t].pc \in AtGroups => th[t].g = g,
         th'[t].pc \in AtGroups => th'[t].g = g,
         \A h \in Groups \ {g} : /\ disk'[h] = disk[h] /\ cache'[h] = cache[h]
                                 /\ h \in failedGroups => h \in failedGroups',
         \A p \in DOMAIN tree' : tree'[p].g \in Groups \ {g} => p \in DOMAIN tree /\ tree'[p] = tree[p],
         th'[t].pc = "install" => th'[t].got = disk'[g],
         QuietGroup(g)' => Current(g)'
  PROVE  GInv'
<1>1. ASSUME NEW u \in Threads, th'[u].pc \in AtGroups PROVE ~SharedGroup(u, th[u].g)'
  <2>1. CASE u = t
    BY <1>1, <2>1 DEF SharedGroup
  <2>2. CASE u # t
    <3>1. th'[u] = th[u] /\ th[u].pc \in AtGroups /\ th[u].g # g /\ ~SharedGroup(u, th[u].g)
      BY <1>1, <2>2 DEF SharedGroup, GInv
    <3>2. QED BY <2>2, <3>1 DEF SharedGroup
  <2>3. QED BY <2>1, <2>2
<1>2. ASSUME NEW u \in Threads, th'[u].pc = "install" PROVE th'[u].got = disk'[th'[u].g]
  <2>1. CASE u = t
    BY <1>2, <2>1 DEF AtGroups
  <2>2. CASE u # t
    <3>1. th'[u] = th[u] /\ th[u].pc \in AtGroups /\ th[u].g # g /\ th[u].got = disk[th[u].g]
      BY <1>2, <2>2 DEF SharedGroup, GInv, AtGroups
    <3>2. th[u].g \in Groups
      BY <3>1, AtGroup1
    <3>3. QED BY <3>1, <3>2
  <2>3. QED BY <2>1, <2>2
<1>3. ASSUME up', NEW h \in Groups, QuietGroup(h)' PROVE Current(h)'
  <2>1. CASE h = g
    BY <1>3, <2>1
  <2>2. CASE h # g
    <3>1. QuietGroup(h)
      BY <1>3, <2>2 DEF QuietGroup
    <3>2. Current(h)
      BY <1>3, <3>1 DEF GInv
    <3>3. QED BY <2>2, <3>2 DEF Current
  <2>3. QED BY <2>1, <2>2
<1>4. QED BY <1>1, <1>2, <1>3 DEF GInv

LEMMA FreeGroupAlone ==
  ASSUME Overlap = FALSE, NEW t \in Threads, NEW g, FreeGroup(t, g)
  PROVE  ~SharedGroup(t, g)
  BY DEF FreeGroup, Free, AtGroup, SharedGroup

\* The PAMT that a save edits is the one on disk.
LEMMA SavesCurrent ==
  ASSUME Overlap = FALSE, BInv, GInv, NEW t \in Threads, NEW p \in DOMAIN tree,
         Save(t, p) \/ SaveFails(t, p), tree[p].g \notin failedGroups
  PROVE  cache[tree[p].g] = disk[tree[p].g]
<1>1. up /\ tree[p].g \in Groups /\ th[t].pc = "idle" /\ FreeGroup(t, tree[p].g)
  BY SaveEdits
<1>2. ~SharedGroup(t, tree[p].g)
  BY <1>1, FreeGroupAlone
<1>3. QuietGroup(tree[p].g)
  BY <1>1, <1>2 DEF QuietGroup, SharedGroup, AtGroups
<1>4. QED BY <1>1, <1>3 DEF GInv, Current

LEMMA SaveG ==
  ASSUME Overlap = FALSE, BInv, GInv, NEW t \in Threads, NEW p \in DOMAIN tree,
         Save(t, p) \/ SaveFails(t, p)
  PROVE  GInv'
<1> PICK g : g = tree[p].g
  OBVIOUS
<1> DEFINE new == [cache[g] EXCEPT ![Canonical(p)] = changes + 1]
           r   == [Idle EXCEPT !.pc = "parse", !.g = g]
<1>1. /\ up /\ g \in Groups /\ th[t].pc = "idle" /\ FreeGroup(t, g)
      /\ disk' \in {disk, [disk EXCEPT ![g] = new]} /\ UNCHANGED <<up, tree, cache>>
  BY SaveEdits
<1>2. \/ Turn(t, r) /\ UNCHANGED failedGroups
      \/ th' = th /\ failedGroups' = failedGroups \cup {g}
  BY Turns DEF Save, SaveFails
<1>3. r.pc = "parse" /\ r.g = g
  BY DEF Idle
<1>4. ~SharedGroup(t, g)
  BY <1>1, FreeGroupAlone
<1> HIDE DEF r, new
<1>5. \A h \in Groups \ {g} : disk'[h] = disk[h]
  <2>1. DOMAIN disk = Groups
    BY DEF BInv, OnDisk, Pamts
  <2>2. CASE disk' = disk
    BY <2>2
  <2>3. CASE disk' = [disk EXCEPT ![g] = new]
    BY ONLY <2>1, <2>3
  <2>4. QED BY <1>1, <2>2, <2>3
<1>6. ~QuietGroup(g)'
  BY <1>2, <1>3 DEF QuietGroup, Turn, AtGroups
<1>7. QED BY <1>1, <1>2, <1>3, <1>4, <1>5, <1>6, GroupStep DEF Turn, AtGroups

LEMMA ReloadParseG ==
  ASSUME BInv, GInv, NEW t \in Threads, ReloadParse(t)
  PROVE  GInv'
<1> PICK g : g = th[t].g
  OBVIOUS
<1> DEFINE r == [th[t] EXCEPT !.pc = "install", !.got = disk[g]]
<1>1. /\ th[t].pc = "parse" /\ Turn(t, r) /\ UNCHANGED <<disk, up, tree, cache, failedGroups>>
  BY Turns DEF ReloadParse
<1>2. g \in Groups /\ ~SharedGroup(t, g)
      /\ th[t] = [Idle EXCEPT !.pc = th[t].pc, !.g = th[t].g, !.got = th[t].got]
  BY <1>1, AtGroup1 DEF AtGroups, GInv
<1>3. r.pc = "install" /\ r.g = g /\ r.got = disk[g]
  BY <1>2 DEF Idle
<1> HIDE DEF r
<1>4. ~QuietGroup(g)'
  BY <1>1, <1>3 DEF QuietGroup, Turn, AtGroups
<1>5. QED BY <1>1, <1>2, <1>3, <1>4, GroupStep DEF Turn, AtGroups

LEMMA ReloadInstallG ==
  ASSUME BInv, GInv, NEW t \in Threads, ReloadInstall(t)
  PROVE  GInv'
<1> PICK g : g = th[t].g
  OBVIOUS
<1>1. /\ g \in Groups /\ th[t].pc = "install" /\ Turn(t, Idle) /\ UNCHANGED <<disk, up>>
      /\ failedGroups' = failedGroups \ {g} /\ DOMAIN th[t].got = Shipped[g]
      /\ DOMAIN tree' = {p \in DOMAIN tree : tree[p].g # g} \cup Shipped[g]
      /\ \A p \in Shipped[g] : tree'[p] = [g |-> g, v |-> th[t].got[p]] /\ p = Canonical(p)
      /\ \A p \in DOMAIN tree' \ Shipped[g] : p \in DOMAIN tree /\ tree[p].g # g /\ tree'[p] = tree[p]
      /\ cache'[g] = th[t].got /\ \A h \in Groups \ {g} : cache'[h] = cache[h]
  BY Reinstalls, Ends
<1>2. ~SharedGroup(t, g) /\ th[t].got = disk[g]
  BY <1>1 DEF GInv, AtGroups
<1>3. th'[t].pc = "idle"
  BY <1>1 DEF Turn, Idle
<1>4. ASSUME NEW p \in Shipped[g] PROVE tree'[p].g = g /\ tree'[p].v = disk'[g][Canonical(p)]
  <2>1. tree'[p] = [g |-> g, v |-> th[t].got[p]] /\ p = Canonical(p)
    BY <1>1
  <2>2. tree'[p].g = g /\ tree'[p].v = th[t].got[p]
    BY ONLY <2>1
  <2>3. QED BY <1>1, <1>2, <2>1, <2>2
<1>5. Current(g)'
  BY <1>1, <1>2, <1>4 DEF Current
<1>6. \A p \in DOMAIN tree' : tree'[p].g \in Groups \ {g} => p \in DOMAIN tree /\ tree'[p] = tree[p]
  BY <1>1, <1>4
<1>7. \A h \in Groups \ {g} : h \in failedGroups => h \in failedGroups'
  BY <1>1
<1>8. QED BY <1>1, <1>2, <1>3, <1>5, <1>6, <1>7, GroupStep DEF Turn, AtGroups

LEMMA ReloadFailsG ==
  ASSUME BInv, GInv, NEW t \in Threads, ReloadFails(t)
  PROVE  GInv'
<1> PICK g : g = th[t].g
  OBVIOUS
<1>1. /\ th[t].pc = "parse" /\ Turn(t, Idle) /\ UNCHANGED <<disk, up, tree, cache>>
      /\ failedGroups' = failedGroups \cup {g}
  BY Ends DEF ReloadFails
<1>2. g \in Groups /\ ~SharedGroup(t, g)
  BY <1>1, AtGroup1 DEF AtGroups, GInv
<1>3. th'[t].pc = "idle"
  BY <1>1 DEF Turn, Idle
<1>4. ~QuietGroup(g)'
  BY <1>1 DEF QuietGroup
<1>5. QED BY <1>1, <1>2, <1>3, <1>4, GroupStep DEF Turn, AtGroups

-----------------------------------------------------------------------------
\* Every step

EInv == BInv /\ FInv /\ GInv

LEMMA InitE == Init => EInv
<1> SUFFICES ASSUME Init PROVE EInv
  OBVIOUS
<1>1. \A t \in Threads : th[t] = Idle
  BY DEF Init
<1>2. FInv
  BY <1>1 DEF Init, FInv, Idle, AtFiles, Pending, OwnPaths, PathsOf
<1>3. GInv
  BY <1>1 DEF Init, GInv, Idle, AtGroups
<1>4. QED BY <1>2, <1>3, InitB DEF EInv

LEMMA MountE ==
  ASSUME EInv, Mount
  PROVE  FInv' /\ GInv'
<1> DEFINE kept == Pruned(Migrated(userDisk))
           new  == MountedTree(userDisk, disk)
<1>1. ~up /\ files' = kept /\ tree' = new /\ cache' = disk /\ UNCHANGED <<disk, th>>
  BY DEF Mount
<1>2. \A t \in Threads : th'[t] = Idle
  BY <1>1 DEF EInv, BInv, Mounted
<1>3. /\ \A p \in DOMAIN new : Right(new, p, kept, disk)
      /\ \A r \in kept : r.path \in DOMAIN new /\ new[r.path] = [g |-> UserGroup, v |-> r.v]
  <2>1. Records(userDisk, changes) /\ \A g \in Groups : DOMAIN disk[g] = Shipped[g]
    BY DEF EInv, BInv, OnDisk, Pamts
  <2>2. MountedRight(userDisk, disk, changes)
    BY <2>1, MountRight
  <2>3. QED BY <2>2 DEF MountedRight
<1> HIDE DEF kept, new
<1>4. ASSUME NEW c PROVE Agrees(c)'
  <2>1. ASSUME NEW p \in DOMAIN new, new[p].g = UserGroup
        PROVE  \E r \in kept : r.path = Canonical(p) /\ r.v = new[p].v
    BY <1>3, <2>1, UserGroupApart DEF Right
  <2>2. QED BY <1>1, <1>3, <2>1 DEF Agrees
<1>5. FInv'
  BY <1>2, <1>4 DEF FInv, Idle, AtFiles, Pending
<1>6. ASSUME NEW g \in Groups PROVE Current(g)'
  <2>1. ASSUME NEW p \in DOMAIN new, new[p].g = g PROVE new[p].v = disk[g][Canonical(p)]
    BY <1>3, <2>1, UserGroupApart DEF Right
  <2>2. QED BY <1>1, <2>1 DEF Current
<1>7. GInv'
  BY <1>2, <1>6 DEF GInv, Idle, AtGroups
<1>8. QED BY <1>5, <1>7

LEMMA StopE ==
  ASSUME EInv, Stop
  PROVE  FInv' /\ GInv'
<1>1. /\ DOMAIN tree' = {} /\ files' = {} /\ up' = FALSE /\ \A t \in Threads : th'[t] = Idle
  BY DEF Stop
<1>2. QED BY <1>1 DEF FInv, GInv, Idle, AtFiles, AtGroups, Pending, OwnPaths, PathsOf

\* A thread at a file, or beginning at one, is at no group, and the other way round.
LEMMA FileStepsG ==
  ASSUME EInv, NEW t \in Threads, NEW p,
         \/ CreateCheck(t, p) \/ RemoveDrop(t, p) \/ RemoveDropFails(t, p)
         \/ CreateAdd(t) \/ CreateAddFails(t) \/ RemoveForget(t)
  PROVE  GInv'
<1>1. /\ UNCHANGED <<disk, up, cache, failedGroups>>
      /\ \A q \in DOMAIN tree' : q \in DOMAIN tree /\ tree'[q] = tree[q]
  BY DEF CreateCheck, RemoveDrop, RemoveDropFails, CreateAdd, CreateAddFails, RemoveForget, Keep
<1>2. th[t].pc \notin AtGroups /\ th'[t].pc \notin AtGroups
      /\ \A u \in Threads \ {t} : th'[u] = th[u]
  <2>1. DOMAIN th = Threads
    BY DEF EInv, BInv, AtWork
  <2>2. CASE CreateCheck(t, p)
    BY <2>1, <2>2 DEF CreateCheck, Begin, Idle, AtGroups
  <2>3. CASE RemoveDrop(t, p) \/ RemoveDropFails(t, p)
    BY <2>1, <2>3 DEF RemoveDrop, RemoveDropFails, Begin, Idle, AtGroups
  <2>4. CASE CreateAdd(t)
    <3>1. th[t].pc = "add" /\ th[t] = [Idle EXCEPT !.pc = th[t].pc, !.path = th[t].path, !.v = th[t].v]
      BY <2>4, AtFile1 DEF CreateAdd, AtFiles, EInv
    <3>2. [th[t] EXCEPT !.pc = "insert"].pc = "insert"
      BY <3>1 DEF Idle
    <3>3. QED BY <2>1, <2>4, <3>1, <3>2 DEF CreateAdd, Begin, AtGroups
  <2>5. CASE CreateAddFails(t) \/ RemoveForget(t)
    BY <2>1, <2>5 DEF CreateAddFails, RemoveForget, Done, Idle, AtGroups
  <2>6. QED BY <2>2, <2>3, <2>4, <2>5
<1>3. QED BY <1>1, <1>2, GroupsStay DEF EInv

LEMMA CreateInsertG ==
  ASSUME EInv, NEW t \in Threads, CreateInsert(t)
  PROVE  GInv'
<1> DEFINE names == {th[t].path} \cup UserAliases(th[t].path)
<1>1. /\ UNCHANGED <<disk, up, cache, failedGroups>> /\ th[t].pc = "insert" /\ Turn(t, Idle)
      /\ DOMAIN tree' = DOMAIN tree \cup names
      /\ \A p \in names : tree'[p] = [g |-> UserGroup, v |-> th[t].v]
      /\ \A p \in DOMAIN tree \ names : tree'[p] = tree[p]
  BY Inserts, Ends DEF EInv
<1> HIDE DEF names
<1>2. \A p \in DOMAIN tree' : tree'[p].g \in Groups => p \in DOMAIN tree /\ tree'[p] = tree[p]
  BY <1>1, UserGroupApart
<1>3. QED BY <1>1, <1>2, GroupsStay DEF EInv, Turn, Idle, AtGroups

LEMMA GroupStepsF ==
  ASSUME EInv, NEW t \in Threads, NEW p \in DOMAIN tree,
         Save(t, p) \/ SaveFails(t, p)
  PROVE  FInv'
<1> DEFINE r == [Idle EXCEPT !.pc = "parse", !.g = tree[p].g]
<1>1. UNCHANGED <<tree, files, failedFiles>> /\ th[t].pc = "idle" /\ (Turn(t, r) \/ th' = th)
  BY Turns DEF Save, SaveFails, EInv
<1>2. r.pc = "parse"
  BY DEF Idle
<1> HIDE DEF r
<1>3. QED BY <1>1, <1>2, FilesStay DEF EInv, Turn, AtFiles

LEMMA ReloadStepsF ==
  ASSUME EInv, NEW t \in Threads,
         ReloadParse(t) \/ ReloadInstall(t) \/ ReloadFails(t)
  PROVE  FInv'
<1>1. CASE ReloadParse(t)
  <2> DEFINE r == [th[t] EXCEPT !.pc = "install", !.got = disk[th[t].g]]
  <2>1. th[t].pc = "parse" /\ Turn(t, r) /\ UNCHANGED <<tree, files, failedFiles>>
    BY <1>1, Turns DEF ReloadParse, EInv
  <2>2. th[t] = [Idle EXCEPT !.pc = th[t].pc, !.g = th[t].g, !.got = th[t].got]
    BY <2>1, AtGroup1 DEF EInv, AtGroups
  <2>3. r.pc = "install"
    BY <2>2 DEF Idle
  <2> HIDE DEF r
  <2>4. QED BY <2>1, <2>3, FilesStay DEF EInv, Turn, AtFiles
<1>2. CASE ReloadInstall(t)
  <2> PICK g : g = th[t].g
    OBVIOUS
  <2>0. /\ g \in Groups /\ DOMAIN tree' = {p \in DOMAIN tree : tree[p].g # g} \cup Shipped[g]
        /\ \A p \in Shipped[g] : tree'[p] = [g |-> g, v |-> th[t].got[p]] /\ p = Canonical(p)
        /\ \A p \in DOMAIN tree' \ Shipped[g] : p \in DOMAIN tree /\ tree[p].g # g /\ tree'[p] = tree[p]
    BY <1>2, Reinstalls DEF EInv
  <2>1. ASSUME NEW p \in Shipped[g] PROVE tree'[p].g = g
    <3>1. tree'[p] = [g |-> g, v |-> th[t].got[p]]
      BY <2>0
    <3>2. QED BY ONLY <3>1
  <2>2. th[t].pc = "install" /\ Turn(t, Idle) /\ UNCHANGED <<files, failedFiles>>
    BY <1>2, Reinstalls, Ends DEF EInv
  <2>3. \A p \in DOMAIN tree : tree[p].g = UserGroup => p \notin Shipped[g]
    <3>1. SUFFICES ASSUME NEW p \in DOMAIN tree, tree[p].g = UserGroup, p \in Shipped[g] PROVE FALSE
      OBVIOUS
    <3>2. Own(Canonical(p))
      BY <3>1, UserGroupApart DEF EInv, BInv, Tree, Leads
    <3>3. QED BY <2>0, <3>1, <3>2 DEF Own
  <2>4. /\ \A p \in DOMAIN tree : tree[p].g = UserGroup => p \in DOMAIN tree' /\ tree'[p] = tree[p]
        /\ \A p \in DOMAIN tree' : tree'[p].g = UserGroup => p \in DOMAIN tree /\ tree'[p] = tree[p]
    BY <2>0, <2>1, <2>3, UserGroupApart
  <2>5. QED BY <2>2, <2>4, FilesStay DEF EInv, Turn, Idle, AtFiles
<1>3. CASE ReloadFails(t)
  <2>1. th[t].pc = "parse" /\ Turn(t, Idle) /\ UNCHANGED <<tree, files, failedFiles>>
    BY <1>3, Ends DEF ReloadFails, EInv
  <2>2. QED BY <2>1, FilesStay DEF EInv, Turn, Idle, AtFiles
<1>4. QED BY <1>1, <1>2, <1>3

LEMMA NextE ==
  ASSUME Overlap = FALSE, EInv, [Next]_vars
  PROVE  EInv'
<1>1. BInv'
  BY NextB DEF EInv
<1>2. CASE Mount
  BY <1>1, <1>2, MountE DEF EInv
<1>3. CASE Stop
  BY <1>1, <1>3, StopE DEF EInv
<1>4. ASSUME NEW t \in Threads, NEW p \in AskedFor,
             CreateCheck(t, p) \/ RemoveDrop(t, p) \/ RemoveDropFails(t, p)
      PROVE  EInv'
  BY <1>1, <1>4, CreateCheckF, RemoveDropF, FileStepsG DEF EInv
<1>5. ASSUME NEW t \in Threads,
             CreateAdd(t) \/ CreateAddFails(t) \/ CreateInsert(t) \/ RemoveForget(t)
      PROVE  EInv'
  BY <1>1, <1>5, CreateAddF, CreateAddFailsF, CreateInsertF, RemoveForgetF, FileStepsG, CreateInsertG
     DEF EInv
<1>6. ASSUME NEW t \in Threads, NEW p \in DOMAIN tree, Save(t, p) \/ SaveFails(t, p)
      PROVE  EInv'
  BY <1>1, <1>6, SaveG, GroupStepsF DEF EInv
<1>7. ASSUME NEW t \in Threads, ReloadParse(t) \/ ReloadInstall(t) \/ ReloadFails(t)
      PROVE  EInv'
  BY <1>1, <1>7, ReloadParseG, ReloadInstallG, ReloadFailsG, ReloadStepsF DEF EInv
<1>8. CASE UNCHANGED vars
  BY <1>1, <1>8 DEF vars, EInv, FInv, GInv, Shared, SharedGroup, Pending, OwnPaths, Quiet,
     QuietGroup, Agrees, Current
<1>9. QED BY <1>2, <1>3, <1>4, <1>5, <1>6, <1>7, <1>8 DEF Next

LEMMA AlwaysE ==
  ASSUME Overlap = FALSE
  PROVE  Spec => []EInv
<1>1. EInv /\ [Next]_vars => EInv'
  BY NextE
<1>2. QED BY InitE, <1>1, PTL DEF Spec

\* While no two threads are at one file or group, the tree and the user group tell the
\* same story about every client file that nobody is at and whose last change was not
\* reported failed: by its name and by its alias the file leads to its record, a removed
\* one to none.  (manager.rs: create_user_file, remove_user_file; user_group.rs)
THEOREM UserTreeAlwaysAgrees ==
  ASSUME Overlap = FALSE
  PROVE  Spec => []UserTreeAgrees
<1>1. EInv => UserTreeAgrees
  <2> SUFFICES ASSUME EInv, up PROVE UserTreeAgrees
    BY DEF UserTreeAgrees
  <2>1. \A r \in files : VersionIn(files, r.path) = r.v
    BY OneVersion DEF EInv, BInv, OwnFiles, Records
  <2>2. ASSUME NEW c, \A t \in Threads : ~AtFile(t, c), c \notin failedFiles PROVE Agrees(c)
    BY <2>2, QuietAgrees DEF Quiet, AtFile, EInv
  <2>3. ASSUME NEW p \in PathsOf(files), \A t \in Threads : ~AtFile(t, p), p \notin failedFiles
        PROVE  p \in DOMAIN tree /\ tree[p] = [g |-> UserGroup, v |-> VersionIn(files, p)]
    <3>1. PICK r \in files : r.path = p
      BY DEF PathsOf
    <3>2. QED BY <2>1, <2>2, <2>3, <3>1 DEF Agrees
  <2>4. ASSUME NEW p \in DOMAIN tree, tree[p].g = UserGroup,
               \A t \in Threads : ~AtFile(t, Canonical(p)), Canonical(p) \notin failedFiles
        PROVE  Holds(files, Canonical(p)) /\ tree[p].v = VersionIn(files, Canonical(p))
    <3>1. PICK r \in files : r.path = Canonical(p) /\ r.v = tree[p].v
      BY <2>2, <2>4 DEF Agrees
    <3>2. QED BY <2>1, <3>1 DEF Holds, PathsOf
  <2>5. QED BY <2>3, <2>4 DEF UserTreeAgrees
<1>2. QED BY <1>1, AlwaysE, PTL

\* While no two threads are at one file or group, the tree and the cached PAMT of a group
\* that nobody saves into have what is on disk, unless its last save or reload failed.
\* (manager.rs: reload_group; fs.rs: flush_path_sync)
THEOREM IndexAlwaysFresh ==
  ASSUME Overlap = FALSE
  PROVE  Spec => []IndexFresh
<1>1. EInv => IndexFresh
  <2> SUFFICES ASSUME EInv, up, NEW g \in Groups,
                      \A t \in Threads : ~AtGroup(t, g), g \notin failedGroups
               PROVE  /\ cache[g] = disk[g] /\ Shipped[g] \subseteq DOMAIN tree
                      /\ \A p \in DOMAIN tree : tree[p].g = g => tree[p].v = disk[g][Canonical(p)]
    BY DEF IndexFresh
  <2>1. Current(g)
    BY DEF EInv, GInv, QuietGroup, AtGroup
  <2>2. QED BY <2>1 DEF Current, EInv, BInv, Tree
<1>2. QED BY <1>1, AlwaysE, PTL

\* While no two threads are at one file or group, no save gives a file of a group an
\* older version, unless a save or a reload of the group was reported failed: what the
\* cached PAMT says of the group's other files is never behind the disk.
\* (fs.rs: flush_path_sync; manager.rs: get_pamt)
THEOREM NeverUndone ==
  ASSUME Overlap = FALSE
  PROVE  Spec => NotUndone
<1> DEFINE Kept == \A g \in Groups : g \notin failedGroups =>
                     \A p \in Shipped[g] : disk'[g][p] >= disk[g][p]
<1>1. EInv /\ [Next]_vars => [Kept]_vars
  <2> SUFFICES ASSUME EInv, Next PROVE Kept
    OBVIOUS
  <2>1. \A g \in Groups : \A p \in Shipped[g] : disk[g][p] \in 0 .. changes
    BY DEF EInv, BInv, OnDisk, Pamts
  <2>2. changes \in Nat
    BY Numbers DEF EInv
  <2>3. CASE UNCHANGED disk
    BY <2>1, <2>2, <2>3
  <2>4. ASSUME NEW t \in Threads, NEW q \in DOMAIN tree, Save(t, q) \/ SaveFails(t, q)
        PROVE  Kept
    <3> PICK h : h = tree[q].g
      OBVIOUS
    <3> DEFINE new == [cache[h] EXCEPT ![Canonical(q)] = changes + 1]
    <3>1. /\ h \in Groups /\ disk' \in {disk, [disk EXCEPT ![h] = new]}
          /\ new[Canonical(q)] = changes + 1
          /\ \A p \in Shipped[h] \ {Canonical(q)} : new[p] = cache[h][p]
      BY <2>4, SaveEdits DEF EInv
    <3>2. h \notin failedGroups => cache[h] = disk[h]
      BY <2>4, SavesCurrent DEF EInv
    <3> HIDE DEF new
    <3>3. h \notin failedGroups => \A p \in Shipped[h] : new[p] >= disk[h][p]
      BY <2>1, <2>2, <3>1, <3>2
    <3>4. CASE disk' = [disk EXCEPT ![h] = new]
      <4>1. DOMAIN disk = Groups
        BY DEF EInv, BInv, OnDisk, Pamts
      <4>2. disk'[h] = new /\ \A g \in Groups \ {h} : disk'[g] = disk[g]
        BY <3>1, <3>4, <4>1
      <4>3. QED BY <2>1, <2>2, <3>3, <4>2
    <3>5. QED BY <2>3, <3>1, <3>4
  <2>5. QED BY <2>3, <2>4 DEF Next, Mount, Stop, CreateCheck, RemoveDrop, RemoveDropFails, CreateAdd,
        CreateAddFails, CreateInsert, RemoveForget, ReloadParse, ReloadInstall, ReloadFails
<1>2. QED BY <1>1, AlwaysE, PTL DEF Spec, NotUndone
=============================================================================
