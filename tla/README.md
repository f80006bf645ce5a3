# cdcore in TLA+

Models, checks and proofs for `cdcore` (the archive library), `cdfuse` (the
Linux mount) and `cdwinfs` (the Windows mount) of Crimson Desert archives.
They are about what happens between an editor's save and the bytes the game
reads: write-back, conversion, repack, index update, and everything that runs,
fails or dies meanwhile.

| module | models | checked by | proofs |
|--------|--------|------------|--------|
| `RepackChain` | one save on disk: PAZ append, PAMT, PAPGT, user group, process death, remount | `RepackSerial`, `RepackGroups`, `RepackLostPamt` (`MCRepackChain`) | `RepackChainProofs`, `RepackReadProofs`, `RepackSaveProofs` |
| `SaveStore` | what a client of a mount is promised about saves; `RepackChain` implements it | `RepackGroups` | `RepackSaveProofs` |
| `WriteBack` | the write-back cache of `cdfuse` | `WriteBackEdits`, `WriteBackRenames`, `WriteBackHasty`, `WriteBackSafeSave` (`MCWriteBack`) | `WriteBackProofs` |
| `VfsTree`, `VfsIndex` | the index of a mount as a value; several threads that use it and the user group | `VfsIndexThreads` (`MCVfsIndex`) | `VfsIndexProofs` |
| `ReadPath` | reads of `cdfuse` against saves: overlay, cache, in-flight decodes, mapped PAZ | `LinuxReads` (`MCReadPath`) | `ReadPathProofs` |
| `SynthPaths`, `Inodes` | virtual roots and prefab bundles; names, inodes and listings of `cdfuse` | `LinuxNames` (`MCInodes`) | `InodesProofs` |
| `WinWriteBack` | handles, cache and save threads of `cdwinfs` | `WinWriteBack` (`MCWinWriteBack`) | `WinWriteBackProofs` |
| `Assets` | a session that reads, edits and stores one file, over the next six | `Formats` (`MCAssets`) | |
| `Containers` | compression types, layouts, encryption of an archived file | | |
| `Strings`, `Textures`, `PacMesh` | `.paloc`, `.dds`, `.pac` and the form users edit | | |
| `Bytes`, `Vorbis`, `Audio` | byte and bit strings; `.wem` and Ogg | | |

Each run has the `.cfg` of its name. `PROJECT.json` has the definition-to-source
map, runs, mutants, hazards, findings and theorems.

## 1. The system

**Archives** (`cdcore/src/archive`). A package group is a directory with a
`0.paz` (blobs, 16-byte aligned) and a `0.pamt` (an index: path, offset, stored
and original size, flags, the CRC of the PAZ). `meta/0.papgt` has one CRC per
PAMT. State: files only. Operations: `append_entry`, `parse_pamt`,
`update_file_record`, `update_paz_entry`, `update_self_crc`,
`update_pamt_crc_entry`. Correct when records name complete blobs of their own
file, and each CRC is that of what it covers.

**Repack engine** (`cdcore/src/repack/engine.rs`). Stateless: `repack` takes
the new bytes and the caller's cached PAMT, appends the blob, edits the PAMT
copy, replaces PAMT and PAPGT through a temporary file each. It takes no lock.
Correct when a save is all or nothing for readers, what is reported survives,
saves do not undo each other, and the CRC chain closes.

**User group** (`cdcore/src/archive/user_group.rs`). A package group `9000` for
files the game does not have: `add`, `remove`, `flush_pamt`,
`ensure_papgt_entry`, `open_or_create`, `migrate_aliased_paths`; a map of
records in memory, under the mutex of `VfsManager`. Correct when memory and disk
agree after every complete operation and after a remount.

**VFS manager** (`cdcore/src/vfs/manager.rs`). The tree from paths to entries
(an RwLock), the parsed PAMTs, the user group (a mutex), directories made by
`mkdir`. Operations: load, reload and invalidate a group, lookup, listings,
create and remove user files, expose `dir@group` aliases. Locks are taken and
dropped within one operation. Correct when tree, PAMTs and user group tell the
same story and aliases reach the file of their group.

**Linux mount** (`cdfuse/src/fs.rs`). `CdFs` is called on one session thread
and owns the inode map. `SharedFs` is shared with the decode pool (rayon), the
TUI's save thread and the TUI: `write_overlay`, `pending_paths`, `write_mtimes`,
`decode_cache`, `in_flight`, `paz_maps`, `dir_cache`, `path_queue`, each under
its own mutex, held for one map operation. `release` spawns a flush on the
pool, `[s]` flushes everything pending on a thread of its own, `destroy` does so
at unmount. Correct when what was written and closed gets to disk or is
reported, in order, and reads return what was written.

**Windows mount** (`cdwinfs/src/fs.rs`). The same shared state with WinFsp's
handle protocol: `open` pins a snapshot, `close` claims the mark and starts a
thread, `cleanup` deletes; callbacks run on several dispatcher threads.

**Virtual roots** (`virtual_files.rs`) render shipped files (`.paloc.jsonl/`,
`.dds.png/`, `.pam.fbx/` ...) and convert edited ones back. **Prefab view**
(`prefab_view.rs`) does so for assemblies of meshes. **Front ends** (`main.rs`,
`tui.rs`, `setup.rs`, `config.rs`) mount, show events, save on `[s]`, discard
and unmount on Esc. 
**Formats, mesh builders, compression, encryption** (`formats/`, `repack/mesh/`,
`compression/`, `crypto/`) are functions on bytes without state. What matters of
them is that a file which is read, edited and stored, any number of times, is
still what the user made it: a conversion and its inverse are written apart, often
in different files, and each guesses from sizes or positions what the other meant.
**Python bindings, scripts** wrap the library.

Interactions: client call → `CdFs` (session thread) → overlay and marks →
`flush_path_sync` (pool, save thread or session thread) → conversion →
`RepackEngine` or `VfsManager::create_user_file` → disk → `reload_group` →
tree and PAMT cache → reads.

What is hard here: flushes of different files, and of one file, overlap; the
engine edits copies that were read earlier; marks, overlay, caches and tree are
separate maps; a conversion, an append or a rename may fail half way; the process
ends without waiting for its pool. `PROJECT.json` lists these hazards at
their lines, with the properties that would show them going wrong.

## 2. RepackChain: a save on disk

State: `paz`, `cur`, `tmp` are the files; `index` is what `VfsManager` has
parsed; `userFiles`, `ugReady`, `ugLock` the user group; `pc`, `file`, `save`,
`stat`, `pos`, `raw`, `root`, `fd`, `errors` the locals of each thread in
`repack`, `append_entry`, `atomic_write`, `reload_group`, `UserGroup`. A CRC is
represented by the value it is computed from, so "the CRC matches" is equality.

Each system call that another thread or a crash can fall between is an action:
`ReadPapgt`, `StatPaz`, `SeekPaz`, `WritePaz`, `UpdateRecord` (thread-local edits
and the CRC of the PAZ as it is then), `CreateTmp`, `WriteTmp`, `RenamePamt`,
`RenamePapgt`, `ReloadParse`, `ReloadInstall`. `WritePazFails` and
`AtomicWriteFails` are its errors; the code goes on after the first and returns
at the second, and so does the model. Both index files go through
`CreateTmp`/`WriteTmp` with a temp name all threads share; `fd` remembers which
file a writer has open when others rename or truncate under it.
`UserAdd`, `UserFlushPamt`, `UserReadPapgt`, `UserWritePapgt` and their failures
are the user group, serialised by `ugLock`. `Crash` ends the process at any
step; `Mount` loads what is on disk and brings the user group's PAPGT slot up to
date.

`Overlap` says which saves the clients let overlap: `"serial"` one at a time,
`"groups"` at most one per group, `"any"` whatever they like.

`SaveStore` keeps for each file the version on disk and the last one reported.
A save replaces the version at once or not at all; a report comes after;
what was reported is not undone, whatever crashes.
`ImplementsSaveStore` is the refinement, with `durable` mapped to the version a
fresh mount would read.

Properties: `RecordsReadable`, `IndexReadable`, `AppendOnly` (readers never get
other bytes), `AckedSurvives`, `AckedNotReverted` (reported saves stay),
`ChainUnlessCut` (CRC chain: PAPGT to PAMT and
PAMT to PAZ), `IndexesWhole` (no torn index),
`ImplementsSaveStore`.

| run | instance | shows |
|-----|----------|-------|
| `RepackSerial` | one thread, one shipped group of two files, user group with slot, sizes 8 and 40, `PazLimit` 100, three saves, serial | types, records, survival, chain, whole indexes; two saves of 40 bytes pass the u32 limit |
| `RepackGroups` | two threads, two shipped groups, user group without slot, two saves, one per group | records, old index, append-only, and the refinement under interleaving |
| `RepackLostPamt` | two threads in one group | expected violation of `AckedNotReverted` |

With two threads in different groups and `Overlap` = `"any"` TLC also finds
`ChainUnlessCut` violated: the PAPGT copy read first and written last takes
back the other group's CRC. No run of the project repeats it; it has the cause
that `RepackLostPamt` shows, one file further up.

`ChainUnlessCut` has two exceptions, which the code makes even when saves come one at
a time: a PAPGT does not have the CRC of a PAMT that was replaced and not entered
(`unrooted`: PAPGT failed, or the process died before it), and a PAMT does not have the
CRC of a PAZ that was written to and not entered (`unsealed`: the append failed, so that
`update_paz_entry` is not reached, or the process died before the rename). Both last until
the next save of the group that succeeds.

Bounds: `MaxSaves` saves are started; two are enough for any pair of steps of
two savers to meet, the third lets a save follow a failure and a remount. Offsets
only matter relative to alignment and to `PazLimit`, which the
serial run reaches. Safety statements on record offsets are about PAZ files below the
u32 limit: beyond it `as u32` wraps, the model wraps too, and the records are
wrong, which `AsU32` shows and the properties exclude.

Not in the model: power loss (no write in the code is synced; only the process
dies), two mounts of one installation, the binary layout.

## 3. WriteBack: from write() to a save

State: `overlay`, `pending`, `cache` are the maps of `SharedFs`; `disk` is what a
lookup leads to; `op` is the session thread inside write or setattr, which take
the mutexes one by one; `jobs` are running `flush_path_sync` calls (pool, save
thread, session thread in `destroy`), `batch` the maps `flush_all_pending` and
`destroy` took. Contents are sets of edits. `intended`, `excused`, `nameOf`,
`bare`, `edits` observe what clients left in each file, and whose save was
reported failed or given up (Esc, removal of an edited virtual file).

Actions: `Open`, `Read`, `Seed`/`WriteMark`/`Apply` (write, and setattr without
the mark), `Create`, `Release`, `RenameUser`, `RenameOverlay`, `Unlink`,
`Probe` (what a first read at offset 0 may get instead of a decode),
`FlushBegin`, `Convert`, `CacheFirst`, `Repack`, `Reload`, `StoreUser`, `CacheUser`,
`Invalidate` with their failures, `GivesUp`, `SavePressed`/`TakeOverlay`/`NextPath`, `DiscardOverlay`/
`DiscardPending`, `Unmount`, `Exit`, `Remount`, `Evict`. One save on disk is
one step here that succeeds or fails, as `RepackChain` shows it is for readers.

A flush that fails says so in the TUI, or does not: many ways out of
`flush_path_sync` only warn, or return without a word (fs.rs:1031-1166 for views whose
source or archive cannot be read, 1208-1223 for user files without a group or a PAMT),
after the mark is dropped (1122). `Unsaid` names the places where the model's flush may
give up that way (`GivesUp`); properties count the file as given up, and nothing
tells the user. The comment at 283 that a user group which is not ready gives EROFS is
not what 1208-1211 does.

`Habits` says what clients do besides editing one file at a time and waiting
until its flush is over before they touch it again. That is a little later than the
TUI's `[ok]`, which is pushed (1196, 1229) before the cache is filled, the index
reloaded and the view's overlay dropped. With none of the habits the properties hold:

- `SavesKept`: after a file is closed its content is on disk, marked and in the
  overlay, in a job or batch, or its save failed or was given up. No step of any actor
  may lose the last of these.
- `ReadsBack`: a client that reads the whole of a file gets what was left in it,
  whichever of four copies answers. Two kinds of read are excluded, because the code
  fails them: `probe()` (593-638, called at 1930) answers every uncached read at offset
  0 of a view with a made-up header (`Stubbed`: PNG, FBX, Ogg) and a read of less than
  an uncached file with its raw bytes; and the map of the user PAZ is made by the first
  reader and never dropped, so that what is stored after it can be read from the cache
  only, and is an error once it was evicted (`beyond`, `OutOfReach`).
- `StoresLatest`: no save puts an older state over a newer one or brings a
  removed file back.
- `AutoSaved`: with auto repack a closed file is saved, or its save fails or is given
  up, eventually.

| run | instance | shows |
|-----|----------|-------|
| `WriteBackEdits` | a shipped table, its virtual view, a user file; two writes, one pool job, evictions, both settings of auto repack | all five, no habit |
| `WriteBackRenames` | two user paths, renames both ways, stores that may give up unsaid | the safety properties |
| `WriteBackHasty` | a file edited while its save is queued, two pool jobs | expected violation of `SavesKept` |
| `WriteBackSafeSave` | a temp file renamed over the virtual file | expected violation of `SavesKept` |

Bounds: `Pool` jobs at once, `MaxEdits` writes (one makes a save, the second
makes an older one), `Evictable` files. Content is what
edits are in the buffer, so two of them tell old, new and mixed apart.
Between them the two passing runs take every action.

Six more habits break `SavesKept` and are listed as hazards rather than runs:
`"two names"` (the shipped path and its view are edited by turns: the overlay of
a shipped path outlives its save), `"early exit"` (jobs of the pool die with the
process), `"truncate only"` (setattr marks nothing), `"edit while [s]"` (marks and
overlay are taken in two steps), `"on report"` (a view edited between its `[ok]` and
`invalidate_virtual_path` loses the edit with the overlay), `"blind edit"` (a file that
cannot be decoded is written: the overlay is seeded with nothing, `unwrap_or_default`
at 1539 and 1589, and the save replaces the file by what was written).

Simplifications: a decode is one step (`ReadPath` has its steps), the pool's queue order is arbitrary,
renames and unlinks of the session thread are one step (patient clients have no
save of these files running), the mount is not read-only, a failing
`remove_user_file` in unlink is not modelled, nor is a `reload_group` that fails on
index files just written. Views that have no way back (`.ogg` and `.jsonl` under
`_prefabs`, `manifest.json`, the prefab file) accept writes that the flush drops with a
warning (1176, 1046); they are not among `Synth`. `setattr` does not refuse views that
can only be read, as `write` does (1569-1573). A user PAZ of no bytes cannot be mapped, so its
map starts with the first file stored, which the model lets happen either way.

Fairness: weak fairness of the session thread's own steps, of each flush and
of each batch. They are operating-system threads, no step of theirs waits for a client and no
mutex is held across steps. Nothing is assumed of clients: they
need not close, save or unmount. `AutoSaved` is conditioned on the file being
closed.

## 4. VfsTree and VfsIndex: the index of a mount

`VfsTree` is the tree as a function from paths to group and record, and what
`VfsManager` does with it as operators on that value: loading groups in order so
that the last wins, reinstalling a group, exposing `dir@group` aliases, looking a
path up under either name. `VfsIndex` adds disk, PAMT cache, user group and
threads. A path is its segments and the tag behind `@` in the first one. The records
of the user group are a set: their order in the PAMT decides where a record is, which
`RepackChain` looks at and nothing here.

Actions, in the order in which the code takes and drops its locks: `Mount`
(`load_all_groups`, `open_or_create` with `migrate_aliased_paths` and the pruning
of stale virtual paths, `expose_multi_package_dirs`) and `Stop`; `CreateCheck`,
`CreateAdd`, `CreateInsert` (`create_user_file`: the tree is read, then the user
group is changed under its mutex, then the tree is written); `RemoveDrop`,
`RemoveForget`; `Save`, `ReloadParse`, `ReloadInstall` (a repack from the cached
PAMT and `reload_group`); the failure of each. `Stop`, an unmount or a process death,
falls between any two steps of the threads; each write to disk is one step here, and
what a death in the middle of a repack leaves there is `RepackChain`'s subject.

- `NoShadow`: no user file has the path of a shipped one, whichever alias it was
  asked for by, whatever reloads run between the check and the insertion.
- `UserTreeAgrees`: tree and user group tell the same story, under both names,
  also about files an older build left with aliased names.
- `IndexFresh`: after a save every name leads to the record on disk, and the PAMT the next
  repack edits is that on disk.
- `NotUndone`: no save takes back another file's earlier save.

Run `VfsIndexThreads`: two groups that share a directory and a file in it, user
paths with right, wrong and no alias, two threads, three changes, an older build's user
group. Two threads and three changes let every pair of operations meet and a third
follow. `Overlap` is `FALSE`: two threads work on different files and groups.
With `TRUE`, `reload_group` may install a PAMT parsed before another save, since
it parses without the lock, and a create and a remove of one path may leave a
record without an entry.

`Legacy` is what an older build may have left in the user group. `LegacyAssumption` says
one record for a file, under its name or its alias, and none for a shipped file. Both
matter: `migrate_aliased_paths` (user_group.rs:165) strips the `@` and does not look, as
`create_user_file` does, whether the name is taken. A stored alias of a shipped file
would shadow that file from the next mount on, and of one file under both names the
index would lead to either.

Left out because the code does it in one lock and nothing reads in between: the
folder tree of listings. Known of the code and outside the instance: a name with
`@` at the top level loses what follows it; one directory with `@` in its name
drops every path containing `@` at mount; with only some groups mounted, a user
file may shadow a shipped one.

## 5. ReadPath: reads against saves

State: `overlay`, `cache` and `counted` (`cached_bytes`), `inFlight` and the
`OnceLock`s in `slot`, `map` (how much of the PAZ is mapped), `length` and `blob`
(the PAZ), `index`, the readers `rd`, the running flush `fl`. A content is the
number of the save it comes from; the rendering of a virtual file is the number of
what it was rendered from.

A reader goes through `DecodeCached`, `DecodeJoin`, `DecodeRun` (a virtual file
decodes its source inside its own slot), `MapShared`/`MapOpen`/`MapKeep`
(`get_mmap` opens outside the lock and inserts afterwards), `DecodeRender`,
`DecodeUnslot`, `DecodePut`; it may panic inside the slot. `Probe` is `probe()`, which
`read` (1930) asks first: it answers a read of less than an uncached plain file with its raw bytes,
and maps the PAZ as it does so. (`getattr` neither probes nor decodes: its sizes come
from overlay, cache and record.) A save goes through `TakeOverlay`, `FlushPut`,
`FlushAppend`, `FlushUnmap`, `FlushReload`, `FlushInvalidate`, or fails.

- `Coherent`: a read sent after the flush of a save is over returns that save or a newer
  one, whichever of the copies answers; one that `probe()` answers gets the raw bytes
  of such a version. The flush is over after `reload_group` and
  `invalidate_virtual_path`; between the `[ok]` (1229) and that point reads may
  return the old content, and TLC finds `Coherent` violated if `saved` is set at the
  `[ok]`. The header that a view gets from `probe()` has no version and is left to `WriteBack`.
- `CacheBounded`: `cached_bytes` errs upwards only, so the cache keeps its bound, but for an
  entry larger than the bound: `cache_put` pops all others, finds none left (`None => break`, 428)
  and inserts it. Then it is alone.
- `Answered`: every read ends, whatever slot it waits on.

Run `LinuxReads`: a table and its view, two readers, one save through the view, which is
then larger than the cache; a cache of two entries and bytes, one panic. Two readers are what it takes to share, steal or
drop a slot; the cache is as small as to overflow on the second insertion.
`Coherent` excludes the two windows the code has: a decode of a file that
overlaps a step of its save may put the old bytes back, and a reader may re-insert
a short map, which gives EIO until the next save. It is also about a table saved
through its only view: `invalidate_virtual_path` drops the rendering under the name that was
written and no other, so after a save of a `.dds` by its own name its `.dds.png` is read
from the cache as it was before (and after a save of `.pac.fbx/...`, the `mesh.fbx` of a prefab).
TLC finds `Coherent` violated once `Saved` is the table and the cache holds both. Fairness: weak fairness of each
reader's own steps, because the pool runs every decode it was given. Panics are
bounded: a reader that panics again and again could starve another one.

## 6. SynthPaths and Inodes: names

`SynthPaths` says which paths the mounts invent, and has the three places where
the code works that out: listing (`ViewListing`, `PrefabListing`), lookup
(`Resolve`, `LookupPrefab`) and reading (`SourcesOfPrefab`), on either platform.
`Inodes` has `CdFs::paths`, the queue through which builders on the pool feed it,
`dir_cache` and the kernel's dentries. Every call of the session thread drains the
queue first (`Drained`). `Readdirplus` starts a builder, `BuildList`, `BuildQueue`, `BuildServe`
are its steps; `Create`, `Mkdir`, `Rmdir`, `Rename`, `Unlink`, `UnlinkView`, `Lookup`
are one step each, as the session thread is one, and `Save` is the flush of a
new file, which drops no listing.

- `NamesReach`: a name the kernel holds leads to the file of that name, and `getattr` of
  its inode says what `lookup` says of a plain name, if `OwnInodes` holds of every rename.
- `GoneIsGone`: removed and renamed-away names do not resolve.
- `ListingsExist`: no cached listing shows a file that is not there.
- `SynthAgree`: listing, lookup and reading agree about views and bundles, and `getattr`
  says of those the kernel knows (`ViewsReach`) what `lookup` says.

Run `LinuxNames`: a texture, a prefab that refers to it and to one a user may add,
a user file in a directory that may be made; two builders, four changes. Four
changes are make, create, rename and remove.

Clients of the model rename a file again only when the kernel has looked it up by
its present name, and rename none onto a name whose inode stands for another file
(`OwnInodes`). `rename` repoints the inodes that its two names hash to, and no
other: after create, save and two renames within the entry timeout of 60 seconds the
kernel's inode, that of the first name, stands for the second, which is gone. The
same happens to the file that a name was renamed away from when another is renamed
onto the old name (an editor's backup). The comment at fs.rs:1675 says that the
inode the kernel keeps is repointed, and without `OwnInodes` and with a third
name TLC finds `NamesReach` violated. A file that is only in the
overlay is looked up before each rename, as its entries are sent with no timeout.

`PrefabIndex` collects the prefabs at its first use and keeps them
(prefab_view.rs:38-57); `SynthPaths` reads them off the tree. The two differ once a
client makes or removes a `.prefab`, which those of the model do not: the code then goes
on listing the old bundles until the next mount.

`NamesAssumption` is what the instance may be: clients use a name for files or for
directories and never for both, no file lies below a file, and the game ships nothing
where the mount invents paths.

Clients of the model create no file under a name that was renamed away and no
directory under a name that was a file: the code hands out the old inode, which
stands for the renamed file (writes go there) or stays a file, and `NamesReach` is
false of it. Renames of views and directories are acknowledged and move nothing;
made directories are missing in listings; a listing built before a flush lacks
the new file. None of these is covered by a property.

## 7. WinWriteBack: the Windows mount

State: the maps of `SharedFs`; `handle`, each with its path, its snapshot, whether
it wrote, and where in a call it is; `job`, the save threads; `batch`, the save
key's. WinFSP's fine guard strategy lets opens and reads overlap and excludes
creates, renames and deleting cleanups from everything else; `NamesShared` and
`NamesExclusive` are its two sides. Actions: `OpenHit`, `OpenDecode`/`OpenPut`,
`Create`, `Overwrite`, `Seed`/`WriteApply`/`ResizeApply`/`Mark`, `Close`,
`CloseClaim`, `CloseSpawn`, `CleanupOverlay`/`CleanupRemove`/`CleanupForget`,
`RenameUser`, `RenameOverlay`, `FlushBegin`, `FlushConvert`, `FlushPut`, `FlushUnmap`,
`FlushRepack`, `FlushReload`, `FlushStore`, `FlushStored`, `GivesUp`, `CommitDrop`,
`CommitCache`, `SaveTake`/`SaveMarks`/`SaveNext`, `Quit`, `Evict`.

`SavesKept`, `ReadsBack` and `StoresLatest` are as for Linux. `NoTornSave`: a save never
takes what another handle is still writing. `SizesAgree`: a handle is told the size of
what it reads.

As on Linux many failures of a flush leave at most a line in the log, with the mark
already gone (717, 1260): a source or PAMT that is not there (727-734, 822, 834), a
temporary file that cannot be written (668, 684, 688, 699), a prefab that does not
resolve (758, 762, 783), a view without a way back (796-799). `Unsaid` has all three places
in the run. And clients wait until a flush is over, which is later than `[ok]`: that is pushed at
846 before `reload_group` (847) and `commit_virtual_path` (706, 746, 768), and at 808 before the
bytes are cached.

`short` is what lies behind the end of a map. The map of a shipped PAZ is dropped
before the append (842), so that a decode in between may map it short again; that
of the user PAZ is never dropped. Such files are read from the cache, and are an error
once evicted (`OutOfReach`); `ReadsBack` says that they are never anything else.

Run `WinWriteBack`: a texture, its view, two names for new files, two handles
(symmetric), one save thread, two edits, no habit. One save thread is enough
because clients wait for a file's save, and two files' saves share no state here
but the cache. `MaxEdits` bounds the edits of the clients (`Seed`, `WriteApply`,
`ResizeApply`), nothing else.
With each of these habits TLC finds `SavesKept` violated: `"hasty"`, `"manual"` (no
auto repack: `close` claims the mark and nobody saves), `"two names"`, `"resize only"`,
`"on report"` (an edit between `[ok]` and the commit goes with the overlay), `"blind
edit"` (what cannot be decoded is seeded empty), `"rename over"` (a rename over a view,
1616-1624, stores a user file of that name, which the next mount prunes, 288-295; the Linux run
`WriteBackSafeSave` has the same).
Further exclusions, each said where the property is stated: handles opened before a
new file has bytes, renderings of a source saved under another of its names, and what a
decode that overlapped a save puts back.

Left out: renames whose source is a view (1656-1667); a `reload_group` that fails
(847, only warned of); writes under `_prefabs` other than to a `mesh.fbx`, which are
accepted (1567) and dropped at the flush (796-799); the `mesh.fbx` of a prefab, whose
overlay and mark cleanup drops, against its comment (1400-1405), because
`virtual_files::resolve` (1406) does not know it (`Views` are those that it knows);
that `note_writing` (1355, 1503, 1578) precedes the decode that seeds the overlay,
which is one step here; more than one shipped PAZ.

## 8. Assets: files and the form users edit

`Assets` is a session with one file: each action reads it in the form
users edit, edits, and stores it again; the properties compare what is shown then with
what was meant. All byte-level work is in the modules below it.

| module | what it has | property |
|--------|-------------|----------|
| `Containers` | the ladder of layouts of type 1 entries (whole, per-mip sizes, first mip, PAR sections, raw), LZ4 blocks with tokens and offsets, zlib, what is enciphered under which name, how `add` and `repack` write | `UnpackedIsOriginal` |
| `Strings` | length-prefixed strings scanned out of a byte stream, pairing of keys and texts, JSON lines with escapes, serialisation | `StringsKept` |
| `Textures` | shapes, block parts, ramps and palettes, choice of endpoints, PNG colour types | `TexturesKept` |
| `Vorbis`, `Audio` | codebooks and packets bit by bit in both forms, RIFF and Ogg framing, round-trip comment, library fallback | `PacketsKept` |
| `PacMesh` | sections and level tables, descriptors, vertices and indices, in-place save, full rebuild, merge of partial imports, donors of bones by grid search | `MeshReadsBack`, `BonesFollow` |

Run `Formats`: two saves of each file. The first makes the file the program's own,
the second shows it reads what it wrote. `MCAssets` builds each archive layout, enciphered and not;
a text file of two entries, a numbered one with quotes, backslashes and control
characters in its text and a named one that is empty; eight textures, four of
which the view does not offer; three recordings with two codebook libraries; a mesh of
two parts, of four and three vertices, in two levels. `MaxLines` 3 and `MaxVerts` 6 leave
room for what each save may add. `LinearMax` is 3 instead of the
code's 64, so that the grid search runs on a mesh of this size, and `FarPlaces` puts a
vertex where that search finds nothing.

Abstractions: LZ4 data that no encoder wrote does not decode; compression and
cipher are invertible; floats are in whole units of 1e-6; text is ASCII; ww2ogg
(the `ww2ogg` crate) is external and gives the setup packet of the recording whose
stripped form it is. `ConvertWithAutoDetect` turns to the second library whenever the
first has not the books; the code does so on a mismatch of sizes and on an undecodable
stream and gives up on other errors (audio/mod.rs:53-69), which is a conversion that
does not take place. What it returns when the second stream is undecodable too is left out.

What is false of the code and lies outside the instances:

- Strings: a key that is neither numeric, symbolic nor empty shifts all that follows;
  strings outside entries and the header word are not written back; a text with
  control characters is not found again.
- Textures: `bc4_lut` truncates to a byte before it divides, so ramps of bright
  values decode wrongly; a BC1 block may come out in three-colour mode, with black for
  the fourth; 16-bit PNGs are misread; BC4S and BC5S become unsigned.
- Audio: a comment whose length is a multiple of 255 gets one lacing value too many;
  packets over 255 segments wrap; chunks behind the data are lost.
- Meshes: a new vertex further off than the shells of the donor search reach
  (donor.rs:109, the side of the grid and one cell) gets the bones of the part's first record,
  and a renamed part that was moved near another is taken for that one (`BonesFollow`
  and `GivePart` keep to what is in reach); an in-place save that changes the bounding box distorts the other levels;
  renamed or equally named parts come in the order of a hash map; a file with other than
  four levels gets wrong counts.
- Archives: a file that compresses to exactly its own length is read back undecoded.

## 9. Proofs

`TypeCorrect` (`RepackChainProofs`): `Spec => []TypeOK`, for any sets of
threads, groups and files, any sizes and any overlap. `TypeOK` alone is not
inductive, since a step of the engine needs its file to be in a shipped group;
the invariant adds `Kinds` (steps of the engine in shipped groups, of the user group in
its own, none while unmounted).

`RecordsAlwaysReadable`, `IndexAlwaysReadable`, `AppendOnlyHolds`
(`RepackReadProofs`): the three reader properties, for any instance, assuming
`Overlap # "any"`: no two saves of one group overlap. (With `"any"` they fail: an
append between another's stat and seek moves its blob.) The inductive invariant
`RInv` is type correctness and

- `Apart`: no two active threads are in the same group;
- `Inside`: blobs end within the PAZ;
- `Cursor`: the size a thread computed its offset from, and its cursor, are still
  the size of the PAZ, because nobody else appends;
- `Readable`: the records of every PAMT a thread, a temp file, the index, the user
  group or the disk holds name blobs that are there.

Lemmas `AppendAtEnd` and `CutAtEnd` say that appending at the end, wholly or
in part, destroys no blob; `GoodNewRecord` that the record written names the
blob appended; `KeptStep` and `RestartKept` go through the actions; `ReadNext`
combines them.

`IndexesAlwaysWhole` (`RepackReadProofs`): with `Overlap = "serial"` no index file on
disk is ever torn, whatever fails and wherever the process dies. (With overlapping
saves it fails: they share the name of the temp file.) `IndexesWhole` says
nothing of a save in progress; the inductive invariant `WInv` adds

- `Solo`: one thread is at work;
- `OpenTmp`: what a thread has open is its temp file, and only until it has written it,
  so no rename leaves a file open that is then written in place;
- `WholeTmp`: what a thread is about to rename is written.

`ChainAlwaysHolds` (`RepackReadProofs`): under the same assumption PAPGT carries the
CRC of every PAMT and every PAMT that of its PAZ, but for what a save wrote and did not
enter (section 2). `CInv` adds to `WInv` that the chain holds (`Chained`) and that the PAPGT a
thread works on is the one on disk, with its own PAMT entered once it has renamed
that (`CopyOK`). `LInv` adds the lower half of it: a PAMT about to be put in place has the CRC
of the PAZ, unless the append of its save failed (`Entered`), a thread that has appended
and not entered has left its group unsealed (`Spoilt`), and the others are sealed (`AllSealed`).

`AckedAlwaysSurvives` (`RepackSaveProofs`): with `Overlap # "any"` a file reads, from a
fresh mount, as what was reported saved or something newer. (With `"any"` it fails:
the finding of `RepackLostPamt`.) The invariant `SInv` adds to `RInv`

- `StoreOK`: the disk, and in a group nobody is saving in also the index and the user
  group's map, read each path as its reported version or a later one;
- `EngineOK`, `UserOK`: a saver works on a table that does too, and from
  `update_record` on that table has its own version; so what it puts in place has both;
- `Fresh`: versions are handed out once, and `Distinct`: a record is not ambiguous.

`SaveStoreImplemented`: every step then is a step of `SaveStore` or a stutter, under the
mapping of `RepackChain`. It assumes `[]WithinLimit`: no PAZ reaches `PazLimit` (4 GiB),
beyond which a record cannot say where its blob is. (`AckedAlwaysSurvives` says nothing
of a PAZ beyond it either: its property excludes them.)

`WriteBackProofs` is about any files, virtual roots, batches and pool of workers.
`TypesHold`: `Spec => []TypeOK`, whatever the clients do. `SavesAlwaysKept`,
`ReadsAlwaysBack` and `LatestStored` (the action property `StoresLatest`) assume
`Habits = {}`, clients that wait until a flush is over: each other habit is one of the
cases listed in sections 3 and 10 in which the property is false of the code. They hold for
any `Unsaid` and `Stubbed`, with the exceptions the properties state. Their invariant `WInv` says where the
content of a file is at each moment: in a marked overlay (`FileOK`), in a batch (`TodoOK`),
in a job (`JobOK`), or nowhere but on disk and then every copy is the same (`CleanOK`);
that a batch has the mount to itself (`BatchAlone`), that no two jobs are about one file
(`Solo`), and what is over while the mount goes down (`Leaving`). Most of a step's
proof is that files it is not about are framed (`Frame`, and a lemma for each part).

`WinWriteBackProofs` is about any files, views, handles, save threads and number of
edits. `SavesAlwaysKept`, `ReadsAlwaysBack`, `NeverTorn`, `SizesAlwaysAgree` and
`LatestAlwaysStored` (the action property `StoresLatest`) assume `Habits = {}` for the same
reason. `WInv` is stated file by file: `BaseOK(b)` relates the
handles (`HandlesOK`: one that has written has the file to itself, and its bytes
are in the overlay, marked unless it is in the middle of a call), overlay and marks
(`PathsOK`), save threads (`JobsOK`) and the copies of a file nobody has in hand
(`CleanOK`) of one file. A step touches one file, and `BaseFrame` covers the others.
That file is in one of four stages after the step: held by its writer, in a save, just
saved, or new. Each stage implies `BaseOK`, and there is one lemma per action that
its file ends in such a stage. Before it was proved TLC checked `WInv` as an
invariant of the run's instance and of one with two views and two save threads.

`ReadPathProofs` is about any files, views, sizes, limits, readers and number of saves,
with failures and panics. `CacheAlwaysBounded` needs nothing else: its invariant `BInv`
adds types to `CacheBounded`, and its step is that `cache_put` takes from the count just
what it pops. That is a fact about sums over finite sets (`BytesSplit`), which is proved
by well-founded induction over subsets (`SubsetInduction`): the library's theorem on minimal elements
takes a set and not an operator, so it can be used where its induction theorems cannot.

`AlwaysCoherent` assumes `OneName`: a file that is saved has no view, or its only view is what
is saved (section 5 says what happens otherwise). Its invariant `CInv` has types, the shapes of
readers and flush (`TInv`), and

- `SlotsOK`: a slot is of one path, one reader runs its initialiser, and one that is set
  has readers that have not left yet, so that no reader takes another path's value;
- `MapsOK`: every map in use has the blobs that index, readers and a flush about to
  reload lead to, unless a short map was put back;
- `Stored`: the index leads to the last save or a newer one;
- `CopiesOK`: so do overlay and cache, and while a file is saved they have what is saved, or nothing;
- `ReadOK`: what a reader holds, or waits for, is no older than the last save, unless it
  raced with that save.

Each has its own lemma on the steps; a new slot is free because `ReadAssumption` gives
more slots than paths and readers can hold (`FreeSlot`; a slot is an allocation, of which the
code can make any number). TLC checked `CInv` as an invariant of the run's instance and of
one with a second file before it was proved.

`VfsIndexProofs` is about any groups, names, clients and threads. `TypesHold` and
`NeverShadows` hold whatever threads work on one file or group at a time; their invariant
`BInv` says of every path in the tree that it leads to a shipped file of that name or to a
record that a client may have (`Leads`), and the same of the user group, in memory and on disk
(`Records`), and of what a thread between two steps is about to put there (`Working`). Mounting
is the longest step of it (`MountRight`): of the groups that hold a path the last one wins
(`LastGroup`, a minimum that a well-founded order on numbers has), and exposing aliases, adding the user
group and pruning each keep every path leading where it should (`Right`).

`UserTreeAlwaysAgrees`, `IndexAlwaysFresh` and `NeverUndone` (the action property `NotUndone`)
assume `Overlap = FALSE`: section 4 says what two threads at one file or group do to each other.
Their invariant adds, file by file, that no other thread is at a file somebody is at, what that
one has yet to tell the tree (`Pending`), and that tree and user group agree about the rest
(`FInv`); and group by group that a parsed PAMT that waits to be installed is the one on disk, and
that cache and tree are up to date in groups nobody saves into (`GInv`). A step is at one
file or one group, and `FilesStay` and `GroupsStay` cover the others. TLC checked the three
invariants on the run's instance before they were proved.

`InodesProofs` is about any names, listed directories, builders and number of changes.
`NamesAlwaysReach`, `GoneAlwaysGone` and `ListingsAlwaysExist` follow from one invariant, `NInv`:

- `Names`: tree and overlay have file names only and `synth_dirs` names of directories, and
  what is gone is in neither tree nor overlay;
- `Registered`: an inode stands for the path it was made for, as the kind of thing that name
  is used for (`Kinded`), or is that of a name that is gone and stands for the file that was
  renamed (`Stands`); `Queued`: so will the entries of every batch in the queue;
- `Kernel`: an inode the kernel has for a name is in the drained map and stands for that name;
- `Listings`, `Jobs`: the entries of a listing, and those a builder is about to queue or to
  serve, are children of their directory that are in the tree, or directories, or invented
  (`Lists`), and have reached the queue before the kernel is told.

None of the three properties is inductive. A builder holds entries that nobody has registered,
and they reach the kernel only after the batch is queued, whose place among the batches
decides which entry an inode gets (`Merging`, `OneBatchMore`). A file leaves the tree only
while its directory is locked, so no builder lists it, and its slot is dropped in the same step
(`ListsStay`). `rename` keeps `Kernel` because the kernel has the file by one of the two
inodes that it repoints, and no other name by either: that is `OwnInodes`, and the step
is false without it (section 6). About paths the proof needs that what a directory
lists is one segment below it (`Cut`), that what is listed below an invented directory is
invented (`InventedListing`), and that a plain name is looked up as a file or as a
directory whatever else happened (`PlainLookup`, `FileNoDir`). TLC checked the parts of `NInv` on
the run's instance before they were proved.

The proofs rest on the assumptions named where the constants are declared
(`ConstantsAssumption` and `ShippedAssumption` of `RepackChain`: the values for a missing
and a torn file are no PAMT or PAPGT, the shipped archives are well-formed;
`PathsAssumption` of `WriteBack`, `WinAssumption` of `WinWriteBack`, `ReadAssumption` of
`ReadPath`: what is virtual has a shipped source, nothing else equals `None`; `IndexAssumption` and `LegacyAssumption` of `VfsIndex`: groups
are numbers and the user group has the highest, no shipped name has an `@`, and what section 4
says of an older build; `NamesAssumption` of `Inodes`: section 6), which TLC evaluates in the runs.

Only model-checked: `SynthAgree`, which says that listing, lookup and
reading compute the same from a tree, and stays with TLC because that relates names with suffixes,
aliases and stems whose definitions filter and number sequences; and the properties of `Assets`.
Liveness (`AutoSaved`, `Answered`) stays with TLC, since the prover has no `ENABLED`. So does
what the format modules compute: their definitions are recursive functions over
data, and the prover has no induction on what such a definition yields.

## 10. Findings

- Two flushes in one group undo each other (`RepackLostPamt`).
- An edit made while its file's save is queued is neither saved nor marked (`WriteBackHasty`).
- Saving a virtual file by renaming over it stores a user file that the next
  mount prunes (`WriteBackSafeSave`).

`PROJECT.json` quotes the lines of the code and docs that disagree. Sections 2 to 8 name
further cases in which a property is false of the code; clients or instances of the runs avoid them.

## 11. Not modelled

- FBX export and import, `.pam` and `.pamlod` parsing and building: floating-point
  geometry without state, whose errors are numeric and which samples test better.
- `.pabgb`, `.prefab` contents, `.paa_metabin`, skeletons, physics, animations: read
  and shown, never written.
- Cipher, checksum and zlib arithmetic; the binary layout of PAMT folders and
  PAPGT positions and markers (`papgt.rs:98`, `user_group.rs:455`).
- Setup forms, configuration files, drawing of the TUI, logging, Python bindings,
  scripts, mesh baselines: input and output only, or not called by the mounts.
- Power loss and two mounts of one installation.

## 12. Plan

1. A module on the positions and markers of PAPGT entries, against a reference
   definition.
2. Saves of `.pac.fbx` on Windows, with the parts that `import_fbx` gives up.
3. Proofs about the paths that `SynthPaths` invents (`SynthAgree`), from the sequence
   theorems of the library.
