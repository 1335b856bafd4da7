------------------------------- MODULE FuseFs -------------------------------
(***************************************************************************)
(* The name space of a file system (fs.rs) beneath the caches of the FUSE  *)
(* daemon (bfffs-fuse, fs.rs), and the kernel that calls it.               *)
(*                                                                         *)
(* FUSE is single-threaded and every call of Fs waits for its transaction, *)
(* so that one request is one step.  The kernel is external.  It looks up  *)
(* what it names, keeps what it was told for as long as it likes, and      *)
(* checks the types of what it links, renames or removes; it counts its    *)
(* lookups of an inode and sends the count when it forgets it; it knows    *)
(* the parent of every directory it knows.                                 *)
(***************************************************************************)
EXTENDS HTable, FiniteSets, FiniteSetsExt

CONSTANTS
    Names,      \* the names of files, without "." and ".."
    Hash,       \* ObjKey::dir_entry: hashes of these names and of "." and ".."
    MaxIno,     \* a bound on the inode numbers
    MaxLookups, \* a bound on the kernel's lookups of an inode
    MaxMounts   \* a bound on the mounts

Root == 1
Inos == 1 .. MaxIno

ASSUME HashAssumption ==
    /\ Hash \in [Names \cup {".", ".."} -> Nat]
    /\ \A n \in Names : Hash[n] \notin {Hash["."], Hash[".."]}
    /\ Hash["."] # Hash[".."]

VARIABLES
    inodes,   \* the tree's inodes: is it a directory?  its link count; has it ever had two links?
    table,    \* the tree's directory entries
    next,     \* Fs::next_object
    files,    \* FuseFs::files: lookup_count and parent
    names,    \* FuseFs::names
    nlookup,  \* the kernel's count of its lookups
    lost,     \* the links whose entries link has overwritten, by inode
    used,     \* the inode numbers that have been given out
    mounts,   \* how often the file system has been mounted
    panicked

vars == <<inodes, table, next, files, names, nlookup, lost, used, mounts, panicked>>
tree == <<inodes, table, next, lost, used>>
caches == <<files, names, nlookup>>

Key(d, n) == <<d, Hash[n]>>
Dirent(n, i, isdir) == [name |-> n, ino |-> i, dir |-> isdir]
Entry(d, n) == HtGet(table, Key(d, n), n)
Exists(d, n) == Entry(d, n) # None
IsDir(i) == i \in DOMAIN inodes /\ inodes[i].dir

\* Requests name directories that the kernel knows and that are still there.
Alive(d) == panicked = None /\ d \in DOMAIN files /\ IsDir(d)

-----------------------------------------------------------------------------
(* Fs.                                                                     *)

\* obj_range: all keys of an object.
KeysOf(t, i) == {k \in DOMAIN t : k[1] = i}

\* do_unlink: the inode goes with its last link.
Unlinked(is, i) ==
    IF is[i].nlink > 1 THEN [is EXCEPT ![i].nlink = @ - 1] ELSE Without(is, {i})

\* ok_to_rmdir.
IsEmpty(d) == \A k \in KeysOf(table, d) : Len(table[k]) = 1 /\ table[k][1].name \in {".", ".."}

\* do_create, with mkdir's callback for a directory.
DirEntries(t, d, i) ==
    HtInsert(HtInsert(t, Key(i, "."), Dirent(".", i, TRUE)).table, Key(i, ".."), Dirent("..", d, TRUE)).table
Created(d, n, isdir) ==
    LET i == next
        r == HtInsert(table, Key(d, n), Dirent(n, i, isdir))
        linked == IF isdir THEN [inodes EXCEPT ![d].nlink = @ + 1] ELSE inodes
    IN [table |-> IF isdir THEN DirEntries(r.table, d, i) ELSE r.table,
        inodes |-> With(linked, i, [dir |-> isdir, nlink |-> IF isdir THEN 2 ELSE 1, multi |-> FALSE]),
        panic |-> r.old # None \/ i \in DOMAIN inodes]

\* Mutant of Renamed: a directory that replaces another one of the same parent does
\* not cost the parent a link.
RenamedInPlace(e, d, f, old) ==
    LET moves == IF e.dir /\ d # f THEN 1 ELSE 0
        arrives == IF old = None THEN moves ELSE 0
        counted == [[inodes EXCEPT ![d].nlink = @ - moves] EXCEPT ![f].nlink = @ + arrives]
    IN IF old = None THEN counted
       ELSE IF e.dir THEN Without(counted, {old.ino}) ELSE Unlinked(counted, old.ino)
\* rename, once the source entry e has been removed: its link counts.
Renamed(e, d, f, old) ==
    LET leaves == IF e.dir /\ (d # f \/ old # None) THEN 1 ELSE 0
        arrives == IF e.dir /\ d # f /\ old = None THEN 1 ELSE 0
        counted == [[inodes EXCEPT ![d].nlink = @ - leaves] EXCEPT ![f].nlink = @ + arrives]
    IN IF old = None THEN counted
       ELSE IF e.dir THEN Without(counted, {old.ino}) ELSE Unlinked(counted, old.ino)

\* Fs::link puts the entry into the tree without looking for others that have the
\* same hash.
FsLink(i, d, n) ==
    [inodes |-> [inodes EXCEPT ![i].nlink = @ + 1, ![i].multi = TRUE],
     table |-> With(table, Key(d, n), <<Dirent(n, i, FALSE)>>),
     over |-> Bucket(table, Key(d, n))]

\* Fs::unlink.  The caller may have given the inode number.
FsUnlink(d, n, given) ==
    LET r == HtRemove(table, Key(d, n), n)
        panic == given \notin {None, r.old.ino} \/ r.old.ino \notin DOMAIN inodes
    IN [table |-> r.table, panic |-> panic, ino |-> r.old.ino,
        inodes |-> IF panic THEN inodes ELSE Unlinked(inodes, r.old.ino)]

\* do_rmdir: all that the directory had.
DoRmdir(t, i) == Without(t, KeysOf(t, i))

\* Fs::rmdir.
FsRmdir(d, n) ==
    LET i == Entry(d, n).ino
        panic == ~ IsDir(i) \/ inodes[i].nlink # 2
    IN [ino |-> i, panic |-> panic,
        table |-> IF panic THEN table ELSE DoRmdir(HtRemove(table, Key(d, n), n).table, i),
        inodes |-> IF panic THEN inodes ELSE Without([inodes EXCEPT ![d].nlink = @ - 1], {i})]

\* Fs::rename.  It fails if it would replace a directory that has entries.
FsRename(d, n, f, m) ==
    LET e == Entry(d, n)
        dst == Entry(f, m)
        moved == HtInsert(HtRemove(table, Key(d, n), n).table, Key(f, m), [e EXCEPT !.name = m])
        replaces == dst # None /\ e.dir
    IN IF replaces /\ ~ IsEmpty(dst.ino) THEN [table |-> table, inodes |-> inodes, ok |-> FALSE]
       ELSE [table |-> IF replaces THEN DoRmdir(moved.table, dst.ino) ELSE moved.table,
             inodes |-> Renamed(e, d, f, moved.old), ok |-> TRUE]

\* Fs::getattr: None is ENOENT.
FsGetattr(is, i) == IF i \in DOMAIN is THEN is[i] ELSE None

\* Fs::new takes the number of the next object from the last key of the tree.
NextObject == Max(DOMAIN inodes) + 1

-----------------------------------------------------------------------------
(* FuseFs.                                                                 *)

Panic(what, i) == panicked' = [what |-> what, ino |-> i] /\ UNCHANGED caches
FileData(parent) == [count |-> 1, parent |-> parent]
Count(i) == IF i \in DOMAIN nlookup THEN nlookup[i] ELSE 0
Counted(i) == nlookup' = With(nlookup, i, Count(i) + 1)

\* cache_file.
CacheFile(d, n, i, parent) ==
    IF <<d, n>> \in DOMAIN names THEN Panic("Create of an existing file", i)
    ELSE IF i \in DOMAIN files THEN Panic("Inode number reuse detected", i)
    ELSE /\ names' = With(names, <<d, n>>, i)
         /\ files' = With(files, i, FileData(parent))
         /\ Counted(i)
         /\ UNCHANGED panicked

\* do_getattr.
DoGetattr(is, i) == FsGetattr(is, i) # None
\* handle_new_entry: a file is cached if its attributes can be read.
HandleNewEntry(is, d, n, i, parent) ==
    IF DoGetattr(is, i) THEN CacheFile(d, n, i, parent) ELSE UNCHANGED <<caches, panicked>>

NewEntry(d, n, isdir) ==
    /\ Alive(d) /\ ~ Exists(d, n) /\ next <= MaxIno
    /\ LET c == Created(d, n, isdir)
       IN /\ inodes' = c.inodes /\ table' = c.table /\ next' = next + 1 /\ used' = used \cup {next}
          /\ IF c.panic THEN Panic("Create of an existing file.  The VFS should prevent this", next)
             ELSE HandleNewEntry(c.inodes, d, n, next, IF isdir THEN d ELSE None)
    /\ UNCHANGED <<lost, mounts>>
\* Files of all types behave alike here, but for directories.
Create(d, n) == NewEntry(d, n, FALSE)
Mknod(d, n) == NewEntry(d, n, FALSE)
Symlink(d, n) == NewEntry(d, n, FALSE)
Mkdir(d, n) == NewEntry(d, n, TRUE)

\* Mutant of Lookup: a lookup of a cached file is not counted.
LookupUncounted(d, n) ==
    /\ Alive(d) /\ Exists(d, n)
    /\ LET e == Entry(d, n)
       IN /\ Count(e.ino) < MaxLookups
          /\ IF <<d, n>> \in DOMAIN names /\ names[<<d, n>>] \in DOMAIN files
             THEN Counted(names[<<d, n>>]) /\ UNCHANGED <<files, names, panicked>>
             ELSE IF <<d, n>> \in DOMAIN names
             THEN /\ files' = With(files, e.ino, FileData(IF e.dir THEN d ELSE None))
                  /\ Counted(e.ino) /\ UNCHANGED <<names, panicked>>
             ELSE CacheFile(d, n, e.ino, IF e.dir THEN d ELSE None)
    /\ UNCHANGED <<tree, mounts>>
\* lookup.  The inode may be cached, or only the name, or neither.  A name that is
\* not there changes nothing.
Lookup(d, n) ==
    /\ Alive(d) /\ Exists(d, n)
    /\ LET e == Entry(d, n)
           name == <<d, n>>
           fd == FileData(IF e.dir THEN d ELSE None)
       IN /\ Count(e.ino) < MaxLookups
          /\ IF name \in DOMAIN names /\ names[name] \in DOMAIN files
             THEN /\ DoGetattr(inodes, names[name])
                  /\ files' = [files EXCEPT ![names[name]].count = @ + 1]
                  /\ Counted(names[name]) /\ UNCHANGED <<names, panicked>>
             ELSE IF name \in DOMAIN names
             THEN /\ DoGetattr(inodes, e.ino)
                  /\ IF e.ino \in DOMAIN files THEN Panic("Inode number reuse detected", e.ino)
                     ELSE /\ files' = With(files, e.ino, fd)
                          /\ Counted(e.ino) /\ UNCHANGED <<names, panicked>>
             ELSE HandleNewEntry(inodes, d, n, e.ino, fd.parent)
    /\ UNCHANGED <<tree, mounts>>

\* forget.
Forget(i) ==
    /\ panicked = None /\ Count(i) > 0
    /\ \A j \in DOMAIN files : files[j].parent # i
    /\ nlookup' = Without(nlookup, {i})
    /\ IF i \notin DOMAIN files
       THEN panicked' = [what |-> "Forget before lookup or double-forget", ino |-> i] /\ UNCHANGED files
       ELSE /\ files' = Without(files, {i})
            /\ panicked' = IF files[i].count = nlookup[i] THEN None
                           ELSE [what |-> "Partial forgets are not yet handled", ino |-> i]
    /\ UNCHANGED <<tree, names, mounts>>

\* link.
Link(i, d, n) ==
    /\ Alive(d) /\ ~ Exists(d, n)
    /\ i \in DOMAIN files \cap DOMAIN inodes /\ ~ IsDir(i) /\ inodes[i].nlink < 3
    /\ LET r == FsLink(i, d, n)
       IN /\ inodes' = r.inodes /\ table' = r.table
          /\ lost' = [j \in Inos |-> lost[j] + Cardinality({k \in DOMAIN r.over : r.over[k].ino = j})]
    /\ IF <<d, n>> \in DOMAIN names THEN Panic("Link over an existing file", i)
       ELSE names' = With(names, <<d, n>>, i) /\ UNCHANGED <<files, nlookup, panicked>>
    /\ UNCHANGED <<next, used, mounts>>

\* uncache_name.
UncacheName(d, n) == names' = Without(names, {<<d, n>>})

\* unlink.
Unlink(d, n) ==
    /\ Alive(d) /\ Exists(d, n) /\ ~ Entry(d, n).dir
    /\ LET cached == <<d, n>> \in DOMAIN names /\ names[<<d, n>>] \in DOMAIN files
           r == FsUnlink(d, n, IF cached THEN names[<<d, n>>] ELSE None)
       IN /\ table' = r.table /\ inodes' = r.inodes
          /\ IF r.panic THEN Panic("Orphan directory entry", r.ino)
             ELSE UncacheName(d, n) /\ UNCHANGED <<files, nlookup, panicked>>
    /\ UNCHANGED <<next, lost, used, mounts>>

\* rmdir.
Rmdir(d, n) ==
    /\ Alive(d) /\ Exists(d, n) /\ Entry(d, n).dir /\ IsEmpty(Entry(d, n).ino)
    /\ LET r == FsRmdir(d, n)
       IN /\ table' = r.table /\ inodes' = r.inodes
          /\ IF r.panic THEN Panic("Hard links to directories are forbidden", r.ino)
             ELSE UncacheName(d, n) /\ UNCHANGED <<files, nlookup, panicked>>
    /\ UNCHANGED <<next, lost, used, mounts>>

\* rename's walk from directory f to the root through the cached files: does it meet
\* directory i?  It panics where a parent is not cached.
RECURSIVE Meets(_, _)
Meets(f, i) ==
    LET p == files[f].parent
    IN IF p = None THEN "no" ELSE IF p = i THEN "yes"
       ELSE IF p \notin DOMAIN files THEN "panic" ELSE Meets(p, i)

\* FileData::reparent.  Mutant: the parent is kept.
NotReparented(i, f) == files
Reparented(i, f) ==
    IF i \in DOMAIN files /\ files[i].parent # None THEN [files EXCEPT ![i].parent = f] ELSE files

\* Mutant of DirLoop: nobody looks for loops.
NoDirLoop(f, i) == "no"
DirLoop(f, i) == Meets(f, i)

\* rename of entry (d, n) to (f, m).
Rename(d, n, f, m) ==
    /\ Alive(d) /\ Alive(f) /\ Exists(d, n) /\ <<d, n>> \in DOMAIN names
    /\ LET e == Entry(d, n)
           dst == Entry(f, m)
           i == names[<<d, n>>]
           r == FsRename(d, n, f, m)
       IN /\ e.ino # f /\ (dst # None => dst.ino # e.ino /\ dst.dir = e.dir)
          /\ CASE DirLoop(f, i) = "yes" -> UNCHANGED <<inodes, table, caches, panicked>>
               [] DirLoop(f, i) = "panic" -> Panic("Uncached parent directory", i) /\ UNCHANGED <<inodes, table>>
               [] OTHER ->
                    /\ table' = r.table /\ inodes' = r.inodes
                    /\ IF ~ r.ok THEN UNCHANGED <<caches, panicked>>
                       ELSE IF e.ino # i THEN Panic("rename of another file", i)
                       ELSE /\ names' = With(Without(names, {<<d, n>>}), <<f, m>>, i)
                            /\ files' = Reparented(i, f)
                            /\ UNCHANGED <<nlookup, panicked>>
    /\ UNCHANGED <<next, lost, used, mounts>>

\* read, write and setattr of an open file change nothing here, if it is there.
OnInode(i, expect) ==
    /\ panicked = None /\ i \in DOMAIN files /\ FsGetattr(inodes, i) = None /\ files[i].parent = None
    /\ Panic(expect, i)
    /\ UNCHANGED <<tree, mounts>>
Read(i) == OnInode(i, "Inode not found")
Write(i) == OnInode(i, "write: unwrap on None")
Setattr(i) == OnInode(i, "do_setattr: unwrap on None")

\* destroy, then a new daemon: FuseFs::from.
Remount ==
    /\ panicked = None /\ mounts < MaxMounts
    /\ mounts' = mounts + 1
    /\ next' = NextObject
    /\ files' = (Root :> FileData(None)) /\ names' = <<>> /\ nlookup' = <<>>
    /\ UNCHANGED <<inodes, table, lost, used, panicked>>

\* The file system that new_fs makes, mounted.
Init ==
    /\ inodes = (Root :> [dir |-> TRUE, nlink |-> 1, multi |-> FALSE])
    /\ table = DirEntries(<<>>, Root, Root)
    /\ next = 2 /\ used = {Root}
    /\ files = (Root :> FileData(None)) /\ names = <<>> /\ nlookup = <<>>
    /\ lost = [i \in Inos |-> 0] /\ mounts = 1 /\ panicked = None

Next ==
    \/ \E d \in DOMAIN files, n \in Names :
        \/ Lookup(d, n) \/ Create(d, n) \/ Mknod(d, n) \/ Symlink(d, n) \/ Mkdir(d, n)
        \/ Unlink(d, n) \/ Rmdir(d, n)
        \/ \E i \in DOMAIN files : Link(i, d, n)
        \/ \E f \in DOMAIN files, m \in Names : Rename(d, n, f, m)
    \/ \E i \in DOMAIN files : Forget(i) \/ Read(i) \/ Write(i) \/ Setattr(i)
    \/ Remount

Spec == Init /\ [][Next]_vars

-----------------------------------------------------------------------------
(* readdir.                                                                *)

\* The entries from a cursor on, each with the cursor that follows it.  The index in
\* the cursor is an index into the bucket where the listing resumes.
\* Mutant of FromBucket: the cursor always points past the bucket.
FromBucketPast(d, h, idx) ==
    LET b == table[<<d, h>>]
    IN [j \in 1 .. Max({0, Len(b) - idx}) |-> [name |-> b[idx + j].name, at |-> h + 1, idx |-> 0]]
FromBucket(d, h, idx) ==
    LET b == table[<<d, h>>]
    IN [j \in 1 .. Max({0, Len(b) - idx}) |->
            [name |-> b[idx + j].name, at |-> IF Len(b) > 1 /\ idx + j < Len(b) THEN h ELSE h + 1,
             idx |-> IF Len(b) > 1 /\ idx + j < Len(b) THEN idx + j ELSE 0]]
RECURSIVE FromKeys(_, _, _), Listing(_, _, _, _)
FromKeys(d, hs, idx) ==
    IF hs = {} THEN <<>>
    ELSE FromBucket(d, Min(hs), IF Len(table[<<d, Min(hs)>>]) > 1 THEN idx ELSE 0)
         \o FromKeys(d, hs \ {Min(hs)}, idx)
Readdir(d, at, idx) == FromKeys(d, {h \in {k[2] : k \in KeysOf(table, d)} : h >= at}, idx)

\* What a client gets that reads n entries at a time.
Listing(d, at, idx, n) ==
    LET all == Readdir(d, at, idx)
        some == SubSeq(all, 1, Min({n, Len(all)}))
        names1 == [j \in DOMAIN some |-> some[j].name]
    IN IF all = <<>> THEN <<>>
       ELSE names1 \o Listing(d, some[Len(some)].at, some[Len(some)].idx, n)

-----------------------------------------------------------------------------
(* Properties.                                                             *)

Entries == UNION {{[dir |-> k[1], name |-> table[k][i].name, ino |-> table[k][i].ino] :
                      i \in DOMAIN table[k]} : k \in DOMAIN table}
Proper == {e \in Entries : e.name \notin {".", ".."}}
NothingLost == \A i \in Inos : lost[i] = 0
Subdirs(d) == {e \in Proper : e.dir = d /\ IsDir(e.ino)}

\* Every entry names an inode, and every inode is counted right: a file has one
\* link for every entry that names it, and one for every entry that link has
\* overwritten; a directory has one for each subdirectory, its "." and its own entry.
LinksExact ==
    panicked = None =>
        /\ \A e \in Proper : e.ino \in DOMAIN inodes
        /\ \A i \in DOMAIN inodes :
            LET named == Cardinality({e \in Proper : e.ino = i}) + lost[i]
                own == IF i = Root THEN 1 ELSE 2
            IN IF ~ inodes[i].dir THEN inodes[i].nlink = named
               ELSE NothingLost => inodes[i].nlink = own + Cardinality(Subdirs(i))

\* Directories form a tree: rename never makes one a descendant of itself, and every
\* inode can be reached from the root, unless link has overwritten an entry on the way.
RECURSIVE Below(_)
Below(ds) ==
    LET more == ds \cup {e.ino : e \in {x \in Proper : x.dir \in ds}}
    IN IF more = ds THEN ds ELSE Below(more)
Connected ==
    /\ DOMAIN inodes \subseteq Below({Root} \cup {i \in Inos : lost[i] > 0})
    /\ \A i \in DOMAIN inodes \ {Root} : IsDir(i) => Cardinality({e \in Proper : e.ino = i}) + lost[i] = 1

\* The directories are a tree in which every inode is counted right, whatever is created,
\* linked, renamed (over something, or into another directory) and removed.
NamesSound == LinksExact /\ Connected

\* The daemon's caches never go stale, whatever is renamed, removed, forgotten and
\* looked up again: a cached name is an entry of the tree, and a cached directory's
\* parent is its parent.  (The kernel is told to cache for ever.)
CachesTrue ==
    NothingLost =>
        /\ panicked = None =>
            \A p \in DOMAIN names : Exists(p[1], p[2]) /\ Entry(p[1], p[2]).ino = names[p]
        /\ \A i \in DOMAIN files :
            IsDir(i) /\ i # Root => \E e \in Proper : e.ino = i /\ e.dir = files[i].parent

\* No assertion of the daemon fails, but for two: a file that is looked up by a second
\* name is taken for a reused inode number, and a file that has been unlinked cannot
\* be read, written or changed although the kernel has it open.
OnlyKnownPanics ==
    panicked # None /\ NothingLost =>
        \/ /\ panicked.what = "Inode number reuse detected"
           /\ inodes[panicked.ino].multi
        \/ /\ panicked.what \in {"Inode not found", "write: unwrap on None", "do_setattr: unwrap on None"}
           /\ panicked.ino \notin DOMAIN inodes

\* A client that reads a directory, however few entries at a time, gets every entry
\* once, also those that share a bucket, as long as the directory has one bucket.
ReaddirOnce ==
    \A d \in {i \in DOMAIN inodes : inodes[i].dir} :
        LET ks == KeysOf(table, d)
            here == {e \in Entries : e.dir = d}
        IN Cardinality({k \in ks : Len(table[k]) > 1}) <= 1 =>
            \A n \in 1 .. 2 :
                LET l == Listing(d, 0, 0, n)
                IN {l[j] : j \in DOMAIN l} = {e.name : e \in here} /\ Len(l) = Cardinality(here)

\* "BFFFS does not reuse deleted inodes."
NeverReused == [][\A i \in DOMAIN inodes' \ DOMAIN inodes : i \notin used]_vars

\* cache_file's assertion, "Inode number reuse detected".
NoInodeReuseDetected == panicked # None => panicked.what # "Inode number reuse detected"
=============================================================================
