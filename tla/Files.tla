------------------------------- MODULE Files --------------------------------
(***************************************************************************)
(* Descriptors and inodes: the descriptor tables of kern/fs/file.c and     *)
(* fs.c, the calls of kern/fs/vfs, and the table of inodes in memory of    *)
(* kern/fs/sfs/sfs_inode.c, with their reference counts.                   *)
(*                                                                         *)
(* A system call runs in the kernel with interrupts off; the disk is in    *)
(* memory and its locks are free whenever a call starts, so a call is one  *)
(* step.  Only a read of the console sleeps in the middle.  A call may run *)
(* out of memory (`oom').                                                  *)
(*                                                                         *)
(* The directory tree is fixed: SFS has neither create nor unlink.  What   *)
(* files contain and the positions of descriptors are left to SfsFile; of  *)
(* an inode's contents only the dirty mark remains.  A descriptor table    *)
(* belongs to one process, since no caller passes CLONE_FS.                *)
(***************************************************************************)
EXTENDS Integers, FiniteSets, Sequences, FiniteSetsExt, SequencesExt

CONSTANTS User,        \* user processes
          initproc,
          user_main,   \* the process that initproc starts
          NULL,
          NO_FD,
          FILES_STRUCT_NENTRY,
          Slot,        \* places for inodes of SFS in memory
          Dev,         \* inodes of character devices for input
          Dir, File,   \* inodes on the disk
          SFS_BLKN_ROOT,
          Entry,       \* Entry[d][name]: the inode of a name in directory d
          Path,        \* [from, name]: from is "cwd", "boot", "fs", a device or "unknown"
          Flags,       \* [acc, creat, excl, trunc, append]
          MaxLost,     \* bound: references that calls leave behind
          MaxOpened    \* bound: descriptors open at a time

Node == Slot \cup Dev
Fd == 0 .. FILES_STRUCT_NENTRY - 1
All == User \cup {initproc}

ASSUME FilesAssumption ==
    /\ FILES_STRUCT_NENTRY \in Nat /\ FILES_STRUCT_NENTRY > 2
    /\ SFS_BLKN_ROOT \in Dir /\ DOMAIN Entry = Dir
    /\ \A d \in Dir : \A name \in DOMAIN Entry[d] : Entry[d][name] \in Dir \cup File
    /\ \A path \in Path : path.from \in {"cwd", "boot", "fs", "unknown"} \cup Dev
    /\ user_main \in User /\ initproc \notin User /\ IsFiniteSet(User)
    /\ NULL \notin Dir \cup File \cup Node
    /\ Slot # {} /\ Slot \cap Dev = {} /\ Dir \cap File = {} /\ IsFiniteSet(Dir)

\* Every directory has a parent, and the way up from it ends.
ASSUME TreeAssumption ==
    /\ \A d \in Dir : ".." \in DOMAIN Entry[d] /\ Entry[d][".."] \in Dir
    /\ \E depth \in [Dir -> 0 .. Cardinality(Dir) - 1] :
         \A d \in Dir : Entry[d][".."] = d \/ depth[Entry[d][".."]] < depth[d]

VARIABLES fs,       \* inodes in memory, the list of those of SFS, bootfs_node
          filesp,   \* descriptor tables
          pwd,      \* current directories
          life,     \* "free", "thread" (user_main before it executes a program),
                    \* "user", "reading", "lost" (dead, or astray without a
                    \* program, its table still allocated)
          panic

files_vars == <<fs, filesp, pwd, life, panic>>

Freed == [ino |-> NULL, ref_count |-> 0, open_count |-> 0, reclaim_count |-> 0,
          dirty |-> FALSE, lost |-> 0]

\* A free entry; `ino', the file that the user opened, is there for NamesKept.
FD_NONE == [status |-> "FD_NONE", open_count |-> 0, node |-> NULL,
            ino |-> NULL]

fd_array_init == [fd \in Fd |-> FD_NONE]

-----------------------------------------------------------------------------
(***************************************************************************)
(* Inodes.  `c' is a value of fs.                                          *)
(***************************************************************************)
TypeOf(c, n) == IF n \in Dev THEN "dev" ELSE IF c.node[n].ino \in Dir THEN "dir" ELSE "file"

\* The operations of each type of inode; calling another fails an assertion.
Ops(type) ==
    CASE type = "dir"  -> {"fstat", "fsync", "namefile", "getdirentry", "lookup"}
      [] type = "file" -> {"fstat", "fsync", "read", "write", "tryseek", "truncate"}
      [] type = "dev"  -> {"fstat", "read", "write", "tryseek", "lookup"}

sfs_fsync(c, n) == [c EXCEPT !.node[n].dirty = FALSE]

inode_kill(c, n) == [c EXCEPT !.node[n] = Freed]

sfs_reclaim(c, n) ==
    LET c1 == [c EXCEPT !.node[n].reclaim_count = @ - 1]
    IN  IF c1.node[n].reclaim_count # 0 \/ c1.node[n].ref_count # 0
          THEN c1
          ELSE inode_kill([sfs_fsync(c1, n) EXCEPT !.list = @ \ {n}], n)

inode_ref_inc(c, n) == [c EXCEPT !.node[n].ref_count = @ + 1]

inode_ref_dec(c, n) ==
    LET c1 == [c EXCEPT !.node[n].ref_count = @ - 1]
    IN  IF c1.node[n].ref_count = 0 THEN sfs_reclaim(c1, n) ELSE c1

inode_open_inc(c, n) == [c EXCEPT !.node[n].open_count = @ + 1]

\* Mutant: only the reclaiming of an inode writes it.
Mutant_inode_open_dec_NoSync(c, n) == [c EXCEPT !.node[n].open_count = @ - 1]

\* The last close writes the inode to the disk (sfs_close).
inode_open_dec(c, n) ==
    LET c1 == [c EXCEPT !.node[n].open_count = @ - 1]
    IN  IF c1.node[n].open_count = 0 /\ n \notin Dev THEN sfs_fsync(c1, n) ELSE c1

vfs_close(c, n) == inode_ref_dec(inode_open_dec(c, n), n)

\* Results of calls that hand back an inode.
Found(c, n)  == [fs |-> c, node |-> n, ret |-> "0"]
Fails(c, ret) == [fs |-> c, node |-> NULL, ret |-> ret]

\* The result r of a lookup below n, whose own reference is given back.
GivenBack(r, n) == [r EXCEPT !.fs = inode_ref_dec(@, n)]

sfs_create_inode(c, n, ino) ==
    [c EXCEPT !.node[n] = [Freed EXCEPT !.ino = ino, !.ref_count = 1, !.reclaim_count = 1],
              !.list = @ \cup {n}]

\* Memory has room for as many inodes as there are slots.
sfs_load_inode(c, ino) ==
    LET cached == {n \in c.list : c.node[n].ino = ino}
        unused == {n \in Slot : c.node[n].ino = NULL}
        n      == CHOOSE m \in cached : TRUE
        new    == CHOOSE m \in unused : TRUE
        c1     == inode_ref_inc(c, n)
    IN  IF cached # {}
          THEN Found(IF c1.node[n].ref_count = 1
                       THEN [c1 EXCEPT !.node[n].reclaim_count = @ + 1] ELSE c1, n)
          ELSE IF unused = {} THEN Fails(c, "E_NO_MEM")
          ELSE Found(sfs_create_inode(c, new, ino), new)

sfs_lookup_once(c, n, name, oom) ==
    LET names == Entry[c.node[n].ino]
    IN  IF oom THEN Fails(c, "E_NO_MEM")
        ELSE IF name \in DOMAIN names THEN sfs_load_inode(c, names[name])
        ELSE Fails(c, "E_NOENT")

\* Mutant: a failed lookup keeps the reference to the directory.
Mutant_sfs_lookup_Keeps(c, n, name, oom) ==
    LET r == sfs_lookup_once(inode_ref_inc(c, n), n, name, oom)
    IN  IF r.ret # "0" THEN r ELSE GivenBack(r, n)

sfs_lookup(c, n, name, oom) ==
    GivenBack(sfs_lookup_once(inode_ref_inc(c, n), n, name, oom), n)

-----------------------------------------------------------------------------
(***************************************************************************)
(* Paths.  A path names where it starts and at most one name: SFS looks    *)
(* the whole rest of a path up as one entry of a directory.                *)
(***************************************************************************)
vfs_get_curdir(c, p) == Found(inode_ref_inc(c, pwd[p]), pwd[p])

vfs_get_bootfs(c) == Found(inode_ref_inc(c, c.bootfs), c.bootfs)

sfs_get_root(c) == sfs_load_inode(c, SFS_BLKN_ROOT)

\* The disk has a file system; the other devices cannot be mounted.
vfs_get_root(c, device) ==
    IF device = "fs" THEN sfs_get_root(c)
    ELSE IF device \in Dev THEN Found(inode_ref_inc(c, device), device)
    ELSE Fails(c, "E_NO_DEV")

get_device(c, p, path) ==
    CASE path.from = "cwd"  -> vfs_get_curdir(c, p)
      [] path.from = "boot" -> vfs_get_bootfs(c)
      [] OTHER              -> vfs_get_root(c, path.from)

vfs_lookup(c, p, path, oom) ==
    LET start == get_device(c, p, path)
        n     == start.node
        r     == IF n \in Dev THEN Fails(start.fs, "E_NOENT")
                              ELSE sfs_lookup(start.fs, n, path.name, oom)
    IN  IF start.ret # "0" \/ path.name = NULL THEN start
        ELSE GivenBack(r, n)

sfs_opendir(fl) == fl.acc = "r" /\ ~fl.append

stdin_open(fl) == fl.acc = "r"

dev_open(fl) == ~(fl.creat \/ fl.excl \/ fl.trunc \/ fl.append) /\ stdin_open(fl)

\* Whether the inode accepts the flags; a file accepts all.
vop_open(c, n, fl) ==
    CASE TypeOf(c, n) = "dir"  -> sfs_opendir(fl)
      [] TypeOf(c, n) = "file" -> TRUE
      [] TypeOf(c, n) = "dev"  -> dev_open(fl)

\* The inode n that the lookup found is opened.  `cut': the file was not empty
\* already.  O_CREAT truncates too.
OpenFound(c, n, fl, cut) ==
    LET trim == fl.trunc \/ fl.creat
    IN  IF ~vop_open(c, n, fl) THEN Fails(inode_ref_dec(c, n), "E_INVAL")
        ELSE IF trim /\ "truncate" \notin Ops(TypeOf(c, n))
               THEN Fails(inode_open_inc(c, n), "panic")
        ELSE Found([inode_open_inc(c, n) EXCEPT !.node[n].dirty = @ \/ (trim /\ cut)], n)

\* A missing file would be created by vop_create, which no inode has.
OpenLooked(r, fl, cut) ==
    IF r.ret = "E_NOENT" /\ fl.creat THEN Fails(r.fs, "panic")
    ELSE IF r.ret # "0" THEN r
    ELSE IF fl.excl /\ fl.creat
           THEN Fails([r.fs EXCEPT !.node[r.node].lost = @ + 1], "E_EXISTS")
    ELSE OpenFound(r.fs, r.node, fl, cut)

vfs_open(c, p, path, fl, oom, cut) ==
    IF fl.trunc /\ fl.acc = "r" THEN Fails(c, "E_INVAL")
    ELSE OpenLooked(vfs_lookup(c, p, path, oom), fl, cut)

-----------------------------------------------------------------------------
(***************************************************************************)
(* Descriptor tables.  `d' is a pair of a value of fs and a table.         *)
(***************************************************************************)
fd_array_alloc(tab, fd) ==
    LET none == {i \in Fd : tab[i].status = "FD_NONE"}
    IN  IF fd = NO_FD THEN IF none = {} THEN NULL ELSE Min(none)
        ELSE IF fd \in none THEN fd ELSE NULL

fd_array_open(tab, fd, n, ino) ==
    [tab EXCEPT ![fd] = [status |-> "FD_OPENED", open_count |-> 1, node |-> n, ino |-> ino]]

\* Mutant: a duplicate counts as open but takes no reference.
Mutant_fd_array_dup_NoRef(c, f) == inode_open_inc(c, f.node)

fd_array_dup(c, f) == inode_open_inc(inode_ref_inc(c, f.node), f.node)

fd_array_release(d, fd) ==
    LET f == d.tab[fd]
    IN  IF f.open_count > 1 THEN [d EXCEPT !.tab[fd].open_count = @ - 1]
        ELSE [fs |-> IF f.status = "FD_CLOSED" THEN vfs_close(d.fs, f.node) ELSE d.fs,
              tab |-> [d.tab EXCEPT ![fd] = FD_NONE]]

fd_array_close(d, fd) ==
    fd_array_release([d EXCEPT !.tab[fd].status = "FD_CLOSED"], fd)

CloseOpen(d, fd) ==
    IF d.tab[fd].status = "FD_OPENED" THEN fd_array_close(d, fd) ELSE d

\* The open descriptors from k on are closed, in that order.
ClosedFrom(d, k) ==
    LET closed[i \in k .. FILES_STRUCT_NENTRY] ==
          IF i = k THEN d ELSE CloseOpen(closed[i - 1], i - 1)
    IN  closed[FILES_STRUCT_NENTRY]

\* Keeps the descriptors of standard input and output.
files_closeall(d) == ClosedFrom(d, 2)

files_destroy(c, tab, dir) == ClosedFrom([fs |-> inode_ref_dec(c, dir), tab |-> tab], 0).fs

DupOpen(c, f) == IF f.status = "FD_OPENED" THEN fd_array_dup(c, f) ELSE c

dup_files(c, tab, dir) ==
    LET duped[i \in 0 .. FILES_STRUCT_NENTRY] ==
          IF i = 0 THEN inode_ref_inc(c, dir) ELSE DupOpen(duped[i - 1], tab[i - 1])
    IN  duped[FILES_STRUCT_NENTRY]

file_open(d, p, path, fl, oom, cut) ==
    LET fd == fd_array_alloc(d.tab, NO_FD)
        r  == vfs_open(d.fs, p, path, fl, oom, cut)
    IN  IF fd = NULL THEN [fs |-> d.fs, tab |-> d.tab, ret |-> "E_MAX_OPEN", fd |-> NULL]
        ELSE [fs |-> r.fs, ret |-> r.ret, fd |-> fd,
              tab |-> IF r.ret # "0" THEN d.tab
                      ELSE fd_array_open(d.tab, fd, r.node, r.fs.node[r.node].ino)]

-----------------------------------------------------------------------------
(***************************************************************************)
(* System calls.                                                           *)
(***************************************************************************)
RootNode == CHOOSE n \in Slot : TRUE

\* init_main has set bootfs_node to its current directory and forked
\* user_main, which shares that directory.
FilesInit ==
    /\ fs = [node |-> [n \in Node |->
                         IF n \in Dev THEN [Freed EXCEPT !.ino = n, !.ref_count = 1]
                         ELSE IF n = RootNode
                           THEN [Freed EXCEPT !.ino = SFS_BLKN_ROOT, !.ref_count = 3,
                                              !.reclaim_count = 1]
                         ELSE Freed],
             list |-> {RootNode}, bootfs |-> RootNode]
    /\ filesp = [p \in All |-> fd_array_init]
    /\ pwd = [p \in All |-> IF p \in {initproc, user_main} THEN RootNode ELSE NULL]
    /\ life = [p \in User |-> IF p = user_main THEN "thread" ELSE "free"]
    /\ panic = FALSE

Opened(p, fd) == filesp[p][fd].status = "FD_OPENED"

Descriptor == {d \in All \X Fd : Opened(d[1], d[2])}

\* k more descriptors stay within the bound.
MayOpen(k) == Cardinality(Descriptor) + k <= MaxOpened

\* What failed opens have left behind.
LostRefs == MapThenSumSet(LAMBDA n : fs.node[n].lost, Node)

Calls(p) == ~panic /\ life[p] = "user"

sys_open(p, path, fl) ==
    /\ Calls(p)
    /\ fd_array_alloc(filesp[p], NO_FD) = NULL \/ MayOpen(1)
    /\ fl.creat /\ fl.excl => LostRefs < MaxLost
    /\ \E oom \in {path.name # NULL, FALSE}, cut \in {fl.trunc \/ fl.creat, FALSE} :
         \E r \in {file_open([fs |-> fs, tab |-> filesp[p]], p, path, fl, oom, cut)} :
           /\ fs' = r.fs
           /\ filesp' = [filesp EXCEPT ![p] = r.tab]
           /\ panic' = (r.ret = "panic")
    /\ UNCHANGED <<pwd, life>>

sys_close(p, fd) ==
    /\ Calls(p) /\ Opened(p, fd)
    /\ LET d == fd_array_close([fs |-> fs, tab |-> filesp[p]], fd)
       IN  fs' = d.fs /\ filesp' = [filesp EXCEPT ![p] = d.tab]
    /\ UNCHANGED <<pwd, life, panic>>

sys_dup(p, fd1, fd2) ==
    LET f  == filesp[p][fd1]
        to == fd_array_alloc(filesp[p], fd2)
    IN  /\ Calls(p) /\ Opened(p, fd1) /\ to # NULL /\ MayOpen(1)
        /\ fs' = fd_array_dup(fs, f)
        /\ filesp' = [filesp EXCEPT ![p] = fd_array_open(@, to, f.node, f.ino)]
        /\ UNCHANGED <<pwd, life, panic>>

\* An operation that the descriptor's inode does not have.
MissingOp(p, fd) ==
    /\ Calls(p) /\ Opened(p, fd)
    /\ {"read", "getdirentry", "fsync", "tryseek"} \ Ops(TypeOf(fs, filesp[p][fd].node)) # {}
    /\ panic' = TRUE
    /\ UNCHANGED <<fs, filesp, pwd, life>>

\* A write, or a seek past the end, which needs no permission to write, may
\* change the inode.
Modify(p, fd) ==
    LET n == filesp[p][fd].node
    IN  /\ Calls(p) /\ Opened(p, fd) /\ TypeOf(fs, n) = "file"
        /\ fs' = [fs EXCEPT !.node[n].dirty = TRUE]
        /\ UNCHANGED <<filesp, pwd, life, panic>>

sys_fsync(p, fd) ==
    LET n == filesp[p][fd].node
    IN  /\ Calls(p) /\ Opened(p, fd) /\ "fsync" \in Ops(TypeOf(fs, n))
        /\ fs' = sfs_fsync(fs, n)
        /\ UNCHANGED <<filesp, pwd, life, panic>>

\* A read of the console sleeps with the descriptor held.
ReadSleeps(p, fd) ==
    /\ Calls(p) /\ Opened(p, fd) /\ filesp[p][fd].node \in Dev
    /\ filesp' = [filesp EXCEPT ![p][fd].open_count = @ + 1]
    /\ life' = [life EXCEPT ![p] = "reading"]
    /\ UNCHANGED <<fs, pwd, panic>>

ReadReturns(p, fd) ==
    /\ ~panic /\ life[p] = "reading" /\ filesp[p][fd].open_count > 1
    /\ LET d == fd_array_release([fs |-> fs, tab |-> filesp[p]], fd)
       IN  fs' = d.fs /\ filesp' = [filesp EXCEPT ![p] = d.tab]
    /\ life' = [life EXCEPT ![p] = "user"]
    /\ UNCHANGED <<pwd, panic>>

\* vfs_set_curdir with the directory the path names, whose reference from the
\* lookup is given back.
sys_chdir(p, path) ==
    /\ Calls(p)
    /\ \E oom \in BOOLEAN :
         \E r \in {vfs_lookup(fs, p, path, oom)} :
         LET n   == r.node
             set == r.ret = "0" /\ n # pwd[p] /\ TypeOf(r.fs, n) = "dir"
             c   == IF set THEN inode_ref_dec(inode_ref_inc(r.fs, n), pwd[p]) ELSE r.fs
         IN  /\ fs' = IF r.ret = "0" THEN inode_ref_dec(c, n) ELSE c
             /\ pwd' = IF set THEN [pwd EXCEPT ![p] = n] ELSE pwd
    /\ UNCHANGED <<filesp, life, panic>>

\* One turn of sfs_namefile: up to the parent, until the root or a failure.
UpTurn(w, oom) ==
    LET r == sfs_lookup_once(w.fs, w.node, "..", oom)
        c == inode_ref_dec(r.fs, w.node)
    IN  IF w.done THEN w
        ELSE IF r.ret # "0" THEN [w EXCEPT !.fs = c, !.done = TRUE]
        ELSE IF r.node = w.node THEN [w EXCEPT !.fs = inode_ref_dec(c, w.node), !.done = TRUE]
        ELSE [w EXCEPT !.fs = c, !.node = r.node]

\* `ooms': in which turns memory, or the caller's buffer, runs out.
sfs_namefile(c, dir, ooms) ==
    LET up[i \in 0 .. Cardinality(Dir)] ==
          IF i = 0 THEN [fs |-> inode_ref_inc(c, dir), node |-> dir, done |-> FALSE]
                   ELSE UpTurn(up[i - 1], ooms[i])
    IN  up[Cardinality(Dir)].fs

\* vfs_getcwd, which holds the directory meanwhile.
sys_getcwd(p) ==
    /\ Calls(p)
    /\ \E ooms \in [1 .. Cardinality(Dir) -> BOOLEAN] :
         fs' = inode_ref_dec(sfs_namefile(inode_ref_inc(fs, pwd[p]), pwd[p], ooms), pwd[p])
    /\ UNCHANGED <<filesp, pwd, life, panic>>

do_fork(p, q) ==
    /\ Calls(p) /\ life[q] = "free"
    /\ MayOpen(Cardinality({fd \in Fd : Opened(p, fd)}))
    /\ fs' = dup_files(fs, filesp[p], pwd[p])
    /\ filesp' = [filesp EXCEPT ![q] = filesp[p]]
    /\ pwd' = [pwd EXCEPT ![q] = pwd[p]]
    /\ life' = [life EXCEPT ![q] = "user"]
    /\ UNCHANGED panic

\* put_files; the process is reaped later without touching its files.
Exit(p, c, tab) ==
    /\ fs' = files_destroy(c, tab, pwd[p])
    /\ filesp' = [filesp EXCEPT ![p] = fd_array_init]
    /\ pwd' = [pwd EXCEPT ![p] = NULL]
    /\ life' = [life EXCEPT ![p] = "free"]

\* do_exit of a process without an mm skips put_files: its table stays.
ExitWithoutMm(p, c, tab) ==
    /\ fs' = c
    /\ filesp' = [filesp EXCEPT ![p] = tab]
    /\ pwd' = pwd
    /\ life' = [life EXCEPT ![p] = "lost"]

do_exit(p) ==
    /\ Calls(p)
    /\ Exit(p, fs, filesp[p])
    /\ UNCHANGED panic

ReadOnly == [acc |-> "r", creat |-> FALSE, excl |-> FALSE, trunc |-> FALSE, append |-> FALSE]

\* `loads': load_icode succeeds.  It seeks, which the console refuses and a
\* directory has no operation for.  The program's descriptor stays open.  When it
\* fails with ret = 0 (see Mm), user_main starts again; a user process has no mm
\* either way, and its exit, at once or later, skips put_files.
do_execve(p, path) ==
    /\ ~panic /\ life[p] \in {"thread", "user"} /\ MayOpen(1)
    /\ \E oom, loads \in BOOLEAN :
         \E d \in {files_closeall([fs |-> fs, tab |-> filesp[p]])} :
         \E r \in {file_open(d, p, path, ReadOnly, oom, FALSE)} :
         LET type == TypeOf(r.fs, r.tab[r.fd].node)
         IN  \/ /\ r.ret # "0" /\ life[p] = "user"
                /\ Exit(p, r.fs, r.tab)
                /\ UNCHANGED panic
             \/ /\ r.ret # "0" /\ life[p] = "thread"
                /\ ExitWithoutMm(p, r.fs, r.tab)
                /\ UNCHANGED panic
             \/ /\ r.ret = "0" /\ (type = "dev" \/ (type = "file" /\ ~loads))
                /\ ExitWithoutMm(p, r.fs, r.tab)
                /\ UNCHANGED panic
             \/ /\ r.ret = "0" /\ type = "file" /\ (loads \/ life[p] = "thread")
                /\ fs' = r.fs
                /\ filesp' = [filesp EXCEPT ![p] = r.tab]
                /\ life' = [life EXCEPT ![p] = IF loads THEN "user" ELSE "thread"]
                /\ UNCHANGED <<pwd, panic>>
             \/ /\ r.ret = "0" /\ type = "dir"
                /\ panic' = TRUE
                /\ UNCHANGED <<fs, filesp, pwd, life>>

\* initproc finds no children left: it writes everything to the disk, returns,
\* and its exit stops the kernel.
fs_cleanup ==
    /\ ~panic /\ \A p \in User : life[p] \in {"free", "lost"}
    /\ fs' = [fs EXCEPT !.node = [n \in Node |-> [@[n] EXCEPT !.dirty = FALSE]]]
    /\ panic' = TRUE
    /\ UNCHANGED <<filesp, pwd, life>>

FilesNext ==
    \/ \E p \in User :
         \/ \E path \in Path, fl \in Flags : sys_open(p, path, fl)
         \/ \E fd \in Fd : sys_close(p, fd) \/ MissingOp(p, fd) \/ Modify(p, fd)
                             \/ sys_fsync(p, fd) \/ ReadSleeps(p, fd) \/ ReadReturns(p, fd)
         \/ \E fd1 \in Fd, fd2 \in Fd \cup {NO_FD} : sys_dup(p, fd1, fd2)
         \/ \E path \in Path : sys_chdir(p, path) \/ do_execve(p, path)
         \/ sys_getcwd(p)
         \/ \E q \in User : do_fork(p, q)
         \/ do_exit(p)
    \/ fs_cleanup

FilesSpec == FilesInit /\ [][FilesNext]_files_vars

-----------------------------------------------------------------------------
(***************************************************************************)
(* Properties.                                                             *)
(***************************************************************************)
Holding(n) == {d \in Descriptor : filesp[d[1]][d[2]].node = n}

\* The counts of every inode in memory are exact: it is open as often as
\* descriptors name it, and referenced by those, by current directories, by the
\* boot directory or the device list, and by what failed opens left behind.
\* The list of SFS inodes holds exactly those in memory, one for each inode on
\* the disk (file.c, vfs/inode.c and lookup_sfs_nolock with sfs_reclaim).
RefsExact ==
    ~panic =>
      /\ \A n \in Node :
           LET i == fs.node[n]
           IN  i.ino # NULL =>
                 /\ i.open_count = Cardinality(Holding(n))
                 /\ i.ref_count = i.open_count + Cardinality({p \in All : pwd[p] = n})
                                  + i.lost + (IF n = fs.bootfs \/ n \in Dev THEN 1 ELSE 0)
                 /\ i.ref_count > 0
      /\ fs.list = {n \in Slot : fs.node[n].ino # NULL}
      /\ \A m, n \in fs.list : fs.node[m].ino = fs.node[n].ino => m = n

\* From open to close, through dup, fork, exec and whatever other processes
\* close, a descriptor names the file that was opened: its inode is not
\* reclaimed and its memory not given to another (file->node).  Current
\* directories stay directories.
NamesKept ==
    /\ \A d \in Descriptor : LET f == filesp[d[1]][d[2]] IN fs.node[f.node].ino = f.ino
    /\ \A p \in All : pwd[p] # NULL => fs.node[pwd[p]].ino \in Dir

\* An inode with changes that are not on the disk is open: the last close
\* writes it (sfs_close), whichever process and whichever way ends it.
NothingUnsaved == \A n \in Node : fs.node[n].dirty => fs.node[n].open_count > 0

=============================================================================
