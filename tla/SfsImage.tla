------------------------------ MODULE SfsImage ------------------------------
(***************************************************************************)
(* The life of an SFS disk: the host's tools/mksfs.c copies a directory    *)
(* tree into an image, the kernel mounts it (kern/fs/sfs/sfs_fs.c,         *)
(* vfs/vfsdev.c), works on its files (SfsFile), and writes back what is    *)
(* left when initproc ends.                                                *)
(*                                                                         *)
(* mksfs keeps inodes and entry blocks in memory until close_sfs writes    *)
(* them; nobody reads the image before that, so that the tables below      *)
(* stand for both.  Blocks are taken in the order of their numbers.        *)
(*                                                                         *)
(* No file or directory of the host is larger than the direct blocks and   *)
(* one entry block can map: the kernel cannot follow db_indirect.          *)
(***************************************************************************)
EXTENDS SfsFile, SequencesExt

CONSTANTS SFS_BLKBITS,
          Homes       \* [ninos, dir, bytes]: the size of the image file, the entries
                      \* [name, kind, real] of each directory, the contents of files

\* The numbers of the first blocks.
SFS_BLKN_ROOT == 1
SFS_BLKN_FREEMAP == 2

\* The root directory's inode, which has no inode of the host.
ROOT == "root"

\* The kinds of entries that are copied.
Copied == {"file", "dir", "link"}

ASSUME ImageAssumption ==
    /\ SFS_BLKBITS \in Nat \ {0}
    /\ \A h \in Homes :
         /\ h.ninos \in 1 .. NBlocks + 1
         /\ ROOT \in DOMAIN h.dir
         /\ \A d \in DOMAIN h.dir :
              Cardinality({e \in h.dir[d] : e.kind \in Copied}) + 2 <= SFS_NDIRECT + SFS_BLK_NENTRY
         /\ \A f \in DOMAIN h.bytes : BlocksFor(Len(h.bytes[f])) <= SFS_NDIRECT + SFS_BLK_NENTRY

VARIABLES phase,    \* "start", "mksfs", "failed", "image", "mounted", "off"
          mk,       \* the variables of mksfs
          disk0     \* the superblock and the free map on the disk

ivars == <<vars, phase, mk, disk0>>

NoSuper == [blocks |-> 0, unused_blocks |-> 0, dirty |-> FALSE]

-----------------------------------------------------------------------------
(***************************************************************************)
(* mksfs.  `m' is a value of mk: next_ino and unused_blocks; `ci', the     *)
(* inodes by the host's inode they copy; `entry', the blocks of            *)
(* directories; `data' and `table', other blocks as in SfsFile; `stack',   *)
(* the calls of open_dir in progress with the entries that readdir has not *)
(* returned yet; `copying', the entry whose file open_file is copying.     *)
(***************************************************************************)
sfs_alloc_ino(m) == [m EXCEPT !.next_ino = @ + 1, !.unused_blocks = @ - 1]

NoInode(ino, type) ==
    [ino |-> ino, type |-> type, nlinks |-> 0, size |-> 0, blocks |-> 0, indirect |-> 0,
     direct |-> [i \in 0 .. SFS_NDIRECT - 1 |-> 0]]

alloc_cache_inode(m, real, type) ==
    [sfs_alloc_ino(m) EXCEPT !.ci = Put(@, real, NoInode(m.next_ino, type))]

search_cache_inode(m, real) == real \in DOMAIN m.ci

\* The blocks of the free map follow the root's inode.
FirstFree(ninos) == SFS_BLKN_FREEMAP + (ninos + SFS_BLKBITS - 1) \div SFS_BLKBITS

create_sfs(h) ==
    [home |-> h, next_ino |-> FirstFree(h.ninos), unused_blocks |-> h.ninos - FirstFree(h.ninos),
     ci |-> Put(<<>>, ROOT, NoInode(SFS_BLKN_ROOT, "dir")), entry |-> <<>>,
     data |-> <<>>, table |-> <<>>, stack |-> <<>>, copying |-> NULL]

\* A short block is filled up with zeros.
write_block(m, bytes, ino) ==
    [m EXCEPT !.data =
       Put(@, ino, [i \in 0 .. SFS_BLKSIZE - 1 |-> IF i < Len(bytes) THEN bytes[i + 1] ELSE Zero])]

alloc_cache_block(m) == [sfs_alloc_ino(m) EXCEPT !.table = Put(@, m.next_ino, NoEntries)]

\* The entry block of an inode, allocated when it is first needed.
update_cache(m, real) ==
    IF m.ci[real].indirect # 0
      THEN m
      ELSE [alloc_cache_block(m) EXCEPT !.ci[real].indirect = m.next_ino]

append_block(m, real, size, ino) ==
    LET n == m.ci[real].blocks
        Grown(m1) == [m1 EXCEPT !.ci[real].blocks = n + 1, !.ci[real].size = @ + size]
        Enter(m1) == [m1 EXCEPT !.table[m1.ci[real].indirect][n - SFS_NDIRECT] = ino]
    IN  IF n < SFS_NDIRECT THEN [Grown(m) EXCEPT !.ci[real].direct[n] = ino]
                           ELSE Enter(update_cache(Grown(m), real))

\* The size of a directory is counted in entries here.
add_entry(m, dir, file, name) ==
    LET ino == m.next_ino
        m1  == [sfs_alloc_ino(m) EXCEPT
                  !.entry = Put(@, ino, [ino |-> m.ci[file].ino, name |-> name])]
    IN  [append_block(m1, dir, 1, ino) EXCEPT !.ci[file].nlinks = @ + 1]

\* open_dir, up to the first entry.
open_dir(m, dir, parent, name) ==
    [add_entry(add_entry(m, dir, dir, "."), dir, parent, "..") EXCEPT
       !.stack = Append(@, [dir |-> dir, name |-> name, todo |-> m.home.dir[dir]])]

\* open_link takes its block, then reads the link.
open_link(m, real) == append_block(sfs_alloc_ino(m), real, 1, m.next_ino)

Top == Last(mk.stack)

\* The next state of mksfs is m, unless the image has no block left.
Goes(m) ==
    /\ IF m.next_ino <= m.home.ninos THEN mk' = m /\ UNCHANGED phase
                                     ELSE mk' = NULL /\ phase' = "failed"
    /\ UNCHANGED <<vars, disk0>>

create_img ==
    /\ phase = "start"
    /\ IF FirstFree(mk.home.ninos) >= mk.home.ninos
         THEN mk' = NULL /\ phase' = "failed"
         ELSE /\ mk' = open_dir(create_sfs(mk.home), ROOT, ROOT, NULL)
              /\ phase' = "mksfs"
    /\ UNCHANGED <<vars, disk0>>

\* readdir has returned e.
Reading(e) == phase = "mksfs" /\ mk.copying = NULL /\ mk.stack # <<>> /\ e \in Top.todo

Taken(e) == [mk EXCEPT !.stack[Len(mk.stack)].todo = @ \ {e}]

SkipEntry(e) == Reading(e) /\ e.kind \notin Copied /\ Goes(Taken(e))

add_link(e) ==
    /\ Reading(e) /\ e.kind = "link"
    /\ Goes(add_entry(open_link(alloc_cache_inode(Taken(e), e.real, "link"), e.real),
                      Top.dir, e.real, e.name))

add_dir(e) ==
    /\ Reading(e) /\ e.kind = "dir"
    /\ Goes(open_dir(alloc_cache_inode(Taken(e), e.real, "dir"), e.real, Top.dir, e.name))

\* A file that has been copied under another name gets one more entry.
add_file(e) ==
    /\ Reading(e) /\ e.kind = "file"
    /\ IF search_cache_inode(mk, e.real)
         THEN Goes(add_entry(Taken(e), Top.dir, e.real, e.name))
         ELSE Goes([alloc_cache_inode(Taken(e), e.real, "file") EXCEPT !.copying = e])

\* A turn of open_file; at the end of the file add_file adds the entry.
open_file ==
    LET real == mk.copying.real
        all  == mk.home.bytes[real]
        from == mk.ci[real].blocks * SFS_BLKSIZE
        read == SubSeq(all, from + 1, Min({from + SFS_BLKSIZE, Len(all)}))
        ino  == mk.next_ino
    IN  /\ phase = "mksfs" /\ mk.copying # NULL
        /\ Goes(IF from < Len(all)
                  THEN append_block(write_block(sfs_alloc_ino(mk), read, ino),
                                    real, Len(read), ino)
                  ELSE [add_entry(mk, Top.dir, real, mk.copying.name) EXCEPT !.copying = NULL])

EndOfDir == phase = "mksfs" /\ mk.copying = NULL /\ Top.todo = {}

\* open_dir returns to add_dir, which adds the entry to the parent.
closedir ==
    /\ EndOfDir /\ Len(mk.stack) > 1
    /\ Goes(add_entry([mk EXCEPT !.stack = Front(@)],
                      mk.stack[Len(mk.stack) - 1].dir, Top.dir, Top.name))

\* The bits that are set in the block of the free map that starts with bit i.
FreeBits(i, next, ninos) ==
    LET start == IF i < next THEN next - i ELSE 0
        end   == IF i + SFS_BLKBITS > ninos THEN ninos - i ELSE SFS_BLKBITS
    IN  IF i + SFS_BLKBITS > next THEN {i + j : j \in start .. end - 1} ELSE {}

FreemapStarts(blocks) == {i \in 0 .. blocks - 1 : i % SFS_BLKBITS = 0}

\* open_dir of the root returns to create_img.
close_sfs ==
    /\ EndOfDir /\ Len(mk.stack) = 1
    /\ disk0' = [super |-> [blocks |-> mk.home.ninos, unused_blocks |-> mk.unused_blocks,
                            dirty |-> FALSE],
                 freemap |-> UNION {FreeBits(i, mk.next_ino, mk.home.ninos) :
                                      i \in FreemapStarts(mk.home.ninos)}]
    /\ phase' = "image"
    /\ UNCHANGED <<vars, mk>>

-----------------------------------------------------------------------------
(***************************************************************************)
(* Mounting and the end.                                                   *)
(***************************************************************************)

\* What the image holds beside the contents of files: free map, inodes, and the
\* blocks of directories and links.
ReservedBlocks ==
    LET other  == DOMAIN mk.ci \ File
        mapped == UNION {Range(mk.ci[r].direct) \cup {mk.ci[r].indirect} : r \in other}
        listed == UNION {Range(mk.table[mk.ci[r].indirect]) :
                           r \in {q \in other : mk.ci[q].indirect # 0}}
    IN  (SFS_BLKN_FREEMAP .. FirstFree(mk.home.ninos) - 1)
          \cup {mk.ci[r].ino : r \in DOMAIN mk.ci} \cup ((mapped \cup listed) \ {0})

\* How many bits of the free map are set; the map is whole blocks.
CountFree ==
    LET bits == SFS_BLKBITS * Cardinality(FreemapStarts(disk0.super.blocks))
    IN  Cardinality({i \in 0 .. bits - 1 : i \in disk0.freemap})

Contents(bytes) ==
    [i \in 0 .. SFS_MAX_FILE_SIZE - 1 |-> IF i < Len(bytes) THEN bytes[i + 1] ELSE Zero]

\* sfs_do_mount, called by vfs_mount, loads the superblock and the free map; sfs_init
\* panics when it fails.
sfs_do_mount ==
    /\ phase = "image"
    /\ panic' = IF CountFree = disk0.super.unused_blocks THEN "no" ELSE "sfs_mount"
    /\ super' = disk0.super /\ freemap' = disk0.freemap
    /\ reserved' = ReservedBlocks
    /\ ondisk' = [f \in File \cap DOMAIN mk.ci |->
                    [k \in {"size", "blocks", "indirect", "direct"} |-> mk.ci[f][k]]]
    /\ inode' = ondisk'
    /\ data' = mk.data /\ table' = mk.table
    /\ image' = [f \in File |-> IF f \in DOMAIN mk.ci THEN Contents(mk.home.bytes[f])
                                                      ELSE Contents(<<>>)]
    /\ mk' = NULL /\ phase' = "mounted"
    /\ UNCHANGED <<dirty, fd, pos, op, req, disk0>>

\* There is no memory for the structures of the file system.
MountFails ==
    /\ phase = "image"
    /\ panic' = "sfs_mount"
    /\ mk' = NULL /\ phase' = "failed"
    /\ UNCHANGED <<inode, ondisk, dirty, freemap, super, reserved, disk, fd, pos, op, req,
                   image, disk0>>

\* fs_cleanup: sfs_sync writes the inodes in memory, the superblock and the free map.
fs_cleanup ==
    /\ phase = "mounted" /\ panic = "no" /\ op = Idle /\ req = Idle
    /\ ondisk' = [f \in Present |-> IF dirty[f] THEN inode[f] ELSE ondisk[f]]
    /\ dirty' = [f \in File |-> FALSE]
    /\ disk0' = IF super.dirty THEN [super |-> [super EXCEPT !.dirty = FALSE], freemap |-> freemap]
                               ELSE disk0
    /\ super' = [super EXCEPT !.dirty = FALSE]
    /\ phase' = "off"
    /\ UNCHANGED <<inode, freemap, reserved, disk, fd, pos, op, req, panic, image, mk>>

\* A host directory, an image file, and a kernel that has mounted nothing.
Init ==
    /\ mk \in {[home |-> h] : h \in Homes} /\ phase = "start"
    /\ disk0 = [super |-> NoSuper, freemap |-> {}]
    /\ inode = <<>> /\ ondisk = <<>> /\ dirty = [f \in File |-> FALSE]
    /\ super = NoSuper /\ freemap = {} /\ reserved = {}
    /\ data = <<>> /\ table = <<>>
    /\ fd = [d \in Fd |-> NULL] /\ pos = [d \in Fd |-> 0]
    /\ op = Idle /\ req = Idle
    /\ panic = "no"
    /\ image = [f \in File |-> Contents(<<>>)]

mksfs ==
    \/ create_img \/ open_file \/ closedir \/ close_sfs
    \/ /\ phase = "mksfs"
       /\ \E e \in Top.todo : SkipEntry(e) \/ add_link(e) \/ add_dir(e) \/ add_file(e)

Next ==
    \/ mksfs \/ sfs_do_mount \/ MountFails \/ fs_cleanup
    \/ phase = "mounted" /\ FileNext /\ UNCHANGED <<phase, mk, disk0>>

Spec == Init /\ [][Next]_ivars

-----------------------------------------------------------------------------
\* The names in a directory of the image with the blocks of the inodes they name.
NamesIn(d) ==
    LET c == mk.ci[d]
        BlockOf(i) == IF i < SFS_NDIRECT THEN c.direct[i] ELSE mk.table[c.indirect][i - SFS_NDIRECT]
    IN  {mk.entry[BlockOf(i)] : i \in 0 .. c.blocks - 1}

\* What mksfs copied: the visible entries of a directory of the host.
CopiedOf(d) == {e \in mk.home.dir[d] : e.kind \in Copied}

\* The finished image has the tree of the host: every directory has its own names,
\* each naming the copy of what it names on the host, one copy for each file
\* whatever its names, and the links of an inode are counted.
TreeCopied ==
    phase = "image" =>
      LET dirs == {d \in DOMAIN mk.ci : mk.ci[d].type = "dir"}
          \* as entries, with the directory they are in
          all  == UNION {{<<d, n>> : n \in NamesIn(d)} : d \in dirs}
          Parent(d) == IF d = ROOT THEN {ROOT}
                       ELSE {q \in dirs : \E e \in CopiedOf(q) : e.real = d}
      IN  /\ \A d \in dirs :
               NamesIn(d) =
                 {[ino |-> mk.ci[e.real].ino, name |-> e.name] : e \in CopiedOf(d)}
                   \cup {[ino |-> mk.ci[d].ino, name |-> "."]}
                   \cup {[ino |-> mk.ci[q].ino, name |-> ".."] : q \in Parent(d)}
          /\ \A r, q \in DOMAIN mk.ci : mk.ci[r].ino = mk.ci[q].ino => r = q
          /\ \A r \in DOMAIN mk.ci :
               mk.ci[r].nlinks = Cardinality({x \in all : x[2].ino = mk.ci[r].ino})

\* What fs_cleanup leaves on the disk could be mounted: the superblock counts the
\* free map, which is the one in memory, and the inodes name the same blocks.
WrittenBack ==
    phase = "off" =>
      /\ disk0.freemap = freemap
      /\ disk0.super.unused_blocks = Cardinality(freemap)
      /\ \A f \in Present : /\ ondisk[f].direct = inode[f].direct
                            /\ ondisk[f].indirect = inode[f].indirect

\* The bitmap is exact from mksfs on: a block is marked used iff it holds a part of
\* some file or of the file system's own structures, no block holds two, whatever was
\* allocated, freed or given back on a full disk (sfs_bmap_get_sub_nolock:
\* failed_cleanup, sfs_bmap_free_sub_nolock), the superblock counts the free blocks
\* (the assertion of sfs_do_mount), the block map of a file has no holes, and the
\* last sync leaves all that on the disk.
BlocksOwnedOnce ==
    TypeOK /\ PrefixMapped /\ BitmapExact /\ WrittenBack

\* The image has the tree of the host and its files the host's bytes; from then on
\* the blocks of a file hold the bytes it was given, each at its offset: neither
\* the split of a call into turns and of a turn into head, blocks and tail nor the
\* block map misplaces one, and no write to one file shows in another.  Reads return
\* these bytes.
FilesHoldWrites ==
    TreeCopied /\ BytesInPlace /\ ReadsExact /\ CallExact
=============================================================================
