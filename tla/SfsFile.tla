------------------------------ MODULE SfsFile ------------------------------
(***************************************************************************)
(* The files of the simple file system: block map, reads, writes, resizing *)
(* and write-back of an inode (kern/fs/sfs/sfs_inode.c, sfs_io.c) under    *)
(* the descriptors of kern/fs/file.c and the system calls of sysfile.c.    *)
(*                                                                         *)
(* SfsImage says how the disk comes to be and is mounted.                  *)
(*                                                                         *)
(* The disk is memory, no call below gives up the CPU and the kernel is    *)
(* not preempted, so one system call is in progress at a time: `op'.  Its  *)
(* loops are broken into their turns.  Disk reads and writes do not fail;  *)
(* the disk fills up.                                                      *)
(*                                                                         *)
(* A block holds bytes (`data') or, used as an entry block, block numbers  *)
(* (`table').  Block number 0 means "none".  A failed assert or a panic    *)
(* stops the system with its reason in `panic'.                            *)
(***************************************************************************)
EXTENDS Integers, Sequences, FiniteSetsExt, TLC

CONSTANTS File, Fd, NULL,
          Byte,               \* what a byte may be set to
          Zero,               \* the byte of a cleared block
          NBlocks,            \* blocks of a disk beside the superblock, at most
          SFS_BLKSIZE, SFS_NDIRECT, SFS_BLK_NENTRY, SFS_MAX_FILE_SIZE,
          Writes,             \* the sequences of bytes that are written
          IOBUF_SIZE,         \* the buffer of sysfile_read and sysfile_write
          Reads,              \* how many bytes are read at a time
          SeekTo              \* the positions file_seek is asked for

ASSUME SfsAssumption ==
    /\ NULL \notin File /\ Zero \notin Byte
    /\ {NBlocks, SFS_BLKSIZE, SFS_BLK_NENTRY, SFS_MAX_FILE_SIZE, IOBUF_SIZE} \subseteq Nat \ {0}
    /\ SFS_NDIRECT \in Nat
    /\ Writes \subseteq Seq(Byte) /\ <<>> \notin Writes
    /\ SeekTo \subseteq Nat /\ Reads \subseteq Nat \ {0}

VARIABLES inode,     \* sin->din of the files that exist, read from the disk at the
                     \* first open
          ondisk,    \* the inode's block on the disk
          dirty,     \* sin->dirty
          freemap,   \* the blocks marked free
          super,     \* sfs->super and super_dirty
          reserved,  \* the blocks of superstructures, inodes and directories
          data, table,
          fd, pos,   \* the file and the position of each descriptor
          op,        \* the call of file.c in progress
          req,       \* the sysfile_read or sysfile_write it is a part of
          panic,
          image      \* history: the bytes each file has been given

disk == <<data, table>>

vars == <<inode, ondisk, dirty, freemap, super, reserved, data, table, fd, pos, op, req,
          panic, image>>

Present == DOMAIN inode

Block == 1 .. NBlocks

Blank == [i \in 0 .. SFS_BLKSIZE - 1 |-> Zero]

NoEntries == [i \in 0 .. SFS_BLK_NENTRY - 1 |-> 0]

Idle == [kind |-> "none"]

\* ROUNDUP_DIV(n, SFS_BLKSIZE)
BlocksFor(n) == (n + SFS_BLKSIZE - 1) \div SFS_BLKSIZE

\* f with the value v at x.
Put(f, x, v) == (x :> v) @@ f

-----------------------------------------------------------------------------
(***************************************************************************)
(* The block map.                                                          *)
(***************************************************************************)

\* The block recorded for index i, 0 if there is none.
Entry(f, i) ==
    IF i < SFS_NDIRECT
      THEN inode[f].direct[i]
      ELSE IF inode[f].indirect = 0 THEN 0
                                    ELSE table[inode[f].indirect][i - SFS_NDIRECT]

\* How many blocks sfs_bmap_get_nolock allocates to create index i.
Needed(f, i) ==
    CASE i >= SFS_NDIRECT /\ inode[f].indirect = 0 -> 2
      [] Entry(f, i) # 0                          -> 0
      [] OTHER                                    -> 1

\* The lowest block marked free.
bitmap_alloc(free) == Min(free)

\* Mutant: the block is not cleared.
Mutant_sfs_block_alloc_Dirty(new) ==
    /\ freemap' = freemap \ new
    /\ super' = [super EXCEPT !.unused_blocks = @ - Cardinality(new), !.dirty = new # {} \/ @]
    /\ data' = [b \in DOMAIN data \cup new |-> IF b \in DOMAIN data THEN data[b] ELSE Blank]

\* sfs_block_alloc, for the blocks new: they are marked used and cleared.
sfs_block_alloc(new) ==
    /\ freemap' = freemap \ new
    /\ super' = [super EXCEPT !.unused_blocks = @ - Cardinality(new), !.dirty = new # {} \/ @]
    /\ data' = [b \in DOMAIN data \cup new |-> IF b \in new THEN Blank ELSE data[b]]

sfs_block_free(b) ==
    /\ freemap' = freemap \cup {b}
    /\ super' = [super EXCEPT !.unused_blocks = @ + 1, !.dirty = TRUE]

\* The block of index i = din->blocks is created, with its entry block if that
\* does not exist, from the lowest free blocks.  dirty is set where the inode
\* itself gets a new block number.
CreateEntry(f, i) ==
    LET need   == Needed(f, i)
        first  == bitmap_alloc(freemap)
        ent    == IF need = 2 THEN first ELSE inode[f].indirect
        ino    == CASE need = 0 -> Entry(f, i)
                    [] need = 1 -> first
                    [] need = 2 -> bitmap_alloc(freemap \ {first})
        new    == CASE need = 0 -> {} [] need = 1 -> {ino} [] need = 2 -> {ent, ino}
    IN  /\ Cardinality(freemap) >= need
        /\ sfs_block_alloc(new)
        /\ IF i < SFS_NDIRECT
             THEN /\ inode' = [inode EXCEPT ![f].blocks = i + 1, ![f].direct[i] = ino]
                  /\ dirty' = [dirty EXCEPT ![f] = (need = 1) \/ @]
                  /\ UNCHANGED table
             ELSE /\ inode' = [inode EXCEPT ![f].blocks = i + 1, ![f].indirect = ent]
                  /\ dirty' = [dirty EXCEPT ![f] = (need = 2) \/ @]
                  /\ table' = Put(table, ent,
                       [(IF need = 2 THEN NoEntries ELSE table[ent]) EXCEPT
                          ![i - SFS_NDIRECT] = ino])
        /\ op' = [op EXCEPT !.ino = ino]

\* sfs_bmap_get_nolock without create.
FindEntry(f, i) ==
    /\ op' = [op EXCEPT !.ino = Entry(f, i)]
    /\ UNCHANGED <<inode, dirty, freemap, super, disk>>

\* sfs_bmap_load_nolock: index i of the file of the call in progress is looked
\* up or, one past the last, created.
sfs_bmap_load_nolock(i) ==
    LET f == op.file
    IN  /\ i <= inode[f].blocks /\ i < SFS_NDIRECT + SFS_BLK_NENTRY
        /\ IF i = inode[f].blocks THEN CreateEntry(f, i) ELSE FindEntry(f, i)
        /\ UNCHANGED <<ondisk, fd, pos, panic, image>>

\* The disk is full: what was allocated for the entry is freed again.
LoadFails(i) ==
    LET f == op.file
    IN  /\ i = inode[f].blocks /\ i < SFS_NDIRECT + SFS_BLK_NENTRY
        /\ Cardinality(freemap) < Needed(f, i)

\* The assertion of sfs_bmap_load_nolock, and the panic of sfs_bmap_get_nolock.
LoadPanics(i) ==
    /\ panic' = IF i > inode[op.file].blocks THEN "index <= din->blocks"
                                             ELSE "index out of range"
    /\ i > inode[op.file].blocks \/ i >= SFS_NDIRECT + SFS_BLK_NENTRY
    /\ UNCHANGED <<inode, ondisk, dirty, freemap, super, disk, fd, pos, op, image>>

-----------------------------------------------------------------------------
(***************************************************************************)
(* sfs_io_nolock.  Fields of op: `offset', `blkno', `alen' and `endpos'    *)
(* are the variables of the function, `ino' the block loaded for this      *)
(* turn or 0, `buf' the bytes to write or the bytes read so far, `start'   *)
(* the offset of the call.                                                 *)
(***************************************************************************)
Running(kinds) == panic = "no" /\ op.kind \in kinds

InIO == Running({"read", "write"})

\* Where a transfer of n bytes from offset on ends.
EndPos(f, kind, offset, n) ==
    Min({offset + n, SFS_MAX_FILE_SIZE, IF kind = "read" THEN inode[f].size ELSE SFS_MAX_FILE_SIZE})

\* file_read and file_write, up to the first turn.  A call with nothing to do (an
\* offset past the end) changes nothing.
BeginIO(d, kind, bytes, n) ==
    /\ pos[d] < EndPos(fd[d], kind, pos[d], n)
    /\ op' = [kind |-> kind, fd |-> d, file |-> fd[d], start |-> pos[d],
              offset |-> pos[d], endpos |-> EndPos(fd[d], kind, pos[d], n), alen |-> 0,
              blkno |-> pos[d] \div SFS_BLKSIZE, ino |-> 0, buf |-> bytes]
    /\ UNCHANGED <<inode, ondisk, dirty, freemap, super, disk, fd, pos, req, panic, image>>

file_read(d, n) == BeginIO(d, "read", <<>>, n)

file_write(d, bytes) == BeginIO(d, "write", bytes, Len(bytes))

\* `offset' counts the bytes too, but not those of the last step.
More == op.start + op.alen < op.endpos

LoadBlock == InIO /\ More /\ op.ino = 0 /\ sfs_bmap_load_nolock(op.blkno)

\* n bytes of the loaded block, from blkoff on, are copied to or from the place
\* in the buffer that the call has reached.
Transfer(blkoff, n) ==
    IF op.kind = "write"
      THEN /\ data' = [data EXCEPT ![op.ino] =
                 [i \in DOMAIN @ |-> IF i \in blkoff .. blkoff + n - 1
                                       THEN op.buf[op.alen + i - blkoff + 1] ELSE @[i]]]
           /\ image' = [image EXCEPT ![op.file] =
                 [i \in DOMAIN @ |-> IF i \in op.start + op.alen .. op.start + op.alen + n - 1
                                       THEN op.buf[i - op.start + 1] ELSE @[i]]]
      ELSE UNCHANGED <<data, image>>

\* What has been read after this turn.
Received(blkoff, n) ==
    IF op.kind = "write"
      THEN op.buf
      ELSE op.buf \o [k \in 1 .. n |-> data[op.ino][blkoff + k - 1]]

\* The call goes on with the next block.
NextTurn(blkoff, n) ==
    op' = [op EXCEPT !.offset = @ + n, !.alen = @ + n, !.blkno = @ + 1, !.ino = 0,
                     !.buf = Received(blkoff, n)]

Rest == UNCHANGED <<inode, ondisk, dirty, freemap, super, table, fd, pos, panic>>

\* Step 1: an unaligned start.
HeadStep ==
    LET blkoff == op.offset % SFS_BLKSIZE
        nblks  == op.endpos \div SFS_BLKSIZE - op.blkno
        n      == IF nblks # 0 THEN SFS_BLKSIZE - blkoff ELSE op.endpos - op.offset
    IN  /\ InIO /\ op.ino # 0 /\ blkoff # 0
        /\ Transfer(blkoff, n) /\ NextTurn(blkoff, n) /\ Rest

\* Step 2: a whole block.
BodyStep ==
    /\ InIO /\ op.ino # 0 /\ op.offset % SFS_BLKSIZE = 0
    /\ op.offset + SFS_BLKSIZE <= op.endpos
    /\ Transfer(0, SFS_BLKSIZE) /\ NextTurn(0, SFS_BLKSIZE) /\ Rest

\* Step 3: an unaligned end; offset does not advance here.
TailStep ==
    LET n == op.endpos - op.offset
    IN  /\ InIO /\ op.ino # 0 /\ op.offset % SFS_BLKSIZE = 0 /\ n < SFS_BLKSIZE
        /\ Transfer(0, n)
        /\ op' = [op EXCEPT !.alen = @ + n, !.ino = 0,
                            !.buf = Received(0, n)]
        /\ Rest

\* The end of sfs_io_nolock, sfs_io and file_read or file_write, once no step is
\* left or the disk is full: the size grows to offset + alen, where offset is
\* what the steps have made of it, and the position advances by alen.
EndIO ==
    LET f     == op.file
        reach == op.offset + op.alen
        grows == reach > inode[f].size
    IN  /\ InIO /\ op.ino = 0
        /\ More => LoadFails(op.blkno)
        /\ inode' = IF grows THEN [inode EXCEPT ![f].size = reach] ELSE inode
        /\ dirty' = [dirty EXCEPT ![f] = grows \/ @]
        /\ pos' = [pos EXCEPT ![op.fd] = @ + op.alen]
        /\ op' = Idle
        /\ UNCHANGED <<ondisk, freemap, super, disk, fd, panic, image>>

-----------------------------------------------------------------------------
(***************************************************************************)
(* sysfile_read and sysfile_write: file_read or file_write of at most      *)
(* IOBUF_SIZE bytes at a time, to or from a buffer of the kernel.  Fields  *)
(* of req: `len' and `copied' are the variables of the functions, `user'   *)
(* the caller's buffer, `base' the position at the start, `ret' whether    *)
(* the last turn has failed.  A descriptor is open for reading and writing *)
(* and there is memory for the buffer; otherwise the calls do nothing.     *)
(***************************************************************************)
BeginCall(d, kind, bytes, n) ==
    /\ fd[d] # NULL
    /\ req' = [kind |-> kind, fd |-> d, base |-> pos[d], len |-> n, copied |-> 0,
               user |-> bytes, ret |-> FALSE]
    /\ UNCHANGED <<inode, ondisk, dirty, freemap, super, disk, fd, pos, op, panic, image>>

sysfile_read(d, n) == BeginCall(d, "read", <<>>, n)

sysfile_write(d, bytes) == BeginCall(d, "write", bytes, Len(bytes))

InCall == panic = "no" /\ req # Idle /\ op = Idle

\* A turn of either loop.
Chunk ==
    LET alen == Min({IOBUF_SIZE, req.len})
    IN  /\ InCall /\ ~req.ret /\ req.len # 0
        /\ IF req.kind = "read"
             THEN file_read(req.fd, alen)
             ELSE file_write(req.fd, SubSeq(req.user, req.copied + 1, req.copied + alen))

\* What file_read or file_write has done is counted, and handed to the user.
EndChunk ==
    /\ EndIO
    /\ req' = [req EXCEPT !.len = @ - op.alen, !.copied = @ + op.alen, !.ret = More,
                          !.user = IF req.kind = "read" THEN @ \o op.buf ELSE @]

\* The user's buffer is not mapped: copy_from_user fails before a turn, or
\* copy_to_user after it, when the position has advanced already.
UserFault ==
    \/ /\ InCall /\ ~req.ret /\ req.kind = "write"
       /\ req' = Idle
       /\ UNCHANGED <<inode, ondisk, dirty, freemap, super, disk, fd, pos, op, panic, image>>
    \/ EndIO /\ op.kind = "read" /\ req' = Idle

\* Nothing is left, the last turn failed, or there was nothing to transfer.
ReturnCall ==
    /\ InCall
    /\ \/ req.len = 0 \/ req.ret
       \/ pos[req.fd] >= EndPos(fd[req.fd], req.kind, pos[req.fd], Min({IOBUF_SIZE, req.len}))
    /\ req' = Idle
    /\ UNCHANGED <<inode, ondisk, dirty, freemap, super, disk, fd, pos, op, panic, image>>

-----------------------------------------------------------------------------
(***************************************************************************)
(* sfs_truncfile, called by file_seek past the end and by an open that     *)
(* truncates.  `len' is the new size; `ret' is set when the disk is full.  *)
(***************************************************************************)
Resizing == Running({"seek", "open"}) /\ op.len # inode[op.file].size

Resize(kind, d, f, len) == [kind |-> kind, fd |-> d, file |-> f, len |-> len, ino |-> 0]

\* The assertion of sfs_truncfile on a file that has the length already.
ResizePanics ==
    /\ Running({"seek", "open"}) /\ op.len = inode[op.file].size
    /\ BlocksFor(op.len) # inode[op.file].blocks
    /\ panic' = "tblks == din->blocks"
    /\ UNCHANGED <<inode, ondisk, dirty, freemap, super, disk, fd, pos, op, image>>

\* One turn of the loop that adds blocks.
ResizeAdds ==
    /\ Resizing /\ inode[op.file].blocks < BlocksFor(op.len)
    /\ sfs_bmap_load_nolock(inode[op.file].blocks)

\* The block that the call in progress asks for next cannot be had: an assertion
\* or a panic in the block map.
BlockMapPanics ==
    LET index == IF InIO THEN op.blkno ELSE inode[op.file].blocks
    IN  /\ (InIO /\ More /\ op.ino = 0) \/ (Resizing /\ index < BlocksFor(op.len))
        /\ LoadPanics(index)

\* Mutant: the block goes back to the bitmap and stays in the entry block.
Mutant_sfs_bmap_truncate_nolock_KeepsEntry ==
    LET f == op.file
        i == inode[f].blocks - 1
    IN  /\ Resizing /\ inode[f].blocks > BlocksFor(op.len)
        /\ sfs_block_free(Entry(f, i))
        /\ inode' = IF i < SFS_NDIRECT
                      THEN [inode EXCEPT ![f].blocks = i, ![f].direct[i] = 0]
                      ELSE [inode EXCEPT ![f].blocks = i]
        /\ dirty' = [dirty EXCEPT ![f] = TRUE]
        /\ image' = [image EXCEPT ![f] =
             [k \in DOMAIN @ |-> IF k \div SFS_BLKSIZE = i THEN Zero ELSE @[k]]]
        /\ UNCHANGED <<ondisk, disk, fd, pos, op, panic>>

\* One turn of the loop that removes blocks: sfs_bmap_truncate_nolock frees the
\* last one; an entry block stays with the inode.
sfs_bmap_truncate_nolock ==
    LET f == op.file
        i == inode[f].blocks - 1
    IN  /\ Resizing /\ inode[f].blocks > BlocksFor(op.len)
        /\ sfs_block_free(Entry(f, i))
        /\ IF i < SFS_NDIRECT
             THEN /\ inode' = [inode EXCEPT ![f].blocks = i, ![f].direct[i] = 0]
                  /\ UNCHANGED table
             ELSE /\ inode' = [inode EXCEPT ![f].blocks = i]
                  /\ table' = [table EXCEPT ![inode[f].indirect][i - SFS_NDIRECT] = 0]
        /\ dirty' = [dirty EXCEPT ![f] = TRUE]
        /\ image' = [image EXCEPT ![f] =
             [k \in DOMAIN @ |-> IF k \div SFS_BLKSIZE = i THEN Zero ELSE @[k]]]
        /\ UNCHANGED <<ondisk, data, fd, pos, op, panic>>

\* The number of blocks is right, and the size is set.
ResizeEnds ==
    /\ Resizing /\ inode[op.file].blocks = BlocksFor(op.len)
    /\ inode' = [inode EXCEPT ![op.file].size = op.len]
    /\ dirty' = [dirty EXCEPT ![op.file] = TRUE]
    /\ UNCHANGED <<ondisk, freemap, super, disk, fd, pos, op, panic, image>>

Resized ==
    /\ Running({"seek", "open"}) /\ op.len = inode[op.file].size
    /\ BlocksFor(op.len) = inode[op.file].blocks

-----------------------------------------------------------------------------
\* file_seek: past the end the file is extended first.
file_seek(d, to) ==
    LET f == fd[d]
    IN  /\ panic = "no" /\ op = Idle /\ f # NULL
        /\ to < SFS_MAX_FILE_SIZE
        /\ IF to > inode[f].size
             THEN op' = Resize("seek", d, f, to) /\ UNCHANGED pos
             ELSE pos' = [pos EXCEPT ![d] = to] /\ UNCHANGED op
        /\ UNCHANGED <<inode, ondisk, dirty, freemap, super, disk, fd, panic, image>>

SeekEnds ==
    /\ Resized /\ op.kind = "seek"
    /\ pos' = [pos EXCEPT ![op.fd] = op.len]
    /\ op' = Idle
    /\ UNCHANGED <<inode, ondisk, dirty, freemap, super, disk, fd, panic, image>>

\* The disk is full: the blocks added so far stay, the size and the position do
\* not change.
SeekFails ==
    /\ Resizing /\ op.kind = "seek" /\ inode[op.file].blocks < BlocksFor(op.len)
    /\ LoadFails(inode[op.file].blocks)
    /\ op' = Idle
    /\ UNCHANGED <<inode, ondisk, dirty, freemap, super, disk, fd, pos, panic, image>>

\* file_open without and with truncation, and with O_APPEND.
file_open(d, f, append) ==
    /\ panic = "no" /\ op = Idle /\ fd[d] = NULL
    /\ fd' = [fd EXCEPT ![d] = f]
    /\ pos' = [pos EXCEPT ![d] = IF append THEN inode[f].size ELSE 0]
    /\ UNCHANGED <<inode, ondisk, dirty, freemap, super, disk, op, panic, image>>

OpenTruncate(d, f) ==
    /\ panic = "no" /\ op = Idle /\ fd[d] = NULL
    /\ op' = Resize("open", d, f, 0)
    /\ UNCHANGED <<inode, ondisk, dirty, freemap, super, disk, fd, pos, panic, image>>

OpenEnds ==
    /\ Resized /\ op.kind = "open"
    /\ fd' = [fd EXCEPT ![op.fd] = op.file]
    /\ pos' = [pos EXCEPT ![op.fd] = 0]
    /\ op' = Idle
    /\ UNCHANGED <<inode, ondisk, dirty, freemap, super, disk, panic, image>>

\* sfs_fsync: a dirty inode is written to its block.
sfs_fsync(f) ==
    /\ ondisk' = IF dirty[f] THEN [ondisk EXCEPT ![f] = inode[f]] ELSE ondisk
    /\ dirty' = [dirty EXCEPT ![f] = FALSE]

\* file_fsync
file_fsync(d) ==
    /\ panic = "no" /\ op = Idle /\ fd[d] # NULL
    /\ sfs_fsync(fd[d])
    /\ UNCHANGED <<inode, freemap, super, disk, fd, pos, op, panic, image>>

\* file_close: the last close of a file writes a dirty inode, and sfs_reclaim
\* drops the copy in memory; the next open loads what is on the disk.
file_close(d) ==
    LET f    == fd[d]
        last == \A e \in Fd \ {d} : fd[e] # f
    IN  /\ panic = "no" /\ op = Idle /\ f # NULL
        /\ fd' = [fd EXCEPT ![d] = NULL]
        /\ pos' = [pos EXCEPT ![d] = 0]
        /\ IF last THEN /\ sfs_fsync(f)
                        /\ inode' = [inode EXCEPT ![f] = ondisk'[f]]
                   ELSE UNCHANGED <<inode, ondisk, dirty>>
        /\ UNCHANGED <<freemap, super, disk, op, panic, image>>

Continue ==
    /\ \/ LoadBlock \/ HeadStep \/ BodyStep \/ TailStep
       \/ ResizeAdds \/ sfs_bmap_truncate_nolock \/ ResizeEnds
       \/ SeekEnds \/ SeekFails \/ OpenEnds
       \/ BlockMapPanics \/ ResizePanics
    /\ UNCHANGED req

ContinueCall == Chunk \/ EndChunk \/ UserFault \/ ReturnCall

\* One system call at a time.
Call(d) ==
    \/ /\ \/ \E f \in Present : (\E append \in BOOLEAN : file_open(d, f, append)) \/ OpenTruncate(d, f)
          \/ \E to \in SeekTo : file_seek(d, to)
          \/ file_fsync(d) \/ file_close(d)
       /\ UNCHANGED req
    \/ \E n \in Reads : sysfile_read(d, n)
    \/ \E bytes \in Writes : sysfile_write(d, bytes)

FileNext ==
    /\ \/ Continue
       \/ ContinueCall
       \/ panic = "no" /\ op = Idle /\ req = Idle /\ \E d \in Fd : Call(d)
    /\ UNCHANGED reserved

-----------------------------------------------------------------------------
BlockOrNone == 0 .. NBlocks

InodeType ==
    [size : 0 .. 2 * SFS_MAX_FILE_SIZE, blocks : 0 .. SFS_NDIRECT + SFS_BLK_NENTRY,
     indirect : BlockOrNone, direct : [0 .. SFS_NDIRECT - 1 -> BlockOrNone]]

TypeOK ==
    /\ Present \subseteq File
    /\ inode \in [Present -> InodeType] /\ ondisk \in [Present -> InodeType]
    /\ dirty \in [File -> BOOLEAN]
    /\ freemap \subseteq Block /\ reserved \subseteq Block
    /\ super \in [blocks : 0 .. NBlocks + 1, unused_blocks : 0 .. NBlocks, dirty : BOOLEAN]
    /\ DOMAIN data \subseteq Block /\ DOMAIN table \subseteq Block
    /\ data \in [DOMAIN data -> [0 .. SFS_BLKSIZE - 1 -> Byte \cup {Zero}]]
    /\ table \in [DOMAIN table -> [0 .. SFS_BLK_NENTRY - 1 -> BlockOrNone]]
    /\ fd \in [Fd -> File \cup {NULL}]
    /\ pos \in [Fd -> 0 .. 2 * SFS_MAX_FILE_SIZE]
    /\ op.kind \in {"none", "read", "write", "seek", "open"}
    /\ panic \in {"no", "sfs_mount", "index <= din->blocks", "index out of range", "tblks == din->blocks"}

Indices == 0 .. SFS_NDIRECT + SFS_BLK_NENTRY - 1

\* Where an inode refers to a block: its indices, and -1 for its entry block.
Places(f) ==
    {<<f, i>> : i \in {k \in Indices : Entry(f, k) # 0}}
      \cup (IF inode[f].indirect = 0 THEN {} ELSE {<<f, -1>>})

BlockAt(place) == IF place[2] = -1 THEN inode[place[1]].indirect
                                   ELSE Entry(place[1], place[2])

\* Every index below din->blocks has a block, so that the assertion on the block
\* sfs_bmap_load_nolock has found (sfs_inode.c:363) holds.
PrefixMapped == \A f \in Present : \A i \in 0 .. inode[f].blocks - 1 : Entry(f, i) # 0

\* A block is marked used iff some file refers to it or it is reserved, no block
\* is referred to twice, be it by two files or as data and entry block of one, and
\* the superblock counts the blocks marked free.
BitmapExact ==
    LET places == UNION {Places(f) : f \in Present}
    IN  /\ {BlockAt(x) : x \in places} \cup reserved = (1 .. super.blocks - 1) \ freemap
        /\ \A x \in places : BlockAt(x) \notin reserved
        /\ \A x, y \in places : BlockAt(x) = BlockAt(y) => x = y
        /\ freemap \subseteq 1 .. super.blocks - 1
        /\ super.unused_blocks = Cardinality(freemap)

\* A read has copied the bytes of the file from its start on, as many as it says
\* and never more than it was asked for or the file has.
ReadsExact ==
    op.kind = "read" =>
      /\ Len(op.buf) = op.alen /\ op.start + op.alen <= op.endpos
      /\ \A k \in 1 .. op.alen : op.buf[k] = image[op.file][op.start + k - 1]

\* Between two turns sysfile_read and sysfile_write have transferred `copied' bytes
\* of the caller's buffer, from the position at the start on, and the position says so.
CallExact ==
    req # Idle /\ op = Idle =>
      /\ pos[req.fd] = req.base + req.copied
      /\ req.kind = "read" => Len(req.user) = req.copied
      /\ \A k \in 1 .. req.copied : req.user[k] = image[fd[req.fd]][req.base + k - 1]

\* The blocks of a file hold the bytes it was given, each at its offset.
BytesInPlace ==
    \A f \in Present : \A k \in 0 .. inode[f].blocks * SFS_BLKSIZE - 1 :
       k < SFS_MAX_FILE_SIZE =>
         data[Entry(f, k \div SFS_BLKSIZE)][k % SFS_BLKSIZE] = image[f][k]

\* The assertion of sfs_truncfile (sfs_inode.c:1057, "tblks == din->blocks")
\* between calls: a file has the blocks its size asks for.  Does not hold:
\* sfs_io_nolock adds the length to an offset that its steps have advanced
\* (sfs_inode.c:762), so that a write of one whole block leaves a size of two.
SizeMatchesBlocks ==
    op = Idle => \A f \in Present : inode[f].blocks = BlocksFor(inode[f].size)

\* The assertion of sfs_bmap_load_nolock (sfs_inode.c:356, "index <= din->blocks").
\* Does not hold: a position beyond the end of the file reaches it.
IndexWithinFile == panic # "index <= din->blocks"

\* A file may grow to SFS_MAX_FILE_SIZE (sfs.h:20).  Does not hold where the direct
\* blocks and one entry block map less than that: sfs_bmap_get_nolock panics.
MaxSizeReachable == panic # "index out of range"

\* sfs.h:71, dirty is "true if inode modified": an inode that is not dirty is the
\* same on the disk.  Does not hold: sfs_bmap_load_nolock (sfs_inode.c:365) counts
\* a block it has added through an existing entry block without setting the flag.
CleanOnDisk ==
    op = Idle => \A f \in Present : ~dirty[f] => inode[f] = ondisk[f]
=============================================================================
