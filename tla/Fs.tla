---------------------------------- MODULE Fs ----------------------------------
(***************************************************************************)
(* The file system, kernel/fs.c: the list of mounts, newest first, and the *)
(* table of open files, both made of heap blocks.  The mount that open     *)
(* looks up is used for nothing, so open does not depend on it.            *)
(***************************************************************************)
EXTENDS HeapClient

CONSTANTS
    MAX_FILES,       \* size of the table of open files (1024)
    WORD,            \* 2^32: positions are modulo WORD
    Paths,           \* mountpoints callers name
    Cut,             \* path -> the first 255 characters of it
    Inodes,          \* inodes of the paths callers open: 0, 1, 2 or 3
    Offsets,         \* offsets given to seek
    MaxMounts        \* bound: mounts beside the root

Fds == 0..(MAX_FILES - 1)
ROOT == "/"
StdStreams == <<"stdin", "stdout", "stderr">>

VARIABLES
    mounted_fs_list,   \* sequence of [blk, mountpoint, sb]
    open_files         \* descriptor -> [blk, inode, pos], or NoFile

fsVars == <<mounted_fs_list, open_files>>

File(b, inode) == [blk |-> b, inode |-> inode, pos |-> 0]
NoFile == File(NULL, 0)
Mount(b, path, sb) == [blk |-> b, mountpoint |-> path, sb |-> sb]

ASSUME FsAssumption ==
    /\ MAX_FILES \in Nat /\ MAX_FILES > 2 /\ WORD \in Nat /\ WORD > 0
    /\ ROOT \in Paths /\ Cut \in [Paths -> Paths] /\ \A p \in Paths : Cut[Cut[p]] = Cut[p]
    /\ Inodes \subseteq 0..3 /\ Offsets \subseteq Int

FsInit ==
    /\ mounted_fs_list = <<>>
    /\ open_files = [fd \in Fds |-> NoFile]

-----------------------------------------------------------------------------
\* init_fs, one standard stream: its number is its inode and its descriptor.
\* Without memory the zeroes go to page 0, which is mapped, and the descriptor
\* stays free.
InitStream ==
    /\ boot # <<>>
    /\ \E i \in DOMAIN StdStreams :
         /\ Head(boot) = StdStreams[i]
         /\ \E b \in kmalloc(heap) :
              IF b = NULL
              THEN UNCHANGED <<heap, open_files>>
              ELSE /\ heap' = heap \cup {b}
                   /\ open_files' = [open_files EXCEPT ![i - 1] = File(b, i - 1)]
    /\ boot' = Tail(boot)
    /\ ret' = 0
    /\ UNCHANGED mounted_fs_list

\* init_fs, the root: a mount and its superblock, both or none.
InitRoot ==
    /\ boot = <<ROOT>>
    /\ \E b \in kmalloc(heap) : \E sb \in kmalloc(heap \cup {b}) :
         IF b = NULL \/ sb = NULL
         THEN UNCHANGED <<heap, mounted_fs_list>>
         ELSE /\ heap' = heap \cup {b, sb}
              /\ mounted_fs_list' = <<Mount(b, ROOT, sb)>>
    /\ boot' = <<>>
    /\ ret' = 0
    /\ UNCHANGED open_files

-----------------------------------------------------------------------------
MountsAt(path) == {i \in DOMAIN mounted_fs_list : mounted_fs_list[i].mountpoint = path}

\* mount: the whole path is compared, its first 255 characters are stored.
mount(path) ==
    /\ Up
    /\ Len(mounted_fs_list) <= MaxMounts
    /\ \E b \in kmalloc(heap) :
         IF MountsAt(path) # {} \/ b = NULL
         THEN ret' = -1 /\ UNCHANGED <<heap, mounted_fs_list>>
         ELSE /\ ret' = 0
              /\ heap' = heap \cup {b}
              /\ mounted_fs_list' = <<Mount(b, Cut[path], NULL)>> \o mounted_fs_list
    /\ UNCHANGED <<boot, open_files>>

\* umount: the newest mount at path goes, its superblock first.
umount(path) ==
    /\ Up
    /\ IF MountsAt(path) = {}
       THEN ret' = -1 /\ UNCHANGED <<heap, mounted_fs_list>>
       ELSE LET i == Min(MountsAt(path)) IN
            /\ ret' = 0
            /\ heap' = heap \ {mounted_fs_list[i].blk, mounted_fs_list[i].sb}
            /\ mounted_fs_list' = RemoveAt(mounted_fs_list, i)
    /\ UNCHANGED <<boot, open_files>>

-----------------------------------------------------------------------------
IsOpen(fd) == fd \in Fds /\ open_files[fd] # NoFile
FreeFds == {fd \in Fds : open_files[fd] = NoFile}

OpenKeepsBlock(inode) ==   \* mutant of open: no kfree when the table is full
    /\ Up
    /\ \E b \in kmalloc(heap) :
         IF b = NULL
         THEN ret' = -1 /\ UNCHANGED <<heap, open_files>>
         ELSE IF FreeFds = {}
         THEN ret' = -1 /\ heap' = heap \cup {b} /\ UNCHANGED open_files
         ELSE /\ ret' = 0
              /\ heap' = heap \cup {b}
              /\ open_files' = [open_files EXCEPT ![Min(FreeFds)] = File(b, inode)]
    /\ UNCHANGED <<boot, mounted_fs_list>>

\* open: a console path has inode 0, 1 or 2, any other path inode 3.  The lowest
\* free descriptor is taken; without one the block goes back.
open(inode) ==
    /\ Up
    /\ \E b \in kmalloc(heap) :
         IF b = NULL \/ FreeFds = {}
         THEN ret' = -1 /\ UNCHANGED <<heap, open_files>>
         ELSE /\ ret' = 0
              /\ heap' = heap \cup {b}
              /\ open_files' = [open_files EXCEPT ![Min(FreeFds)] = File(b, inode)]
    /\ UNCHANGED <<boot, mounted_fs_list>>

close(fd) ==
    /\ Up
    /\ IF IsOpen(fd)
       THEN /\ ret' = 0
            /\ heap' = heap \ {open_files[fd].blk}
            /\ open_files' = [open_files EXCEPT ![fd] = NoFile]
       ELSE ret' = -1 /\ UNCHANGED <<heap, open_files>>
    /\ UNCHANGED <<boot, mounted_fs_list>>

\* read: the console is read through sys_read, which knows descriptor 0 only;
\* any other file is empty.
read(fd) ==
    /\ Up
    /\ ret' = IF ~IsOpen(fd) \/ (open_files[fd].inode = 0 /\ fd # 0) THEN -1 ELSE 0
    /\ UNCHANGED <<heap, boot, mounted_fs_list, open_files>>

\* write: likewise through sys_write, which knows descriptors 1 and 2.
write(fd) ==
    /\ Up
    /\ ret' = IF ~IsOpen(fd) \/ (open_files[fd].inode \in {1, 2} /\ fd \notin {1, 2})
              THEN -1 ELSE 0
    /\ UNCHANGED <<heap, boot, mounted_fs_list, open_files>>

SeekFirst(fd, offset, whence) ==   \* mutant of seek: whence is looked at too late
    /\ Up
    /\ IF IsOpen(fd)
       THEN /\ ret' = IF whence \in 0..2 /\ offset % WORD # WORD - 1 THEN 0 ELSE -1
            /\ open_files' = [open_files EXCEPT ![fd].pos = offset % WORD]
       ELSE ret' = -1 /\ UNCHANGED open_files
    /\ UNCHANGED <<heap, boot, mounted_fs_list>>

\* seek: from the start (0), from here (1), or from an end nobody knows (2).  The
\* position is returned as an int: the last one reads as -1.
seek(fd, offset, whence) ==
    LET pos == CASE whence = 0 -> offset % WORD
                 [] whence = 1 -> (open_files[fd].pos + offset) % WORD
                 [] OTHER -> open_files[fd].pos
    IN /\ Up
       /\ IF IsOpen(fd) /\ whence \in 0..2
          THEN /\ ret' = IF pos = WORD - 1 THEN -1 ELSE 0
               /\ open_files' = [open_files EXCEPT ![fd].pos = pos]
          ELSE ret' = -1 /\ UNCHANGED open_files
       /\ UNCHANGED <<heap, boot, mounted_fs_list>>

\* Callers pass any descriptor, the two next to the table included.
FsNext ==
    \/ InitStream
    \/ InitRoot
    \/ \E path \in Paths : mount(path) \/ umount(path)
    \/ \E inode \in Inodes : open(inode)
    \/ \E fd \in -1..MAX_FILES :
         \/ close(fd) \/ read(fd) \/ write(fd)
         \/ \E offset \in Offsets, whence \in 0..3 : seek(fd, offset, whence)

-----------------------------------------------------------------------------
OpenFds == {fd \in Fds : IsOpen(fd)}

\* The blocks of open files, and of mounts with their superblocks.
FileBlocks == {open_files[fd].blk : fd \in OpenFds}
MountBlocks ==
    (UNION {{mounted_fs_list[i].blk, mounted_fs_list[i].sb} : i \in DOMAIN mounted_fs_list}) \ {NULL}
===============================================================================
