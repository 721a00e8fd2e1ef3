-------------------------------- MODULE Files --------------------------------
(***************************************************************************)
(* The device manager and the file system as kernel_main starts them, one  *)
(* after the other, on one heap.                                           *)
(***************************************************************************)
EXTENDS Device, Fs

filesVars == <<heap, boot, ret, device_list, owned, mounted_fs_list, open_files>>

FilesInit ==
    /\ heap = {}
    /\ boot = StdDevices \o StdStreams \o <<ROOT>>
    /\ ret = 0
    /\ DeviceInit
    /\ FsInit

FilesNext ==
    \/ DeviceNext /\ UNCHANGED fsVars
    \/ FsNext /\ UNCHANGED <<device_list, owned>>

FilesSpec == FilesInit /\ [][FilesNext]_filesVars

-----------------------------------------------------------------------------
TypeOK ==
    /\ heap \subseteq Blocks
    /\ ret \in {-1, 0}
    /\ \A d \in owned \cup {device_list[i] : i \in DOMAIN device_list} :
         d.blk \in Blocks /\ d.name \in DeviceNames
    /\ \A i \in DOMAIN mounted_fs_list :
         mounted_fs_list[i].blk \in Blocks /\ mounted_fs_list[i].sb \in Blocks \cup {NULL}
    /\ open_files \in [Fds -> [blk : Blocks \cup {NULL}, inode : 0..3, pos : 0..(WORD - 1)]]

\* The number of places that hold a block.
Holders ==
    Cardinality(owned) + Len(device_list) + Cardinality(OpenFds) + Len(mounted_fs_list)
      + Cardinality({i \in DOMAIN mounted_fs_list : mounted_fs_list[i].sb # NULL})

\* Every allocated block has one holder, and every holder's block is allocated:
\* whatever failed half way, nothing leaks, is freed twice or is used after.
HeapExact ==
    /\ heap = DeviceBlocks \cup FileBlocks \cup MountBlocks
    /\ Cardinality(heap) = Holders

\* A call that answers -1 has changed nothing, except a seek to the position
\* that reads as -1.
FailuresChangeNothing ==
    [][ret' = -1 =>
         /\ UNCHANGED <<heap, device_list, owned, mounted_fs_list>>
         /\ \A fd \in Fds : open_files'[fd] # open_files[fd] => open_files'[fd].pos = WORD - 1]_filesVars
==============================================================================
