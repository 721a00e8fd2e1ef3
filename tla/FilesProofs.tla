----------------------------- MODULE FilesProofs -----------------------------
(***************************************************************************)
(* Proofs about the device manager and the file system on one heap, for    *)
(* every number of blocks, devices, descriptors and mounts: no block leaks *)
(* or has two holders, a failed call changes nothing, and the device list  *)
(* implements the registry of names.                                       *)
(***************************************************************************)
EXTENDS Files, SequenceTheorems, FiniteSetTheorems, FunctionTheorems, WellFoundedInduction, TLAPS

\* The minimum of a set of naturals that is not empty.
LEMMA MinNat ==
    ASSUME NEW S, S \subseteq Nat, S # {}
    PROVE  Min(S) \in S /\ \A y \in S : Min(S) <= y
<1> DEFINE R == OpToRel(<, Nat)
<1>1. \A x, y \in Nat : <<y, x>> \in R <=> y < x
  BY DEF OpToRel
<1>2. IsWellFoundedOn(R, Nat)
  BY NatLessThanWellFounded, Zenon
<1> HIDE DEF R
<1>3. PICK x \in S : \A y \in S : ~(<<y, x>> \in R)
  BY <1>2, WFMin, Zenon
<1>4. ASSUME NEW y \in S PROVE ~(y < x)
  <2>1. x \in Nat /\ y \in Nat
    OBVIOUS
  <2> QED
    BY <1>1, <1>3, <2>1, Zenon
<1>5. \A y \in S : x <= y
  BY <1>4
<1> QED
  BY <1>5 DEF Min

-----------------------------------------------------------------------------
\* r is s without its element at k: the elements behind it have moved up.
Drops(r, s, k) ==
    /\ Len(r) = Len(s) - 1
    /\ \A i \in 1..(Len(s) - 1) : r[i] = s[IF i < k THEN i ELSE i + 1]

\* RemoveAt takes one element out.
LEMMA RemoveAtDrops ==
    ASSUME NEW S, NEW s \in Seq(S), NEW k \in 1..Len(s)
    PROVE  RemoveAt(s, k) \in Seq(S) /\ Drops(RemoveAt(s, k), s, k)
<1> DEFINE n == Len(s)
           a == SubSeq(s, 1, k - 1)
           b == SubSeq(s, k + 1, n)
           r == RemoveAt(s, k)
<1>1. r = a \o b
  BY DEF RemoveAt
<1>2. a \in Seq(S) /\ Len(a) = k - 1 /\ \A i \in 1..(k - 1) : a[i] = s[i]
  OBVIOUS
<1>3. b \in Seq(S) /\ Len(b) = n - k /\ \A i \in 1..(n - k) : b[i] = s[i + k]
  OBVIOUS
<1>4. n \in Nat /\ k \in 1..n
  OBVIOUS
<1> HIDE DEF a, b, r
<1>5. /\ r \in Seq(S) /\ Len(r) = Len(a) + Len(b)
      /\ \A j \in 1..(Len(a) + Len(b)) : r[j] = IF j <= Len(a) THEN a[j] ELSE b[j - Len(a)]
  BY <1>1, <1>2, <1>3, ConcatProperties
<1> HIDE DEF n
<1>6. Len(r) = n - 1
  BY <1>2, <1>3, <1>4, <1>5
<1>7. ASSUME NEW i \in 1..(n - 1) PROVE r[i] = s[IF i < k THEN i ELSE i + 1]
  <2>1. i \in 1..(Len(a) + Len(b))
    BY <1>2, <1>3, <1>4
  <2>2. r[i] = IF i <= Len(a) THEN a[i] ELSE b[i - Len(a)]
    BY <2>1, <1>5
  <2>3. CASE i < k
    <3>1. i <= Len(a) /\ i \in 1..(k - 1)
      BY <2>3, <1>2, <1>4
    <3> QED
      BY <3>1, <2>2, <2>3, <1>2
  <2>4. CASE ~(i < k)
    <3>1. ~(i <= Len(a)) /\ i - Len(a) \in 1..(n - k) /\ (i - Len(a)) + k = i + 1
      BY <2>4, <1>2, <1>4
    <3> QED
      BY <3>1, <2>2, <2>4, <1>3
  <2> QED
    BY <2>3, <2>4
<1> QED
  BY <1>5, <1>6, <1>7 DEF Drops, r, n

\* u says where in s each element of r, which lacks the one at k, comes from.
Places(u, r, s, k) ==
    /\ \A i \in 1..Len(r) : u[i] \in 1..Len(s) /\ u[i] # k /\ r[i] = s[u[i]]
    /\ \A i, j \in 1..Len(r) : u[i] = u[j] => i = j
    /\ \A j \in 1..Len(s) : j # k => \E i \in 1..Len(r) : u[i] = j

\* All elements but one stay, each in a place of its own.
LEMMA DropsPlaces ==
    ASSUME NEW S, NEW s \in Seq(S), NEW k \in 1..Len(s), NEW r \in Seq(S), Drops(r, s, k)
    PROVE  \E u : Places(u, r, s, k)
<1> DEFINE n == Len(s)
           u == [i \in 1..(n - 1) |-> IF i < k THEN i ELSE i + 1]
<1>1. n \in Nat /\ k \in 1..n /\ Len(r) = n - 1
      /\ \A i \in 1..(n - 1) : r[i] = s[IF i < k THEN i ELSE i + 1]
  BY DEF Drops
<1> HIDE DEF n
<1>2. \A i \in 1..(n - 1) : u[i] = IF i < k THEN i ELSE i + 1
  OBVIOUS
<1> HIDE DEF u
<1>3. /\ \A i \in 1..(n - 1) : u[i] \in 1..n /\ u[i] # k /\ r[i] = s[u[i]]
      /\ \A i, j \in 1..(n - 1) : u[i] = u[j] => i = j
  <2>1. \A i \in 1..(n - 1) : r[i] = s[u[i]]
    BY <1>1, <1>2
  <2>2. n \in Nat /\ k \in 1..n
    BY <1>1
  <2>3. \A i \in 1..(n - 1) : u[i] \in 1..n /\ u[i] # k
    BY <1>2, <2>2
  <2>4. \A i, j \in 1..(n - 1) : u[i] = u[j] => i = j
    BY <1>2, <2>2
  <2> QED
    BY <2>1, <2>3, <2>4
<1>4. ASSUME NEW j \in 1..n, j # k PROVE \E i \in 1..(n - 1) : u[i] = j
  <2>1. CASE j < k
    <3>1. j \in 1..(n - 1) /\ u[j] = j
      BY <2>1, <1>1, <1>2
    <3> QED
      BY <3>1
  <2>2. CASE j > k
    <3>1. j - 1 \in 1..(n - 1) /\ u[j - 1] = j
      BY <2>2, <1>1, <1>2
    <3> QED
      BY <3>1
  <2>3. j < k \/ j > k
    <3>1. j \in Int /\ k \in Int /\ j # k
      BY <1>1, <1>4
    <3> QED
      BY <3>1
  <2> QED
    BY <2>1, <2>2, <2>3
<1>5. Places(u, r, s, k)
  BY <1>1, <1>3, <1>4 DEF Places, n
<1> QED
  BY <1>5

\* A list with an element put in front.
LEMMA ConsPlaces ==
    ASSUME NEW S, NEW s \in Seq(S), NEW x \in S
    PROVE  /\ <<x>> \o s \in Seq(S) /\ Len(<<x>> \o s) = Len(s) + 1 /\ (<<x>> \o s)[1] = x
           /\ \A i \in 1..Len(s) : (<<x>> \o s)[i + 1] = s[i]
           /\ \A i \in 1..(Len(s) + 1) : i = 1 \/ \E j \in 1..Len(s) : i = j + 1
<1> DEFINE n == Len(s)
           r == <<x>> \o s
<1>1. <<x>> \in Seq(S) /\ Len(<<x>>) = 1 /\ <<x>>[1] = x /\ n \in Nat
  OBVIOUS
<1>2. /\ r \in Seq(S) /\ Len(r) = 1 + n
      /\ \A i \in 1..(1 + n) : r[i] = IF i <= 1 THEN <<x>>[i] ELSE s[i - 1]
  BY <1>1, ConcatProperties
<1> HIDE DEF r, n
<1>3. Len(r) = n + 1 /\ r[1] = x
  BY <1>1, <1>2
<1>4. ASSUME NEW i \in 1..n PROVE r[i + 1] = s[i]
  <2>1. i + 1 \in 1..(1 + n) /\ ~(i + 1 <= 1) /\ (i + 1) - 1 = i
    BY <1>1
  <2> QED
    BY <2>1, <1>2
<1>5. ASSUME NEW i \in 1..(n + 1) PROVE i = 1 \/ \E j \in 1..n : i = j + 1
  <2>1. i # 1 => i - 1 \in 1..n /\ i = (i - 1) + 1
    BY <1>1
  <2> QED
    BY <2>1
<1> QED
  BY <1>2, <1>3, <1>4, <1>5 DEF r, n

-----------------------------------------------------------------------------

\* The entries of the two lists and of the table of open files.
Devices == [blk : Blocks, name : DeviceNames, ops : {StdOps, DriverOps}]
Mounts == [blk : Blocks, mountpoint : Paths, sb : Blocks \cup {NULL}]
OpenFiles == [blk : Blocks \cup {NULL}, inode : 0..3, pos : 0..(WORD - 1)]

VarsOK ==
    /\ ret \in {-1, 0}
    /\ device_list \in Seq(Devices) /\ owned \subseteq Devices /\ IsFiniteSet(owned)
    /\ mounted_fs_list \in Seq(Mounts)
    /\ open_files \in [Fds -> OpenFiles]
    /\ \A fd \in Fds : open_files[fd].blk = NULL => open_files[fd] = NoFile

\* The blocks of each kind of holder.
OwnedBlks == {d.blk : d \in owned}
ListedBlks == {device_list[i].blk : i \in 1..Len(device_list)}
MountBlks == {mounted_fs_list[i].blk : i \in 1..Len(mounted_fs_list)}
SuperAt == {i \in 1..Len(mounted_fs_list) : mounted_fs_list[i].sb # NULL}
SuperBlks == {mounted_fs_list[i].sb : i \in SuperAt}

\* Five sets of which no two share a block.
Apart(A, B, C, D, E) ==
    /\ A \cap B = {} /\ A \cap C = {} /\ A \cap D = {} /\ A \cap E = {}
    /\ B \cap C = {} /\ B \cap D = {} /\ B \cap E = {}
    /\ C \cap D = {} /\ C \cap E = {} /\ D \cap E = {}

\* The allocated blocks are the holders', and no holder shares its block with one
\* of its kind
Held == heap = OwnedBlks \cup ListedBlks \cup FileBlocks \cup MountBlks \cup SuperBlks
OwnedOnce == \A d, e \in owned : d.blk = e.blk => d = e
ListedOnce ==
    \A i, j \in 1..Len(device_list) : device_list[i].blk = device_list[j].blk => i = j
FilesOnce == \A fd, g \in OpenFds : open_files[fd].blk = open_files[g].blk => fd = g
MountsOnce ==
    /\ \A i, j \in 1..Len(mounted_fs_list) :
         mounted_fs_list[i].blk = mounted_fs_list[j].blk => i = j
    /\ \A i, j \in SuperAt : mounted_fs_list[i].sb = mounted_fs_list[j].sb => i = j

\* or with one of another kind.
AllApart == Apart(OwnedBlks, ListedBlks, FileBlocks, MountBlks, SuperBlks)

\* No name is listed twice.
NamesOnce ==
    \A i, j \in 1..Len(device_list) : device_list[i].name = device_list[j].name => i = j

\* After k steps of start-up: what is still to be set up is not there yet.
Items == {"null", "zero", "console", "stdin", "stdout", "stderr", ROOT}
Script == StdDevices \o StdStreams \o <<ROOT>>
BootAt(k) ==
    /\ boot \in Seq(Items) /\ Len(boot) = 7 - k
    /\ \A i \in 1..(7 - k) : boot[i] = Script[k + i]
    /\ \A j \in (k + 1)..3 : \A i \in 1..Len(device_list) : device_list[i].name # StdDevices[j]
    /\ \A j \in 1..3 : k < 3 + j => open_files[j - 1] = NoFile
    /\ k < 7 => mounted_fs_list = <<>>
BootOK == \E k \in 0..7 : BootAt(k)

FilesInv ==
    /\ VarsOK /\ BootOK /\ NamesOnce
    /\ Held /\ AllApart /\ OwnedOnce /\ ListedOnce /\ FilesOnce /\ MountsOnce

-----------------------------------------------------------------------------
\* The order of start-up.
LEMMA ScriptFacts ==
    /\ Script \in Seq(Items) /\ Len(Script) = 7
    /\ Script[1] = "null" /\ Script[2] = "zero" /\ Script[3] = "console"
    /\ Script[4] = "stdin" /\ Script[5] = "stdout" /\ Script[6] = "stderr" /\ Script[7] = ROOT
    /\ StdDevices[1] = "null" /\ StdDevices[2] = "zero" /\ StdDevices[3] = "console"
    /\ StdStreams[1] = "stdin" /\ StdStreams[2] = "stdout" /\ StdStreams[3] = "stderr"
    /\ DOMAIN StdDevices = 1..3 /\ DOMAIN StdStreams = 1..3
<1> DEFINE a == StdDevices
           b == StdStreams
           c == <<ROOT>>
<1>1. /\ a \in Seq(Items) /\ Len(a) = 3 /\ DOMAIN a = 1..3
      /\ a[1] = "null" /\ a[2] = "zero" /\ a[3] = "console"
  BY DEF StdDevices, Items
<1>2. /\ b \in Seq(Items) /\ Len(b) = 3 /\ DOMAIN b = 1..3
      /\ b[1] = "stdin" /\ b[2] = "stdout" /\ b[3] = "stderr"
  BY DEF StdStreams, Items
<1>3. c \in Seq(Items) /\ Len(c) = 1 /\ c[1] = ROOT
  BY DEF Items
<1> HIDE DEF c
<1>4. /\ b \o c \in Seq(Items) /\ Len(b \o c) = 4
      /\ \A i \in 1..4 : (b \o c)[i] = IF i <= 3 THEN b[i] ELSE c[i - 3]
  <2>1. /\ b \o c \in Seq(Items) /\ Len(b \o c) = Len(b) + Len(c)
        /\ \A i \in 1..(Len(b) + Len(c)) :
             (b \o c)[i] = IF i <= Len(b) THEN b[i] ELSE c[i - Len(b)]
    BY <1>2, <1>3, ConcatProperties
  <2>2. Len(b) + Len(c) = 4
    BY <1>2, <1>3
  <2> QED
    BY <2>1, <2>2, <1>2
<1> DEFINE e == b \o c
<1> HIDE DEF e
<1>5. /\ e \in Seq(Items) /\ Len(e) = 4
      /\ e[1] = "stdin" /\ e[2] = "stdout" /\ e[3] = "stderr" /\ e[4] = ROOT
  BY <1>2, <1>3, <1>4 DEF e
<1>6. Script = a \o e
  BY <1>1, <1>2, <1>3, ConcatAssociative DEF Script, c, e
<1>7. /\ Script \in Seq(Items) /\ Len(Script) = 7
      /\ \A i \in 1..7 : Script[i] = IF i <= 3 THEN a[i] ELSE e[i - 3]
  <2>1. /\ a \o e \in Seq(Items) /\ Len(a \o e) = Len(a) + Len(e)
        /\ \A i \in 1..(Len(a) + Len(e)) :
             (a \o e)[i] = IF i <= Len(a) THEN a[i] ELSE e[i - Len(a)]
    BY <1>1, <1>5, ConcatProperties
  <2>2. Len(a) + Len(e) = 7
    BY <1>1, <1>5
  <2> QED
    BY <2>1, <2>2, <1>1, <1>6
<1> QED
  BY <1>1, <1>2, <1>5, <1>7

\* A step of start-up takes the next item.
LEMMA BootStep ==
    ASSUME BootOK, boot # <<>>
    PROVE  \E k \in 0..6 :
             /\ BootAt(k) /\ Head(boot) = Script[k + 1]
             /\ Tail(boot) \in Seq(Items) /\ Len(Tail(boot)) = 7 - (k + 1)
             /\ \A i \in 1..(7 - (k + 1)) : Tail(boot)[i] = Script[(k + 1) + i]
<1>1. PICK k \in 0..7 : BootAt(k)
  BY DEF BootOK
<1>2. boot \in Seq(Items) /\ Len(boot) = 7 - k /\ \A i \in 1..(7 - k) : boot[i] = Script[k + i]
  BY <1>1 DEF BootAt
<1>3. k \in 0..6
  BY <1>2
<1>4. Head(boot) = Script[k + 1]
  BY <1>2, <1>3
<1>5. Tail(boot) \in Seq(Items) /\ Len(Tail(boot)) = 7 - (k + 1)
  BY <1>2, <1>3
<1>6. ASSUME NEW i \in 1..(7 - (k + 1)) PROVE Tail(boot)[i] = Script[(k + 1) + i]
  <2>1. Tail(boot)[i] = boot[i + 1]
    BY <1>2, <1>3
  <2>2. i + 1 \in 1..(7 - k) /\ k + (i + 1) = (k + 1) + i
    BY <1>3
  <2> QED
    BY <2>1, <2>2, <1>2
<1> QED
  BY <1>1, <1>3, <1>4, <1>5, <1>6

\* Once the system is up, start-up is over for good.
LEMMA BootUp ==
    ASSUME Up, boot' = boot
    PROVE  BootOK'
<1>1. boot' = <<>>
  BY DEF Up
<1>2. (7 + 1)..3 = {} /\ 1..(7 - 7) = {}
  OBVIOUS
<1>3. BootAt(7)'
  BY <1>1, <1>2 DEF BootAt
<1> QED
  BY <1>3 DEF BootOK

-----------------------------------------------------------------------------
\* get_device finds a device of that name, or there is none.
LEMMA GetDevice ==
    ASSUME VarsOK, NEW name
    PROVE  /\ get_device(name) = NULL <=>
                \A i \in 1..Len(device_list) : device_list[i].name # name
           /\ get_device(name) # NULL =>
                /\ get_device(name) \in 1..Len(device_list)
                /\ device_list[get_device(name)].name = name
<1>1. device_list \in Seq(Devices) /\ DOMAIN device_list = 1..Len(device_list)
  BY DEF VarsOK
<1>2. Matches(name) = {i \in 1..Len(device_list) : device_list[i].name = name}
  BY <1>1 DEF Matches
<1>3. CASE Matches(name) = {}
  BY <1>2, <1>3 DEF get_device
<1>4. CASE Matches(name) # {}
  <2>1. Matches(name) \subseteq Nat
    BY <1>1, <1>2
  <2>2. get_device(name) \in Matches(name)
    BY <2>1, <1>4, MinNat DEF get_device
  <2>3. get_device(name) # NULL
    BY <2>2, <1>1, <1>2 DEF NULL
  <2> QED
    BY <2>2, <2>3, <1>2
<1> QED
  BY <1>3, <1>4

\* A device in front of the list.
LEMMA ListedCons ==
    ASSUME VarsOK, NEW d \in Devices, device_list' = <<d>> \o device_list
    PROVE  /\ device_list' \in Seq(Devices) /\ device_list' # device_list
           /\ ListedBlks' = ListedBlks \cup {d.blk}
           /\ ListedOnce /\ d.blk \notin ListedBlks => ListedOnce'
           /\ NamesOnce /\ (\A i \in 1..Len(device_list) : device_list[i].name # d.name)
                => NamesOnce'
           /\ \A i \in 1..Len(device_list') :
                device_list'[i] = d \/ \E j \in 1..Len(device_list) : device_list'[i] = device_list[j]
           /\ \E i \in 1..Len(device_list') : device_list'[i] = d
           /\ \A j \in 1..Len(device_list) : \E i \in 1..Len(device_list') :
                device_list'[i] = device_list[j]
<1> DEFINE s == device_list
           r == device_list'
           n == Len(device_list)
<1>1. s \in Seq(Devices) /\ n \in Nat
  BY DEF VarsOK
<1>2. /\ r \in Seq(Devices) /\ Len(r) = n + 1 /\ r[1] = d
      /\ \A i \in 1..n : r[i + 1] = s[i]
      /\ \A i \in 1..(n + 1) : i = 1 \/ \E j \in 1..n : i = j + 1
  BY <1>1, ConsPlaces
<1>3. r # s
  BY <1>1, <1>2
<1> HIDE DEF n
<1>4. 1 \in 1..(n + 1) /\ \A j \in 1..n : j + 1 \in 1..(n + 1)
  BY <1>1 DEF n
<1>5. \A i \in 1..(n + 1) : r[i] = d \/ \E j \in 1..n : r[i] = s[j]
  BY <1>2
<1>6. /\ \E i \in 1..(n + 1) : r[i] = d
      /\ \A j \in 1..n : \E i \in 1..(n + 1) : r[i] = s[j]
  BY <1>2, <1>4
<1>7. ListedBlks' = ListedBlks \cup {d.blk}
  <2>1. ListedBlks = {s[i].blk : i \in 1..n} /\ ListedBlks' = {r[i].blk : i \in 1..(n + 1)}
    BY <1>2 DEF ListedBlks, n
  <2> HIDE DEF r, s
  <2>2. ASSUME NEW b \in ListedBlks' PROVE b \in ListedBlks \cup {d.blk}
    BY <2>1, <2>2, <1>5
  <2>3. ASSUME NEW b \in ListedBlks PROVE b \in ListedBlks'
    BY <2>1, <2>3, <1>6
  <2>4. d.blk \in ListedBlks'
    BY <2>1, <1>6
  <2> QED
    BY <2>2, <2>3, <2>4
<1>8. ASSUME ListedOnce, d.blk \notin ListedBlks PROVE ListedOnce'
  <2>1. \A j \in 1..n : s[j].blk # d.blk
    BY <1>8 DEF ListedBlks, n
  <2>2. \A i, j \in 1..n : s[i].blk = s[j].blk => i = j
    BY <1>8 DEF ListedOnce, n
  <2>3. ASSUME NEW i \in 1..(n + 1), NEW j \in 1..(n + 1), r[i].blk = r[j].blk PROVE i = j
    BY <2>1, <2>2, <2>3, <1>2
  <2> QED
    BY <2>3, <1>2 DEF ListedOnce
<1>9. ASSUME NamesOnce, \A i \in 1..n : s[i].name # d.name PROVE NamesOnce'
  <2>1. \A i, j \in 1..n : s[i].name = s[j].name => i = j
    BY <1>9 DEF NamesOnce, n
  <2>2. ASSUME NEW i \in 1..(n + 1), NEW j \in 1..(n + 1), r[i].name = r[j].name PROVE i = j
    BY <2>1, <2>2, <1>2, <1>9
  <2> QED
    BY <2>2, <1>2 DEF NamesOnce
<1> QED
  BY <1>2, <1>3, <1>5, <1>6, <1>7, <1>8, <1>9 DEF n

\* A device off the list.
LEMMA ListedRemove ==
    ASSUME VarsOK, ListedOnce, NamesOnce, NEW k \in 1..Len(device_list),
           device_list' = RemoveAt(device_list, k)
    PROVE  /\ device_list' \in Seq(Devices) /\ ListedOnce' /\ NamesOnce'
           /\ ListedBlks' = ListedBlks \ {device_list[k].blk}
           /\ \E u : Places(u, device_list', device_list, k)
<1> DEFINE s == device_list
           r == device_list'
           n == Len(device_list)
           m == Len(device_list')
<1>1. s \in Seq(Devices)
  BY DEF VarsOK
<1>2. r \in Seq(Devices) /\ Drops(r, s, k)
  BY <1>1, RemoveAtDrops
<1>3. PICK u : Places(u, r, s, k)
  BY <1>1, <1>2, DropsPlaces
<1>4. /\ \A i \in 1..m : u[i] \in 1..n /\ u[i] # k /\ r[i] = s[u[i]]
      /\ \A i, j \in 1..m : u[i] = u[j] => i = j
      /\ \A j \in 1..n : j # k => \E i \in 1..m : u[i] = j
  BY <1>3 DEF Places
<1>5. ListedBlks = {s[i].blk : i \in 1..n} /\ ListedBlks' = {r[i].blk : i \in 1..m}
  BY DEF ListedBlks
<1>6. /\ \A i, j \in 1..n : s[i].blk = s[j].blk => i = j
      /\ \A i, j \in 1..n : s[i].name = s[j].name => i = j
  BY DEF ListedOnce, NamesOnce
<1>7. k \in 1..n
  OBVIOUS
<1> HIDE DEF r, s, n, m
<1>8. \A i, j \in 1..m : r[i].blk = r[j].blk \/ r[i].name = r[j].name => i = j
  <2> SUFFICES ASSUME NEW i \in 1..m, NEW j \in 1..m,
                      r[i].blk = r[j].blk \/ r[i].name = r[j].name
               PROVE  i = j
    OBVIOUS
  <2>1. u[i] = u[j]
    BY <1>4, <1>6
  <2> QED
    BY <2>1, <1>4
<1>9. ListedBlks' = ListedBlks \ {s[k].blk}
  <2>1. ASSUME NEW b \in ListedBlks' PROVE b \in ListedBlks /\ b # s[k].blk
    BY <2>1, <1>4, <1>5, <1>6, <1>7
  <2>2. ASSUME NEW b \in ListedBlks, b # s[k].blk PROVE b \in ListedBlks'
    <3>1. PICK j \in 1..n : b = s[j].blk
      BY <1>5, <2>2
    <3>2. PICK i \in 1..m : u[i] = j
      BY <3>1, <2>2, <1>4
    <3> QED
      BY <3>1, <3>2, <1>4, <1>5
  <2> QED
    BY <2>1, <2>2
<1> QED
  BY <1>2, <1>3, <1>8, <1>9 DEF r, s, n, m, ListedOnce, NamesOnce

-----------------------------------------------------------------------------
\* A mount in front of the list.
LEMMA MountCons ==
    ASSUME VarsOK, MountsOnce, NEW d \in Mounts, mounted_fs_list' = <<d>> \o mounted_fs_list,
           d.blk \notin MountBlks, d.sb \notin SuperBlks
    PROVE  /\ mounted_fs_list' \in Seq(Mounts) /\ MountsOnce'
           /\ MountBlks' = MountBlks \cup {d.blk}
           /\ SuperBlks' = SuperBlks \cup ({d.sb} \ {NULL})
           /\ Len(mounted_fs_list') = Len(mounted_fs_list) + 1 /\ mounted_fs_list'[1] = d
           /\ \A i \in 1..Len(mounted_fs_list) : mounted_fs_list'[i + 1] = mounted_fs_list[i]
           /\ \A i \in 1..(Len(mounted_fs_list) + 1) :
                i = 1 \/ \E j \in 1..Len(mounted_fs_list) : i = j + 1
<1> DEFINE s == mounted_fs_list
           r == mounted_fs_list'
           n == Len(mounted_fs_list)
<1>1. s \in Seq(Mounts) /\ n \in Nat
  BY DEF VarsOK
<1>2. /\ r \in Seq(Mounts) /\ Len(r) = n + 1 /\ r[1] = d
      /\ \A i \in 1..n : r[i + 1] = s[i]
      /\ \A i \in 1..(n + 1) : i = 1 \/ \E j \in 1..n : i = j + 1
  BY <1>1, ConsPlaces
<1>3. MountBlks = {s[i].blk : i \in 1..n} /\ MountBlks' = {r[i].blk : i \in 1..(n + 1)}
  BY <1>2 DEF MountBlks
<1>4. /\ SuperAt = {i \in 1..n : s[i].sb # NULL} /\ SuperAt' = {i \in 1..(n + 1) : r[i].sb # NULL}
      /\ SuperBlks = {s[i].sb : i \in SuperAt} /\ SuperBlks' = {r[i].sb : i \in SuperAt'}
  BY <1>2 DEF SuperAt, SuperBlks
<1>5. /\ \A i, j \in 1..n : s[i].blk = s[j].blk => i = j
      /\ \A i, j \in SuperAt : s[i].sb = s[j].sb => i = j
  BY DEF MountsOnce
<1> HIDE DEF r, s, n
<1>6. 1 \in 1..(n + 1) /\ \A j \in 1..n : j + 1 \in 1..(n + 1)
  BY <1>1
<1>from. \A i \in 1..(n + 1) : (i = 1 /\ r[i] = d) \/ \E j \in 1..n : i = j + 1 /\ r[i] = s[j]
  BY <1>2
<1>7. MountBlks' = MountBlks \cup {d.blk}
  <2>1. ASSUME NEW b \in MountBlks' PROVE b \in MountBlks \cup {d.blk}
    <3>1. PICK i \in 1..(n + 1) : b = r[i].blk
      BY <2>1, <1>3
    <3> QED
      BY <3>1, <1>from, <1>3
  <2>2. ASSUME NEW b \in MountBlks PROVE b \in MountBlks'
    BY <2>2, <1>2, <1>3, <1>6
  <2>3. d.blk \in MountBlks'
    BY <1>2, <1>3, <1>6
  <2> QED
    BY <2>1, <2>2, <2>3
<1>8. SuperBlks' = SuperBlks \cup ({d.sb} \ {NULL})
  <2>1. ASSUME NEW b \in SuperBlks' PROVE b \in SuperBlks \cup ({d.sb} \ {NULL})
    <3>1. PICK i \in 1..(n + 1) : b = r[i].sb /\ b # NULL
      BY <2>1, <1>4
    <3> QED
      BY <3>1, <1>from, <1>4
  <2>2. ASSUME NEW b \in SuperBlks PROVE b \in SuperBlks'
    BY <2>2, <1>2, <1>4, <1>6
  <2>3. d.sb # NULL => d.sb \in SuperBlks'
    BY <1>2, <1>4, <1>6
  <2> QED
    BY <2>1, <2>2, <2>3
<1>9. \A i, j \in 1..(n + 1) : r[i].blk = r[j].blk => i = j
  <2>1. \A j \in 1..n : s[j].blk # d.blk
    BY <1>3
  <2> SUFFICES ASSUME NEW i \in 1..(n + 1), NEW j \in 1..(n + 1), r[i].blk = r[j].blk
               PROVE  i = j
    OBVIOUS
  <2>2. CASE i = 1
    BY <2>1, <2>2, <1>from, <1>2
  <2>3. CASE j = 1
    BY <2>1, <2>3, <1>from, <1>2
  <2>4. CASE i # 1 /\ j # 1
    <3>1. PICK g \in 1..n : i = g + 1 /\ r[i] = s[g]
      BY <2>4, <1>from
    <3>2. PICK h \in 1..n : j = h + 1 /\ r[j] = s[h]
      BY <2>4, <1>from
    <3> QED
      BY <3>1, <3>2, <1>5
  <2> QED
    BY <2>2, <2>3, <2>4
<1>10. \A i, j \in SuperAt' : r[i].sb = r[j].sb => i = j
  <2>1. \A j \in SuperAt : s[j].sb # d.sb
    BY <1>4
  <2>2. ASSUME NEW i \in SuperAt'
        PROVE  i = 1 \/ \E j \in SuperAt : i = j + 1 /\ r[i] = s[j]
    <3>1. i \in 1..(n + 1) /\ r[i].sb # NULL
      BY <2>2, <1>4
    <3>2. ASSUME NEW j \in 1..n, i = j + 1, r[i] = s[j] PROVE j \in SuperAt
      BY <3>1, <3>2, <1>4
    <3> QED
      BY <3>1, <3>2, <1>from
  <2> QED
    BY <2>1, <2>2, <1>2, <1>5
<1>11. MountsOnce'
  BY <1>2, <1>9, <1>10 DEF MountsOnce, r, n
<1> QED
  BY <1>2, <1>7, <1>8, <1>11 DEF r, s, n

\* A mount off the list.
LEMMA MountRemove ==
    ASSUME VarsOK, MountsOnce, NEW k \in 1..Len(mounted_fs_list),
           mounted_fs_list' = RemoveAt(mounted_fs_list, k)
    PROVE  /\ mounted_fs_list' \in Seq(Mounts) /\ MountsOnce'
           /\ MountBlks' = MountBlks \ {mounted_fs_list[k].blk}
           /\ SuperBlks' = SuperBlks \ {mounted_fs_list[k].sb}
<1> DEFINE s == mounted_fs_list
           r == mounted_fs_list'
           n == Len(mounted_fs_list)
           m == Len(mounted_fs_list')
           SA == SuperAt
           SB == SuperAt'
<1>1. s \in Seq(Mounts) /\ DOMAIN s = 1..n
  BY DEF VarsOK
<1>2. r \in Seq(Mounts) /\ Drops(r, s, k) /\ DOMAIN r = 1..m
  BY <1>1, RemoveAtDrops
<1>3. PICK u : Places(u, r, s, k)
  BY <1>1, <1>2, DropsPlaces
<1>4. /\ \A i \in 1..m : u[i] \in 1..n /\ u[i] # k /\ r[i] = s[u[i]]
      /\ \A i, j \in 1..m : u[i] = u[j] => i = j
      /\ \A j \in 1..n : j # k => \E i \in 1..m : u[i] = j
  BY <1>3 DEF Places
<1>5. MountBlks = {s[i].blk : i \in 1..n} /\ MountBlks' = {r[i].blk : i \in 1..m}
  BY DEF MountBlks
<1>6. /\ SA = {i \in 1..n : s[i].sb # NULL} /\ SB = {i \in 1..m : r[i].sb # NULL}
      /\ SuperBlks = {s[i].sb : i \in SA} /\ SuperBlks' = {r[i].sb : i \in SB}
  BY DEF SuperAt, SuperBlks
<1>7. /\ \A i, j \in 1..n : s[i].blk = s[j].blk => i = j
      /\ \A i, j \in SA : s[i].sb = s[j].sb => i = j
  BY DEF MountsOnce
<1>9. k \in 1..n
  OBVIOUS
<1> HIDE DEF r, s, n, m, SA, SB
<1>10. ASSUME NEW i \in 1..m, NEW j \in 1..m, r[i].blk = r[j].blk PROVE i = j
  <2>1. u[i] \in 1..n /\ u[j] \in 1..n /\ s[u[i]].blk = s[u[j]].blk
    BY <1>10, <1>4
  <2>2. u[i] = u[j]
    BY <2>1, <1>7
  <2> QED
    BY <2>2, <1>4
<1>11. \A i \in SB : i \in 1..m /\ u[i] \in SA /\ u[i] # k /\ r[i] = s[u[i]]
  BY <1>4, <1>6
<1>12. \A i, j \in SB : r[i].sb = r[j].sb => i = j
  <2> SUFFICES ASSUME NEW i \in SB, NEW j \in SB, r[i].sb = r[j].sb PROVE i = j
    OBVIOUS
  <2>1. u[i] = u[j]
    BY <1>7, <1>11
  <2> QED
    BY <2>1, <1>4, <1>11
<1>14. MountBlks' = MountBlks \ {s[k].blk}
  <2>1. ASSUME NEW b \in MountBlks' PROVE b \in MountBlks /\ b # s[k].blk
    BY <2>1, <1>4, <1>5, <1>7, <1>9
  <2>2. ASSUME NEW b \in MountBlks, b # s[k].blk PROVE b \in MountBlks'
    <3>1. PICK j \in 1..n : b = s[j].blk
      BY <1>5, <2>2
    <3>2. PICK i \in 1..m : u[i] = j
      BY <3>1, <2>2, <1>4
    <3> QED
      BY <3>1, <3>2, <1>4, <1>5
  <2> QED
    BY <2>1, <2>2
<1>15. SuperBlks' = SuperBlks \ {s[k].sb}
  <2>1. ASSUME NEW b \in SuperBlks' PROVE b \in SuperBlks /\ b # s[k].sb
    <3>1. PICK i \in SB : b = r[i].sb
      BY <2>1, <1>6
    <3>2. u[i] \in SA /\ u[i] # k /\ b = s[u[i]].sb
      BY <3>1, <1>11
    <3>3. b # NULL /\ (k \in SA => b # s[k].sb) /\ (k \notin SA => s[k].sb = NULL)
      BY <3>2, <1>6, <1>7, <1>9
    <3> QED
      BY <3>2, <3>3, <1>6
  <2>2. ASSUME NEW b \in SuperBlks, b # s[k].sb PROVE b \in SuperBlks'
    <3>1. PICK j \in SA : b = s[j].sb
      BY <1>6, <2>2
    <3>2. j \in 1..n /\ j # k /\ s[j].sb # NULL
      BY <3>1, <1>6, <2>2
    <3>3. PICK i \in 1..m : u[i] = j
      BY <3>2, <1>4
    <3>4. r[i] = s[j] /\ i \in SB
      BY <3>2, <3>3, <1>4, <1>6
    <3> QED
      BY <3>1, <3>4, <1>6
  <2> QED
    BY <2>1, <2>2
<1>16. MountsOnce'
  BY <1>10, <1>12 DEF MountsOnce, r, m, SB
<1> QED
  BY <1>2, <1>14, <1>15, <1>16 DEF r, s

-----------------------------------------------------------------------------
\* The open descriptors are those with a block.
LEMMA OpenByBlock ==
    ASSUME VarsOK
    PROVE  /\ OpenFds = {fd \in Fds : open_files[fd].blk # NULL}
           /\ \A fd \in Fds : IsOpen(fd) <=> open_files[fd].blk # NULL
           /\ NoFile \in OpenFiles /\ NoFile.blk = NULL
<1>1. NoFile.blk = NULL /\ NoFile = [blk |-> NULL, inode |-> 0, pos |-> 0]
  BY DEF NoFile, File
<1>2. NoFile \in OpenFiles
  BY <1>1, FsAssumption DEF OpenFiles
<1>3. \A fd \in Fds : open_files[fd] # NoFile <=> open_files[fd].blk # NULL
  BY <1>1 DEF VarsOK
<1> QED
  BY <1>1, <1>2, <1>3 DEF OpenFds, IsOpen

\* A new open file at a free descriptor.
LEMMA FileOpened ==
    ASSUME VarsOK, FilesOnce, NEW fd \in Fds, open_files[fd] = NoFile, NEW b \in Blocks,
           b \notin FileBlocks, NEW inode \in 0..3,
           open_files' = [open_files EXCEPT ![fd] = File(b, inode)]
    PROVE  /\ open_files' \in [Fds -> OpenFiles]
           /\ \A g \in Fds : open_files'[g].blk = NULL => open_files'[g] = NoFile
           /\ FileBlocks' = FileBlocks \cup {b} /\ FilesOnce'
<1> DEFINE x == File(b, inode)
           s == open_files
           r == open_files'
<1>1. x.blk = b /\ x \in OpenFiles
  BY FsAssumption DEF File, OpenFiles
<1>2. b # NULL
  BY BlocksAssumption
<1> HIDE DEF x
<1>3. s \in [Fds -> OpenFiles] /\ \A g \in Fds : s[g].blk = NULL => s[g] = NoFile
  BY DEF VarsOK
<1>4. r \in [Fds -> OpenFiles] /\ \A g \in Fds : r[g] = IF g = fd THEN x ELSE s[g]
  BY <1>1, <1>3 DEF x
<1>5. OpenFds = {g \in Fds : s[g].blk # NULL} /\ NoFile.blk = NULL
  BY OpenByBlock
<1>6. \A g \in Fds : r[g].blk = NULL => r[g] = NoFile
  BY <1>1, <1>2, <1>3, <1>4
<1>7. OpenFds' = OpenFds \cup {fd} /\ fd \notin OpenFds
  <2>1. OpenFds' = {g \in Fds : r[g] # NoFile}
    BY DEF OpenFds, IsOpen
  <2>2. \A g \in Fds : r[g] # NoFile <=> g = fd \/ s[g].blk # NULL
    BY <1>1, <1>2, <1>3, <1>4, <1>5
  <2> QED
    BY <2>1, <2>2, <1>5
<1>8. FileBlocks = {s[g].blk : g \in OpenFds} /\ FileBlocks' = {r[g].blk : g \in OpenFds'}
  BY DEF FileBlocks
<1>9. \A g, h \in OpenFds : s[g].blk = s[h].blk => g = h
  BY DEF FilesOnce
<1>10. /\ \A g \in OpenFds : g \in Fds /\ r[g].blk = s[g].blk
       /\ r[fd].blk = b
  BY <1>1, <1>4, <1>5, <1>7
<1> HIDE DEF r, s
<1>11. FileBlocks' = FileBlocks \cup {b}
  BY <1>7, <1>8, <1>10
<1>12. \A g, h \in OpenFds' : r[g].blk = r[h].blk => g = h
  BY <1>7, <1>8, <1>9, <1>10
<1> QED
  BY <1>4, <1>6, <1>11, <1>12 DEF r, FilesOnce

\* A descriptor given back.
LEMMA FileClosed ==
    ASSUME VarsOK, FilesOnce, NEW fd \in OpenFds,
           open_files' = [open_files EXCEPT ![fd] = NoFile]
    PROVE  /\ open_files' \in [Fds -> OpenFiles]
           /\ \A g \in Fds : open_files'[g].blk = NULL => open_files'[g] = NoFile
           /\ FileBlocks' = FileBlocks \ {open_files[fd].blk} /\ FilesOnce'
<1> DEFINE s == open_files
           r == open_files'
<1>1. s \in [Fds -> OpenFiles] /\ \A g \in Fds : s[g].blk = NULL => s[g] = NoFile
  BY DEF VarsOK
<1>2. /\ OpenFds = {g \in Fds : s[g].blk # NULL} /\ NoFile.blk = NULL /\ NoFile \in OpenFiles
  BY OpenByBlock
<1>3. fd \in Fds
  BY <1>2
<1>4. r \in [Fds -> OpenFiles] /\ \A g \in Fds : r[g] = IF g = fd THEN NoFile ELSE s[g]
  BY <1>1, <1>2, <1>3
<1>5. \A g \in Fds : r[g].blk = NULL => r[g] = NoFile
  BY <1>1, <1>4
<1>6. OpenFds' = OpenFds \ {fd}
  <2>1. OpenFds' = {g \in Fds : r[g] # NoFile}
    BY DEF OpenFds, IsOpen
  <2>2. \A g \in Fds : r[g] # NoFile <=> g # fd /\ s[g].blk # NULL
    BY <1>1, <1>2, <1>4
  <2> QED
    BY <2>1, <2>2, <1>2
<1>7. FileBlocks = {s[g].blk : g \in OpenFds} /\ FileBlocks' = {r[g].blk : g \in OpenFds'}
  BY DEF FileBlocks
<1>8. \A g, h \in OpenFds : s[g].blk = s[h].blk => g = h
  BY DEF FilesOnce
<1>9. \A g \in OpenFds' : g \in OpenFds /\ g # fd /\ r[g].blk = s[g].blk
  BY <1>2, <1>4, <1>6
<1> HIDE DEF r, s
<1>10. FileBlocks' = FileBlocks \ {s[fd].blk}
  <2>1. ASSUME NEW b \in FileBlocks' PROVE b \in FileBlocks /\ b # s[fd].blk
    BY <2>1, <1>7, <1>8, <1>9
  <2>2. ASSUME NEW b \in FileBlocks, b # s[fd].blk PROVE b \in FileBlocks'
    BY <2>2, <1>6, <1>7, <1>9
  <2> QED
    BY <2>1, <2>2
<1>11. \A g, h \in OpenFds' : r[g].blk = r[h].blk => g = h
  BY <1>8, <1>9
<1> QED
  BY <1>4, <1>5, <1>10, <1>11 DEF r, s, FilesOnce

\* A file that is read on: its block stays.
LEMMA FileMoved ==
    ASSUME VarsOK, FilesOnce, NEW fd \in OpenFds, NEW pos \in 0..(WORD - 1),
           open_files' = [open_files EXCEPT ![fd].pos = pos]
    PROVE  /\ open_files' \in [Fds -> OpenFiles]
           /\ \A g \in Fds : open_files'[g].blk = NULL => open_files'[g] = NoFile
           /\ FileBlocks' = FileBlocks /\ FilesOnce'
<1> DEFINE s == open_files
           r == open_files'
<1>1. s \in [Fds -> OpenFiles] /\ \A g \in Fds : s[g].blk = NULL => s[g] = NoFile
  BY DEF VarsOK
<1>2. /\ OpenFds = {g \in Fds : s[g].blk # NULL} /\ NoFile.blk = NULL
  BY OpenByBlock
<1>3. fd \in Fds
  BY <1>2
<1>4. r \in [Fds -> OpenFiles]
  BY <1>1, <1>3 DEF OpenFiles
<1>5. /\ \A g \in Fds : r[g].blk = s[g].blk /\ (g # fd => r[g] = s[g])
  BY <1>1, <1>3 DEF OpenFiles
<1>6. s[fd].blk # NULL
  BY <1>2
<1>7. \A g \in Fds : r[g].blk = NULL => r[g] = NoFile
  BY <1>1, <1>5, <1>6
<1>8. OpenFds' = OpenFds
  <2>1. OpenFds' = {g \in Fds : r[g] # NoFile}
    BY DEF OpenFds, IsOpen
  <2>2. \A g \in Fds : r[g] # NoFile <=> s[g].blk # NULL
    BY <1>2, <1>5, <1>7
  <2> QED
    BY <2>1, <2>2, <1>2
<1>9. FileBlocks = {s[g].blk : g \in OpenFds} /\ FileBlocks' = {r[g].blk : g \in OpenFds'}
  BY DEF FileBlocks
<1>10. \A g, h \in OpenFds : s[g].blk = s[h].blk => g = h
  BY DEF FilesOnce
<1>11. \A g \in OpenFds : r[g].blk = s[g].blk
  BY <1>2, <1>5
<1> HIDE DEF r, s
<1>12. FileBlocks' = FileBlocks /\ \A g, h \in OpenFds' : r[g].blk = r[h].blk => g = h
  BY <1>8, <1>9, <1>10, <1>11
<1> QED
  BY <1>4, <1>7, <1>12 DEF r, FilesOnce

-----------------------------------------------------------------------------
\* What the device manager leaves of the file system's, and the other way round.
LEMMA SameFs ==
    ASSUME UNCHANGED fsVars
    PROVE  /\ FileBlocks' = FileBlocks /\ MountBlks' = MountBlks /\ SuperBlks' = SuperBlks
           /\ FilesOnce => FilesOnce'
           /\ MountsOnce => MountsOnce'
<1>1. mounted_fs_list' = mounted_fs_list /\ open_files' = open_files
  BY DEF fsVars
<1>2. OpenFds' = OpenFds /\ SuperAt' = SuperAt
  BY <1>1 DEF OpenFds, IsOpen, SuperAt
<1>3. FileBlocks' = FileBlocks /\ MountBlks' = MountBlks /\ SuperBlks' = SuperBlks
  BY <1>1, <1>2 DEF FileBlocks, MountBlks, SuperBlks
<1>4. (FilesOnce => FilesOnce') /\ (MountsOnce => MountsOnce')
  BY <1>1, <1>2 DEF FilesOnce, MountsOnce
<1> QED
  BY <1>3, <1>4

\* The devices, when the file system runs.
LEMMA SameDevices ==
    ASSUME UNCHANGED <<device_list, owned>>
    PROVE  /\ OwnedBlks' = OwnedBlks /\ ListedBlks' = ListedBlks
           /\ OwnedOnce => OwnedOnce'
           /\ ListedOnce => ListedOnce'
           /\ NamesOnce => NamesOnce'
  BY DEF OwnedBlks, ListedBlks, OwnedOnce, ListedOnce, NamesOnce

\* A block from kmalloc is nobody's.
LEMMA Fresh ==
    ASSUME Held, NEW b \in kmalloc(heap), b # NULL
    PROVE  /\ b \in Blocks /\ b \notin heap /\ b \notin OwnedBlks /\ b \notin ListedBlks
           /\ b \notin FileBlocks /\ b \notin MountBlks /\ b \notin SuperBlks
  BY DEF Held, kmalloc

\* A call that touches neither the heap nor the lists nor the table.
LEMMA NoEffect ==
    ASSUME FilesInv, UNCHANGED <<heap, device_list, owned, mounted_fs_list, open_files>>,
           ret' \in {-1, 0}, BootOK'
    PROVE  FilesInv'
<1>1. UNCHANGED fsVars /\ UNCHANGED <<device_list, owned>>
  BY DEF fsVars
<1>2. VarsOK'
  BY DEF FilesInv, VarsOK
<1>3. Held' /\ AllApart'
  BY <1>1, SameFs, SameDevices DEF FilesInv, Held, AllApart
<1> QED
  BY <1>1, <1>2, <1>3, SameFs, SameDevices DEF FilesInv

\* A fresh block goes to a new device in front of the list.
LEMMA NewListed ==
    ASSUME FilesInv, NEW b \in kmalloc(heap), b # NULL, NEW d \in Devices, d.blk = b,
           heap' = heap \cup {b}, device_list' = <<d>> \o device_list,
           \A i \in 1..Len(device_list) : device_list[i].name # d.name,
           UNCHANGED fsVars, owned' = owned, ret' \in {-1, 0}, BootOK'
    PROVE  FilesInv'
<1>1. /\ b \notin heap /\ b \notin OwnedBlks /\ b \notin ListedBlks
      /\ b \notin FileBlocks /\ b \notin MountBlks /\ b \notin SuperBlks
  BY Fresh DEF FilesInv
<1>2. /\ device_list' \in Seq(Devices) /\ ListedBlks' = ListedBlks \cup {b}
      /\ ListedOnce' /\ NamesOnce'
  BY <1>1, ListedCons DEF FilesInv
<1>3. OwnedBlks' = OwnedBlks /\ OwnedOnce'
  BY DEF OwnedBlks, OwnedOnce, FilesInv
<1>4. VarsOK'
  BY <1>2 DEF FilesInv, VarsOK, fsVars
<1>5. Held' /\ AllApart'
  BY <1>1, <1>2, <1>3, SameFs DEF FilesInv, Held, AllApart, Apart
<1> QED
  BY <1>2, <1>3, <1>4, <1>5, SameFs DEF FilesInv

\* init_devices: the names of start-up are listed once each.
LEMMA init_devicesInv ==
    ASSUME FilesInv, init_devices, UNCHANGED fsVars
    PROVE  FilesInv'
<1>1. boot # <<>> /\ boot' = Tail(boot) /\ ret' = 0 /\ owned' = owned /\ VarsOK
  BY DEF init_devices, FilesInv
<1>2. PICK k \in 0..6 :
             /\ BootAt(k) /\ Head(boot) = Script[k + 1]
             /\ Tail(boot) \in Seq(Items) /\ Len(Tail(boot)) = 7 - (k + 1)
             /\ \A i \in 1..(7 - (k + 1)) : Tail(boot)[i] = Script[(k + 1) + i]
  BY <1>1, BootStep DEF FilesInv
<1>3. PICK h \in 1..3 : Head(boot) = StdDevices[h]
  BY ScriptFacts DEF init_devices
<1>4. h = k + 1
  BY <1>2, <1>3, ScriptFacts DEF ROOT
<1>5. \A i \in 1..Len(device_list) : device_list[i].name # Head(boot)
  BY <1>2, <1>3, <1>4 DEF BootAt
<1>6. ASSUME \A i \in 1..Len(device_list') :
               \/ device_list'[i].name = StdDevices[h]
               \/ \E j \in 1..Len(device_list) : device_list'[i] = device_list[j]
      PROVE  BootOK'
  <2>1. \A j \in ((k + 1) + 1)..3 : j \in (k + 1)..3 /\ StdDevices[j] # StdDevices[h]
    BY <1>3, <1>4, ScriptFacts
  <2>2. \A j \in ((k + 1) + 1)..3 : \A i \in 1..Len(device_list') :
             device_list'[i].name # StdDevices[j]
    <3> TAKE j \in ((k + 1) + 1)..3
    <3> TAKE i \in 1..Len(device_list')
    <3>1. \A g \in 1..Len(device_list) : device_list[g].name # StdDevices[j]
      BY <2>1, <1>2 DEF BootAt
    <3> QED
      BY <2>1, <3>1, <1>6
  <2>3. /\ \A j \in 1..3 : k + 1 < 3 + j => open_files'[j - 1] = NoFile
        /\ mounted_fs_list' = <<>>
    BY <1>2 DEF BootAt, fsVars
  <2>4. BootAt(k + 1)'
    BY <2>2, <2>3, <1>1, <1>2 DEF BootAt
  <2> QED
    BY <2>4, <1>2 DEF BootOK
<1>7. PICK b \in kmalloc(heap) :
         IF b = NULL
         THEN UNCHANGED <<heap, device_list>>
         ELSE /\ heap' = heap \cup {b}
              /\ device_list' = Listed(Dev(b, Head(boot), StdOps))
  BY DEF init_devices
<1>8. CASE b = NULL
  <2>1. UNCHANGED <<heap, device_list>>
    BY <1>7, <1>8
  <2>2. BootOK'
    BY <2>1, <1>6
  <2> QED
    BY <2>1, <2>2, <1>1, NoEffect DEF fsVars
<1>9. CASE b # NULL
  <2> DEFINE d == Dev(b, Head(boot), StdOps)
  <2>1. b \in Blocks
    BY <1>9 DEF kmalloc
  <2>2. d \in Devices /\ d.blk = b /\ d.name = Head(boot)
    BY <2>1, <1>3, ScriptFacts DEF Devices, Dev, DeviceNames
  <2>3. get_device(d.name) = NULL
    BY <2>2, <1>1, <1>5, GetDevice
  <2>4. heap' = heap \cup {b} /\ device_list' = <<d>> \o device_list
    BY <2>3, <1>7, <1>9 DEF Listed
  <2> HIDE DEF d
  <2>5. BootOK'
    BY <2>2, <2>4, <1>1, <1>3, <1>6, ListedCons
  <2> QED
    BY <2>2, <2>4, <2>5, <1>1, <1>5, <1>9, NewListed
<1> QED
  BY <1>8, <1>9

\* A driver's new device.
LEMMA NewDeviceInv ==
    ASSUME FilesInv, NEW name \in DriverNames, NewDevice(name), UNCHANGED fsVars
    PROVE  FilesInv'
<1>1. Up /\ boot' = boot /\ device_list' = device_list
  BY DEF NewDevice
<1>2. BootOK'
  BY <1>1, BootUp
<1>3. PICK b \in kmalloc(heap) :
         IF b = NULL
         THEN ret' = -1 /\ UNCHANGED <<heap, owned>>
         ELSE /\ ret' = 0
              /\ heap' = heap \cup {b}
              /\ owned' = owned \cup {Dev(b, name, DriverOps)}
  BY DEF NewDevice
<1>4. CASE b = NULL
  BY <1>1, <1>2, <1>3, <1>4, NoEffect DEF fsVars
<1>5. CASE b # NULL
  <2> DEFINE d == Dev(b, name, DriverOps)
  <2>1. /\ b \in Blocks /\ b \notin heap /\ b \notin OwnedBlks /\ b \notin ListedBlks
        /\ b \notin FileBlocks /\ b \notin MountBlks /\ b \notin SuperBlks
    BY <1>5, Fresh DEF FilesInv
  <2>2. d \in Devices /\ d.blk = b
    BY <2>1 DEF Devices, Dev, DeviceNames
  <2>3. ret' = 0 /\ heap' = heap \cup {b} /\ owned' = owned \cup {d}
    BY <1>3, <1>5
  <2> HIDE DEF d
  <2>4. OwnedBlks' = OwnedBlks \cup {b}
    BY <2>2, <2>3 DEF OwnedBlks
  <2>5. OwnedOnce'
    BY <2>1, <2>2, <2>3 DEF OwnedBlks, OwnedOnce, FilesInv
  <2>6. ListedBlks' = ListedBlks /\ ListedOnce' /\ NamesOnce'
    BY <1>1 DEF ListedBlks, ListedOnce, NamesOnce, FilesInv
  <2>7. VarsOK'
    <3>1. IsFiniteSet(owned')
      BY <2>3, FS_AddElement DEF FilesInv, VarsOK
    <3> QED
      BY <3>1, <2>2, <2>3, <1>1 DEF FilesInv, VarsOK, fsVars
  <2>8. Held' /\ AllApart'
    BY <2>1, <2>3, <2>4, <2>6, SameFs DEF FilesInv, Held, AllApart, Apart
  <2> QED
    BY <2>5, <2>6, <2>7, <2>8, <1>2, SameFs DEF FilesInv
<1> QED
  BY <1>4, <1>5

\* register_device: a device its driver owns moves to the list, or nothing does.
LEMMA register_deviceInv ==
    ASSUME FilesInv, NEW d \in owned \cup {device_list[i] : i \in DOMAIN device_list},
           register_device(d), UNCHANGED fsVars
    PROVE  FilesInv'
<1>1. Up /\ boot' = boot /\ heap' = heap /\ VarsOK /\ device_list' = Listed(d)
      /\ IF device_list' = device_list THEN ret' = -1 /\ UNCHANGED owned
                                       ELSE ret' = 0 /\ owned' = owned \ {d}
  BY DEF register_device, FilesInv
<1>2. BootOK'
  BY <1>1, BootUp
<1>3. CASE get_device(d.name) # NULL
  <2>1. device_list' = device_list /\ owned' = owned /\ ret' = -1
    BY <1>1, <1>3 DEF Listed
  <2> QED
    BY <2>1, <1>1, <1>2, NoEffect DEF fsVars
<1>4. CASE get_device(d.name) = NULL
  <2>1. \A i \in 1..Len(device_list) : device_list[i].name # d.name
    BY <1>1, <1>4, GetDevice
  <2>2. d \in owned /\ d \in Devices
    <3>1. DOMAIN device_list = 1..Len(device_list)
      BY <1>1 DEF VarsOK
    <3>2. d \in owned
      BY <2>1, <3>1
    <3> QED
      BY <3>2, <1>1 DEF VarsOK
  <2>3. device_list' = <<d>> \o device_list
    BY <1>1, <1>4 DEF Listed
  <2>4. d.blk \in OwnedBlks /\ d.blk \notin ListedBlks
    BY <2>2 DEF OwnedBlks, FilesInv, AllApart, Apart
  <2>5. /\ device_list' \in Seq(Devices) /\ device_list' # device_list
        /\ ListedBlks' = ListedBlks \cup {d.blk} /\ ListedOnce' /\ NamesOnce'
    BY <2>1, <2>2, <2>3, <2>4, <1>1, ListedCons DEF FilesInv
  <2>6. ret' = 0 /\ owned' = owned \ {d}
    BY <2>5, <1>1
  <2>7. OwnedBlks' = OwnedBlks \ {d.blk} /\ OwnedOnce'
    BY <2>2, <2>6 DEF OwnedBlks, OwnedOnce, FilesInv
  <2>8. VarsOK'
    <3>1. IsFiniteSet(owned')
      BY <2>6, <1>1, FS_RemoveElement DEF VarsOK
    <3> QED
      BY <3>1, <2>5, <2>6, <1>1 DEF VarsOK, fsVars
  <2>9. Held' /\ AllApart'
    BY <2>4, <2>5, <2>7, <1>1, SameFs DEF FilesInv, Held, AllApart, Apart
  <2> QED
    BY <2>5, <2>7, <2>8, <2>9, <1>2, SameFs DEF FilesInv
<1> QED
  BY <1>3, <1>4

\* unregister_device frees the block it takes off the list, and no other.
LEMMA unregister_deviceInv ==
    ASSUME FilesInv, NEW name \in DeviceNames, unregister_device(name), UNCHANGED fsVars
    PROVE  FilesInv'
<1> DEFINE k == get_device(name)
<1>1. Up /\ boot' = boot /\ owned' = owned /\ VarsOK
  BY DEF unregister_device, FilesInv
<1>2. BootOK'
  BY <1>1, BootUp
<1>3. CASE k = NULL
  <2>1. ret' = -1 /\ heap' = heap /\ device_list' = device_list
    BY <1>3 DEF unregister_device
  <2> QED
    BY <2>1, <1>1, <1>2, NoEffect DEF fsVars
<1>4. CASE k # NULL
  <2>1. /\ ret' = 0 /\ heap' = heap \ {device_list[k].blk}
        /\ device_list' = RemoveAt(device_list, k)
    BY <1>4 DEF unregister_device
  <2>2. k \in 1..Len(device_list)
    BY <1>1, <1>4, GetDevice
  <2> HIDE DEF k
  <2>3. /\ device_list' \in Seq(Devices) /\ ListedOnce' /\ NamesOnce'
        /\ ListedBlks' = ListedBlks \ {device_list[k].blk}
    BY <2>1, <2>2, <1>1, ListedRemove DEF FilesInv
  <2>4. device_list[k].blk \in ListedBlks
    BY <2>2 DEF ListedBlks
  <2>5. OwnedBlks' = OwnedBlks /\ OwnedOnce'
    BY <1>1 DEF OwnedBlks, OwnedOnce, FilesInv
  <2>6. VarsOK'
    BY <2>1, <2>3, <1>1 DEF VarsOK, fsVars
  <2>7. Held' /\ AllApart'
    BY <2>1, <2>3, <2>4, <2>5, SameFs DEF FilesInv, Held, AllApart, Apart
  <2> QED
    BY <2>3, <2>5, <2>6, <2>7, <1>2, SameFs DEF FilesInv
<1> QED
  BY <1>3, <1>4

\* device_read and its like, read and write only look.
LEMMA device_opInv ==
    ASSUME FilesInv, NEW name, NEW op, device_op(name, op), UNCHANGED fsVars
    PROVE  FilesInv'
<1>1. /\ Up /\ boot' = boot /\ ret' \in {-1, 0}
      /\ UNCHANGED <<heap, device_list, owned, mounted_fs_list, open_files>>
  BY DEF device_op, fsVars
<1> QED
  BY <1>1, BootUp, NoEffect

LEMMA readwriteInv ==
    ASSUME FilesInv, NEW fd, read(fd) \/ write(fd), UNCHANGED <<device_list, owned>>
    PROVE  FilesInv'
<1>1. /\ Up /\ boot' = boot /\ ret' \in {-1, 0}
      /\ UNCHANGED <<heap, device_list, owned, mounted_fs_list, open_files>>
  BY DEF read, write
<1> QED
  BY <1>1, BootUp, NoEffect

-----------------------------------------------------------------------------
\* What is left of the mounts when only the table of open files changes.
LEMMA SameMounts ==
    ASSUME mounted_fs_list' = mounted_fs_list
    PROVE  /\ MountBlks' = MountBlks /\ SuperBlks' = SuperBlks
           /\ MountsOnce => MountsOnce'
  BY DEF MountBlks, SuperBlks, SuperAt, MountsOnce

\* What is left of the open files when only the list of mounts changes.
LEMMA SameFiles ==
    ASSUME open_files' = open_files
    PROVE  FileBlocks' = FileBlocks /\ (FilesOnce => FilesOnce')
<1>1. OpenFds' = OpenFds
  BY DEF OpenFds, IsOpen
<1> QED
  BY <1>1 DEF FileBlocks, FilesOnce

\* A fresh block goes to a free descriptor.
LEMMA NewFile ==
    ASSUME FilesInv, NEW b \in kmalloc(heap), b # NULL, NEW fd \in Fds, open_files[fd] = NoFile,
           NEW inode \in 0..3, heap' = heap \cup {b},
           open_files' = [open_files EXCEPT ![fd] = File(b, inode)],
           UNCHANGED <<mounted_fs_list, device_list, owned>>, ret' \in {-1, 0}, BootOK'
    PROVE  FilesInv'
<1>1. /\ b \in Blocks /\ b \notin heap /\ b \notin OwnedBlks /\ b \notin ListedBlks
      /\ b \notin FileBlocks /\ b \notin MountBlks /\ b \notin SuperBlks
  BY Fresh DEF FilesInv
<1>2. /\ open_files' \in [Fds -> OpenFiles]
      /\ \A g \in Fds : open_files'[g].blk = NULL => open_files'[g] = NoFile
      /\ FileBlocks' = FileBlocks \cup {b} /\ FilesOnce'
  BY <1>1, FileOpened DEF FilesInv
<1>3. VarsOK'
  BY <1>2 DEF FilesInv, VarsOK
<1>4. Held' /\ AllApart'
  BY <1>1, <1>2, SameMounts, SameDevices DEF FilesInv, Held, AllApart, Apart
<1> QED
  BY <1>2, <1>3, <1>4, SameMounts, SameDevices DEF FilesInv

\* init_fs: the standard streams take descriptors 0, 1 and 2, which are free.
LEMMA InitStreamInv ==
    ASSUME FilesInv, InitStream, UNCHANGED <<device_list, owned>>
    PROVE  FilesInv'
<1>1. boot # <<>> /\ boot' = Tail(boot) /\ ret' = 0 /\ mounted_fs_list' = mounted_fs_list /\ VarsOK
  BY DEF InitStream, FilesInv
<1>2. PICK k \in 0..6 :
             /\ BootAt(k) /\ Head(boot) = Script[k + 1]
             /\ Tail(boot) \in Seq(Items) /\ Len(Tail(boot)) = 7 - (k + 1)
             /\ \A i \in 1..(7 - (k + 1)) : Tail(boot)[i] = Script[(k + 1) + i]
  BY <1>1, BootStep DEF FilesInv
<1>3. PICK h \in 1..3 :
         /\ Head(boot) = StdStreams[h]
         /\ \E b \in kmalloc(heap) :
              IF b = NULL
              THEN UNCHANGED <<heap, open_files>>
              ELSE /\ heap' = heap \cup {b}
                   /\ open_files' = [open_files EXCEPT ![h - 1] = File(b, h - 1)]
  BY ScriptFacts DEF InitStream
<1>4. k + 1 = 3 + h
  BY <1>2, <1>3, ScriptFacts DEF ROOT
<1>5. h - 1 \in Fds /\ h - 1 \in 0..3 /\ open_files[h - 1] = NoFile
  BY <1>2, <1>4, FsAssumption DEF BootAt, Fds
<1>6. ASSUME \A j \in 1..3 : j # h => open_files'[j - 1] = open_files[j - 1]
      PROVE  BootOK'
  <2>1. \A j \in 1..3 : k + 1 < 3 + j => j # h /\ k < 3 + j
    BY <1>4
  <2>2. \A j \in 1..3 : k + 1 < 3 + j => open_files'[j - 1] = NoFile
    BY <2>1, <1>2, <1>6 DEF BootAt
  <2>3. ((k + 1) + 1)..3 = {} /\ k + 1 \in 0..7
    BY <1>4
  <2>4. mounted_fs_list' = <<>>
    BY <1>1, <1>2 DEF BootAt
  <2>5. BootAt(k + 1)'
    BY <2>2, <2>3, <2>4, <1>1, <1>2 DEF BootAt
  <2> QED
    BY <2>3, <2>5 DEF BootOK
<1>7. PICK b \in kmalloc(heap) :
              IF b = NULL
              THEN UNCHANGED <<heap, open_files>>
              ELSE /\ heap' = heap \cup {b}
                   /\ open_files' = [open_files EXCEPT ![h - 1] = File(b, h - 1)]
  BY <1>3
<1>8. CASE b = NULL
  BY <1>1, <1>6, <1>7, <1>8, NoEffect
<1>9. CASE b # NULL
  <2>1. heap' = heap \cup {b} /\ open_files' = [open_files EXCEPT ![h - 1] = File(b, h - 1)]
    BY <1>7, <1>9
  <2>2. \A j \in 1..3 : j # h => open_files'[j - 1] = open_files[j - 1]
    <3>1. \A j \in 1..3 : j - 1 \in Fds
      BY FsAssumption DEF Fds
    <3> QED
      BY <2>1, <3>1, <1>1 DEF VarsOK
  <2>3. BootOK'
    BY <2>2, <1>6
  <2> QED
    BY <2>1, <2>3, <1>1, <1>5, <1>9, NewFile
<1> QED
  BY <1>8, <1>9

\* open takes the lowest free descriptor.
LEMMA openInv ==
    ASSUME FilesInv, NEW inode \in Inodes, open(inode), UNCHANGED <<device_list, owned>>
    PROVE  FilesInv'
<1>1. Up /\ boot' = boot /\ mounted_fs_list' = mounted_fs_list
  BY DEF open
<1>2. BootOK'
  BY <1>1, BootUp
<1>3. PICK b \in kmalloc(heap) :
         IF b = NULL \/ FreeFds = {}
         THEN ret' = -1 /\ UNCHANGED <<heap, open_files>>
         ELSE /\ ret' = 0
              /\ heap' = heap \cup {b}
              /\ open_files' = [open_files EXCEPT ![Min(FreeFds)] = File(b, inode)]
  BY DEF open
<1>4. CASE b = NULL \/ FreeFds = {}
  BY <1>1, <1>2, <1>3, <1>4, NoEffect
<1>5. CASE b # NULL /\ FreeFds # {}
  <2> DEFINE fd == Min(FreeFds)
  <2>1. FreeFds \subseteq Nat
    BY FsAssumption DEF FreeFds, Fds
  <2>2. fd \in FreeFds
    BY <2>1, <1>5, MinNat
  <2>3. /\ ret' = 0 /\ heap' = heap \cup {b}
        /\ open_files' = [open_files EXCEPT ![fd] = File(b, inode)]
    BY <1>3, <1>5
  <2> HIDE DEF fd
  <2>4. fd \in Fds /\ open_files[fd] = NoFile /\ inode \in 0..3
    BY <2>2, FsAssumption DEF FreeFds
  <2> QED
    BY <2>3, <2>4, <1>1, <1>2, <1>5, NewFile
<1> QED
  BY <1>4, <1>5

\* close frees the block of the descriptor, and no other.
LEMMA closeInv ==
    ASSUME FilesInv, NEW fd, close(fd), UNCHANGED <<device_list, owned>>
    PROVE  FilesInv'
<1>1. Up /\ boot' = boot /\ mounted_fs_list' = mounted_fs_list /\ VarsOK
  BY DEF close, FilesInv
<1>2. BootOK'
  BY <1>1, BootUp
<1>3. CASE ~IsOpen(fd)
  BY <1>1, <1>2, <1>3, NoEffect DEF close
<1>4. CASE IsOpen(fd)
  <2>1. /\ ret' = 0 /\ heap' = heap \ {open_files[fd].blk}
        /\ open_files' = [open_files EXCEPT ![fd] = NoFile]
    BY <1>4 DEF close
  <2>2. fd \in OpenFds
    BY <1>4 DEF OpenFds, IsOpen
  <2>3. /\ open_files' \in [Fds -> OpenFiles]
        /\ \A g \in Fds : open_files'[g].blk = NULL => open_files'[g] = NoFile
        /\ FileBlocks' = FileBlocks \ {open_files[fd].blk} /\ FilesOnce'
    BY <2>1, <2>2, <1>1, FileClosed DEF FilesInv
  <2>4. open_files[fd].blk \in FileBlocks
    BY <2>2 DEF FileBlocks
  <2>5. VarsOK'
    BY <2>1, <2>3, <1>1 DEF VarsOK
  <2>6. Held' /\ AllApart'
    BY <2>1, <2>3, <2>4, <1>1, SameMounts, SameDevices DEF FilesInv, Held, AllApart, Apart
  <2> QED
    BY <2>3, <2>5, <2>6, <1>1, <1>2, SameMounts, SameDevices DEF FilesInv
<1> QED
  BY <1>3, <1>4

\* seek moves a position, which stays a word.
LEMMA seekInv ==
    ASSUME FilesInv, NEW fd, NEW offset \in Offsets, NEW whence \in 0..3,
           seek(fd, offset, whence), UNCHANGED <<device_list, owned>>
    PROVE  FilesInv'
<1> DEFINE pos == CASE whence = 0 -> offset % WORD
                    [] whence = 1 -> (open_files[fd].pos + offset) % WORD
                    [] OTHER -> open_files[fd].pos
<1>1. Up /\ boot' = boot /\ heap' = heap /\ mounted_fs_list' = mounted_fs_list /\ VarsOK
  BY DEF seek, FilesInv
<1>2. BootOK'
  BY <1>1, BootUp
<1>3. CASE ~(IsOpen(fd) /\ whence \in 0..2)
  <2>1. ret' = -1 /\ open_files' = open_files
    BY <1>3 DEF seek
  <2> QED
    BY <2>1, <1>1, <1>2, NoEffect
<1>4. CASE IsOpen(fd) /\ whence \in 0..2
  <2>1. ret' = (IF pos = WORD - 1 THEN -1 ELSE 0) /\ open_files' = [open_files EXCEPT ![fd].pos = pos]
    BY <1>4 DEF seek
  <2>2. fd \in OpenFds /\ fd \in Fds
    BY <1>4 DEF OpenFds, IsOpen
  <2>3. pos \in 0..(WORD - 1)
    <3>1. open_files[fd].pos \in 0..(WORD - 1) /\ WORD \in Nat /\ WORD > 0 /\ offset \in Int
      BY <2>2, <1>1, FsAssumption DEF VarsOK, OpenFiles
    <3>2. \A n \in Int : n % WORD \in 0..(WORD - 1)
      BY <3>1
    <3> QED
      BY <3>1, <3>2
  <2> HIDE DEF pos
  <2>4. /\ open_files' \in [Fds -> OpenFiles]
        /\ \A g \in Fds : open_files'[g].blk = NULL => open_files'[g] = NoFile
        /\ FileBlocks' = FileBlocks /\ FilesOnce'
    BY <2>1, <2>2, <2>3, <1>1, FileMoved DEF FilesInv
  <2>5. VarsOK'
    BY <2>1, <2>4, <1>1 DEF VarsOK
  <2>6. Held' /\ AllApart'
    BY <2>4, <1>1, SameMounts, SameDevices DEF FilesInv, Held, AllApart
  <2> QED
    BY <2>4, <2>5, <2>6, <1>1, <1>2, SameMounts, SameDevices DEF FilesInv
<1> QED
  BY <1>3, <1>4

-----------------------------------------------------------------------------
\* init_fs: the root is the first mount.
LEMMA InitRootInv ==
    ASSUME FilesInv, InitRoot, UNCHANGED <<device_list, owned>>
    PROVE  FilesInv'
<1>1. boot = <<ROOT>> /\ boot' = <<>> /\ ret' = 0 /\ open_files' = open_files /\ VarsOK
  BY DEF InitRoot, FilesInv
<1>2. boot # <<>>
  BY <1>1
<1>3. mounted_fs_list = <<>>
  <2>1. PICK k \in 0..6 : BootAt(k)
    BY <1>2, BootStep DEF FilesInv
  <2> QED
    BY <2>1 DEF BootAt
<1>4. BootOK'
  <2>1. (7 + 1)..3 = {} /\ 1..(7 - 7) = {}
    OBVIOUS
  <2>2. BootAt(7)'
    BY <2>1, <1>1 DEF BootAt
  <2> QED
    BY <2>2 DEF BootOK
<1>b. PICK b \in kmalloc(heap) : \E sb \in kmalloc(heap \cup {b}) :
         IF b = NULL \/ sb = NULL
         THEN UNCHANGED <<heap, mounted_fs_list>>
         ELSE /\ heap' = heap \cup {b, sb}
              /\ mounted_fs_list' = <<Mount(b, ROOT, sb)>>
  BY DEF InitRoot
<1>5. PICK sb \in kmalloc(heap \cup {b}) :
         IF b = NULL \/ sb = NULL
         THEN UNCHANGED <<heap, mounted_fs_list>>
         ELSE /\ heap' = heap \cup {b, sb}
              /\ mounted_fs_list' = <<Mount(b, ROOT, sb)>>
  BY <1>b
<1>6. CASE b = NULL \/ sb = NULL
  BY <1>1, <1>4, <1>5, <1>6, NoEffect
<1>7. CASE b # NULL /\ sb # NULL
  <2> DEFINE d == Mount(b, ROOT, sb)
  <2>1. /\ b \in Blocks /\ b \notin heap /\ b \notin OwnedBlks /\ b \notin ListedBlks
        /\ b \notin FileBlocks /\ b \notin MountBlks /\ b \notin SuperBlks
    BY <1>7, Fresh DEF FilesInv
  <2>2. sb \in kmalloc(heap) /\ sb # b
    BY <1>7 DEF kmalloc
  <2>3. /\ sb \in Blocks /\ sb \notin heap /\ sb \notin OwnedBlks /\ sb \notin ListedBlks
        /\ sb \notin FileBlocks /\ sb \notin MountBlks /\ sb \notin SuperBlks
    BY <2>2, <1>7, Fresh DEF FilesInv
  <2>4. d \in Mounts /\ d.blk = b /\ d.sb = sb
    BY <2>1, <2>3, FsAssumption DEF Mounts, Mount
  <2>5. heap' = heap \cup {b, sb} /\ mounted_fs_list' = <<d>>
    BY <1>5, <1>7
  <2> HIDE DEF d
  <2>6. mounted_fs_list' = <<d>> \o mounted_fs_list
    <3>1. <<d>> \in Seq(Mounts)
      BY <2>4
    <3> QED
      BY <3>1, <2>5, <1>3, ConcatEmptySeq
  <2>7. /\ mounted_fs_list' \in Seq(Mounts) /\ MountsOnce'
        /\ MountBlks' = MountBlks \cup {b} /\ SuperBlks' = SuperBlks \cup ({sb} \ {NULL})
    BY <2>1, <2>3, <2>4, <2>6, <1>1, MountCons DEF FilesInv
  <2>9. VarsOK'
    BY <2>7, <1>1 DEF VarsOK
  <2>10. Held' /\ AllApart'
    <3>1. SuperBlks' = SuperBlks \cup {sb}
      BY <2>7, <1>7
    <3> QED
      BY <2>1, <2>2, <2>3, <2>5, <2>7, <3>1, <1>1, SameFiles, SameDevices
         DEF FilesInv, Held, AllApart, Apart
  <2> QED
    BY <2>7, <2>9, <2>10, <1>1, <1>4, SameFiles, SameDevices DEF FilesInv
<1> QED
  BY <1>6, <1>7

\* The mounts at path, counted by place.
LEMMA MountsAtPlaces ==
    ASSUME VarsOK, NEW path
    PROVE  /\ MountsAt(path) = {i \in 1..Len(mounted_fs_list) : mounted_fs_list[i].mountpoint = path}
           /\ MountsAt(path) # {} => Min(MountsAt(path)) \in 1..Len(mounted_fs_list)
<1>1. MountsAt(path) = {i \in 1..Len(mounted_fs_list) : mounted_fs_list[i].mountpoint = path}
  BY DEF MountsAt, VarsOK
<1>2. MountsAt(path) \subseteq Nat
  BY <1>1
<1>3. MountsAt(path) # {} => Min(MountsAt(path)) \in MountsAt(path)
  BY <1>2, MinNat
<1> QED
  BY <1>1, <1>3

\* mount refuses a mountpoint it has, unless that was cut short when stored.
LEMMA mountInv ==
    ASSUME FilesInv, NEW path \in Paths, mount(path), UNCHANGED <<device_list, owned>>
    PROVE  FilesInv'
<1>1. Up /\ boot' = boot /\ open_files' = open_files /\ VarsOK
  BY DEF mount, FilesInv
<1>2. BootOK'
  BY <1>1, BootUp
<1>3. PICK b \in kmalloc(heap) :
         IF MountsAt(path) # {} \/ b = NULL
         THEN ret' = -1 /\ UNCHANGED <<heap, mounted_fs_list>>
         ELSE /\ ret' = 0
              /\ heap' = heap \cup {b}
              /\ mounted_fs_list' = <<Mount(b, Cut[path], NULL)>> \o mounted_fs_list
  BY DEF mount
<1>4. CASE MountsAt(path) # {} \/ b = NULL
  BY <1>1, <1>2, <1>3, <1>4, NoEffect
<1>5. CASE MountsAt(path) = {} /\ b # NULL
  <2> DEFINE d == Mount(b, Cut[path], NULL)
             s == mounted_fs_list
             r == mounted_fs_list'
             n == Len(mounted_fs_list)
  <2>1. /\ b \in Blocks /\ b \notin heap /\ b \notin OwnedBlks /\ b \notin ListedBlks
        /\ b \notin FileBlocks /\ b \notin MountBlks /\ b \notin SuperBlks
    BY <1>5, Fresh DEF FilesInv
  <2>2. d \in Mounts /\ d.blk = b /\ d.sb = NULL /\ d.mountpoint = Cut[path]
    BY <2>1, FsAssumption DEF Mounts, Mount
  <2>3. ret' = 0 /\ heap' = heap \cup {b} /\ r = <<d>> \o s
    BY <1>3, <1>5
  <2>4. NULL \notin SuperBlks
    BY DEF SuperBlks, SuperAt
  <2> HIDE DEF d
  <2>5. /\ r \in Seq(Mounts) /\ MountsOnce'
        /\ MountBlks' = MountBlks \cup {b} /\ SuperBlks' = SuperBlks \cup ({NULL} \ {NULL})
        /\ Len(r) = n + 1 /\ r[1] = d
        /\ \A i \in 1..n : r[i + 1] = s[i]
        /\ \A i \in 1..(n + 1) : i = 1 \/ \E j \in 1..n : i = j + 1
    BY <2>1, <2>2, <2>3, <2>4, <1>1, MountCons DEF FilesInv
  <2>6. SuperBlks' = SuperBlks
    BY <2>5
  <2>8. VarsOK'
    BY <2>3, <2>5, <1>1 DEF VarsOK
  <2>9. Held' /\ AllApart'
    BY <2>1, <2>3, <2>5, <2>6, <1>1, SameFiles, SameDevices
       DEF FilesInv, Held, AllApart, Apart
  <2> QED
    BY <2>5, <2>8, <2>9, <1>1, <1>2, SameFiles, SameDevices DEF FilesInv
<1> QED
  BY <1>4, <1>5

\* What the holders hold are blocks.
LEMMA HeldBlocks ==
    ASSUME VarsOK
    PROVE  /\ OwnedBlks \subseteq Blocks /\ ListedBlks \subseteq Blocks /\ FileBlocks \subseteq Blocks
           /\ MountBlks \subseteq Blocks /\ SuperBlks \subseteq Blocks
<1>1. \A i \in 1..Len(device_list) : device_list[i] \in Devices
  BY ElementOfSeq DEF VarsOK
<1>2. \A i \in 1..Len(mounted_fs_list) : mounted_fs_list[i] \in Mounts
  BY ElementOfSeq DEF VarsOK
<1>3. /\ \A d \in Devices : d.blk \in Blocks
      /\ \A d \in Mounts : d.blk \in Blocks /\ d.sb \in Blocks \cup {NULL}
  BY DEF Devices, Mounts
<1>4. OwnedBlks \subseteq Blocks
  BY <1>3 DEF VarsOK, OwnedBlks
<1>5. ListedBlks \subseteq Blocks
  BY <1>1, <1>3 DEF ListedBlks
<1>6. MountBlks \subseteq Blocks /\ SuperBlks \subseteq Blocks
  BY <1>2, <1>3 DEF MountBlks, SuperAt, SuperBlks
<1>7. FileBlocks \subseteq Blocks
  <2>1. \A fd \in OpenFds : open_files[fd] \in OpenFiles /\ open_files[fd].blk # NULL
    BY OpenByBlock DEF VarsOK
  <2> QED
    BY <2>1 DEF FileBlocks, OpenFiles
<1> QED
  BY <1>4, <1>5, <1>6, <1>7

\* umount frees the mount's block and its superblock, and no other.
LEMMA umountInv ==
    ASSUME FilesInv, NEW path \in Paths, umount(path), UNCHANGED <<device_list, owned>>
    PROVE  FilesInv'
<1> DEFINE k == Min(MountsAt(path))
<1>1. Up /\ boot' = boot /\ open_files' = open_files /\ VarsOK
  BY DEF umount, FilesInv
<1>2. BootOK'
  BY <1>1, BootUp
<1>3. CASE MountsAt(path) = {}
  <2>1. ret' = -1 /\ UNCHANGED <<heap, mounted_fs_list>>
    BY <1>3 DEF umount
  <2> QED
    BY <2>1, <1>1, <1>2, NoEffect
<1>4. CASE MountsAt(path) # {}
  <2>1. /\ ret' = 0 /\ heap' = heap \ {mounted_fs_list[k].blk, mounted_fs_list[k].sb}
        /\ mounted_fs_list' = RemoveAt(mounted_fs_list, k)
    BY <1>4 DEF umount
  <2>2. k \in 1..Len(mounted_fs_list)
    BY <1>1, <1>4, MountsAtPlaces
  <2> HIDE DEF k
  <2>3. /\ mounted_fs_list' \in Seq(Mounts) /\ MountsOnce'
        /\ MountBlks' = MountBlks \ {mounted_fs_list[k].blk}
        /\ SuperBlks' = SuperBlks \ {mounted_fs_list[k].sb}
    BY <2>1, <2>2, <1>1, MountRemove DEF FilesInv
  <2>4. mounted_fs_list[k].blk \in MountBlks
    BY <2>2 DEF MountBlks
  <2>5. mounted_fs_list[k].sb \in SuperBlks \/ mounted_fs_list[k].sb = NULL
    BY <2>2 DEF SuperBlks, SuperAt
  <2>6. NULL \notin heap
    BY <1>1, BlocksAssumption, HeldBlocks DEF FilesInv, Held
  <2>7. VarsOK'
    BY <2>1, <2>3, <1>1 DEF VarsOK
  <2>8. Held' /\ AllApart'
    <3> DEFINE x == mounted_fs_list[k].blk
               y == mounted_fs_list[k].sb
    <3>1. /\ heap' = heap \ {x, y} /\ MountBlks' = MountBlks \ {x} /\ SuperBlks' = SuperBlks \ {y}
          /\ x \in MountBlks /\ (y \in SuperBlks \/ y \notin heap)
      BY <2>1, <2>3, <2>4, <2>5, <2>6
    <3>2. OwnedBlks' = OwnedBlks /\ ListedBlks' = ListedBlks /\ FileBlocks' = FileBlocks
      BY <1>1, SameFiles, SameDevices
    <3> HIDE DEF x, y
    <3> QED
      BY <3>1, <3>2 DEF FilesInv, Held, AllApart, Apart
  <2> QED
    BY <2>3, <2>7, <2>8, <1>1, <1>2, SameFiles, SameDevices DEF FilesInv
<1> QED
  BY <1>3, <1>4

-----------------------------------------------------------------------------
\* FilesInv holds when the kernel starts,
LEMMA FilesStart == FilesInit => FilesInv
<1> SUFFICES ASSUME FilesInit PROVE FilesInv
  OBVIOUS
<1>1. /\ heap = {} /\ boot = Script /\ ret = 0 /\ device_list = <<>> /\ owned = {}
      /\ mounted_fs_list = <<>> /\ open_files = [fd \in Fds |-> NoFile]
  BY DEF FilesInit, DeviceInit, FsInit, Script
<1>2. NoFile \in OpenFiles
  BY FsAssumption DEF NoFile, File, OpenFiles
<1>3. VarsOK
  <2>1. IsFiniteSet(owned)
    BY <1>1, FS_EmptySet
  <2>2. open_files \in [Fds -> OpenFiles] /\ \A fd \in Fds : open_files[fd] = NoFile
    BY <1>1, <1>2
  <2> QED
    BY <2>1, <2>2, <1>1 DEF VarsOK
<1>4. OpenFds = {} /\ FileBlocks = {}
  BY <1>1 DEF OpenFds, IsOpen, FileBlocks
<1>5. OwnedBlks = {} /\ ListedBlks = {} /\ MountBlks = {} /\ SuperAt = {} /\ SuperBlks = {}
  BY <1>1 DEF OwnedBlks, ListedBlks, MountBlks, SuperAt, SuperBlks
<1>6. Held /\ AllApart
  BY <1>1, <1>4, <1>5 DEF Held, AllApart, Apart
<1>7. OwnedOnce /\ ListedOnce /\ FilesOnce /\ MountsOnce /\ NamesOnce
  BY <1>1, <1>4, <1>5 DEF OwnedOnce, ListedOnce, FilesOnce, MountsOnce, NamesOnce
<1>8. BootOK
  <2>1. \A i \in 1..(7 - 0) : boot[i] = Script[0 + i]
    BY <1>1
  <2>2. \A j \in 1..3 : open_files[j - 1] = NoFile
    BY <1>1, FsAssumption DEF Fds
  <2>3. BootAt(0)
    BY <2>1, <2>2, <1>1, ScriptFacts DEF BootAt
  <2> QED
    BY <2>3 DEF BootOK
<1> QED
  BY <1>3, <1>6, <1>7, <1>8 DEF FilesInv

\* and every step preserves it.
LEMMA FilesStep == FilesInv /\ [FilesNext]_filesVars => FilesInv'
<1> SUFFICES ASSUME FilesInv, [FilesNext]_filesVars PROVE FilesInv'
  OBVIOUS
<1>1. CASE DeviceNext /\ UNCHANGED fsVars
  BY <1>1, init_devicesInv, NewDeviceInv, register_deviceInv, unregister_deviceInv, device_opInv
     DEF DeviceNext
<1>2. CASE FsNext /\ UNCHANGED <<device_list, owned>>
  BY <1>2, InitStreamInv, InitRootInv, mountInv, umountInv, openInv, closeInv, readwriteInv, seekInv
     DEF FsNext
<1>3. CASE UNCHANGED filesVars
  <2>1. /\ UNCHANGED <<heap, device_list, owned, mounted_fs_list, open_files>>
        /\ boot' = boot /\ ret' = ret
    BY <1>3 DEF filesVars
  <2>2. BootOK'
    <3>1. PICK k \in 0..7 : BootAt(k)
      BY DEF FilesInv, BootOK
    <3>2. BootAt(k)'
      BY <2>1, <3>1 DEF BootAt
    <3> QED
      BY <3>2 DEF BootOK
  <2>3. ret' \in {-1, 0}
    BY <2>1 DEF FilesInv, VarsOK
  <2> QED
    BY <2>1, <2>2, <2>3, NoEffect
<1> QED
  BY <1>1, <1>2, <1>3 DEF FilesNext

\* The inductive invariant holds throughout.
THEOREM FilesInvariant == FilesSpec => []FilesInv
  BY FilesStart, FilesStep, PTL DEF FilesSpec

\* The heap holds blocks only, and so do the lists and the table.
THEOREM FilesType == FilesSpec => []TypeOK
<1>1. FilesInv => TypeOK
  <2> SUFFICES ASSUME FilesInv PROVE TypeOK
    OBVIOUS
  <2>1. VarsOK /\ DOMAIN device_list = 1..Len(device_list)
        /\ DOMAIN mounted_fs_list = 1..Len(mounted_fs_list)
    BY DEF FilesInv, VarsOK
  <2>2. heap \subseteq Blocks
    BY <2>1, HeldBlocks DEF FilesInv, Held
  <2>3. \A i \in DOMAIN device_list : device_list[i] \in Devices
    BY <2>1, ElementOfSeq DEF VarsOK
  <2>4. \A i \in DOMAIN mounted_fs_list : mounted_fs_list[i] \in Mounts
    BY <2>1, ElementOfSeq DEF VarsOK
  <2>5. \A d \in owned \cup {device_list[i] : i \in DOMAIN device_list} :
           d.blk \in Blocks /\ d.name \in DeviceNames
    BY <2>1, <2>3 DEF VarsOK, Devices
  <2>6. \A i \in DOMAIN mounted_fs_list :
           mounted_fs_list[i].blk \in Blocks /\ mounted_fs_list[i].sb \in Blocks \cup {NULL}
    BY <2>4 DEF Mounts
  <2> QED
    BY <2>1, <2>2, <2>5, <2>6 DEF TypeOK, VarsOK, OpenFiles
<1> QED
  BY <1>1, FilesInvariant, PTL

-----------------------------------------------------------------------------
\* A call that answers -1 has changed nothing, or is a seek to the position that
\* reads as -1.
LEMMA FailureStep ==
    ASSUME FilesInv, FilesNext, ret' = -1
    PROVE  /\ UNCHANGED <<heap, device_list, owned, mounted_fs_list>>
           /\ \A fd \in Fds : open_files'[fd] # open_files[fd] => open_files'[fd].pos = WORD - 1
<1>1. CASE DeviceNext /\ UNCHANGED fsVars
  BY <1>1 DEF DeviceNext, init_devices, NewDevice, register_device, unregister_device, device_op, fsVars
<1>2. CASE FsNext /\ UNCHANGED <<device_list, owned>>
  <2>1. CASE InitStream \/ InitRoot \/ \E path \in Paths : mount(path) \/ umount(path)
    BY <1>2, <2>1 DEF InitStream, InitRoot, mount, umount
  <2>2. ASSUME NEW inode \in Inodes, open(inode)
        PROVE  UNCHANGED <<heap, mounted_fs_list, open_files>>
    BY <2>2 DEF open
  <2>3. ASSUME NEW fd \in -1..MAX_FILES, close(fd) \/ read(fd) \/ write(fd)
        PROVE  UNCHANGED <<heap, mounted_fs_list, open_files>>
    BY <2>3 DEF close, read, write
  <2>4. ASSUME NEW fd \in -1..MAX_FILES, NEW offset \in Offsets, NEW whence \in 0..3,
               seek(fd, offset, whence)
        PROVE  /\ UNCHANGED <<heap, mounted_fs_list>>
               /\ \A g \in Fds : open_files'[g] # open_files[g] => open_files'[g].pos = WORD - 1
    <3> DEFINE pos == CASE whence = 0 -> offset % WORD
                        [] whence = 1 -> (open_files[fd].pos + offset) % WORD
                        [] OTHER -> open_files[fd].pos
    <3>1. UNCHANGED <<heap, mounted_fs_list>>
          /\ \/ open_files' = open_files
             \/ /\ fd \in Fds /\ ret' = (IF pos = WORD - 1 THEN -1 ELSE 0)
                /\ open_files' = [open_files EXCEPT ![fd].pos = pos]
      BY <2>4 DEF seek, IsOpen
    <3> HIDE DEF pos
    <3>2. open_files \in [Fds -> OpenFiles]
      BY DEF FilesInv, VarsOK
    <3> QED
      BY <3>1, <3>2 DEF OpenFiles
  <2> QED
    BY <1>2, <2>1, <2>2, <2>3, <2>4 DEF FsNext
<1> QED
  BY <1>1, <1>2 DEF FilesNext

\* Whatever device.c and fs.c answer -1 to has left the heap, both lists and the
\* table as they were, for every argument; only a seek may answer -1 and move.
THEOREM FilesFailures == FilesSpec => FailuresChangeNothing
<1>1. FilesInv /\ [FilesNext]_filesVars =>
        [ret' = -1 =>
          /\ UNCHANGED <<heap, device_list, owned, mounted_fs_list>>
          /\ \A fd \in Fds : open_files'[fd] # open_files[fd] => open_files'[fd].pos = WORD - 1]_filesVars
  BY FailureStep
<1> QED
  BY <1>1, FilesInvariant, PTL DEF FilesSpec, FailuresChangeNothing

-----------------------------------------------------------------------------
\* The blocks of the devices of one name.
BlksOf(s, n) == {s[i].blk : i \in {j \in 1..Len(s) : s[j].name = n}}

\* The names of the registry, read off the list.
LEMMA EntriesBlks ==
    /\ VarsOK => Entries = [n \in DeviceNames |-> BlksOf(device_list, n)]
    /\ VarsOK' => Entries' = [n \in DeviceNames |-> BlksOf(device_list', n)]
<1>1. ASSUME VarsOK PROVE Entries = [n \in DeviceNames |-> BlksOf(device_list, n)]
  <2>1. DOMAIN device_list = 1..Len(device_list)
    BY <1>1 DEF VarsOK
  <2> QED
    BY <2>1 DEF Entries, BlksOf, Matches
<1>2. ASSUME VarsOK' PROVE Entries' = [n \in DeviceNames |-> BlksOf(device_list', n)]
  <2>1. DOMAIN device_list' = 1..Len(device_list')
    BY <1>2 DEF VarsOK
  <2> QED
    BY <2>1 DEF Entries, BlksOf, Matches
<1> QED
  BY <1>1, <1>2

\* A device in front of a list that lacks its name registers it.
LEMMA RegisterRefines ==
    ASSUME FilesInv, FilesInv', NEW d \in Devices, device_list' = <<d>> \o device_list,
           \A i \in 1..Len(device_list) : device_list[i].name # d.name
    PROVE  Names!Next
<1> DEFINE s == device_list
           r == device_list'
           N == Len(device_list)
           M == Len(device_list')
<1>1. VarsOK /\ VarsOK'
  BY DEF FilesInv
<1>2. /\ \A i \in 1..M : r[i] = d \/ \E j \in 1..N : r[i] = s[j]
      /\ \E i \in 1..M : r[i] = d
      /\ \A j \in 1..N : \E i \in 1..M : r[i] = s[j]
  BY <1>1, ListedCons
<1>3. d.name \in DeviceNames /\ d.blk \in Blocks
  BY DEF Devices
<1>4. \A i \in 1..N : s[i].name # d.name
  OBVIOUS
<1>5. Entries = [n \in DeviceNames |-> BlksOf(s, n)] /\ Entries' = [n \in DeviceNames |-> BlksOf(r, n)]
  BY <1>1, EntriesBlks
<1>6. \A n : BlksOf(s, n) = {s[i].blk : i \in {j \in 1..N : s[j].name = n}}
             /\ BlksOf(r, n) = {r[i].blk : i \in {j \in 1..M : r[j].name = n}}
  BY DEF BlksOf
<1> HIDE DEF s, r, N, M
<1>7. BlksOf(s, d.name) = {} /\ BlksOf(r, d.name) = {d.blk}
  <2>1. BlksOf(s, d.name) = {}
    BY <1>4, <1>6
  <2>2. \A b \in BlksOf(r, d.name) : b = d.blk
    BY <1>2, <1>4, <1>6
  <2>3. d.blk \in BlksOf(r, d.name)
    BY <1>2, <1>6
  <2> QED
    BY <2>1, <2>2, <2>3
<1>8. ASSUME NEW n, n # d.name PROVE BlksOf(r, n) = BlksOf(s, n)
  <2>1. ASSUME NEW b \in BlksOf(r, n) PROVE b \in BlksOf(s, n)
    BY <2>1, <1>2, <1>6, <1>8
  <2>2. ASSUME NEW b \in BlksOf(s, n) PROVE b \in BlksOf(r, n)
    BY <2>2, <1>2, <1>6
  <2> QED
    BY <2>1, <2>2
<1>9. Names!Register(d.name, d.blk)
  BY <1>3, <1>5, <1>7, <1>8 DEF Names!Register
<1> QED
  BY <1>3, <1>9 DEF Names!Next

\* A device off the list takes its name out of the registry.
LEMMA UnregisterRefines ==
    ASSUME FilesInv, FilesInv', NEW k \in 1..Len(device_list),
           device_list' = RemoveAt(device_list, k)
    PROVE  Names!Next
<1> DEFINE s == device_list
           r == device_list'
           N == Len(device_list)
           M == Len(device_list')
           x == device_list[k].name
<1>1. VarsOK /\ VarsOK'
  BY DEF FilesInv
<1>2. PICK u : Places(u, r, s, k)
  BY <1>1, ListedRemove DEF FilesInv
<1>3. /\ \A i \in 1..M : u[i] \in 1..N /\ u[i] # k /\ r[i] = s[u[i]]
      /\ \A j \in 1..N : j # k => \E i \in 1..M : u[i] = j
  BY <1>2 DEF Places
<1>4. x \in DeviceNames
  <2>1. device_list[k] \in Devices
    BY <1>1, ElementOfSeq DEF VarsOK
  <2> QED
    BY <2>1 DEF Devices
<1>5. Entries = [n \in DeviceNames |-> BlksOf(s, n)] /\ Entries' = [n \in DeviceNames |-> BlksOf(r, n)]
  BY <1>1, EntriesBlks
<1>6. \A n : BlksOf(s, n) = {s[i].blk : i \in {j \in 1..N : s[j].name = n}}
             /\ BlksOf(r, n) = {r[i].blk : i \in {j \in 1..M : r[j].name = n}}
  BY DEF BlksOf
<1>7. /\ \A i, j \in 1..N : s[i].name = s[j].name => i = j
      /\ k \in 1..N /\ x = s[k].name
  BY DEF FilesInv, NamesOnce
<1> HIDE DEF s, r, N, M, x
<1>8. BlksOf(s, x) # {} /\ BlksOf(r, x) = {}
  <2>1. s[k].blk \in BlksOf(s, x)
    BY <1>6, <1>7
  <2>2. \A i \in 1..M : r[i].name # x
    BY <1>3, <1>7
  <2>3. BlksOf(r, x) = {}
    BY <2>2, <1>6
  <2> QED
    BY <2>1, <2>3
<1>9. ASSUME NEW n, n # x PROVE BlksOf(r, n) = BlksOf(s, n)
  <2>1. ASSUME NEW b \in BlksOf(r, n) PROVE b \in BlksOf(s, n)
    BY <2>1, <1>3, <1>6
  <2>2. ASSUME NEW b \in BlksOf(s, n) PROVE b \in BlksOf(r, n)
    <3>1. PICK j \in 1..N : s[j].name = n /\ b = s[j].blk
      BY <2>2, <1>6
    <3>2. PICK i \in 1..M : u[i] = j
      BY <3>1, <1>3, <1>7, <1>9
    <3> QED
      BY <3>1, <3>2, <1>3, <1>6
  <2> QED
    BY <2>1, <2>2
<1>10. Names!Unregister(x)
  BY <1>4, <1>5, <1>8, <1>9 DEF Names!Unregister
<1> QED
  BY <1>4, <1>10 DEF Names!Next

\* A step of the two components is a step of the registry, or leaves it alone.
LEMMA RegistryStep ==
    ASSUME FilesInv, FilesInv', FilesNext
    PROVE  Names!Next \/ Entries' = Entries
<1>1. VarsOK
  BY DEF FilesInv
<1>2. CASE device_list' = device_list
  BY <1>2 DEF Entries, Matches
<1>3. ASSUME NEW d \in Devices, device_list' = Listed(d) PROVE Names!Next \/ Entries' = Entries
  <2>1. CASE get_device(d.name) # NULL
    BY <2>1, <1>2, <1>3 DEF Listed
  <2>2. CASE get_device(d.name) = NULL
    <3>1. device_list' = <<d>> \o device_list
      BY <2>2, <1>3 DEF Listed
    <3>2. \A i \in 1..Len(device_list) : device_list[i].name # d.name
      BY <2>2, <1>1, GetDevice
    <3> QED
      BY <3>1, <3>2, RegisterRefines
  <2> QED
    BY <2>1, <2>2
<1>4. CASE init_devices
  <2>1. PICK b \in kmalloc(heap) :
         IF b = NULL
         THEN UNCHANGED <<heap, device_list>>
         ELSE device_list' = Listed(Dev(b, Head(boot), StdOps))
    BY <1>4 DEF init_devices
  <2>2. CASE b # NULL
    <3>1. b \in Blocks /\ Head(boot) \in DeviceNames
      BY <1>4, <2>2 DEF kmalloc, init_devices, DeviceNames
    <3>2. Dev(b, Head(boot), StdOps) \in Devices
      BY <3>1 DEF Devices, Dev
    <3> QED
      BY <3>2, <2>1, <2>2, <1>3
  <2> QED
    BY <2>1, <2>2, <1>2
<1>5. ASSUME NEW d \in owned \cup {device_list[i] : i \in DOMAIN device_list}, register_device(d)
      PROVE  Names!Next \/ Entries' = Entries
  <2>1. d \in Devices
    BY <1>1, ElementOfSeq DEF VarsOK
  <2> QED
    BY <2>1, <1>3, <1>5 DEF register_device
<1>6. ASSUME NEW name \in DeviceNames, unregister_device(name)
      PROVE  Names!Next \/ Entries' = Entries
  <2> DEFINE k == get_device(name)
  <2>1. \/ device_list' = device_list
        \/ k # NULL /\ device_list' = RemoveAt(device_list, k)
    BY <1>6 DEF unregister_device
  <2>2. k # NULL => k \in 1..Len(device_list)
    BY <1>1, GetDevice
  <2> HIDE DEF k
  <2> QED
    BY <2>1, <2>2, <1>2, UnregisterRefines
<1>7. ASSUME NEW name, NEW op, NewDevice(name) \/ device_op(name, op)
      PROVE  device_list' = device_list
  BY <1>7 DEF NewDevice, device_op
<1> QED
  BY <1>2, <1>4, <1>5, <1>6, <1>7 DEF FilesNext, DeviceNext

\* device.c's list implements the registry: a name stands for one device at most,
\* a second one is refused, and what is unregistered is found no more.
THEOREM FilesImplementsRegistry == FilesSpec => ImplementsRegistry
<1>1. FilesInit => Names!Init
  BY DEF FilesInit, DeviceInit, Names!Init, Entries, Matches
<1>2. FilesInv /\ FilesInv' /\ [FilesNext]_filesVars => [Names!Next]_Entries
  <2>1. UNCHANGED filesVars => Entries' = Entries
    BY DEF filesVars, Entries, Matches
  <2> QED
    BY <2>1, RegistryStep
<1> QED
  BY <1>1, <1>2, FilesInvariant, PTL DEF FilesSpec, ImplementsRegistry, Names!Spec

-----------------------------------------------------------------------------
\* As many blocks as there are holders, when no two of them share one.
LEMMA CountImage ==
    ASSUME NEW S, NEW T, IsFiniteSet(S), NEW f \in [S -> T],
           \A x, y \in S : f[x] = f[y] => x = y,
           \A t \in T : \E x \in S : f[x] = t
    PROVE  IsFiniteSet(T) /\ Cardinality(T) = Cardinality(S)
<1>1. f \in Bijection(S, T)
  BY Fun_IsBij
<1>2. ExistsBijection(S, T)
  BY <1>1 DEF ExistsBijection
<1> QED
  BY <1>2, FS_Bijection

LEMMA CountApart ==
    ASSUME NEW S, NEW T, IsFiniteSet(S), IsFiniteSet(T), S \cap T = {}
    PROVE  IsFiniteSet(S \cup T) /\ Cardinality(S \cup T) = Cardinality(S) + Cardinality(T)
<1>1. /\ IsFiniteSet(S \cup T)
      /\ Cardinality(S \cup T) = Cardinality(S) + Cardinality(T) - Cardinality(S \cap T)
  BY FS_Union
<1>2. Cardinality(S \cap T) = 0
  BY FS_EmptySet
<1>3. Cardinality(S) \in Nat /\ Cardinality(T) \in Nat
  BY FS_CardinalityType
<1> QED
  BY <1>1, <1>2, <1>3

LEMMA CountTo ==
    ASSUME NEW n \in Nat
    PROVE  IsFiniteSet(1..n) /\ Cardinality(1..n) = n
  BY FS_Interval

\* The allocated blocks, counted kind by kind.
LEMMA HeapCount == FilesInv => Cardinality(heap) = Holders
<1> SUFFICES ASSUME FilesInv PROVE Cardinality(heap) = Holders
  OBVIOUS
<1> DEFINE A == OwnedBlks
           B == ListedBlks
           C == FileBlocks
           D == MountBlks
           E == SuperBlks
<1>1. VarsOK /\ Len(device_list) \in Nat /\ Len(mounted_fs_list) \in Nat
      /\ DOMAIN mounted_fs_list = 1..Len(mounted_fs_list)
  BY DEF FilesInv, VarsOK
<1>2. IsFiniteSet(A) /\ Cardinality(A) = Cardinality(owned)
  <2> DEFINE f == [d \in owned |-> d.blk]
  <2>1. f \in [owned -> A] /\ \A t \in A : \E x \in owned : f[x] = t
    BY DEF OwnedBlks
  <2>2. \A x, y \in owned : f[x] = f[y] => x = y
    BY DEF FilesInv, OwnedOnce
  <2>3. IsFiniteSet(owned)
    BY <1>1 DEF VarsOK
  <2> HIDE DEF f, A
  <2> QED
    BY <2>1, <2>2, <2>3, CountImage
<1>3. IsFiniteSet(B) /\ Cardinality(B) = Len(device_list)
  <2> DEFINE S == 1..Len(device_list)
             f == [i \in S |-> device_list[i].blk]
  <2>1. f \in [S -> B] /\ \A t \in B : \E x \in S : f[x] = t
    BY DEF ListedBlks
  <2>2. \A x, y \in S : f[x] = f[y] => x = y
    BY DEF FilesInv, ListedOnce
  <2>3. IsFiniteSet(S) /\ Cardinality(S) = Len(device_list)
    BY <1>1, CountTo
  <2> HIDE DEF f, S, B
  <2> QED
    BY <2>1, <2>2, <2>3, CountImage
<1>4. IsFiniteSet(C) /\ Cardinality(C) = Cardinality(OpenFds)
  <2> DEFINE f == [fd \in OpenFds |-> open_files[fd].blk]
  <2>1. f \in [OpenFds -> C] /\ \A t \in C : \E x \in OpenFds : f[x] = t
    BY DEF FileBlocks
  <2>2. \A x, y \in OpenFds : f[x] = f[y] => x = y
    BY DEF FilesInv, FilesOnce
  <2>3. IsFiniteSet(OpenFds)
    <3>1. IsFiniteSet(Fds)
      BY FsAssumption, FS_Interval DEF Fds
    <3>2. OpenFds \subseteq Fds
      BY DEF OpenFds
    <3> QED
      BY <3>1, <3>2, FS_Subset
  <2> HIDE DEF f, C
  <2> QED
    BY <2>1, <2>2, <2>3, CountImage
<1>5. IsFiniteSet(D) /\ Cardinality(D) = Len(mounted_fs_list)
  <2> DEFINE S == 1..Len(mounted_fs_list)
             f == [i \in S |-> mounted_fs_list[i].blk]
  <2>1. f \in [S -> D] /\ \A t \in D : \E x \in S : f[x] = t
    BY DEF MountBlks
  <2>2. \A x, y \in S : f[x] = f[y] => x = y
    BY DEF FilesInv, MountsOnce
  <2>3. IsFiniteSet(S) /\ Cardinality(S) = Len(mounted_fs_list)
    BY <1>1, CountTo
  <2> HIDE DEF f, S, D
  <2> QED
    BY <2>1, <2>2, <2>3, CountImage
<1>6. IsFiniteSet(E) /\ Cardinality(E) = Cardinality(SuperAt)
  <2> DEFINE f == [i \in SuperAt |-> mounted_fs_list[i].sb]
  <2>1. f \in [SuperAt -> E] /\ \A t \in E : \E x \in SuperAt : f[x] = t
    BY DEF SuperBlks
  <2>2. \A x, y \in SuperAt : f[x] = f[y] => x = y
    BY DEF FilesInv, MountsOnce
  <2>3. IsFiniteSet(SuperAt)
    <3>1. IsFiniteSet(1..Len(mounted_fs_list))
      BY <1>1, FS_Interval
    <3>2. SuperAt \subseteq 1..Len(mounted_fs_list)
      BY DEF SuperAt
    <3> QED
      BY <3>1, <3>2, FS_Subset
  <2> HIDE DEF f, E
  <2> QED
    BY <2>1, <2>2, <2>3, CountImage
<1>7. SuperAt = {i \in DOMAIN mounted_fs_list : mounted_fs_list[i].sb # NULL}
  BY <1>1 DEF SuperAt
<1>8. heap = A \cup B \cup C \cup D \cup E /\ Apart(A, B, C, D, E)
  BY DEF FilesInv, Held, AllApart
<1> HIDE DEF A, B, C, D, E
<1>9. /\ A \cap B = {} /\ (A \cup B) \cap C = {} /\ (A \cup B \cup C) \cap D = {}
      /\ (A \cup B \cup C \cup D) \cap E = {}
  BY <1>8 DEF Apart
<1>10. IsFiniteSet(A \cup B) /\ Cardinality(A \cup B) = Cardinality(A) + Cardinality(B)
  BY <1>2, <1>3, <1>9, CountApart
<1>11. /\ IsFiniteSet(A \cup B \cup C)
       /\ Cardinality(A \cup B \cup C) = Cardinality(A \cup B) + Cardinality(C)
  BY <1>4, <1>9, <1>10, CountApart
<1>12. /\ IsFiniteSet(A \cup B \cup C \cup D)
       /\ Cardinality(A \cup B \cup C \cup D) = Cardinality(A \cup B \cup C) + Cardinality(D)
  BY <1>5, <1>9, <1>11, CountApart
<1>13. Cardinality(heap) = Cardinality(A \cup B \cup C \cup D) + Cardinality(E)
  BY <1>6, <1>8, <1>9, <1>12, CountApart
<1> QED
  BY <1>2, <1>3, <1>4, <1>5, <1>6, <1>7, <1>10, <1>11, <1>12, <1>13 DEF Holders

\* Every allocated block has exactly one holder, a device, an open file or a mount,
\* and every holder's block is allocated, whatever kmalloc answers: nothing
\* device.c and fs.c allocate leaks, is freed twice or is used after it was freed.
THEOREM FilesHeapExact == FilesSpec => []HeapExact
<1>1. FilesInv => HeapExact
  <2> SUFFICES ASSUME FilesInv PROVE HeapExact
    OBVIOUS
  <2>1. /\ VarsOK /\ DOMAIN device_list = 1..Len(device_list)
        /\ DOMAIN mounted_fs_list = 1..Len(mounted_fs_list)
    BY DEF FilesInv, VarsOK
  <2>2. DeviceBlocks = OwnedBlks \cup ListedBlks
    BY <2>1 DEF DeviceBlocks, OwnedBlks, ListedBlks
  <2>3. MountBlocks = MountBlks \cup SuperBlks
    <3>1. NULL \notin MountBlks
      BY <2>1, BlocksAssumption, HeldBlocks
    <3> DEFINE I == 1..Len(mounted_fs_list)
               m == mounted_fs_list
    <3>2. MountBlks = {m[i].blk : i \in I} /\ SuperBlks = {m[i].sb : i \in {j \in I : m[j].sb # NULL}}
      BY DEF MountBlks, SuperBlks, SuperAt
    <3>3. MountBlocks = (UNION {{m[i].blk, m[i].sb} : i \in I}) \ {NULL}
      BY <2>1 DEF MountBlocks
    <3> HIDE DEF I, m
    <3>4. ASSUME NEW b
          PROVE  b \in MountBlocks <=> b # NULL /\ \E i \in I : b = m[i].blk \/ b = m[i].sb
      <4> DEFINE P == {{m[i].blk, m[i].sb} : i \in I}
      <4>1. ASSUME NEW e \in P, b \in e PROVE \E i \in I : b = m[i].blk \/ b = m[i].sb
        BY <4>1
      <4>2. ASSUME NEW i \in I, b = m[i].blk \/ b = m[i].sb PROVE \E e \in P : b \in e
        <5>1. {m[i].blk, m[i].sb} \in P
          OBVIOUS
        <5> QED
          BY <5>1, <4>2
      <4>3. b \in MountBlocks <=> b # NULL /\ \E e \in P : b \in e
        BY <3>3
      <4> HIDE DEF P
      <4> QED
        BY <4>1, <4>2, <4>3
    <3>5. /\ \A b : b \in MountBlks <=> \E i \in I : b = m[i].blk
          /\ \A b : b \in SuperBlks <=> \E i \in I : b # NULL /\ b = m[i].sb
      BY <3>2
    <3>6. \A i \in I : m[i].blk # NULL
      BY <3>1, <3>2
    <3>7. ASSUME NEW b PROVE b \in MountBlocks <=> b \in MountBlks \cup SuperBlks
      BY <3>4, <3>5, <3>6
    <3> QED
      BY <3>7
  <2>4. heap = DeviceBlocks \cup FileBlocks \cup MountBlocks
    BY <2>2, <2>3 DEF FilesInv, Held
  <2> QED
    BY <2>4, HeapCount DEF HeapExact
<1> QED
  BY <1>1, FilesInvariant, PTL
==============================================================================
