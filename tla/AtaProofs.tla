------------------------------ MODULE AtaProofs ------------------------------
(***************************************************************************)
(* Proofs about the disk driver, for every number of drives and sectors,   *)
(* every address and count, and drives that answer or fail when they like: *)
(* a read returns what is stored where the caller asked, a write changes   *)
(* no other sector, and only a disk that identified itself is used.        *)
(***************************************************************************)
EXTENDS Ata, SequenceTheorems, TLAPS

Kinds == {"none", "ata", "atapi"}
States == {"idle", "busy", "data", "fault"}
Cmds == {"none", "identify", "read", "write", "flush"}
Jobs == [cmd : Cmds, at : Nat, left : Nat, data : Int]

\* A call in progress: where it can be, and how far it has come.
CallSet == [op : {"probe", "read", "write"},
            pc : {"select", "command", "answer", "sign", "ready", "sector", "flush", "settle"},
            drive : Drives, lba : Nat, num : Nat, s : Nat]
CallOK ==
    call # Idle =>
        /\ call \in CallSet /\ call.s < call.num
        /\ call.op = "probe" =>
             call.pc \in {"select", "command", "answer", "sign"} /\ call.lba = 0 /\ call.num = 1
        /\ call.op = "read" => call.pc \in {"select", "ready", "command", "sector"}
        /\ call.op = "write" => call.pc \in {"select", "ready", "command", "sector", "flush", "settle"}
        /\ call.pc \in {"select", "ready", "command"} => call.s = 0

VarsOK ==
    /\ bus \in {"wired", "ones", "zeros"} /\ kind \in [Drives -> Kinds]
    /\ bus # "wired" => \A d \in Drives : kind[d] = "none"
    /\ st \in [Drives -> States] /\ job \in [Drives -> Jobs] /\ disk \in [Drives -> [Disk -> Int]]
    /\ sel \in [{Channel(d) : d \in Drives} -> {0, 1}]
    /\ present \in [Drives -> BOOLEAN] /\ ata_initialized \in BOOLEAN
    /\ buf \in Seq(Int)

\* A drive with no work, and one that was never given any.
Rest(e) == st[e] \in {"idle", "fault"} /\ job[e] = NoJob
Untouched(e) == st[e] = "idle" /\ job[e] = NoJob
Works(e, j) == st[e] \in {"busy", "data"} /\ job[e] = j

\* A drive that was asked to identify itself, if there is one.
Identify == Job("identify", 0, 1)
Deaf(e) == bus # "wired" \/ kind[e] = "none"
Identifying(e) ==
    \/ Untouched(e) /\ Deaf(e)
    \/ st[e] = "fault" /\ job[e] = NoJob
    \/ Works(e, Identify) /\ (st[e] = "data" => bus = "wired" /\ kind[e] = "ata")

\* The drive of a transfer is at the sector the call is at, or has given up.
From == call.lba % LBAS
Reading(e) ==
    \/ st[e] = "fault" /\ job[e] = NoJob
    \/ Works(e, Job("read", From + call.s, call.num - call.s))
       /\ (st[e] = "data" => From + call.s \in Disk)
Writing(e) == Rest(e) \/ Works(e, Job("write", From + call.s, call.num - call.s))

\* Between a sector handed over and the next one: the drive has the sector, or has
\* stored it and asks for the next, or works on the flush.
Given == [Job("write", From + call.s, call.num - call.s) EXCEPT !.data = New(call.s)]
Storing(e) ==
    \/ Rest(e)
    \/ st[e] = "busy" /\ job[e] = Given
    \/ call.num - call.s > 1 /\ Works(e, Job("write", From + call.s + 1, call.num - call.s - 1))
Flushing(e) == st[e] = "busy" /\ job[e] = Job("flush", 0, 0)

ProbeDrive(e) ==
    /\ call.pc \in {"select", "command"} => Untouched(e)
    /\ call.pc \in {"answer", "sign"} => Identifying(e)
TransferDrive(e) ==
    /\ present[e]
    /\ call.pc \in {"select", "ready"} => Rest(e)
    /\ call.pc = "command" => Untouched(e)
    /\ call.pc = "sector" => IF call.op = "read" THEN Reading(e) ELSE Writing(e)
    /\ call.pc = "flush" => Storing(e)
    /\ call.pc = "settle" => Storing(e) \/ Flushing(e)

\* What the drive of the call does,
CurrentOK ==
    /\ call.op = "probe" => ProbeDrive(call.drive)
    /\ call.op \in Transfers => TransferDrive(call.drive)

\* what the others do: those in use rest, a disk that was refused may still offer
\* its identification,
OthersOK ==
    \A e \in Drives : call = Idle \/ e # call.drive =>
        /\ present[e] => Rest(e)
        /\ Rest(e) \/ Works(e, Identify)

\* and how far init_ata has come.
ProbeOK ==
    /\ ~ata_initialized /\ call.op # "probe" => call = Idle /\ \A e \in Drives : Untouched(e)
    /\ call.op = "probe" =>
         /\ ~ata_initialized
         /\ \A e \in Drives : e > call.drive => Untouched(e)
         /\ \A e \in Drives : e >= call.drive => ~present[e]

PresentOK == \A e \in Drives : present[e] => bus = "wired" /\ kind[e] = "ata"
SelOK == call # Idle /\ call.pc # "select" => sel[Channel(call.drive)] = call.drive % 2
BufOK ==
    call.op = "read" =>
        /\ Len(buf) = call.s
        /\ \A k \in 1..call.s : buf[k] = disk[call.drive][From + k - 1]

AtaInv ==
    /\ VarsOK /\ CallOK /\ CurrentOK /\ OthersOK /\ ProbeOK /\ PresentOK /\ SelOK /\ BufOK

-----------------------------------------------------------------------------
\* The shapes of calls and jobs.
LEMMA CallFields ==
    /\ Idle.op = "none" /\ Idle.pc = "idle"
    /\ \A op, pc, d, lba, num :
         LET c == Call(op, pc, d, lba, num) IN
         /\ c.op = op /\ c.pc = pc /\ c.drive = d /\ c.lba = lba /\ c.num = num /\ c.s = 0
         /\ c = [op |-> op, pc |-> pc, drive |-> d, lba |-> lba, num |-> num, s |-> 0]
  BY DEF Idle, Call

LEMMA JobFields ==
    /\ NoJob \in Jobs /\ NoJob.cmd = "none" /\ NoJob.data = Junk
    /\ Identify \in Jobs /\ Identify.cmd = "identify" /\ Identify.left = 1 /\ Identify.data = Junk
    /\ \A cmd, at, left :
         LET j == Job(cmd, at, left) IN
         /\ j.cmd = cmd /\ j.at = at /\ j.left = left /\ j.data = Junk
         /\ cmd \in Cmds /\ at \in Nat /\ left \in Nat => j \in Jobs
  BY DEF NoJob, Identify, Job, Junk, Jobs, Cmds

\* A call in progress has one of three kinds and a drive.
LEMMA CallKinds ==
    ASSUME CallOK
    PROVE  /\ call # Idle <=> call.op \in {"probe", "read", "write"}
           /\ call # Idle =>
                /\ call.drive \in Drives /\ call.lba \in Nat /\ call.num \in Nat /\ call.s \in Nat
                /\ call.s < call.num /\ call.pc # "idle"
  BY CallFields DEF CallOK, CallSet

\* Addresses are cut to a natural number, and what a caller writes is no junk.
LEMMA Numbers ==
    /\ \A n \in Nat : n % LBAS \in Nat
    /\ \A n \in Nat : New(n) \in Nat /\ New(n) # Junk
    /\ \A d \in Drives, k \in Disk : Old(d, k) \in Int
<1>1. LBAS \in Nat /\ LBAS > 0 /\ DRIVES \in Nat /\ SECTORS \in Nat
  BY AtaAssumption
<1>2. \A n \in Nat : n % LBAS \in Nat
  BY <1>1
<1>3. DRIVES * SECTORS \in Nat
  BY <1>1
<1>4. \A n \in Nat : New(n) \in Nat /\ New(n) # Junk
  BY <1>3 DEF New, Junk
<1>5. \A d \in Drives, k \in Disk : Old(d, k) \in Int
  BY <1>1 DEF Drives, Disk, Old
<1> QED
  BY <1>2, <1>4, <1>5

\* Once a drive is selected, it alone hears what is sent to its channel.
LEMMA Selected ==
    ASSUME VarsOK, NEW d \in Drives, sel[Channel(d)] = d % 2
    PROVE  /\ Deaf(d) => Listening(d) = {}
           /\ ~Deaf(d) => Listening(d) = {d}
           /\ Status(d) = IF bus = "ones" THEN "busy"
                          ELSE IF Deaf(d) THEN "zero"
                          ELSE IF st[d] \in {"busy", "fault"} THEN st[d] ELSE "ready"
<1>1. ASSUME NEW e \in Drives, Channel(e) = Channel(d), e % 2 = d % 2 PROVE e = d
  <2>1. d \in Nat /\ e \in Nat /\ e \div 2 = d \div 2
    BY <1>1, AtaAssumption DEF Drives, Channel
  <2> QED
    BY <2>1, <1>1
<1>2. (Deaf(d) => Listening(d) = {}) /\ (~Deaf(d) => Listening(d) = {d})
  <2>1. \A e \in Listening(d) : bus = "wired" /\ kind[e] # "none" /\ e = d
    BY <1>1 DEF Listening
  <2>2. bus = "wired" /\ kind[d] # "none" => d \in Listening(d)
    BY DEF Listening
  <2> QED
    BY <2>1, <2>2 DEF Deaf
<1>3. CASE Deaf(d)
  BY <1>2, <1>3 DEF Status, Deaf
<1>4. CASE ~Deaf(d)
  <2>1. Listening(d) = {d} /\ bus # "ones"
    BY <1>2, <1>4 DEF Deaf
  <2>2. (CHOOSE e \in {d} : TRUE) = d
    OBVIOUS
  <2> QED
    BY <2>1, <2>2, <1>4 DEF Status
<1> QED
  BY <1>2, <1>3, <1>4

\* The drives but d are left alone.
Alone(d) == \A e \in Drives : e # d => st'[e] = st[e] /\ job'[e] = job[e]

\* A command is taken by the drive that hears it, unless that one is at work.
LEMMA CommandTaken ==
    ASSUME VarsOK, NEW d \in Drives, NEW heard, NEW c \in Jobs, Command(heard, c),
           heard = {} \/ heard = {d}
    PROVE  /\ st' \in [Drives -> States] /\ job' \in [Drives -> Jobs] /\ Alone(d)
           /\ heard = {} => st'[d] = st[d] /\ job'[d] = job[d]
           /\ heard = {d} =>
                \/ st'[d] = "busy" /\ job'[d] = c
                \/ st[d] \in {"busy", "data"} /\ st'[d] = st[d] /\ job'[d] = job[d]
<1>1. PICK taken \in {{}, heard} :
       /\ taken = heard \/ \E e \in heard : st[e] \in {"busy", "data"}
       /\ st' = [e \in Drives |-> IF e \in taken THEN "busy" ELSE st[e]]
       /\ job' = [e \in Drives |-> IF e \in taken THEN c ELSE job[e]]
  BY DEF Command
<1>2. st \in [Drives -> States] /\ job \in [Drives -> Jobs]
  BY DEF VarsOK
<1>3. st' \in [Drives -> States] /\ job' \in [Drives -> Jobs]
  BY <1>1, <1>2 DEF States
<1> QED
  BY <1>1, <1>3 DEF Alone

\* A sector passes between the driver and the drive that hears it.
LEMMA TransferMoves ==
    ASSUME VarsOK, NEW d \in Drives, NEW heard, NEW data \in Int, Transfer(heard, data),
           heard = {} \/ heard = {d}, job[d].left > 1 => job[d].left - 1 \in Nat
    PROVE  /\ st' \in [Drives -> States] /\ job' \in [Drives -> Jobs] /\ Alone(d)
           /\ (heard = {} \/ st[d] # "data") => st'[d] = st[d] /\ job'[d] = job[d]
           /\ heard = {d} /\ st[d] = "data" =>
                IF job[d].cmd = "write"
                THEN st'[d] = "busy" /\ job'[d] = [job[d] EXCEPT !.data = data]
                ELSE IF job[d].left > 1
                THEN st'[d] = "busy" /\ job'[d] = Job(job[d].cmd, job[d].at + 1, job[d].left - 1)
                ELSE st'[d] = "idle" /\ job'[d] = NoJob
<1>1. st \in [Drives -> States] /\ job \in [Drives -> Jobs]
  BY DEF VarsOK
<1>2. /\ DOMAIN st' = Drives /\ DOMAIN job' = Drives
      /\ st' = [e \in Drives |-> st'[e]] /\ job' = [e \in Drives |-> job'[e]]
  BY DEF Transfer
<1>3. \A e \in Drives : ~(e \in heard /\ st[e] = "data") => st'[e] = st[e] /\ job'[e] = job[e]
  BY DEF Transfer
<1>4. ASSUME heard = {d}, st[d] = "data"
      PROVE  IF job[d].cmd = "write"
             THEN st'[d] = "busy" /\ job'[d] = [job[d] EXCEPT !.data = data]
             ELSE IF job[d].left > 1
             THEN st'[d] = "busy" /\ job'[d] = Job(job[d].cmd, job[d].at + 1, job[d].left - 1)
             ELSE st'[d] = "idle" /\ job'[d] = NoJob
  BY <1>4 DEF Transfer
<1>5. st'[d] \in States /\ job'[d] \in Jobs
  <2>1. CASE heard = {d} /\ st[d] = "data"
    <3>1. job[d] \in Jobs /\ job[d].cmd \in Cmds /\ job[d].at \in Nat
      BY <1>1 DEF Jobs
    <3>2. [job[d] EXCEPT !.data = data] \in Jobs
      BY <3>1 DEF Jobs
    <3>3. job[d].left > 1 => Job(job[d].cmd, job[d].at + 1, job[d].left - 1) \in Jobs
      BY <3>1, JobFields
    <3> QED
      BY <2>1, <3>2, <3>3, <1>4, JobFields DEF States
  <2>2. CASE ~(heard = {d} /\ st[d] = "data")
    BY <2>2, <1>1, <1>3
  <2> QED
    BY <2>1, <2>2
<1>6. Alone(d)
  BY <1>3 DEF Alone
<1>7. \A e \in Drives : st'[e] \in States /\ job'[e] \in Jobs
  BY <1>1, <1>5, <1>6 DEF Alone
<1>8. st' \in [Drives -> States] /\ job' \in [Drives -> Jobs]
  BY <1>2, <1>7
<1> QED
  BY <1>3, <1>4, <1>6, <1>8

-----------------------------------------------------------------------------
\* A call that goes on with its drive leaves the others as they are.
LEMMA Onward ==
    ASSUME AtaInv, call # Idle, call' # Idle, call'.drive = call.drive, call'.op = call.op,
           UNCHANGED <<hardware, present, ata_initialized>>, Alone(call.drive),
           VarsOK', CallOK', CurrentOK', SelOK', BufOK'
    PROVE  AtaInv'
<1>1. bus' = bus /\ kind' = kind
  BY DEF hardware
<1>2. OthersOK'
  BY DEF AtaInv, OthersOK, Alone, Rest, Works, Identify
<1>3. call.drive \in Drives /\ Drives \subseteq Int
  BY CallKinds, AtaAssumption DEF AtaInv, Drives
<1>4. ProbeOK'
  <2>1. CASE call.op = "probe"
    BY <2>1, <1>3 DEF AtaInv, ProbeOK, Alone, Untouched
  <2>2. CASE call.op # "probe"
    BY <2>2 DEF AtaInv, ProbeOK
  <2> QED
    BY <2>1, <2>2
<1>5. PresentOK'
  BY <1>1 DEF AtaInv, PresentOK
<1> QED
  BY <1>2, <1>4, <1>5 DEF AtaInv

\* A transfer returns: its drive rests like the others.
LEMMA Done ==
    ASSUME AtaInv, NEW d \in Drives, call.drive = d, call.op \in Transfers, call' = Idle, Rest(d)',
           UNCHANGED <<hardware, present, ata_initialized>>, Alone(d), VarsOK'
    PROVE  AtaInv'
<1>1. bus' = bus /\ kind' = kind /\ call # Idle /\ ata_initialized
  BY CallFields DEF hardware, Transfers, AtaInv, ProbeOK, VarsOK
<1>2. OthersOK'
  <2> SUFFICES ASSUME NEW e \in Drives PROVE ((present[e] => Rest(e)) /\ (Rest(e) \/ Works(e, Identify)))'
    BY DEF OthersOK
  <2>1. CASE e = d
    BY <2>1 DEF Rest
  <2>2. CASE e # d
    BY <2>2 DEF AtaInv, OthersOK, Alone, Rest, Works, Identify
  <2> QED
    BY <2>1, <2>2
<1>3. ProbeOK' /\ CallOK' /\ SelOK'
  BY <1>1, CallFields DEF ProbeOK, CallOK, SelOK
<1>4. CurrentOK' /\ BufOK'
  BY CallFields DEF CurrentOK, BufOK, Transfers
<1>5. PresentOK'
  BY <1>1 DEF AtaInv, PresentOK
<1> QED
  BY <1>2, <1>3, <1>4, <1>5 DEF AtaInv

\* init_ata goes on to the next drive, which nobody has touched, or is done.
LEMMA NextProbe ==
    ASSUME AtaInv, NEW d \in Drives, call.drive = d, call.op = "probe", NextDrive,
           UNCHANGED hardware, Alone(d), VarsOK',
           \A e \in Drives : e # d => present'[e] = present[e],
           present'[d] => bus = "wired" /\ kind[d] = "ata" /\ Rest(d)',
           (Rest(d) \/ Works(d, Identify))'
    PROVE  AtaInv'
<1>1. bus' = bus /\ kind' = kind /\ call # Idle /\ Drives \subseteq Int
  BY CallFields, CallKinds, AtaAssumption DEF hardware, AtaInv, Drives
<1>2. PresentOK'
  BY <1>1 DEF AtaInv, PresentOK
<1>3. \A e \in Drives : (present'[e] => Rest(e)') /\ (Rest(e) \/ Works(e, Identify))'
  <2> SUFFICES ASSUME NEW e \in Drives
               PROVE  (present'[e] => Rest(e)') /\ (Rest(e) \/ Works(e, Identify))'
    OBVIOUS
  <2>1. CASE e = d
    BY <2>1 DEF Rest, Works
  <2>2. CASE e # d
    BY <2>2 DEF AtaInv, OthersOK, Alone, Rest, Works, Identify
  <2> QED
    BY <2>1, <2>2
<1>4. OthersOK'
  BY <1>3 DEF OthersOK, Rest, Works
<1>5. CASE d + 1 \in Drives
  <2>1. call' = Call("probe", "select", d + 1, 0, 1) /\ ata_initialized' = ata_initialized
    BY <1>5 DEF NextDrive
  <2>2. /\ call'.op = "probe" /\ call'.pc = "select" /\ call'.drive = d + 1 /\ call'.lba = 0
        /\ call'.num = 1 /\ call'.s = 0 /\ call' \in CallSet /\ call' # Idle
    BY <2>1, <1>5, CallFields DEF CallSet
  <2>3. CallOK' /\ SelOK' /\ BufOK'
    BY <2>2 DEF CallOK, SelOK, BufOK
  <2>4. ProbeOK'
    <3>1. /\ ~ata_initialized'
          /\ \A e \in Drives : e > d => Untouched(e)
          /\ \A e \in Drives : e >= d => ~present[e]
      BY <2>1 DEF AtaInv, ProbeOK
    <3>2. \A e \in Drives : e >= d + 1 => e >= d /\ e # d
      BY <1>1
    <3>3. \A e \in Drives : e > d + 1 => e > d /\ e # d
      BY <1>1
    <3>4. \A e \in Drives : e > d + 1 => Untouched(e)'
      BY <3>1, <3>3 DEF Untouched, Alone
    <3>5. \A e \in Drives : e >= d + 1 => ~present'[e]
      BY <3>1, <3>2
    <3> QED
      BY <2>2, <3>1, <3>4, <3>5 DEF ProbeOK
  <2>5. Untouched(d + 1)'
    BY <1>1, <1>5 DEF AtaInv, ProbeOK, Untouched, Alone
  <2>6. CurrentOK'
    BY <2>2, <2>5 DEF CurrentOK, ProbeDrive, Transfers, Untouched
  <2> QED
    BY <2>3, <2>4, <2>6, <1>2, <1>4 DEF AtaInv
<1>6. CASE d + 1 \notin Drives
  <2>1. call' = Idle /\ ata_initialized' = TRUE
    BY <1>6 DEF NextDrive, Return
  <2>2. CallOK' /\ SelOK' /\ BufOK' /\ CurrentOK' /\ ProbeOK'
    BY <2>1, CallFields DEF CallOK, SelOK, BufOK, CurrentOK, ProbeOK, Transfers
  <2> QED
    BY <2>2, <1>2, <1>4 DEF AtaInv
<1> QED
  BY <1>5, <1>6

-----------------------------------------------------------------------------
\* init_ata begins with the first drive.
LEMMA init_ataInv ==
    ASSUME AtaInv, init_ata
    PROVE  AtaInv'
<1>1. /\ call = Idle /\ ~ata_initialized /\ present' = [d \in Drives |-> FALSE]
      /\ call' = Call("probe", "select", 0, 0, 1)
      /\ UNCHANGED <<bus, kind, st, job, disk, sel, ata_initialized, buf>>
  BY DEF init_ata, hardware, drives
<1>2. 0 \in Drives
  BY AtaAssumption DEF Drives
<1>3. /\ call'.op = "probe" /\ call'.pc = "select" /\ call'.drive = 0 /\ call'.lba = 0
      /\ call'.num = 1 /\ call'.s = 0 /\ call' \in CallSet /\ call' # Idle
  BY <1>1, <1>2, CallFields DEF CallSet
<1>4. \A e \in Drives : Untouched(e)
  BY <1>1, CallFields DEF AtaInv, ProbeOK
<1>5. VarsOK'
  BY <1>1 DEF AtaInv, VarsOK
<1>6. CallOK' /\ SelOK' /\ BufOK'
  BY <1>3 DEF CallOK, SelOK, BufOK
<1>7. ProbeOK' /\ CurrentOK' /\ OthersOK' /\ PresentOK'
  <2>1. \A e \in Drives : Untouched(e)' /\ ~present'[e]
    BY <1>1, <1>4 DEF Untouched
  <2> QED
    BY <2>1, <1>1, <1>2, <1>3
       DEF ProbeOK, CurrentOK, OthersOK, PresentOK, ProbeDrive, Transfers, Untouched, Rest
<1> QED
  BY <1>5, <1>6, <1>7 DEF AtaInv

\* A transfer begins on a drive that is in use, and so at rest.
LEMMA StartTransferInv ==
    ASSUME AtaInv, NEW op \in Transfers, NEW d \in Drives, NEW lba \in Nat, NEW num \in Nat,
           StartTransfer(op, d, lba, num)
    PROVE  AtaInv'
<1>1. /\ call = Idle /\ buf' = <<>>
      /\ UNCHANGED <<bus, kind, st, job, disk, sel, ata_initialized, present>>
  BY DEF StartTransfer, hardware, drives
<1>2. VarsOK'
  BY <1>1 DEF AtaInv, VarsOK
<1>3. PresentOK' /\ \A e \in Drives : (present'[e] => Rest(e)') /\ (Rest(e) \/ Works(e, Identify))'
  BY <1>1 DEF AtaInv, PresentOK, OthersOK, Rest, Works, Identify
<1>4. OthersOK'
  BY <1>3 DEF OthersOK, Rest, Works
<1>5. CASE ata_initialized /\ present[d] /\ num # 0
  <2>1. call' = Call(op, "select", d, lba, num)
    BY <1>5 DEF StartTransfer
  <2>2. /\ call'.op = op /\ call'.pc = "select" /\ call'.drive = d /\ call'.num = num
        /\ call'.s = 0 /\ call' \in CallSet /\ call' # Idle
    BY <2>1, CallFields DEF CallSet, Transfers
  <2>3. CallOK' /\ SelOK'
    BY <2>2, <1>5 DEF CallOK, SelOK, Transfers
  <2>4. BufOK'
    BY <2>2, <1>1 DEF BufOK
  <2>5. ProbeOK'
    BY <2>2, <1>1, <1>5 DEF ProbeOK, Transfers
  <2>6. CurrentOK'
    <3>1. present'[d] /\ Rest(d)'
      BY <1>1, <1>3, <1>5
    <3> QED
      BY <2>2, <3>1 DEF CurrentOK, TransferDrive, Transfers, Rest
  <2> QED
    BY <2>3, <2>4, <2>5, <2>6, <1>2, <1>3, <1>4 DEF AtaInv
<1>6. CASE ~(ata_initialized /\ present[d] /\ num # 0)
  <2>1. call' = Idle
    BY <1>6 DEF StartTransfer, Return
  <2>2. CallOK' /\ SelOK' /\ BufOK' /\ CurrentOK'
    BY <2>1, CallFields DEF CallOK, SelOK, BufOK, CurrentOK, Transfers
  <2>3. ProbeOK'
    BY <2>1, <1>1, CallFields DEF AtaInv, ProbeOK, Untouched
  <2> QED
    BY <2>2, <2>3, <1>2, <1>3, <1>4 DEF AtaInv
<1> QED
  BY <1>5, <1>6

\* The step to another place in the same call.
LEMMA GotoFields ==
    ASSUME CallOK, call # Idle, NEW pc, Goto(pc)
    PROVE  /\ call'.op = call.op /\ call'.pc = pc /\ call'.drive = call.drive
           /\ call'.lba = call.lba /\ call'.num = call.num /\ call'.s = call.s
           /\ From' = From
           /\ pc \in {"select", "command", "answer", "sign", "ready", "sector", "flush", "settle"}
                => call' # Idle /\ call' \in CallSet
<1>1. call \in CallSet /\ call' = [call EXCEPT !.pc = pc]
  BY DEF CallOK, Goto
<1>2. /\ call'.op = call.op /\ call'.pc = pc /\ call'.drive = call.drive
      /\ call'.lba = call.lba /\ call'.num = call.num /\ call'.s = call.s
  BY <1>1 DEF CallSet
<1>3. pc \in {"select", "command", "answer", "sign", "ready", "sector", "flush", "settle"}
        => call' \in CallSet
  BY <1>1 DEF CallSet
<1>4. call'.op # "none"
  BY <1>1, <1>2 DEF CallSet
<1>5. call' # Idle
  BY <1>4, CallFields
<1> QED
  BY <1>2, <1>3, <1>5 DEF From

\* ata_select_drive: from here on the drive alone is heard.
LEMMA ata_select_driveInv ==
    ASSUME AtaInv, ata_select_drive
    PROVE  AtaInv'
<1>1. /\ call.pc = "select" /\ sel' = [sel EXCEPT ![Channel(call.drive)] = call.drive % 2]
      /\ Goto(IF call.op = "probe" THEN "command" ELSE "ready")
      /\ UNCHANGED <<bus, kind, st, job, disk, ata_initialized, present, buf>> /\ UNCHANGED hardware
  BY DEF ata_select_drive, hardware, drives
<1>2. call # Idle /\ CallOK
  BY <1>1, CallFields DEF AtaInv
<1>3. PICK d \in Drives : d = call.drive
  BY <1>2, CallKinds
<1>4. /\ call'.op = call.op /\ call'.pc = (IF call.op = "probe" THEN "command" ELSE "ready")
      /\ call'.drive = d /\ call'.lba = call.lba /\ call'.num = call.num /\ call'.s = call.s
      /\ call' # Idle /\ call' \in CallSet /\ From' = From
  BY <1>1, <1>2, <1>3, GotoFields
<1>5. d % 2 \in {0, 1} /\ Channel(d) \in {Channel(e) : e \in Drives}
  BY AtaAssumption DEF Drives
<1>6. VarsOK'
  BY <1>1, <1>3, <1>5 DEF AtaInv, VarsOK
<1>7. SelOK'
  BY <1>1, <1>3, <1>4, <1>5 DEF AtaInv, VarsOK, SelOK
<1>8. CallOK'
  BY <1>1, <1>2, <1>4 DEF CallOK, CallSet
<1>9. BufOK'
  BY <1>1, <1>3, <1>4 DEF AtaInv, BufOK
<1>10. CurrentOK'
  BY <1>1, <1>2, <1>3, <1>4, CallKinds
     DEF AtaInv, CurrentOK, ProbeDrive, TransferDrive, Transfers, Rest, Untouched
<1>11. Alone(d)
  BY <1>1 DEF Alone
<1> QED
  BY <1>1, <1>2, <1>3, <1>4, <1>6, <1>7, <1>8, <1>9, <1>10, <1>11, Onward

\* After the drive is selected: what the status says is about it.
LEMMA Heard ==
    ASSUME AtaInv, call.pc # "select", call # Idle
    PROVE  \E d \in Drives :
             /\ d = call.drive
             /\ Deaf(d) => Listening(d) = {}
             /\ ~Deaf(d) => Listening(d) = {d}
             /\ Status(d) = IF bus = "ones" THEN "busy"
                            ELSE IF Deaf(d) THEN "zero"
                            ELSE IF st[d] \in {"busy", "fault"} THEN st[d] ELSE "ready"
<1>1. PICK d \in Drives : d = call.drive
  BY CallKinds DEF AtaInv
<1>2. sel[Channel(d)] = d % 2 /\ VarsOK
  BY <1>1 DEF AtaInv, SelOK
<1> QED
  BY <1>1, <1>2, Selected

\* ata_wait_ready before the command.
LEMMA WaitReadyInv ==
    ASSUME AtaInv, WaitReady
    PROVE  AtaInv'
<1>1. /\ call.op \in Transfers /\ call.pc = "ready"
      /\ UNCHANGED <<bus, kind, st, job, disk, sel, ata_initialized, present, buf>>
      /\ UNCHANGED <<hardware, present, ata_initialized>>
  BY DEF WaitReady, At, hardware, drives
<1>2. call # Idle /\ CallOK
  BY <1>1, CallFields DEF AtaInv, Transfers
<1>3. PICK d \in Drives :
        /\ d = call.drive
        /\ Status(d) = IF bus = "ones" THEN "busy"
                       ELSE IF Deaf(d) THEN "zero"
                       ELSE IF st[d] \in {"busy", "fault"} THEN st[d] ELSE "ready"
  BY <1>1, <1>2, Heard
<1>4. Rest(d) /\ present[d]
  BY <1>1, <1>3 DEF AtaInv, CurrentOK, TransferDrive
<1>5. VarsOK' /\ Alone(d)
  BY <1>1 DEF AtaInv, VarsOK, Alone
<1>6. CASE Status(d) = "ready"
  <2>1. Goto("command")
    BY <1>3, <1>6 DEF WaitReady
  <2>2. /\ call'.op = call.op /\ call'.pc = "command"
        /\ call'.drive = d /\ call'.lba = call.lba /\ call'.num = call.num /\ call'.s = call.s
        /\ call' # Idle /\ call' \in CallSet /\ From' = From
    BY <2>1, <1>2, <1>3, GotoFields
  <2>3. Untouched(d)'
    BY <1>1, <1>3, <1>4, <1>6 DEF Rest, Untouched
  <2>4. CallOK'
    BY <1>1, <1>2, <2>2 DEF CallOK, Transfers
  <2>5. SelOK' /\ BufOK'
    BY <1>1, <1>2, <1>3, <2>2 DEF AtaInv, SelOK, BufOK
  <2>6. CurrentOK'
    BY <1>1, <1>4, <2>2, <2>3 DEF CurrentOK, TransferDrive, Transfers, Untouched
  <2> QED
    BY <1>1, <1>2, <1>3, <1>5, <2>2, <2>4, <2>5, <2>6, Onward
<1>7. CASE Status(d) # "ready"
  <2>1. call' = Idle /\ Rest(d)'
    BY <1>1, <1>3, <1>4, <1>7 DEF WaitReady, Return, Rest
  <2> QED
    BY <2>1, <1>1, <1>3, <1>5, Done
<1> QED
  BY <1>6, <1>7

\* The command goes to a drive that has no work.
LEMMA SendCommandInv ==
    ASSUME AtaInv, SendCommand
    PROVE  AtaInv'
<1> DEFINE c == Job(IF call.op = "probe" THEN "identify" ELSE call.op, call.lba % LBAS, call.num)
<1>1. /\ call.pc = "command" /\ Command(Listening(call.drive), c)
      /\ Goto(IF call.op = "probe" THEN "answer" ELSE "sector")
      /\ UNCHANGED <<bus, kind, disk, sel, ata_initialized, present, buf>>
      /\ UNCHANGED <<hardware, present, ata_initialized>>
  BY DEF SendCommand, hardware
<1>2. call # Idle /\ CallOK
  BY <1>1, CallFields DEF AtaInv
<1>3. PICK d \in Drives :
        d = call.drive /\ (Deaf(d) => Listening(d) = {}) /\ (~Deaf(d) => Listening(d) = {d})
  BY <1>1, <1>2, Heard
<1>4. /\ call'.op = call.op /\ call'.pc = (IF call.op = "probe" THEN "answer" ELSE "sector")
      /\ call'.drive = d /\ call'.lba = call.lba /\ call'.num = call.num /\ call'.s = call.s
      /\ call' # Idle /\ call' \in CallSet /\ From' = From
  BY <1>1, <1>2, <1>3, GotoFields
<1>5. call.op \in {"probe", "read", "write"} /\ call.s = 0 /\ call.num \in Nat /\ From \in Nat
  BY <1>1, <1>2, CallKinds, Numbers DEF CallOK, From
<1>6. c \in Jobs
  BY <1>5, JobFields DEF Cmds, From
<1>7. /\ st' \in [Drives -> States] /\ job' \in [Drives -> Jobs] /\ Alone(d)
      /\ Deaf(d) => st'[d] = st[d] /\ job'[d] = job[d]
      /\ ~Deaf(d) =>
           \/ st'[d] = "busy" /\ job'[d] = c
           \/ st[d] \in {"busy", "data"} /\ st'[d] = st[d] /\ job'[d] = job[d]
  <2> HIDE DEF c
  <2> QED
    BY <1>1, <1>3, <1>6, CommandTaken DEF AtaInv
<1>8. VarsOK'
  BY <1>1, <1>7 DEF AtaInv, VarsOK
<1>9. Untouched(d)
  BY <1>1, <1>3, <1>5 DEF AtaInv, CurrentOK, ProbeDrive, TransferDrive, Transfers
<1>10. /\ Deaf(d) => st'[d] = "idle" /\ job'[d] = NoJob
       /\ ~Deaf(d) => st'[d] = "busy" /\ job'[d] = c
  BY <1>7, <1>9 DEF Untouched
<1>11. CallOK'
  BY <1>1, <1>2, <1>4, <1>5 DEF CallOK
<1>12. SelOK' /\ BufOK'
  BY <1>1, <1>2, <1>3, <1>4 DEF AtaInv, SelOK, BufOK
<1>13. CurrentOK'
  <2>1. CASE call.op = "probe"
    <3>1. c = Identify
      <4>1. call.lba = 0 /\ call.num = 1
        BY <2>1, <1>2 DEF CallOK
      <4>2. 0 % LBAS = 0
        BY AtaAssumption
      <4> QED
        BY <2>1, <4>1, <4>2 DEF Identify
    <3>2. (Untouched(d) /\ Deaf(d))' \/ (st[d] = "busy" /\ job[d] = Identify)'
      BY <1>1, <1>10, <3>1 DEF Deaf, Untouched, Identify
    <3>3. Identifying(d)'
      BY <3>2 DEF Identifying, Works
    <3> QED
      BY <2>1, <1>4, <3>3 DEF CurrentOK, ProbeDrive, Transfers, Identifying
  <2>2. CASE call.op \in Transfers
    <3>1. present[d] /\ ~Deaf(d)
      BY <2>2, <1>3 DEF AtaInv, CurrentOK, TransferDrive, PresentOK, Deaf
    <3>2. st'[d] = "busy" /\ job'[d] = Job(call.op, From + call.s, call.num - call.s)
      BY <3>1, <1>10, <1>5, <2>2 DEF From, Transfers
    <3>3. IF call.op = "read" THEN Reading(d)' ELSE Writing(d)'
      BY <3>2, <1>4, <2>2 DEF Reading, Writing, Works, Transfers, Job
    <3>4. present'[d]
      BY <3>1, <1>1
    <3>5. TransferDrive(d)'
      BY <3>3, <3>4, <1>4, <2>2 DEF TransferDrive, Transfers, Reading, Writing
    <3> QED
      BY <2>2, <1>4, <3>5 DEF CurrentOK, Transfers, TransferDrive
  <2> QED
    BY <2>1, <2>2, <1>5 DEF Transfers
<1> QED
  BY <1>1, <1>2, <1>3, <1>4, <1>7, <1>8, <1>11, <1>12, <1>13, Onward

\* ata_probe's look at the status: no drive, or one that may be a disk.
LEMMA ProbeAnswerInv ==
    ASSUME AtaInv, ProbeAnswer
    PROVE  AtaInv'
<1>1. /\ call.op = "probe" /\ call.pc = "answer"
      /\ UNCHANGED <<bus, kind, st, job, disk, sel, present, buf>> /\ UNCHANGED hardware
  BY DEF ProbeAnswer, At, hardware, drives
<1>2. call # Idle /\ CallOK
  BY <1>1, CallFields DEF AtaInv
<1>3. PICK d \in Drives : d = call.drive
  BY <1>2, CallKinds
<1>4. Identifying(d) /\ ~present[d] /\ ~ata_initialized
  BY <1>1, <1>3, AtaAssumption DEF AtaInv, CurrentOK, ProbeDrive, ProbeOK, Drives
<1>5. Alone(d)
  BY <1>1 DEF Alone
<1>6. CASE Status(d) = "zero"
  <2>1. NextDrive
    BY <1>3, <1>6 DEF ProbeAnswer
  <2>2. VarsOK'
    BY <1>1, <2>1 DEF AtaInv, VarsOK, NextDrive
  <2>3. (Rest(d) \/ Works(d, Identify))'
    BY <1>1, <1>4 DEF Identifying, Untouched, Rest, Works, Identify
  <2>4. ~present'[d] /\ \A e \in Drives : e # d => present'[e] = present[e]
    BY <1>1, <1>4
  <2> QED
    BY <1>1, <1>3, <1>5, <2>1, <2>2, <2>3, <2>4, NextProbe
<1>7. CASE Status(d) # "zero"
  <2>1. Goto("sign") /\ ata_initialized' = ata_initialized
    BY <1>3, <1>7 DEF ProbeAnswer
  <2>2. VarsOK'
    BY <1>1, <2>1 DEF AtaInv, VarsOK
  <2>3. /\ call'.op = call.op /\ call'.pc = "sign"
        /\ call'.drive = d /\ call'.lba = call.lba /\ call'.num = call.num /\ call'.s = call.s
        /\ call' # Idle /\ call' \in CallSet
    BY <2>1, <1>2, <1>3, GotoFields
  <2>4. CallOK'
    BY <1>1, <1>2, <2>3 DEF CallOK
  <2>5. SelOK' /\ BufOK'
    BY <1>1, <1>2, <1>3, <2>3 DEF AtaInv, SelOK, BufOK
  <2>6. Identifying(d)'
    BY <1>1, <1>4 DEF Identifying, Untouched, Deaf, Works, Identify
  <2>7. CurrentOK'
    BY <1>1, <2>3, <2>6 DEF CurrentOK, ProbeDrive, Transfers, Identifying
  <2> QED
    BY <1>1, <1>2, <1>3, <1>5, <2>1, <2>2, <2>3, <2>4, <2>5, <2>7, Onward
<1> QED
  BY <1>6, <1>7

\* A drive that is ready after the identification was asked for is a disk that
\* offers it.
LEMMA ReadyIdentifies ==
    ASSUME AtaInv, call.op = "probe", call.pc = "sign", Status(call.drive) = "ready"
    PROVE  \E d \in Drives :
             /\ d = call.drive /\ Listening(d) = {d}
             /\ bus = "wired" /\ kind[d] = "ata" /\ st[d] = "data" /\ job[d] = Identify
<1>1. call # Idle
  BY CallFields
<1>2. PICK d \in Drives :
        /\ d = call.drive
        /\ ~Deaf(d) => Listening(d) = {d}
        /\ Status(d) = IF bus = "ones" THEN "busy"
                       ELSE IF Deaf(d) THEN "zero"
                       ELSE IF st[d] \in {"busy", "fault"} THEN st[d] ELSE "ready"
  BY <1>1, Heard
<1>3. ~Deaf(d) /\ st[d] \notin {"busy", "fault"}
  BY <1>2
<1>4. Identifying(d)
  BY <1>2 DEF AtaInv, CurrentOK, ProbeDrive
<1>5. st[d] = "data" /\ job[d] = Identify /\ bus = "wired" /\ kind[d] = "ata"
  BY <1>3, <1>4 DEF Identifying, Works
<1> QED
  BY <1>2, <1>3, <1>5

\* The end of ata_probe.
LEMMA ProbeIdentifyInv ==
    ASSUME AtaInv, ProbeIdentify
    PROVE  AtaInv'
<1>1. /\ call.op = "probe" /\ call.pc = "sign" /\ NextDrive
      /\ UNCHANGED <<bus, kind, disk, sel, buf>> /\ UNCHANGED hardware
  BY DEF ProbeIdentify, At, hardware
<1>2. call # Idle /\ CallOK
  BY <1>1, CallFields DEF AtaInv
<1>3. PICK d \in Drives : d = call.drive
  BY <1>2, CallKinds
<1>4. Identifying(d) /\ ~present[d] /\ ata_initialized' \in BOOLEAN
  <2>1. Identifying(d) /\ ~present[d]
    BY <1>1, <1>3, AtaAssumption DEF AtaInv, CurrentOK, ProbeDrive, ProbeOK, Drives
  <2>2. ata_initialized' \in BOOLEAN
    BY <1>1 DEF AtaInv, VarsOK, NextDrive
  <2> QED
    BY <2>1, <2>2
<1>5. CASE Signature(d) \/ Status(d) # "ready"
  <2>1. UNCHANGED <<present, st, job>>
    BY <1>3, <1>5 DEF ProbeIdentify
  <2>2. VarsOK' /\ Alone(d)
    BY <1>1, <1>4, <2>1 DEF AtaInv, VarsOK, Alone
  <2>3. (Rest(d) \/ Works(d, Identify))'
    BY <1>4, <2>1 DEF Identifying, Untouched, Rest, Works, Identify
  <2>4. ~present'[d] /\ \A e \in Drives : e # d => present'[e] = present[e]
    BY <1>4, <2>1
  <2> QED
    BY <1>1, <1>3, <2>2, <2>3, <2>4, NextProbe
<1>6. CASE ~(Signature(d) \/ Status(d) # "ready")
  <2>1. present' = [present EXCEPT ![d] = TRUE] /\ Transfer(Listening(d), Junk)
    BY <1>3, <1>6 DEF ProbeIdentify
  <2>2. /\ Listening(d) = {d} /\ bus = "wired" /\ kind[d] = "ata"
        /\ st[d] = "data" /\ job[d] = Identify
    BY <1>1, <1>3, <1>6, ReadyIdentifies
  <2>3. job[d].left = 1 /\ job[d].cmd = "identify" /\ Junk \in Int
    BY <2>2, JobFields DEF Junk
  <2>4. /\ st' \in [Drives -> States] /\ job' \in [Drives -> Jobs] /\ Alone(d)
        /\ st'[d] = "idle" /\ job'[d] = NoJob
    <3>1. (job[d].left > 1 => job[d].left - 1 \in Nat) /\ ~(job[d].left > 1) /\ VarsOK
      BY <2>3 DEF AtaInv
    <3> QED
      BY <2>1, <2>2, <2>3, <3>1, TransferMoves
  <2>5. VarsOK'
    BY <1>1, <1>4, <2>1, <2>4 DEF AtaInv, VarsOK
  <2>6. Rest(d)' /\ \A e \in Drives : e # d => present'[e] = present[e]
    BY <2>1, <2>4 DEF Rest, AtaInv, VarsOK
  <2> QED
    BY <1>1, <1>3, <2>2, <2>4, <2>5, <2>6, NextProbe
<1> QED
  BY <1>5, <1>6

\* A pass through the loop over the sectors that is not the last.
LEMMA NextFields ==
    ASSUME CallOK, call # Idle, call.op \in Transfers, NextSector, call.s + 1 # call.num
    PROVE  /\ call'.op = call.op /\ call'.pc = "sector" /\ call'.drive = call.drive
           /\ call'.lba = call.lba /\ call'.num = call.num /\ call'.s = call.s + 1
           /\ From' = From /\ call' # Idle /\ call' \in CallSet /\ CallOK'
           /\ call.num - call.s > 1
<1>1. call \in CallSet /\ call' = [call EXCEPT !.pc = "sector", !.s = call.s + 1] /\ call.s < call.num
  BY DEF CallOK, NextSector
<1>2. /\ call'.op = call.op /\ call'.pc = "sector" /\ call'.drive = call.drive
      /\ call'.lba = call.lba /\ call'.num = call.num /\ call'.s = call.s + 1
  BY <1>1 DEF CallSet
<1>3. call.s \in Nat /\ call.num \in Nat
  BY <1>1 DEF CallSet
<1>4. call' \in CallSet
  <2>1. \A c \in CallSet, n \in Nat : [c EXCEPT !.pc = "sector", !.s = n] \in CallSet
    BY DEF CallSet
  <2>2. call.s + 1 \in Nat
    BY <1>3
  <2> QED
    BY <1>1, <2>1, <2>2
<1>5. call' # Idle
  BY <1>2, CallFields DEF Transfers
<1>6. CallOK' /\ call.num - call.s > 1
  BY <1>1, <1>2, <1>3, <1>4 DEF CallOK, Transfers
<1> QED
  BY <1>2, <1>4, <1>5, <1>6 DEF From

\* What ReadSector adds to the buffer is the sector it is at.
LEMMA SectorRead ==
    ASSUME AtaInv, ReadSector
    PROVE  \E d \in Drives :
             /\ d = call.drive /\ Listening(d) = {d} /\ st[d] = "data"
             /\ job[d] = Job("read", From + call.s, call.num - call.s)
             /\ buf' \in Seq(Int) /\ Len(buf') = call.s + 1
             /\ \A k \in 1..(call.s + 1) : buf'[k] = disk[d][From + k - 1]
<1>1. /\ call.op = "read" /\ call.pc = "sector" /\ Status(call.drive) = "ready"
      /\ buf' = Append(buf, Offered(call.drive))
  BY DEF ReadSector, At
<1>2. call # Idle /\ CallOK
  BY <1>1, CallFields DEF AtaInv
<1>3. PICK d \in Drives :
        /\ d = call.drive
        /\ ~Deaf(d) => Listening(d) = {d}
        /\ Status(d) = IF bus = "ones" THEN "busy"
                       ELSE IF Deaf(d) THEN "zero"
                       ELSE IF st[d] \in {"busy", "fault"} THEN st[d] ELSE "ready"
  BY <1>1, <1>2, Heard
<1>4. Listening(d) = {d} /\ st[d] \notin {"busy", "fault"}
  BY <1>1, <1>3
<1>5. Reading(d)
  BY <1>1, <1>3 DEF AtaInv, CurrentOK, TransferDrive, Transfers
<1>6. /\ st[d] = "data" /\ job[d] = Job("read", From + call.s, call.num - call.s)
      /\ From + call.s \in Disk
  BY <1>4, <1>5 DEF Reading, Works
<1>7. Offered(d) = disk[d][From + call.s]
  <2>1. job[d].cmd = "read" /\ job[d].at = From + call.s
    BY <1>6, JobFields
  <2>2. {e \in Listening(d) : st[e] = "data" /\ job[e].cmd = "read"} = {d}
    BY <1>4, <1>6, <2>1
  <2>3. {d} # {} /\ (CHOOSE e \in {d} : TRUE) = d
    OBVIOUS
  <2> QED
    BY <2>1, <2>2, <2>3 DEF Offered
<1>8. Offered(d) \in Int /\ buf \in Seq(Int)
  BY <1>6, <1>7 DEF AtaInv, VarsOK
<1>9. Len(buf) = call.s /\ \A k \in 1..call.s : buf[k] = disk[d][From + k - 1]
  BY <1>1, <1>3 DEF AtaInv, BufOK
<1>10. call.s \in Nat /\ From \in Nat
  BY <1>2, CallKinds, Numbers DEF From
<1>11. buf' = Append(buf, Offered(d))
  BY <1>1, <1>3
<1>12. buf' \in Seq(Int) /\ Len(buf') = call.s + 1
  BY <1>8, <1>9, <1>11
<1>13. ASSUME NEW k \in 1..(call.s + 1) PROVE buf'[k] = disk[d][From + k - 1]
  <2>1. CASE k = call.s + 1
    <3>1. buf'[k] = Offered(d)
      BY <1>8, <1>9, <1>11, <2>1
    <3>2. From + k - 1 = From + call.s
      BY <1>10, <2>1
    <3> QED
      BY <3>1, <3>2, <1>7
  <2>2. CASE k # call.s + 1
    <3>1. k \in 1..call.s
      BY <1>10, <2>2
    <3>2. buf'[k] = buf[k]
      BY <1>8, <1>9, <1>11, <3>1
    <3> QED
      BY <3>1, <3>2, <1>9
  <2> QED
    BY <2>1, <2>2
<1> QED
  BY <1>3, <1>4, <1>6, <1>12, <1>13

\* One sector of a read.
LEMMA ReadSectorInv ==
    ASSUME AtaInv, ReadSector
    PROVE  AtaInv'
<1>1. /\ call.op = "read" /\ call.pc = "sector" /\ NextSector
      /\ Transfer(Listening(call.drive), Junk)
      /\ UNCHANGED <<bus, kind, disk, sel, ata_initialized, present>>
      /\ UNCHANGED <<hardware, present, ata_initialized>>
  BY DEF ReadSector, At, hardware
<1>2. call # Idle /\ CallOK /\ call.op \in Transfers
  BY <1>1, CallFields DEF AtaInv, Transfers
<1>3. PICK d \in Drives :
        /\ d = call.drive /\ Listening(d) = {d} /\ st[d] = "data"
        /\ job[d] = Job("read", From + call.s, call.num - call.s)
        /\ buf' \in Seq(Int) /\ Len(buf') = call.s + 1
        /\ \A k \in 1..(call.s + 1) : buf'[k] = disk[d][From + k - 1]
  BY SectorRead
<1>4. /\ call.s \in Nat /\ call.num \in Nat /\ call.s < call.num /\ From \in Nat
      /\ Junk \in Int
  BY <1>2, CallKinds, Numbers DEF From, Junk
<1>5. job[d].left = call.num - call.s /\ job[d].cmd = "read" /\ job[d].at = From + call.s
  BY <1>3, JobFields
<1>6. /\ st' \in [Drives -> States] /\ job' \in [Drives -> Jobs] /\ Alone(d)
      /\ IF call.num - call.s > 1
         THEN st'[d] = "busy" /\ job'[d] = Job("read", From + call.s + 1, call.num - call.s - 1)
         ELSE st'[d] = "idle" /\ job'[d] = NoJob
  <2>1. VarsOK /\ (job[d].left > 1 => job[d].left - 1 \in Nat) /\ Transfer(Listening(d), Junk)
    BY <1>1, <1>3, <1>4, <1>5 DEF AtaInv
  <2> QED
    BY <1>3, <1>4, <1>5, <2>1, TransferMoves
<1>7. VarsOK'
  BY <1>1, <1>3, <1>6 DEF AtaInv, VarsOK
<1>8. CASE call.s + 1 = call.num
  <2>1. call' = Idle /\ Rest(d)'
    BY <1>1, <1>4, <1>6, <1>8 DEF NextSector, Return, Rest
  <2> QED
    BY <1>1, <1>2, <1>3, <1>6, <1>7, <2>1, Done
<1>9. CASE call.s + 1 # call.num
  <2>1. /\ call'.op = call.op /\ call'.pc = "sector" /\ call'.drive = d
        /\ call'.num = call.num /\ call'.s = call.s + 1
        /\ From' = From /\ call' # Idle /\ CallOK' /\ call.num - call.s > 1
    BY <1>1, <1>2, <1>3, <1>9, NextFields
  <2>2. SelOK'
    BY <1>1, <1>2, <1>3, <2>1 DEF AtaInv, SelOK
  <2>3. BufOK'
    BY <1>1, <1>3, <2>1 DEF BufOK
  <2>4. Reading(d)'
    <3>1. From' + call'.s = From + call.s + 1 /\ call'.num - call'.s = call.num - call.s - 1
      BY <1>4, <2>1
    <3>2. st'[d] = "busy" /\ job'[d] = Job("read", From' + call'.s, call'.num - call'.s)
      BY <1>6, <2>1, <3>1
    <3> QED
      BY <3>2 DEF Reading, Works, Job
  <2>5. present'[d]
    BY <1>1, <1>2, <1>3 DEF AtaInv, CurrentOK, TransferDrive
  <2>6. TransferDrive(d)'
    BY <1>1, <2>1, <2>4, <2>5 DEF TransferDrive, Reading
  <2>7. CurrentOK'
    BY <1>1, <2>1, <2>6 DEF CurrentOK, TransferDrive
  <2> QED
    BY <1>1, <1>2, <1>3, <1>6, <1>7, <2>1, <2>2, <2>3, <2>7, Onward
<1> QED
  BY <1>8, <1>9

\* The drive of a transfer hears the driver, and the status is its own.
LEMMA TransferHeard ==
    ASSUME AtaInv, call.op \in Transfers, call.pc # "select"
    PROVE  \E d \in Drives :
             /\ d = call.drive /\ TransferDrive(d) /\ present[d] /\ Listening(d) = {d}
             /\ Status(d) = IF st[d] \in {"busy", "fault"} THEN st[d] ELSE "ready"
<1>1. call # Idle
  BY CallFields DEF Transfers
<1>2. PICK d \in Drives :
        /\ d = call.drive
        /\ ~Deaf(d) => Listening(d) = {d}
        /\ Status(d) = IF bus = "ones" THEN "busy"
                       ELSE IF Deaf(d) THEN "zero"
                       ELSE IF st[d] \in {"busy", "fault"} THEN st[d] ELSE "ready"
  BY <1>1, Heard
<1>3. TransferDrive(d) /\ present[d]
  BY <1>2 DEF AtaInv, CurrentOK, TransferDrive
<1>4. bus = "wired" /\ ~Deaf(d)
  BY <1>3 DEF AtaInv, PresentOK, Deaf
<1> QED
  BY <1>2, <1>3, <1>4

\* One sector of a write: a drive that asks for it has it now.
LEMMA WriteSectorInv ==
    ASSUME AtaInv, WriteSector
    PROVE  AtaInv'
<1>1. /\ call.op = "write" /\ call.pc = "sector" /\ Status(call.drive) = "ready" /\ Goto("flush")
      /\ Transfer(Listening(call.drive), New(call.s))
      /\ UNCHANGED <<bus, kind, disk, sel, ata_initialized, present, buf>>
      /\ UNCHANGED <<hardware, present, ata_initialized>>
  BY DEF WriteSector, At, hardware
<1>2. call # Idle /\ CallOK /\ call.op \in Transfers
  BY <1>1, CallFields DEF AtaInv, Transfers
<1>3. PICK d \in Drives :
        /\ d = call.drive /\ TransferDrive(d) /\ present[d] /\ Listening(d) = {d}
        /\ Status(d) = IF st[d] \in {"busy", "fault"} THEN st[d] ELSE "ready"
  BY <1>1, <1>2, TransferHeard
<1>4. Writing(d) /\ st[d] \notin {"busy", "fault"}
  BY <1>1, <1>3 DEF TransferDrive
<1>5. call.s \in Nat /\ call.num \in Nat /\ call.s < call.num /\ From \in Nat /\ New(call.s) \in Int
  BY <1>2, CallKinds, Numbers DEF From
<1>6. job[d].left \in Nat /\ VarsOK
  BY DEF AtaInv, VarsOK, Jobs
<1>7. /\ st' \in [Drives -> States] /\ job' \in [Drives -> Jobs] /\ Alone(d)
      /\ st[d] # "data" => st'[d] = st[d] /\ job'[d] = job[d]
      /\ st[d] = "data" /\ job[d].cmd = "write" =>
           st'[d] = "busy" /\ job'[d] = [job[d] EXCEPT !.data = New(call.s)]
  <2>1. (job[d].left > 1 => job[d].left - 1 \in Nat) /\ Transfer(Listening(d), New(call.s))
    BY <1>1, <1>3, <1>6
  <2> QED
    BY <1>3, <1>5, <1>6, <2>1, TransferMoves
<1>8. VarsOK'
  BY <1>1, <1>7 DEF AtaInv, VarsOK
<1>9. /\ call'.op = call.op /\ call'.pc = "flush"
      /\ call'.drive = d /\ call'.lba = call.lba /\ call'.num = call.num /\ call'.s = call.s
      /\ call' # Idle /\ call' \in CallSet /\ From' = From
  BY <1>1, <1>2, <1>3, GotoFields
<1>10. CallOK'
  BY <1>1, <1>2, <1>9 DEF CallOK
<1>11. SelOK' /\ BufOK'
  BY <1>1, <1>2, <1>3, <1>9 DEF AtaInv, SelOK, BufOK
<1>12. Storing(d)'
  <2>1. CASE Rest(d)
    BY <2>1, <1>4, <1>7 DEF Storing, Rest
  <2>2. CASE Works(d, Job("write", From + call.s, call.num - call.s))
    <3>1. st[d] = "data" /\ job[d] = Job("write", From + call.s, call.num - call.s)
      BY <2>2, <1>4 DEF Works
    <3>2. st'[d] = "busy" /\ job'[d] = [job[d] EXCEPT !.data = New(call.s)]
      BY <3>1, <1>7, JobFields
    <3>3. Given' = Given
      BY <1>9 DEF Given
    <3>4. st'[d] = "busy" /\ job'[d] = Given'
      BY <3>1, <3>2, <3>3 DEF Given
    <3> QED
      BY <3>4 DEF Storing, Given
  <2> QED
    BY <2>1, <2>2, <1>4 DEF Writing
<1>13. CurrentOK'
  <2>1. TransferDrive(d)'
    BY <1>1, <1>3, <1>9, <1>12 DEF TransferDrive, Storing
  <2> QED
    BY <2>1, <1>1, <1>9 DEF CurrentOK, TransferDrive
<1> QED
  BY <1>1, <1>2, <1>3, <1>7, <1>8, <1>9, <1>10, <1>11, <1>13, Onward

\* A transfer whose drive failed returns.
LEMMA NotReadyInv ==
    ASSUME AtaInv, NotReady
    PROVE  AtaInv'
<1>1. /\ call.op \in Transfers /\ call.pc = "sector" /\ Status(call.drive) \in {"fault", "zero"}
      /\ call' = Idle /\ UNCHANGED <<bus, kind, st, job, disk, sel, ata_initialized, present, buf>>
      /\ UNCHANGED <<hardware, present, ata_initialized>>
  BY DEF NotReady, At, Return, hardware, drives
<1>2. PICK d \in Drives :
        /\ d = call.drive /\ TransferDrive(d)
        /\ Status(d) = IF st[d] \in {"busy", "fault"} THEN st[d] ELSE "ready"
  BY <1>1, TransferHeard
<1>3. st[d] = "fault"
  BY <1>1, <1>2
<1>4. Rest(d)
  BY <1>1, <1>2, <1>3 DEF TransferDrive, Reading, Writing, Rest, Works
<1>5. Rest(d)' /\ Alone(d) /\ VarsOK'
  BY <1>1, <1>4 DEF Rest, Alone, AtaInv, VarsOK
<1> QED
  BY <1>1, <1>2, <1>5, Done

\* The flush is ignored, or taken for the work in hand.
LEMMA FlushInv ==
    ASSUME AtaInv, Flush
    PROVE  AtaInv'
<1>1. /\ call.op = "write" /\ call.pc = "flush" /\ Goto("settle")
      /\ Command(Listening(call.drive), Job("flush", 0, 0))
      /\ UNCHANGED <<bus, kind, disk, sel, ata_initialized, present, buf>>
      /\ UNCHANGED <<hardware, present, ata_initialized>>
  BY DEF Flush, At, hardware
<1>2. call # Idle /\ CallOK /\ call.op \in Transfers
  BY <1>1, CallFields DEF AtaInv, Transfers
<1>3. PICK d \in Drives :
        d = call.drive /\ TransferDrive(d) /\ present[d] /\ Listening(d) = {d}
  BY <1>1, <1>2, TransferHeard
<1>4. Storing(d)
  BY <1>1, <1>3 DEF TransferDrive
<1>5. Job("flush", 0, 0) \in Jobs
  BY JobFields DEF Cmds
<1>6. /\ st' \in [Drives -> States] /\ job' \in [Drives -> Jobs] /\ Alone(d)
      /\ \/ st'[d] = "busy" /\ job'[d] = Job("flush", 0, 0)
         \/ st'[d] = st[d] /\ job'[d] = job[d]
  BY <1>1, <1>3, <1>5, CommandTaken DEF AtaInv
<1>7. VarsOK'
  BY <1>1, <1>6 DEF AtaInv, VarsOK
<1>8. /\ call'.op = call.op /\ call'.pc = "settle"
      /\ call'.drive = d /\ call'.lba = call.lba /\ call'.num = call.num /\ call'.s = call.s
      /\ call' # Idle /\ call' \in CallSet /\ From' = From
  BY <1>1, <1>2, <1>3, GotoFields
<1>9. CallOK'
  BY <1>1, <1>2, <1>8 DEF CallOK
<1>10. SelOK' /\ BufOK'
  BY <1>1, <1>2, <1>3, <1>8 DEF AtaInv, SelOK, BufOK
<1>11. Storing(d)' \/ Flushing(d)'
  BY <1>4, <1>6, <1>8 DEF Storing, Flushing, Rest, Works, Given, Job
<1>12. CurrentOK'
  <2>1. TransferDrive(d)'
    BY <1>1, <1>3, <1>8, <1>11 DEF TransferDrive
  <2> QED
    BY <2>1, <1>1, <1>8 DEF CurrentOK, TransferDrive
<1> QED
  BY <1>1, <1>2, <1>3, <1>6, <1>7, <1>8, <1>9, <1>10, <1>12, Onward

\* After ata_wait_busy the drive rests or asks for the next sector.
LEMMA SettleInv ==
    ASSUME AtaInv, Settle
    PROVE  AtaInv'
<1>1. /\ call.op = "write" /\ call.pc = "settle" /\ Status(call.drive) # "busy" /\ NextSector
      /\ UNCHANGED <<bus, kind, st, job, disk, sel, ata_initialized, present, buf>>
      /\ UNCHANGED <<hardware, present, ata_initialized>>
  BY DEF Settle, At, hardware, drives
<1>2. call # Idle /\ CallOK /\ call.op \in Transfers
  BY <1>1, CallFields DEF AtaInv, Transfers
<1>3. PICK d \in Drives :
        /\ d = call.drive /\ TransferDrive(d) /\ present[d]
        /\ Status(d) = IF st[d] \in {"busy", "fault"} THEN st[d] ELSE "ready"
  BY <1>1, <1>2, TransferHeard
<1>4. st[d] # "busy" /\ Storing(d)
  BY <1>1, <1>3 DEF TransferDrive, Flushing
<1>5. /\ Rest(d)
         \/ (call.num - call.s > 1 /\ Works(d, Job("write", From + call.s + 1, call.num - call.s - 1)))
      /\ call.s \in Nat /\ call.num \in Nat /\ From \in Nat
  BY <1>2, <1>4, CallKinds, Numbers DEF Storing, From
<1>6. VarsOK' /\ Alone(d)
  BY <1>1 DEF AtaInv, VarsOK, Alone
<1>7. CASE call.s + 1 = call.num
  <2>1. call' = Idle /\ Rest(d)
    BY <1>1, <1>5, <1>7 DEF NextSector, Return
  <2>2. Rest(d)'
    BY <1>1, <2>1 DEF Rest
  <2> QED
    BY <1>1, <1>2, <1>3, <1>6, <2>1, <2>2, Done
<1>8. CASE call.s + 1 # call.num
  <2>1. /\ call'.op = call.op /\ call'.pc = "sector" /\ call'.drive = d
        /\ call'.num = call.num /\ call'.s = call.s + 1
        /\ From' = From /\ call' # Idle /\ CallOK' /\ call.num - call.s > 1
    BY <1>1, <1>2, <1>3, <1>8, NextFields
  <2>2. SelOK' /\ BufOK'
    BY <1>1, <1>2, <1>3, <2>1 DEF AtaInv, SelOK, BufOK
  <2>3. Writing(d)'
    <3>1. From' + call'.s = From + call.s + 1 /\ call'.num - call'.s = call.num - call.s - 1
      BY <1>5, <2>1
    <3>2. CASE Rest(d)
      BY <3>2, <1>1 DEF Writing, Rest
    <3>3. CASE Works(d, Job("write", From + call.s + 1, call.num - call.s - 1))
      <4>1. st'[d] \in {"busy", "data"} /\ job'[d] = Job("write", From' + call'.s, call'.num - call'.s)
        BY <1>1, <3>1, <3>3 DEF Works
      <4> QED
        BY <4>1 DEF Writing, Works, Job
    <3> QED
      BY <1>5, <3>2, <3>3
  <2>4. TransferDrive(d)'
    BY <1>1, <1>3, <2>1, <2>3 DEF TransferDrive
  <2>5. CurrentOK'
    BY <1>1, <2>1, <2>4 DEF CurrentOK, TransferDrive
  <2> QED
    BY <1>1, <1>2, <1>3, <1>6, <2>1, <2>2, <2>5, Onward
<1> QED
  BY <1>7, <1>8

-----------------------------------------------------------------------------
\* Only the drive of a write has a sector to store: the one the call is at.
LEMMA OnlyGiven ==
    ASSUME AtaInv, NEW d \in Drives, job[d].data # Junk
    PROVE  /\ call.op = "write" /\ call.drive = d /\ call.pc \in {"flush", "settle"}
           /\ job[d] = Given /\ st[d] = "busy"
<1>1. \A e \in Drives : Rest(e) \/ Untouched(e) \/ Works(e, Identify) => job[e].data = Junk
  BY JobFields DEF Rest, Untouched, Works
<1>2. CallOK /\ call # Idle /\ call.drive = d
  BY <1>1 DEF AtaInv, OthersOK
<1>3. CASE call.op = "probe"
  BY <1>1, <1>2, <1>3, JobFields
     DEF AtaInv, CallOK, CurrentOK, ProbeDrive, Identifying, Untouched, Works
<1>4. CASE call.op = "read"
  <2>1. call.pc \in {"select", "ready", "command", "sector"} /\ TransferDrive(d)
    BY <1>2, <1>4 DEF AtaInv, CallOK, CurrentOK, Transfers
  <2>2. call.pc = "sector" /\ Reading(d)
    BY <1>1, <1>4, <2>1 DEF TransferDrive
  <2>3. job[d] = NoJob \/ job[d] = Job("read", From + call.s, call.num - call.s)
    BY <2>2 DEF Reading, Works
  <2> QED
    BY <2>3, JobFields
<1>5. CASE call.op = "write"
  <2>1. /\ call.pc \in {"select", "ready", "command", "sector", "flush", "settle"}
        /\ TransferDrive(d)
    BY <1>2, <1>5 DEF AtaInv, CallOK, CurrentOK, Transfers
  <2>2. call.pc # "sector"
    BY <1>1, <1>5, <2>1, JobFields DEF TransferDrive, Writing, Works
  <2>3. call.pc \in {"flush", "settle"} /\ (Storing(d) \/ Flushing(d))
    BY <1>1, <2>1, <2>2 DEF TransferDrive
  <2>4. st[d] = "busy" /\ job[d] = Given
    BY <1>1, <2>3, JobFields DEF Storing, Flushing, Works
  <2> QED
    BY <1>2, <1>5, <2>3, <2>4
<1> QED
  BY <1>2, <1>3, <1>4, <1>5, CallKinds

\* How a drive ends what it was busy with.
Offers(d) ==
    /\ st' = [st EXCEPT ![d] = "data"] /\ job' = job /\ disk' = disk
    /\ \/ job[d].cmd = "identify" /\ kind[d] = "ata"
       \/ job[d].cmd \in {"read", "write"} /\ job[d].data = Junk /\ job[d].at \in Disk
Stores(d) ==
    /\ job[d].data # Junk
    /\ disk' = [disk EXCEPT ![d][job[d].at] = job[d].data]
    /\ st' = [st EXCEPT ![d] = IF job[d].left > 1 THEN "busy" ELSE "idle"]
    /\ job' = [job EXCEPT ![d] = IF job[d].left > 1
                                 THEN Job("write", job[d].at + 1, job[d].left - 1) ELSE NoJob]
Stops(d) ==
    /\ job' = [job EXCEPT ![d] = NoJob] /\ disk' = disk
    /\ \/ st' = [st EXCEPT ![d] = "fault"]
       \/ st' = [st EXCEPT ![d] = "idle"] /\ job[d].cmd = "flush"

LEMMA FinishMoves ==
    ASSUME VarsOK, NEW d \in Drives, Finish(d)
    PROVE  /\ st[d] = "busy" /\ Alone(d) /\ VarsOK'
           /\ UNCHANGED <<bus, kind, hardware, sel, ata_initialized, present, call, buf>>
           /\ Offers(d) \/ Stores(d) \/ Stops(d)
<1>1. /\ st[d] = "busy" /\ (Offers(d) \/ Stores(d) \/ Stops(d))
      /\ UNCHANGED <<bus, kind, hardware, sel, ata_initialized, present, call, buf>>
  BY DEF Finish, Offers, Stores, Stops, hardware, driver
<1>2. /\ st \in [Drives -> States] /\ job \in [Drives -> Jobs] /\ disk \in [Drives -> [Disk -> Int]]
      /\ job[d].at \in Nat /\ job[d].left \in Nat /\ job[d].data \in Int
  BY DEF VarsOK, Jobs
<1>3. /\ st' \in [Drives -> States] /\ job' \in [Drives -> Jobs] /\ disk' \in [Drives -> [Disk -> Int]]
      /\ Alone(d)
  <2>1. CASE Offers(d)
    BY <1>2, <2>1 DEF Offers, Alone, States
  <2>2. CASE Stores(d)
    <3>1. st' \in [Drives -> States] /\ \A e \in Drives : e # d => st'[e] = st[e]
      BY <1>2, <2>2 DEF Stores, States
    <3>2. (IF job[d].left > 1 THEN Job("write", job[d].at + 1, job[d].left - 1) ELSE NoJob) \in Jobs
      BY <1>2, JobFields DEF Cmds
    <3>3. job' \in [Drives -> Jobs] /\ \A e \in Drives : e # d => job'[e] = job[e]
      BY <1>2, <2>2, <3>2 DEF Stores
    <3>4. [disk[d] EXCEPT ![job[d].at] = job[d].data] \in [Disk -> Int]
      BY <1>2
    <3>5. disk' \in [Drives -> [Disk -> Int]]
      BY <1>2, <2>2, <3>4 DEF Stores
    <3> QED
      BY <3>1, <3>3, <3>5 DEF Alone
  <2>3. CASE Stops(d)
    BY <1>2, <2>3, JobFields DEF Stops, Alone, States
  <2> QED
    BY <1>1, <2>1, <2>2, <2>3
<1>4. VarsOK'
  BY <1>1, <1>3 DEF VarsOK
<1> QED
  BY <1>1, <1>3, <1>4

\* A drive no call waits for can only be one that was refused: it offers its
\* identification or fails.
LEMMA FinishOther ==
    ASSUME AtaInv, NEW d \in Drives, Finish(d), call = Idle \/ d # call.drive
    PROVE  AtaInv'
<1>1. /\ st[d] = "busy" /\ Alone(d) /\ VarsOK'
      /\ UNCHANGED <<bus, kind, hardware, sel, ata_initialized, present, call, buf>>
      /\ Offers(d) \/ Stores(d) \/ Stops(d)
  BY FinishMoves DEF AtaInv
<1>2. job[d] = Identify /\ ~present[d]
  BY <1>1 DEF AtaInv, OthersOK, Rest, Works
<1>3. /\ (job'[d] = Identify /\ st'[d] = "data") \/ (job'[d] = NoJob /\ st'[d] \in {"idle", "fault"})
      /\ disk' = disk
  <2>1. st \in [Drives -> States] /\ job \in [Drives -> Jobs] /\ job[d].data = Junk
    BY <1>2, JobFields DEF AtaInv, VarsOK
  <2>2. CASE Offers(d)
    BY <1>2, <2>1, <2>2 DEF Offers
  <2>3. CASE Stores(d)
    BY <2>1, <2>3 DEF Stores
  <2>4. CASE Stops(d)
    BY <2>1, <2>4 DEF Stops
  <2> QED
    BY <1>1, <2>2, <2>3, <2>4
<1>4. OthersOK'
  <2>1. (Rest(d) \/ Works(d, Identify))' /\ ~present'[d]
    BY <1>1, <1>2, <1>3 DEF Rest, Works, Identify
  <2> SUFFICES ASSUME NEW e \in Drives, call = Idle \/ e # call.drive
               PROVE  ((present[e] => Rest(e)) /\ (Rest(e) \/ Works(e, Identify)))'
    BY <1>1 DEF OthersOK
  <2>2. CASE e = d
    BY <2>1, <2>2 DEF Rest, Works
  <2>3. CASE e # d
    BY <1>1, <2>3 DEF AtaInv, OthersOK, Alone, Rest, Works, Identify
  <2> QED
    BY <2>2, <2>3
<1>5. CallOK' /\ SelOK' /\ BufOK' /\ PresentOK'
  <2>1. From' = From
    BY <1>1 DEF From
  <2> QED
    BY <1>1, <1>3, <2>1 DEF AtaInv, CallOK, SelOK, BufOK, PresentOK
<1>6. ProbeOK'
  BY <1>1 DEF AtaInv, ProbeOK, Alone, Untouched
<1>7. CurrentOK'
  <2>1. CASE call = Idle
    BY <1>1, <2>1, CallFields DEF CurrentOK, Transfers
  <2>2. CASE call # Idle
    <3>1. PICK c \in Drives : c = call.drive
      BY <2>2, CallKinds DEF AtaInv
    <3>2. st'[c] = st[c] /\ job'[c] = job[c] /\ present'[c] = present[c]
      BY <1>1, <2>2, <3>1 DEF Alone
    <3>3. /\ ProbeDrive(c) => ProbeDrive(c)'
          /\ TransferDrive(c) => TransferDrive(c)'
      BY <1>1, <3>2
         DEF ProbeDrive, TransferDrive, Untouched, Rest, Works, Identifying, Identify, Deaf,
             Reading, Writing, Storing, Flushing, Given, From, New, Job
    <3> QED
      BY <1>1, <3>1, <3>3 DEF AtaInv, CurrentOK, ProbeDrive, TransferDrive
  <2> QED
    BY <2>1, <2>2
<1> QED
  BY <1>1, <1>4, <1>5, <1>6, <1>7 DEF AtaInv

\* The drive of the call in progress.
LEMMA FinishCurrent ==
    ASSUME AtaInv, NEW d \in Drives, Finish(d), call # Idle, d = call.drive
    PROVE  AtaInv'
<1>1. /\ st[d] = "busy" /\ Alone(d) /\ VarsOK'
      /\ UNCHANGED <<bus, kind, hardware, sel, ata_initialized, present, call, buf>>
      /\ Offers(d) \/ Stores(d) \/ Stops(d)
  BY FinishMoves DEF AtaInv
<1>2. CallOK /\ VarsOK /\ st \in [Drives -> States] /\ job \in [Drives -> Jobs]
  BY DEF AtaInv, VarsOK
<1>3. /\ call.op \in {"probe", "read", "write"} /\ call.s \in Nat /\ call.num \in Nat
      /\ From \in Nat /\ From' = From /\ call.s < call.num
  BY <1>1, <1>2, CallKinds, Numbers DEF From
<1>4. /\ Offers(d) => st'[d] = "data" /\ job'[d] = job[d]
      /\ Stores(d) => /\ job[d] = Given /\ call.op = "write" /\ call.pc \in {"flush", "settle"}
                      /\ st'[d] = (IF job[d].left > 1 THEN "busy" ELSE "idle")
                      /\ job'[d] = (IF job[d].left > 1
                                    THEN Job("write", job[d].at + 1, job[d].left - 1) ELSE NoJob)
      /\ Stops(d) => job'[d] = NoJob /\ (st'[d] = "fault" \/ (st'[d] = "idle" /\ job[d].cmd = "flush"))
  <2>1. ASSUME Offers(d) PROVE st'[d] = "data" /\ job'[d] = job[d]
    BY <1>2, <2>1 DEF Offers
  <2>2. ASSUME Stores(d)
        PROVE  /\ job[d] = Given /\ call.op = "write" /\ call.pc \in {"flush", "settle"}
               /\ st'[d] = (IF job[d].left > 1 THEN "busy" ELSE "idle")
               /\ job'[d] = (IF job[d].left > 1
                             THEN Job("write", job[d].at + 1, job[d].left - 1) ELSE NoJob)
    <3>1. job[d].data # Junk
      BY <2>2 DEF Stores
    <3> QED
      BY <1>2, <2>2, <3>1, OnlyGiven DEF Stores
  <2>3. ASSUME Stops(d)
        PROVE  job'[d] = NoJob /\ (st'[d] = "fault" \/ (st'[d] = "idle" /\ job[d].cmd = "flush"))
    <3>1. st'[d] = "fault" \/ (st'[d] = "idle" /\ job[d].cmd = "flush")
      <4>1. CASE st' = [st EXCEPT ![d] = "fault"]
        BY <1>2, <4>1
      <4>2. CASE st' = [st EXCEPT ![d] = "idle"] /\ job[d].cmd = "flush"
        BY <1>2, <4>2
      <4> QED
        BY <2>3, <4>1, <4>2 DEF Stops
    <3>2. job'[d] = NoJob
      BY <1>2, <2>3 DEF Stops
    <3> QED
      BY <3>1, <3>2
  <2> QED
    BY <2>1, <2>2, <2>3
<1>5. CallOK' /\ SelOK' /\ BufOK'
  <2>1. call.op = "read" => disk' = disk
    BY <1>1, <1>4 DEF Offers, Stops
  <2> QED
    BY <1>1, <1>3, <2>1 DEF AtaInv, CallOK, SelOK, BufOK
<1>6. ~Rest(d) /\ ~Untouched(d)
  BY <1>1 DEF Rest, Untouched
<1>7. CASE call.op = "probe"
  <2>1. call.pc \in {"answer", "sign"} /\ Identifying(d)
    BY <1>2, <1>6, <1>7 DEF CallOK, AtaInv, CurrentOK, ProbeDrive
  <2>2. job[d] = Identify
    BY <1>1, <2>1 DEF Identifying, Untouched, Works
  <2>3. job[d].cmd = "identify"
    BY <2>2, JobFields
  <2>4. Identifying(d)'
    <3>1. CASE Offers(d)
      <4>1. kind[d] = "ata" /\ bus = "wired"
        BY <1>2, <2>3, <3>1 DEF Offers, VarsOK
      <4>2. st'[d] = "data" /\ job'[d] = Identify /\ kind'[d] = "ata" /\ bus' = "wired"
        BY <1>1, <1>4, <2>2, <3>1, <4>1
      <4> QED
        BY <4>2 DEF Identifying, Works, Identify
    <3>2. CASE Stops(d)
      BY <1>4, <2>3, <3>2 DEF Identifying
    <3> QED
      BY <1>1, <1>4, <1>7, <3>1, <3>2
  <2>5. CurrentOK'
    BY <1>1, <1>7, <2>1, <2>4 DEF CurrentOK, ProbeDrive, Transfers, Identifying
  <2> QED
    BY <1>1, <1>5, <2>5, Onward
<1>8. CASE call.op = "read"
  <2>1. TransferDrive(d) /\ call.pc = "sector" /\ Reading(d)
    BY <1>2, <1>6, <1>8 DEF CallOK, AtaInv, CurrentOK, TransferDrive, Transfers
  <2>2. job[d] = Job("read", From + call.s, call.num - call.s)
    BY <1>1, <2>1 DEF Reading, Works
  <2>3. job[d].cmd = "read" /\ job[d].at = From + call.s
    BY <2>2, JobFields
  <2>4. Reading(d)'
    <3>1. CASE Offers(d)
      <4>1. st'[d] = "data" /\ job'[d] = job[d] /\ From + call.s \in Disk
        BY <1>4, <2>3, <3>1 DEF Offers
      <4> QED
        BY <1>1, <1>3, <2>2, <4>1 DEF Reading, Works, Job
    <3>2. CASE Stops(d)
      BY <1>4, <2>3, <3>2 DEF Reading
    <3> QED
      BY <1>1, <1>4, <1>8, <3>1, <3>2
  <2>5. TransferDrive(d)'
    BY <1>1, <1>8, <2>1, <2>4 DEF TransferDrive, Reading
  <2>6. CurrentOK'
    BY <1>1, <1>8, <2>5 DEF CurrentOK, TransferDrive
  <2> QED
    BY <1>1, <1>5, <2>6, Onward
<1>9. CASE call.op = "write"
  <2>1. /\ TransferDrive(d) /\ call.pc \in {"sector", "flush", "settle"}
        /\ call.pc = "sector" => Writing(d)
        /\ call.pc = "flush" => Storing(d)
        /\ call.pc = "settle" => Storing(d) \/ Flushing(d)
    BY <1>2, <1>6, <1>9 DEF CallOK, AtaInv, CurrentOK, TransferDrive, Transfers
  <2>2. Stops(d) => Rest(d)'
    BY <1>4 DEF Rest
  <2>3. call.pc = "sector" => Writing(d)'
    <3>1. CASE Offers(d) /\ call.pc = "sector"
      <4>1. Works(d, Job("write", From + call.s, call.num - call.s))
        BY <1>6, <2>1, <3>1 DEF Writing
      <4>2. st'[d] = "data" /\ job'[d] = Job("write", From + call.s, call.num - call.s)
        BY <1>4, <3>1, <4>1 DEF Works
      <4> QED
        BY <1>1, <1>3, <4>2 DEF Writing, Works, Job
    <3>2. CASE Stops(d)
      BY <2>2, <3>2 DEF Writing, Rest
    <3> QED
      BY <1>1, <1>4, <3>1, <3>2
  <2>4. call.pc \in {"flush", "settle"} => Storing(d)'
    <3>1. CASE Offers(d) /\ call.pc \in {"flush", "settle"}
      <4>1. Storing(d) \/ Flushing(d)
        BY <2>1, <3>1
      <4>2. ~Flushing(d)
        <5>1. job[d].cmd # "flush"
          BY <3>1 DEF Offers
        <5> QED
          BY <5>1, JobFields DEF Flushing
      <4>3. job[d] # Given
        <5>1. job[d].cmd = "identify" \/ job[d].data = Junk
          BY <3>1 DEF Offers
        <5>2. Given.cmd = "write" /\ Given.data = New(call.s)
          BY DEF Given, Job
        <5> QED
          BY <5>1, <5>2, <1>3, Numbers
      <4>4. /\ call.num - call.s > 1
            /\ Works(d, Job("write", From + call.s + 1, call.num - call.s - 1))
        BY <1>6, <4>1, <4>2, <4>3 DEF Storing
      <4>5. st'[d] = "data" /\ job'[d] = Job("write", From + call.s + 1, call.num - call.s - 1)
        BY <1>4, <3>1, <4>4 DEF Works
      <4> QED
        BY <1>1, <1>3, <4>4, <4>5 DEF Storing, Works, Job
    <3>2. CASE Stores(d)
      <4>1. Given.left = call.num - call.s /\ Given.at = From + call.s
        BY DEF Given, Job
      <4>2. CASE call.num - call.s > 1
        <5>1. st'[d] = "busy" /\ job'[d] = Job("write", From + call.s + 1, call.num - call.s - 1)
          BY <1>4, <3>2, <4>1, <4>2
        <5> QED
          BY <1>1, <1>3, <4>2, <5>1 DEF Storing, Works, Job
      <4>3. CASE ~(call.num - call.s > 1)
        <5>1. st'[d] = "idle" /\ job'[d] = NoJob
          BY <1>4, <3>2, <4>1, <4>3
        <5> QED
          BY <5>1 DEF Storing, Rest
      <4> QED
        BY <4>2, <4>3
    <3>3. CASE Stops(d)
      BY <2>2, <3>3 DEF Storing, Rest
    <3> QED
      BY <1>1, <3>1, <3>2, <3>3
  <2>5. TransferDrive(d)'
    BY <1>1, <1>9, <2>1, <2>3, <2>4 DEF TransferDrive
  <2>6. CurrentOK'
    BY <1>1, <1>9, <2>5 DEF CurrentOK, TransferDrive
  <2> QED
    BY <1>1, <1>5, <2>6, Onward
<1> QED
  BY <1>3, <1>7, <1>8, <1>9

-----------------------------------------------------------------------------
\* Before init_ata every drive rests and none is in use.
LEMMA AtaStart == Init => AtaInv
<1> SUFFICES ASSUME Init PROVE AtaInv
  OBVIOUS
<1>1. call = Idle /\ buf = <<>> /\ ~ata_initialized /\ ata_initialized \in BOOLEAN
  BY DEF Init
<1>2. \A e \in Drives : Untouched(e) /\ ~present[e]
  BY DEF Init, Untouched
<1>3. VarsOK
  <2>1. st \in [Drives -> States] /\ job \in [Drives -> Jobs] /\ present \in [Drives -> BOOLEAN]
    BY JobFields DEF Init, States
  <2>2. disk \in [Drives -> [Disk -> Int]]
    BY Numbers DEF Init
  <2>3. /\ bus \in {"wired", "ones", "zeros"} /\ kind \in [Drives -> Kinds]
        /\ bus # "wired" => \A d \in Drives : kind[d] = "none"
    BY DEF Init, Kinds
  <2>4. sel \in [{Channel(d) : d \in Drives} -> {0, 1}] /\ buf \in Seq(Int)
    BY DEF Init
  <2> QED
    BY <1>1, <2>1, <2>2, <2>3, <2>4 DEF VarsOK
<1>4. CallOK /\ SelOK /\ BufOK /\ CurrentOK
  BY <1>1, CallFields DEF CallOK, SelOK, BufOK, CurrentOK, Transfers
<1>5. OthersOK /\ ProbeOK /\ PresentOK
  BY <1>1, <1>2, CallFields DEF OthersOK, ProbeOK, PresentOK, Untouched, Rest
<1> QED
  BY <1>3, <1>4, <1>5 DEF AtaInv

\* Every step of the driver and of the drives keeps the invariant.
LEMMA AtaStep == AtaInv /\ [Next]_ataVars => AtaInv'
<1> SUFFICES ASSUME AtaInv, [Next]_ataVars PROVE AtaInv'
  OBVIOUS
<1>1. CASE init_ata
  BY <1>1, init_ataInv
<1>2. ASSUME NEW d \in Drives, NEW lba \in Lbas, NEW num \in Nums,
             ata_read_sectors(d, lba, num) \/ ata_write_sectors(d, lba, num)
      PROVE  AtaInv'
  <2>1. lba \in Nat /\ num \in Nat
    BY AtaAssumption
  <2> QED
    BY <1>2, <2>1, StartTransferInv DEF ata_read_sectors, ata_write_sectors, Transfers
<1>3. CASE Step
  BY <1>3, ata_select_driveInv, WaitReadyInv, SendCommandInv, ProbeAnswerInv, ProbeIdentifyInv,
     ReadSectorInv, WriteSectorInv, NotReadyInv, FlushInv, SettleInv DEF Step
<1>4. CASE UNCHANGED ataVars
  BY <1>4 DEF ataVars, hardware, drives, driver, AtaInv, VarsOK, CallOK, CurrentOK, OthersOK,
       ProbeOK, PresentOK, SelOK, BufOK, ProbeDrive, TransferDrive, Untouched, Rest, Works,
       Identifying, Identify, Deaf, Reading, Writing, Storing, Flushing, Given, From, New, Job
<1>5. ASSUME NEW d \in Drives, Finish(d) PROVE AtaInv'
  BY <1>5, FinishOther, FinishCurrent
<1> QED
  BY <1>1, <1>2, <1>3, <1>4, <1>5 DEF Next, Poll

\* AtaInv holds at every step: in every call the drive is where the driver takes
\* it to be, or has failed, and every other drive rests or was refused.
THEOREM AtaInvariant == Spec => []AtaInv
<1>1. Spec => Init /\ [][Next]_ataVars
  BY PTL DEF Spec
<1> QED
  BY <1>1, AtaStart, AtaStep, PTL

\* A read that returns has what it says it has.
LEMMA ReadReturns ==
    ASSUME AtaInv, [Next]_ataVars, call.op = "read", call' = Idle
    PROVE  /\ ret' = Len(buf')
           /\ \A k \in 1..ret' : buf'[k] = disk[call.drive][(call.lba % LBAS) + k - 1]
<1>1. call # Idle /\ CallOK /\ call.op \in Transfers /\ call.s \in Nat
  BY CallFields, CallKinds DEF AtaInv, Transfers
<1>2. /\ Len(buf) = call.s
      /\ \A k \in 1..call.s : buf[k] = disk[call.drive][(call.lba % LBAS) + k - 1]
  BY DEF AtaInv, BufOK, From
<1>3. CASE WaitReady
  <2>1. call.s = 0
    BY <1>1, <1>3 DEF WaitReady, At, CallOK
  <2>2. ~Goto("command")
    BY <1>1, GotoFields
  <2>3. ret' = 0 /\ buf' = buf
    BY <1>3, <2>2 DEF WaitReady, Return
  <2> QED
    BY <1>2, <2>1, <2>3
<1>4. CASE ReadSector
  <2>1. call.s + 1 = call.num
    BY <1>1, <1>4, NextFields DEF ReadSector
  <2>2. ret' = call.s + 1
    BY <1>4, <2>1 DEF ReadSector, NextSector, Return
  <2> QED
    BY <1>4, <2>2, SectorRead DEF From
<1>5. CASE NotReady
  BY <1>2, <1>5 DEF NotReady, Return
<1>6. ~UNCHANGED call
  BY <1>1
<1>7. \A pc \in {"command", "ready", "sector", "answer", "sign"} : ~Goto(pc)
  BY <1>1, GotoFields
<1>8. CASE Step
  <2>1. ~ata_select_drive
    BY <1>7 DEF ata_select_drive
  <2>2. ~SendCommand
    BY <1>7 DEF SendCommand
  <2>3. ~ProbeAnswer /\ ~ProbeIdentify /\ ~WriteSector /\ ~Flush /\ ~Settle
    BY DEF ProbeAnswer, ProbeIdentify, WriteSector, Flush, Settle, At
  <2> QED
    BY <1>3, <1>4, <1>5, <1>8, <2>1, <2>2, <2>3 DEF Step
<1>9. ~init_ata /\ \A op, d, lba, num : ~StartTransfer(op, d, lba, num)
  BY <1>1 DEF init_ata, StartTransfer
<1>10. \A d : ~Finish(d)
  BY <1>6 DEF Finish, driver
<1>11. ~UNCHANGED ataVars
  BY <1>6 DEF ataVars, driver
<1> QED
  BY <1>8, <1>9, <1>10, <1>11 DEF Next, Poll, ata_read_sectors, ata_write_sectors

\* ReadSound: a read that returns n left in the buffer the n sectors stored from the
\* address on, for every address and count and however the drive behaves.
THEOREM AtaReadSound == Spec => ReadSound
<1>1. AtaInv /\ [Next]_ataVars =>
        [call.op = "read" /\ call' = Idle =>
          /\ ret' = Len(buf')
          /\ \A k \in 1..ret' : buf'[k] = disk[call.drive][(call.lba % LBAS) + k - 1]]_ataVars
  BY ReadReturns
<1>2. Spec => Init /\ [][Next]_ataVars
  BY PTL DEF Spec
<1> QED
  BY <1>1, <1>2, AtaInvariant, PTL DEF ReadSound

\* A sector that changes is the one the drive of a write was given.
LEMMA Addressed ==
    ASSUME AtaInv, [Next]_ataVars, NEW d \in Drives, NEW k \in Disk, disk'[d][k] # disk[d][k]
    PROVE  /\ call.op = "write" /\ call.drive = d
           /\ k - (call.lba % LBAS) \in 0..call.s
           /\ disk'[d][k] = New(k - (call.lba % LBAS))
<1>1. disk' # disk
  OBVIOUS
<1>2. PICK e \in Drives : Finish(e)
  <2>1. ~Step
    BY <1>1 DEF Step, ata_select_drive, WaitReady, SendCommand, ProbeAnswer, ProbeIdentify,
         ReadSector, WriteSector, NotReady, Flush, Settle, drives
  <2>2. ~init_ata /\ \A op, x, lba, num : ~StartTransfer(op, x, lba, num)
    BY <1>1 DEF init_ata, StartTransfer, drives
  <2>3. ~UNCHANGED ataVars
    BY <1>1 DEF ataVars, drives
  <2> QED
    BY <2>1, <2>2, <2>3 DEF Next, Poll, ata_read_sectors, ata_write_sectors
<1>3. Stores(e)
  BY <1>1, <1>2, FinishMoves DEF AtaInv, Offers, Stops
<1>4. call.op = "write" /\ call.drive = e /\ job[e] = Given
  BY <1>3, OnlyGiven DEF Stores
<1>5. disk \in [Drives -> [Disk -> Int]] /\ disk' = [disk EXCEPT ![e][job[e].at] = job[e].data]
  BY <1>3 DEF AtaInv, VarsOK, Stores
<1>6. d = e
  BY <1>5
<1>7. k = job[e].at /\ disk'[d][k] = job[e].data
  <2>1. disk'[d] = [disk[d] EXCEPT ![job[e].at] = job[e].data] /\ disk[d] \in [Disk -> Int]
    BY <1>5, <1>6
  <2> QED
    BY <2>1
<1>8. job[e].at = From + call.s /\ job[e].data = New(call.s)
  BY <1>4 DEF Given, Job
<1>9. call # Idle /\ call.s \in Nat /\ From \in Nat
  BY <1>4, CallFields, CallKinds, Numbers DEF AtaInv, From
<1>10. k - From = call.s /\ call.s \in 0..call.s
  BY <1>7, <1>8, <1>9
<1> QED
  BY <1>4, <1>6, <1>7, <1>8, <1>10 DEF From

\* OnlyAddressed: whatever a drive does with a flush that comes while it stores a
\* sector, no sector changes but those of the write in progress.
THEOREM AtaOnlyAddressed == Spec => OnlyAddressed
<1>1. AtaInv /\ [Next]_ataVars =>
        [\A d \in Drives, k \in Disk : disk'[d][k] # disk[d][k] =>
          /\ call.op = "write" /\ call.drive = d
          /\ k - (call.lba % LBAS) \in 0..call.s
          /\ disk'[d][k] = New(k - (call.lba % LBAS))]_ataVars
  BY Addressed
<1>2. Spec => Init /\ [][Next]_ataVars
  BY PTL DEF Spec
<1> QED
  BY <1>1, <1>2, AtaInvariant, PTL DEF OnlyAddressed

\* A drive becomes present only at the end of its probe.
LEMMA Answered ==
    ASSUME AtaInv, [Next]_ataVars, NEW d \in Drives, present'[d], ~present[d]
    PROVE  bus = "wired" /\ kind[d] = "ata" /\ st[d] = "data" /\ job[d].cmd = "identify"
<1>1. present' # present
  OBVIOUS
<1>2. ProbeIdentify
  <2>1. Step => ProbeIdentify
    BY <1>1 DEF Step, ata_select_drive, WaitReady, SendCommand, ProbeAnswer,
         ReadSector, WriteSector, NotReady, Flush, Settle
  <2>2. ~init_ata /\ \A op, x, lba, num : ~StartTransfer(op, x, lba, num)
    BY <1>1 DEF init_ata, StartTransfer
  <2>3. ~UNCHANGED ataVars /\ \A e : ~Finish(e)
    BY <1>1 DEF ataVars, Finish, driver
  <2> QED
    BY <2>1, <2>2, <2>3 DEF Next, Poll, ata_read_sectors, ata_write_sectors
<1>3. /\ call.op = "probe" /\ call.pc = "sign" /\ Status(call.drive) = "ready"
      /\ present' = [present EXCEPT ![call.drive] = TRUE]
  BY <1>1, <1>2 DEF ProbeIdentify, At
<1>4. PICK e \in Drives :
        /\ e = call.drive /\ bus = "wired" /\ kind[e] = "ata" /\ st[e] = "data" /\ job[e] = Identify
  BY <1>3, ReadyIdentifies
<1>5. e = d
  BY <1>3, <1>4 DEF AtaInv, VarsOK
<1> QED
  BY <1>4, <1>5, JobFields

\* ProbeSound: a drive is taken for a disk only while it offers its identification,
\* however late it answers and whatever its neighbour on the channel does.
THEOREM AtaProbeSound == Spec => ProbeSound
<1>1. AtaInv /\ [Next]_ataVars =>
        [\A d \in Drives : present'[d] /\ ~present[d] =>
          bus = "wired" /\ kind[d] = "ata" /\ st[d] = "data" /\ job[d].cmd = "identify"]_ataVars
  BY Answered
<1>2. Spec => Init /\ [][Next]_ataVars
  BY PTL DEF Spec
<1> QED
  BY <1>1, <1>2, AtaInvariant, PTL DEF ProbeSound
==============================================================================
