--------------------------------- MODULE Ata ---------------------------------
(***************************************************************************)
(* The disk driver, kernel/ata.c: init_ata probes the drives one by one,   *)
(* then callers read and write sectors by polling a drive's status.  The   *)
(* drives are hardware and run beside the driver: a command makes a drive  *)
(* busy, and it gets ready or fails in its own time, or never.             *)
(*                                                                         *)
(* The driver adds the port numbers of ata.h, which are absolute, to the   *)
(* port of a channel.  On bus "wired" drives answer at those ports; on the *)
(* others nothing does and every status reads as all ones or as zero.      *)
(***************************************************************************)
EXTENDS Integers, Sequences

CONSTANTS
    DRIVES,     \* drives, two to a channel (4)
    LBAS,       \* 2^28: a sector's address is cut to 28 bits
    SECTORS,    \* sectors of a drive
    Lbas,       \* addresses callers give
    Nums        \* numbers of sectors callers ask for

Drives == 0..(DRIVES - 1)
Disk == 0..(SECTORS - 1)
Channel(d) == d \div 2

VARIABLES
    bus,               \* "wired", "ones" or "zeros"
    kind,              \* drive -> "none", "ata" or "atapi"
    low,               \* disk -> is its lowest address register nonzero at first?
    st,                \* drive -> "idle", "busy", "data" or "fault"
    job,               \* drive -> the command it works on
    disk,              \* drive -> sector -> what is stored there
    sel,               \* channel -> the drive selected, 0 or 1
    ata_initialized,
    present,           \* devices[d].present
    call,              \* the call in progress, or Idle
    buf,               \* the sectors it has read
    ret                \* what the last call returned

hardware == <<bus, kind, low>>
drives == <<st, job, disk>>
driver == <<ata_initialized, present, call, buf, ret>>
ataVars == <<hardware, drives, sel, driver>>

ASSUME AtaAssumption ==
    /\ DRIVES \in Nat \ {0} /\ SECTORS \in Nat
    /\ LBAS \in Nat \ {0} /\ LBAS >= SECTORS
    /\ Lbas \subseteq Nat /\ Nums \subseteq Nat

\* What sectors hold: what they held at first, what a caller writes as its s-th
\* sector, and what the data port reads as when no drive offers a sector.
Old(d, k) == d * SECTORS + k
New(s) == DRIVES * SECTORS + s
Junk == -1

Job(cmd, at, left) == [cmd |-> cmd, at |-> at, left |-> left, data |-> Junk]
NoJob == Job("none", 0, 0)
Call(op, pc, d, lba, num) == [op |-> op, pc |-> pc, drive |-> d, lba |-> lba, num |-> num, s |-> 0]
Idle == Call("none", "idle", 0, 0, 0)

Init ==
    /\ bus \in {"wired", "ones", "zeros"}
    /\ kind \in [Drives -> IF bus = "wired" THEN {"none", "ata", "atapi"} ELSE {"none"}]
    /\ low \in [Drives -> BOOLEAN] /\ \A d \in Drives : low[d] => kind[d] = "ata"
    /\ st = [d \in Drives |-> "idle"]
    /\ job = [d \in Drives |-> NoJob]
    /\ disk = [d \in Drives |-> [k \in Disk |-> Old(d, k)]]
    /\ sel = [c \in {Channel(d) : d \in Drives} |-> 0]
    /\ ata_initialized = FALSE
    /\ present = [d \in Drives |-> FALSE]
    /\ call = Idle /\ buf = <<>> /\ ret = 0

-----------------------------------------------------------------------------
(* The drives. *)

\* The drive that hears what is sent to d's channel, if there is one.
Listening(d) ==
    {e \in Drives : bus = "wired" /\ Channel(e) = Channel(d) /\ e % 2 = sel[Channel(d)] /\ kind[e] # "none"}

\* What the status register of d's channel says, as far as the driver looks:
\* zero, busy, ready, or an error or a fault, which it treats alike.
Status(d) ==
    IF bus = "ones" THEN "busy"
    ELSE IF Listening(d) = {} THEN "zero"
    ELSE LET s == st[CHOOSE e \in Listening(d) : TRUE]
         IN  IF s \in {"busy", "fault"} THEN s ELSE "ready"

\* A command reaches the drive in heard.  What one does that is sent to a drive
\* at work is not defined: it is ignored, or the work is given up for it.
Command(heard, c) ==
    \E taken \in {{}, heard} :
       /\ taken = heard \/ \E e \in heard : st[e] \in {"busy", "data"}
       /\ st' = [e \in Drives |-> IF e \in taken THEN "busy" ELSE st[e]]
       /\ job' = [e \in Drives |-> IF e \in taken THEN c ELSE job[e]]

\* The drive in heard hands over the sector it offers, or takes data, the one it asks for.
Transfer(heard, data) ==
    LET Moves(e) == e \in heard /\ st[e] = "data"
        More(e) == job[e].cmd = "write" \/ job[e].left > 1
    IN  /\ st' = [e \in Drives |-> IF ~Moves(e) THEN st[e] ELSE IF More(e) THEN "busy" ELSE "idle"]
        /\ job' = [e \in Drives |->
              IF ~Moves(e) THEN job[e]
              ELSE IF job[e].cmd = "write" THEN [job[e] EXCEPT !.data = data]
              ELSE IF More(e) THEN Job(job[e].cmd, job[e].at + 1, job[e].left - 1)
              ELSE NoJob]

\* What the data port of d's channel reads as.
Offered(d) ==
    LET R == {e \in Listening(d) : st[e] = "data" /\ job[e].cmd = "read"}
    IN  IF R = {} THEN Junk ELSE LET e == CHOOSE e \in R : TRUE IN disk[e][job[e].at]

\* A drive ends what it was busy with: it has a sector to give, asks for one, has
\* stored one, or fails.
Finish(d) ==
    /\ st[d] = "busy"
    /\ \/ /\ IF job[d].cmd = "identify" THEN kind[d] = "ata"
                 ELSE job[d].cmd \in {"read", "write"} /\ job[d].data = Junk /\ job[d].at \in Disk
          /\ st' = [st EXCEPT ![d] = "data"]
          /\ UNCHANGED <<job, disk>>
       \/ /\ job[d].data # Junk
          /\ disk' = [disk EXCEPT ![d][job[d].at] = job[d].data]
          /\ st' = [st EXCEPT ![d] = IF job[d].left > 1 THEN "busy" ELSE "idle"]
          /\ job' = [job EXCEPT ![d] = IF job[d].left > 1 THEN Job("write", @.at + 1, @.left - 1) ELSE NoJob]
       \/ /\ \/ job[d].cmd = "flush" /\ st' = [st EXCEPT ![d] = "idle"]
             \/ st' = [st EXCEPT ![d] = "fault"]
          /\ job' = [job EXCEPT ![d] = NoJob]
          /\ UNCHANGED disk
    /\ UNCHANGED <<hardware, sel, driver>>

-----------------------------------------------------------------------------
(* The driver. *)

At(ops, pc) == call.op \in ops /\ call.pc = pc
Goto(pc) == call' = [call EXCEPT !.pc = pc] /\ UNCHANGED ret
Return(n) == call' = Idle /\ ret' = n
Transfers == {"read", "write"}

\* Forget what was known of the drives, then probe them in order.
init_ata ==
    /\ call = Idle /\ ~ata_initialized
    /\ present' = [d \in Drives |-> FALSE]
    /\ call' = Call("probe", "select", 0, 0, 1)
    /\ UNCHANGED <<hardware, drives, sel, ata_initialized, buf, ret>>

\* Both transfers up to the first port they touch: a drive that is not there, or no
\* sectors, and they return 0 at once.
StartTransfer(op, d, lba, num) ==
    /\ call = Idle
    /\ buf' = <<>>
    /\ IF ata_initialized /\ present[d] /\ num # 0
       THEN call' = Call(op, "select", d, lba, num) /\ UNCHANGED ret
       ELSE Return(0)
    /\ UNCHANGED <<hardware, drives, sel, ata_initialized, present>>

ata_read_sectors(d, lba, num) == StartTransfer("read", d, lba, num)
ata_write_sectors(d, lba, num) == StartTransfer("write", d, lba, num)

\* Mutant: the slave bit is lost.
ata_select_drive_wrong ==
    /\ call.pc = "select"
    /\ sel' = [sel EXCEPT ![Channel(call.drive)] = 0]
    /\ Goto(IF call.op = "probe" THEN "command" ELSE "ready")
    /\ UNCHANGED <<hardware, drives, ata_initialized, present, buf>>

ata_select_drive ==
    /\ call.pc = "select"
    /\ sel' = [sel EXCEPT ![Channel(call.drive)] = call.drive % 2]
    /\ Goto(IF call.op = "probe" THEN "command" ELSE "ready")
    /\ UNCHANGED <<hardware, drives, ata_initialized, present, buf>>

\* ata_wait_ready before the command: any answer but ready ends the call with 0.
WaitReady ==
    /\ At(Transfers, "ready") /\ Status(call.drive) # "busy"
    /\ IF Status(call.drive) = "ready" THEN Goto("command") ELSE Return(0)
    /\ UNCHANGED <<hardware, drives, sel, ata_initialized, present, buf>>

\* The address, cut to 28 bits, the count and the command.
SendCommand ==
    /\ call.pc = "command"
    /\ Command(Listening(call.drive),
               Job(IF call.op = "probe" THEN "identify" ELSE call.op, call.lba % LBAS, call.num))
    /\ Goto(IF call.op = "probe" THEN "answer" ELSE "sector")
    /\ UNCHANGED <<hardware, disk, sel, ata_initialized, present, buf>>

\* init_ata's loop: on to the next drive, or done.
NextDrive ==
    IF call.drive + 1 \in Drives
    THEN call' = Call("probe", "select", call.drive + 1, 0, 1) /\ UNCHANGED <<ata_initialized, ret>>
    ELSE Return(0) /\ ata_initialized' = TRUE

\* ata_probe looks at the status once: zero means no drive.
ProbeAnswer ==
    /\ At({"probe"}, "answer")
    /\ IF Status(call.drive) = "zero" THEN NextDrive ELSE Goto("sign") /\ UNCHANGED ata_initialized
    /\ UNCHANGED <<hardware, drives, sel, present, buf>>

\* The two address registers ata_probe reads, the lowest two, are not both zero.
Signature(d) == \E e \in Listening(d) : kind[e] = "atapi" \/ low[e]

\* Mutant: an error is not looked for.
ProbeIdentify_unready ==
    /\ At({"probe"}, "sign") /\ Status(call.drive) # "busy"
    /\ IF Signature(call.drive)
       THEN UNCHANGED <<present, st, job>>
       ELSE /\ present' = [present EXCEPT ![call.drive] = TRUE]
            /\ Transfer(Listening(call.drive), Junk)
    /\ NextDrive
    /\ UNCHANGED <<hardware, disk, sel, buf>>

\* Then it waits, and takes a drive that is ready and has no signature for a disk,
\* after reading the sector of identification.
ProbeIdentify ==
    /\ At({"probe"}, "sign") /\ Status(call.drive) # "busy"
    /\ IF Signature(call.drive) \/ Status(call.drive) # "ready"
       THEN UNCHANGED <<present, st, job>>
       ELSE /\ present' = [present EXCEPT ![call.drive] = TRUE]
            /\ Transfer(Listening(call.drive), Junk)
    /\ NextDrive
    /\ UNCHANGED <<hardware, disk, sel, buf>>

NextSector_stuck ==   \* mutant: s is not advanced
    IF call.s + 1 = call.num THEN Return(call.num) ELSE Goto("sector")

\* The end of a pass through the loop over the sectors.
NextSector ==
    IF call.s + 1 = call.num THEN Return(call.num) ELSE call' = [call EXCEPT !.pc = "sector", !.s = @ + 1] /\ UNCHANGED ret

ReadSector_early ==   \* mutant: the drive may still be busy
    /\ At({"read"}, "sector") /\ Status(call.drive) # "fault"
    /\ buf' = Append(buf, Offered(call.drive))
    /\ Transfer(Listening(call.drive), Junk)
    /\ NextSector
    /\ UNCHANGED <<hardware, disk, sel, ata_initialized, present>>

\* One sector of a read, once the drive is ready.
ReadSector ==
    /\ At({"read"}, "sector") /\ Status(call.drive) = "ready"
    /\ buf' = Append(buf, Offered(call.drive))
    /\ Transfer(Listening(call.drive), Junk)
    /\ NextSector
    /\ UNCHANGED <<hardware, disk, sel, ata_initialized, present>>

\* One sector of a write.
WriteSector ==
    /\ At({"write"}, "sector") /\ Status(call.drive) = "ready"
    /\ Transfer(Listening(call.drive), New(call.s))
    /\ Goto("flush")
    /\ UNCHANGED <<hardware, disk, sel, ata_initialized, present, buf>>

\* A drive that is not ready ends the call with the sectors done so far.
NotReady ==
    /\ At(Transfers, "sector") /\ Status(call.drive) \in {"fault", "zero"}
    /\ Return(call.s)
    /\ UNCHANGED <<hardware, drives, sel, ata_initialized, present, buf>>

\* The flush is sent at once, while the drive still works on the sector.
Flush ==
    /\ At({"write"}, "flush")
    /\ Command(Listening(call.drive), Job("flush", 0, 0))
    /\ Goto("settle")
    /\ UNCHANGED <<hardware, disk, sel, ata_initialized, present, buf>>

\* ata_wait_busy: no look at errors.
Settle ==
    /\ At({"write"}, "settle") /\ Status(call.drive) # "busy"
    /\ NextSector
    /\ UNCHANGED <<hardware, drives, sel, ata_initialized, present, buf>>

\* ata_wait_busy goes round while the status says busy; there is no limit.
Poll ==
    /\ call.pc \in {"sign", "ready", "sector", "settle"} /\ Status(call.drive) = "busy"
    /\ UNCHANGED ataVars

Step ==
    \/ ata_select_drive \/ WaitReady \/ SendCommand \/ ProbeAnswer \/ ProbeIdentify
    \/ ReadSector \/ WriteSector \/ NotReady \/ Flush \/ Settle

Next ==
    \/ init_ata
    \/ \E d \in Drives, lba \in Lbas, num \in Nums :
          ata_read_sectors(d, lba, num) \/ ata_write_sectors(d, lba, num)
    \/ Step \/ Poll
    \/ \E d \in Drives : Finish(d)

\* The processor goes on polling; nothing is promised of the drives.
Spec == Init /\ [][Next]_ataVars /\ WF_ataVars(Step)

-----------------------------------------------------------------------------
\* ata_read_sectors: when it returns n the caller's buffer holds the n sectors that
\* are stored on the caller's drive from the address given, however slow the drive,
\* wherever it failed, and whatever calls came before.
ReadSound ==
    [][call.op = "read" /\ call' = Idle =>
          /\ ret' = Len(buf')
          /\ \A k \in 1..ret' : buf'[k] = disk[call.drive][(call.lba % LBAS) + k - 1]]_ataVars

\* ata_write_sectors: a sector changes only on the drive of the call in progress,
\* in the range it has handed over so far, and gets the data meant for it.
OnlyAddressed ==
    [][\A d \in Drives, k \in Disk : disk'[d][k] # disk[d][k] =>
          /\ call.op = "write" /\ call.drive = d
          /\ k - (call.lba % LBAS) \in 0..call.s
          /\ disk'[d][k] = New(k - (call.lba % LBAS))]_ataVars

\* ata_probe: only a disk that answered the identification is taken for one, and
\* init_ata leaves every other slot empty.
ProbeSound ==
    [][\A d \in Drives : present'[d] /\ ~present[d] =>
          bus = "wired" /\ kind[d] = "ata" /\ st[d] = "data" /\ job[d].cmd = "identify"]_ataVars

\* init_ata and the transfers end if the drive they wait for does not stay busy
\* for ever.
CallsReturn ==
    []<>(Status(call.drive) # "busy") => (call # Idle ~> call = Idle)
==============================================================================
