------------------------------- MODULE Process -------------------------------
(***************************************************************************)
(* The process manager, kernel/process.c: a table of MAX_PROCESSES control *)
(* blocks, a ready queue linked through them, and the current process.     *)
(* A control block is named by its index in the table.                     *)
(*                                                                         *)
(* enqueue_process walks to the end of the list before it appends, so a    *)
(* list that bites its tail makes it run forever: the walk takes one step  *)
(* a link.  Nothing else runs while a call is in progress.                 *)
(***************************************************************************)
EXTENDS Integers, Sequences

CONSTANTS
    MAX_PROCESSES,   \* slots in process_table (64)
    MaxPid           \* bound: pids given out before creation is cut off

Slots == 0..(MAX_PROCESSES - 1)
NULL == MAX_PROCESSES
States == {"NEW", "READY", "RUNNING", "BLOCKED", "TERMINATED"}

VARIABLES
    state,             \* slot -> process state; NEW (0) in a slot never used
    pid,               \* slot -> pid; 0 in idle's slot and in slots never used
    next,              \* slot -> the next slot in the ready queue, or NULL
    ready_queue,       \* the first slot of the queue, or NULL
    current_process,
    next_pid,
    call,              \* the call in progress, or Idle
    order,             \* ghost: the slots appended and not yet taken, in order,
                       \* followed until the queue is misused
    misused            \* history: a caller killed or queued a process that was not
                       \* BLOCKED, that is, queued already, running or unused

procVars ==
    <<state, pid, next, ready_queue, current_process, next_pid, call, order, misused>>

ASSUME ProcessAssumption ==
    /\ MAX_PROCESSES \in Nat /\ MAX_PROCESSES > 0
    /\ MaxPid \in Nat

\* A call that is inside enqueue_process or about to dequeue; after an enqueue
\* scheduler_get_next goes on, the others return.
Call(op, proc, at, switch) == [op |-> op, proc |-> proc, at |-> at, switch |-> switch]
Idle == Call("idle", NULL, NULL, FALSE)
Enqueue(proc, switch) == Call("enqueue", proc, NULL, switch)
Dequeue == Call("dequeue", NULL, NULL, TRUE)

-----------------------------------------------------------------------------
\* init_process_manager: slot 0 is the idle process, running.
Init ==
    /\ state = [s \in Slots |-> IF s = 0 THEN "RUNNING" ELSE "NEW"]
    /\ pid = [s \in Slots |-> 0]
    /\ next = [s \in Slots |-> NULL]
    /\ ready_queue = NULL
    /\ current_process = 0
    /\ next_pid = 1
    /\ call = Idle
    /\ order = <<>>
    /\ misused = FALSE

\* "for (i = 0; ...) if (...)": the first slot of S, as a set of at most one.
First(S) == {s \in S : \A t \in S : s <= t}

\* The slots create_process_empty may take: idle's own slot is one of them.
FreeSlots == {s \in Slots : state[s] = "TERMINATED" \/ pid[s] = 0}

NewProcessSamePid(s) ==   \* mutant of NewProcess: the pid counter stays
    /\ pid' = [pid EXCEPT ![s] = next_pid]
    /\ state' = [state EXCEPT ![s] = "READY"]
    /\ next' = [next EXCEPT ![s] = NULL]
    /\ call' = Enqueue(s, FALSE)
    /\ UNCHANGED next_pid

\* create_process_empty clears slot s and numbers it; its caller makes it
\* READY and enqueues it.
NewProcess(s) ==
    /\ pid' = [pid EXCEPT ![s] = next_pid]
    /\ next_pid' = next_pid + 1
    /\ state' = [state EXCEPT ![s] = "READY"]
    /\ next' = [next EXCEPT ![s] = NULL]
    /\ call' = Enqueue(s, FALSE)

\* create_process: NULL when the table is full.
create_process ==
    /\ call = Idle
    /\ next_pid <= MaxPid
    /\ IF FreeSlots = {}
       THEN UNCHANGED procVars
       ELSE /\ \E s \in First(FreeSlots) : NewProcess(s)
            /\ UNCHANGED <<ready_queue, current_process, order, misused>>

\* fork_process: the registers and descriptors it copies are left out.
fork_process ==
    /\ current_process # NULL
    /\ create_process

GetNextStillRunning(st) ==   \* mutant of GetNextFrom: READY is forgotten
    /\ state' = st
    /\ call' = IF st[current_process] = "RUNNING" THEN Enqueue(current_process, TRUE) ELSE Dequeue
    /\ UNCHANGED <<pid, next, ready_queue, current_process, next_pid, order, misused>>

\* scheduler_get_next up to its dequeue, from table states st.
GetNextFrom(st) ==
    /\ IF st[current_process] = "RUNNING"
       THEN /\ state' = [st EXCEPT ![current_process] = "READY"]
            /\ call' = Enqueue(current_process, TRUE)
       ELSE /\ state' = st
            /\ call' = Dequeue
    /\ UNCHANGED <<pid, next, ready_queue, current_process, next_pid, order, misused>>

scheduler_get_next == call = Idle /\ GetNextFrom(state)

exit_process ==
    /\ call = Idle
    /\ current_process # NULL
    /\ GetNextFrom([state EXCEPT ![current_process] = "TERMINATED"])

wait_process ==
    /\ call = Idle
    /\ GetNextFrom([state EXCEPT ![current_process] = "BLOCKED"])

sleep_process ==
    /\ call = Idle
    /\ GetNextFrom([state EXCEPT ![current_process] = "BLOCKED"])

\* The slots a kill of pid p finds.
Targets(p) == {s \in Slots : pid[s] = p /\ state[s] # "TERMINATED"}

\* kill_process: the first such slot is marked, and stays in the queue if it
\* is there; -1 when there is none.
kill_process(p) ==
    /\ call = Idle
    /\ IF Targets(p) = {}
       THEN UNCHANGED state
       ELSE \E s \in First(Targets(p)) : state' = [state EXCEPT ![s] = "TERMINATED"]
    /\ misused' = (misused \/ \E s \in Targets(p) : state[s] # "BLOCKED")
    /\ UNCHANGED <<pid, next, ready_queue, current_process, next_pid, call, order>>

add_to_ready_queue(proc) ==
    /\ call = Idle
    /\ state' = [state EXCEPT ![proc] = "READY"]
    /\ call' = Enqueue(proc, FALSE)
    /\ misused' = (misused \/ state[proc] # "BLOCKED")
    /\ UNCHANGED <<pid, next, ready_queue, current_process, next_pid, order>>

-----------------------------------------------------------------------------
\* The ghost is followed while the queue is used as it is meant to be.
Followed(line) == IF misused THEN <<>> ELSE line

\* enqueue_process has appended its process.
Return == call' = IF call.switch THEN Dequeue ELSE Idle

\* enqueue_process up to its loop.
EnqueueStart ==
    /\ call.op = "enqueue"
    /\ next' = [next EXCEPT ![call.proc] = NULL]
    /\ IF ready_queue = NULL
       THEN /\ ready_queue' = call.proc
            /\ order' = Followed(Append(order, call.proc))
            /\ Return
       ELSE /\ call' = Call("walk", call.proc, ready_queue, call.switch)
            /\ UNCHANGED <<ready_queue, order>>
    /\ UNCHANGED <<state, pid, current_process, next_pid, misused>>

\* "while (p->next) p = p->next"
WalkOn ==
    /\ call.op = "walk"
    /\ next[call.at] # NULL
    /\ call' = [call EXCEPT !.at = next[call.at]]
    /\ UNCHANGED <<state, pid, next, ready_queue, current_process, next_pid, order, misused>>

WalkEndsInLoop ==   \* mutant of WalkEnds: the last slot is linked to itself
    /\ call.op = "walk"
    /\ next[call.at] = NULL
    /\ next' = [next EXCEPT ![call.at] = call.at]
    /\ order' = Followed(Append(order, call.proc))
    /\ Return
    /\ UNCHANGED <<state, pid, ready_queue, current_process, next_pid, misused>>

WalkEndsInFront ==   \* mutant of WalkEnds: the new process goes to the front
    /\ call.op = "walk"
    /\ next[call.at] = NULL
    /\ next' = [next EXCEPT ![call.proc] = ready_queue]
    /\ ready_queue' = call.proc
    /\ order' = Followed(<<call.proc>> \o order)
    /\ Return
    /\ UNCHANGED <<state, pid, current_process, next_pid, misused>>

\* "p->next = proc"
WalkEnds ==
    /\ call.op = "walk"
    /\ next[call.at] = NULL
    /\ next' = [next EXCEPT ![call.at] = call.proc]
    /\ order' = Followed(Append(order, call.proc))
    /\ Return
    /\ UNCHANGED <<state, pid, ready_queue, current_process, next_pid, misused>>

DispatchKeepsLink ==   \* mutant of Dispatch: the queue's head is not advanced
    /\ call.op = "dequeue"
    /\ LET proc == IF ready_queue = NULL THEN 0 ELSE ready_queue IN
       /\ state' = [state EXCEPT ![proc] = "RUNNING"]
       /\ current_process' = proc
    /\ order' = Followed(IF order = <<>> THEN order ELSE Tail(order))
    /\ call' = Idle
    /\ UNCHANGED <<pid, next, ready_queue, next_pid, misused>>

\* scheduler_get_next from its dequeue on: slot 0 runs when nobody is ready.
Dispatch ==
    /\ call.op = "dequeue"
    /\ LET proc == IF ready_queue = NULL THEN 0 ELSE ready_queue IN
       /\ state' = [state EXCEPT ![proc] = "RUNNING"]
       /\ current_process' = proc
       /\ IF ready_queue = NULL
          THEN UNCHANGED <<next, ready_queue>>
          ELSE /\ ready_queue' = next[ready_queue]
               /\ next' = [next EXCEPT ![ready_queue] = NULL]
    /\ order' = Followed(IF order = <<>> THEN order ELSE Tail(order))
    /\ call' = Idle
    /\ UNCHANGED <<pid, next_pid, misused>>

Steps == EnqueueStart \/ WalkOn \/ WalkEnds \/ Dispatch

-----------------------------------------------------------------------------
\* The system calls of a running program (kernel/syscall.c).
sys_exit == exit_process
sys_fork == fork_process
sys_waitpid == wait_process
sys_sleep == sleep_process
sys_kill(p) == kill_process(p)

\* Those that change the caller itself or the table, kill aside.
Syscalls == sys_exit \/ sys_fork \/ sys_waitpid \/ sys_sleep

\* Every call of process.h with every argument, by any caller in any order.
Next ==
    \/ Syscalls
    \/ \E p \in 0..MaxPid : sys_kill(p)
    \/ create_process
    \/ scheduler_get_next
    \/ \E proc \in Slots : add_to_ready_queue(proc)
    \/ Steps

Spec == Init /\ [][Next]_procVars

\* A call that has begun goes on: nothing takes the processor from it for good.
FairSpec == Spec /\ WF_procVars(Steps)

-----------------------------------------------------------------------------
Calls == [op : {"idle", "enqueue", "walk", "dequeue"}, proc : Slots \cup {NULL},
          at : Slots \cup {NULL}, switch : BOOLEAN]

TypeOK ==
    /\ state \in [Slots -> States]
    /\ pid \in [Slots -> Nat]
    /\ next \in [Slots -> Slots \cup {NULL}]
    /\ ready_queue \in Slots \cup {NULL}
    /\ current_process \in Slots
    /\ next_pid \in Nat
    /\ call \in Calls
    /\ order \in Seq(Slots)
    /\ misused \in BOOLEAN

\* The linked list spells order: it starts at ready_queue, each link leads to
\* the next in order, the last link is NULL, and no slot comes twice.
Chained ==
    /\ ready_queue = IF order = <<>> THEN NULL ELSE order[1]
    /\ \A i \in 1..Len(order) :
         next[order[i]] = IF i = Len(order) THEN NULL ELSE order[i + 1]
    /\ \A i, j \in 1..Len(order) : order[i] = order[j] => i = j

InQueue(s) == \E i \in 1..Len(order) : order[i] = s

\* Between calls the ready queue holds exactly the READY processes.
QueueIsReady == call = Idle => \A s \in Slots : state[s] = "READY" <=> InQueue(s)

\* The queue is a list without a cycle that loses no process and repeats none,
\* until a caller kills or queues a process that is not blocked.
QueueExact == misused \/ (Chained /\ QueueIsReady)

\* At most one process is RUNNING, the current one, whatever callers do.
SingleRunning == \A s \in Slots : state[s] = "RUNNING" => s = current_process

\* No two processes have the same pid, whatever callers do.
PidsUnique == \A s, t \in Slots : pid[s] = pid[t] /\ pid[s] # 0 => s = t

\* A call begun on a list that nobody has misused returns: enqueue_process's
\* walk comes to an end.
CallsReturn == call # Idle /\ ~misused ~> call = Idle

\* The linked list implements a line served in order of arrival, until a caller
\* misuses it.
Abstract == INSTANCE RunQueue WITH
    Procs <- Slots, line <- order, running <- current_process
ImplementsRunQueue ==
    Abstract!Init /\ [][~misused' => Abstract!Next]_<<order, current_process>>
==============================================================================
