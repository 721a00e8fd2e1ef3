------------------------------ MODULE Scheduler ------------------------------
(***************************************************************************)
(* The time-slice scheduler, kernel/scheduler.c with switch.asm: a ready   *)
(* queue with a head and a tail pointer, linked through the processes'     *)
(* next fields, and schedule, which timer ticks and yield call.            *)
(*                                                                         *)
(* get_current_process is process.c's, and scheduler.c never changes what  *)
(* it returns: switch_process loads the registers of the process it is     *)
(* given, so the process on the processor and the current process differ.  *)
(* blocked_queue is never added to, so a tick's wake-up loop does nothing. *)
(***************************************************************************)
EXTENDS Integers, Sequences

CONSTANTS
    Procs,          \* processes that may be queued, naturals above 1
    NEW_SLICE,      \* time slice of a new process (10)
    SLICE,          \* time slice schedule gives (100)
    PRIO_SLICE,     \* time slice per unit of priority (10)
    Prios           \* priorities that are set

NULL == 0
init_process == 1
All == Procs \cup {init_process}

VARIABLES
    ready_queue, ready_queue_tail, next,
    current,        \* what get_current_process returns
    cpu,            \* the process whose registers are loaded
    state, time_slice,
    taken,          \* history: the process the last step took off the queue, or NULL
    order,          \* ghost: the processes added and not removed, in order, followed
                    \* until the queue is misused
    misused         \* history: a process was added that was queued already, or that
                    \* schedule would put back itself

schedVars == <<ready_queue, ready_queue_tail, next, current, cpu, state, time_slice,
               taken, order, misused>>

\* What the proofs assume of the constants.
SchedulerConstants ==
    /\ Procs \subseteq Nat \ {NULL, init_process}
    /\ NEW_SLICE \in Nat /\ SLICE \in Nat /\ PRIO_SLICE \in Nat /\ Prios \subseteq Nat

InQueue(p) == \E i \in 1..Len(order) : order[i] = p

-----------------------------------------------------------------------------
\* init_scheduler, with any process as the one process.c has made current.
Init ==
    /\ ready_queue = NULL /\ ready_queue_tail = NULL
    /\ next = [p \in All |-> NULL]
    /\ current \in All
    /\ cpu = current
    /\ state = [p \in All |-> IF p = current THEN "RUNNING" ELSE "READY"]
    /\ time_slice = [p \in All |-> NEW_SLICE]
    /\ taken = NULL
    /\ order = <<>> /\ misused = FALSE

Queue == [head |-> ready_queue, tail |-> ready_queue_tail, next |-> next]
SetQueue(q) ==
    /\ ready_queue' = q.head
    /\ ready_queue_tail' = q.tail
    /\ next' = q.next

\* add_to_ready_queue, on the pointers.  A write through a tail that is NULL
\* changes no process.
Added(q, p) ==
    LET n == [q.next EXCEPT ![p] = NULL] IN
    IF q.head = NULL
    THEN [head |-> p, tail |-> p, next |-> n]
    ELSE [head |-> q.head, tail |-> p,
          next |-> [t \in All |-> IF t = q.tail THEN p ELSE n[t]]]

\* remove_from_ready_queue of the head, the only process schedule removes.
RemovedHead(q) ==
    [head |-> q.next[q.head], tail |-> IF q.tail = q.head THEN NULL ELSE q.tail,
     next |-> [q.next EXCEPT ![q.head] = NULL]]

\* The ghost is followed while the queue is used as it is meant to be.
Follow(line, misuse) ==
    /\ misused' = (misused \/ misuse)
    /\ order' = IF misused' THEN <<>> ELSE line

add_to_ready_queue(p) ==
    /\ SetQueue(Added(Queue, p))
    /\ Follow(Append(order, p), InQueue(p) \/ state[p] = "RUNNING")
    /\ taken' = NULL
    /\ UNCHANGED <<current, cpu, state, time_slice>>

\* The current process goes on; init_process has no slice to use up.
SliceLeft == current # init_process /\ time_slice[current] > 0

\* switch.asm: the registers, stack and page directory of p are loaded.
switch_process(p) == cpu' = p

\* schedule, from queue q, states st and ghost line; misuse says whether the
\* caller has added a process it should not have.
schedule(q, st, line, misuse) ==
    IF SliceLeft
    THEN /\ time_slice' = [time_slice EXCEPT ![current] = @ - 1]
         /\ SetQueue(q) /\ state' = st
         /\ Follow(line, misuse)
         /\ taken' = NULL
         /\ UNCHANGED <<cpu, current>>
    ELSE LET picked == IF q.head = NULL THEN init_process ELSE q.head
             left == IF line = <<>> THEN line ELSE Tail(line)
             q1 == IF picked = init_process THEN q ELSE RemovedHead(q)
             back == current # init_process /\ st[current] = "RUNNING"
         IN /\ time_slice' = [time_slice EXCEPT ![current] = SLICE]
            /\ SetQueue(IF back THEN Added(q1, current) ELSE q1)
            /\ state' = IF back THEN [st EXCEPT ![current] = "READY"] ELSE st
            /\ Follow(IF back THEN Append(left, current) ELSE left, misuse)
            /\ taken' = IF picked = init_process \/ (back /\ picked = current)
                        THEN NULL ELSE picked
            /\ IF picked # current THEN switch_process(picked) ELSE UNCHANGED cpu
            /\ UNCHANGED current

timer_tick_handler == schedule(Queue, state, order, FALSE)

yield ==
    IF current = init_process
    THEN schedule(Queue, state, order, FALSE)
    ELSE schedule(Added(Queue, current), [state EXCEPT ![current] = "READY"],
                  Append(order, current), InQueue(current))

set_process_priority(p, priority) ==
    /\ time_slice' = [time_slice EXCEPT ![p] = priority * PRIO_SLICE]
    /\ taken' = NULL
    /\ UNCHANGED <<ready_queue, ready_queue_tail, next, current, cpu, state, order, misused>>

-----------------------------------------------------------------------------
\* Any caller, at any time: a program may yield again before its slice is over.
Next ==
    \/ \E p \in Procs : add_to_ready_queue(p)
    \/ timer_tick_handler
    \/ yield
    \/ \E p \in Procs, priority \in Prios : set_process_priority(p, priority)

Spec == Init /\ [][Next]_schedVars

-----------------------------------------------------------------------------
TypeOK ==
    /\ ready_queue \in All \cup {NULL} /\ ready_queue_tail \in All \cup {NULL}
    /\ next \in [All -> All \cup {NULL}]
    /\ current \in All /\ cpu \in All
    /\ state \in [All -> {"READY", "RUNNING"}]
    /\ time_slice \in [All -> Nat]
    /\ taken \in All \cup {NULL}
    /\ order \in Seq(Procs)
    /\ misused \in BOOLEAN

\* The links spell out the processes added and not yet taken, in order and each
\* once; the tail pointer is at the last; a process outside is linked to nobody.
Linked ==
    /\ ready_queue = IF order = <<>> THEN NULL ELSE order[1]
    /\ ready_queue_tail = IF order = <<>> THEN NULL ELSE order[Len(order)]
    /\ \A i \in 1..Len(order) :
         next[order[i]] = IF i = Len(order) THEN NULL ELSE order[i + 1]
    /\ \A i, j \in 1..Len(order) : order[i] = order[j] => i = j
    /\ \A p \in All : ~InQueue(p) => next[p] = NULL

\* Until a process is added that is queued already or about to be put back, the
\* pointers and links are exact.
QueueExact == misused \/ Linked

\* The process schedule chooses, and does not put back itself, is removed from
\* the queue: it is not what the queue would give out next.
TakenLeavesQueue == taken # NULL => ready_queue # taken
==============================================================================
