---------------------------- MODULE ProcessProofs ----------------------------
(***************************************************************************)
(* Proofs about kernel/process.c for every table size.  For any calls in   *)
(* any order at most one process is RUNNING and pids are unique, and until *)
(* a caller kills or queues a process that is not blocked the ready queue  *)
(* is an acyclic list of exactly the READY processes, served in order of   *)
(* arrival.                                                                *)
(***************************************************************************)
EXTENDS Process, TLAPS

\* A call inside enqueue_process has a process, and a walk has a position.
CallOK ==
    /\ call.op \in {"enqueue", "walk"} => call.proc \in Slots
    /\ call.op = "walk" => call.at \in Slots
    /\ call.op = "idle" => call = Idle
    /\ call.op = "dequeue" => call = Dequeue

\* Slot 0 exists and NULL is no slot.
LEMMA SlotFacts ==
    /\ 0 \in Slots /\ NULL \notin Slots
    /\ \A s \in Slots : s \in Nat /\ 0 <= s
  BY ProcessAssumption DEF Slots, NULL

\* The fields of the calls the actions make.
LEMMA CallFields ==
    /\ Idle.op = "idle" /\ Idle.switch = FALSE
    /\ Dequeue.op = "dequeue" /\ Dequeue.switch = TRUE
    /\ \A p, b : Enqueue(p, b).op = "enqueue" /\ Enqueue(p, b).proc = p
                 /\ Enqueue(p, b).switch = b
    /\ \A p, a, b : /\ Call("walk", p, a, b).op = "walk" /\ Call("walk", p, a, b).proc = p
                    /\ Call("walk", p, a, b).at = a /\ Call("walk", p, a, b).switch = b
    /\ Idle \in Calls /\ Dequeue \in Calls
    /\ \A p \in Slots, b \in BOOLEAN : Enqueue(p, b) \in Calls
    /\ \A p, a \in Slots, b \in BOOLEAN : Call("walk", p, a, b) \in Calls
<1>1. /\ Idle.op = "idle" /\ Idle.switch = FALSE
      /\ Dequeue.op = "dequeue" /\ Dequeue.switch = TRUE
  BY DEF Idle, Dequeue, Call
<1>2. \A p, b : Enqueue(p, b).op = "enqueue" /\ Enqueue(p, b).proc = p
                 /\ Enqueue(p, b).switch = b
  BY DEF Enqueue, Call
<1>3. \A p, a, b : /\ Call("walk", p, a, b).op = "walk" /\ Call("walk", p, a, b).proc = p
                   /\ Call("walk", p, a, b).at = a /\ Call("walk", p, a, b).switch = b
  BY DEF Call
<1>4. Idle \in Calls /\ Dequeue \in Calls
  BY DEF Idle, Dequeue, Call, Calls
<1>5. \A p \in Slots, b \in BOOLEAN : Enqueue(p, b) \in Calls
  BY DEF Enqueue, Call, Calls
<1>6. \A p, a \in Slots, b \in BOOLEAN : Call("walk", p, a, b) \in Calls
  BY DEF Call, Calls
<1> QED
  BY <1>1, <1>2, <1>3, <1>4, <1>5, <1>6

-----------------------------------------------------------------------------
\* Pids already given out are below next_pid; while scheduler_get_next is on
\* its way the current process is no longer RUNNING.
PidsBelow == next_pid > 0 /\ \A s \in Slots : pid[s] < next_pid
Leaving == call.switch => state[current_process] # "RUNNING"

\* The inductive invariant of the unrestricted process manager.
AnyInv == TypeOK /\ CallOK /\ SingleRunning /\ PidsUnique /\ PidsBelow /\ Leaving

\* The table init_process_manager leaves satisfies the invariant.
LEMMA AnyInit == Init => AnyInv
<1> SUFFICES ASSUME Init PROVE AnyInv
  OBVIOUS
<1>1. state \in [Slots -> States] /\ current_process = 0 /\ call = Idle
      /\ \A s \in Slots : state[s] = "RUNNING" => s = 0
  BY DEF Init, States
<1>2. TypeOK
  <2>1. order \in Seq(Slots) /\ misused \in BOOLEAN /\ next_pid \in Nat
    <3>1. order \in Seq(Slots)
      BY DEF Init
    <3>2. misused \in BOOLEAN
      BY DEF Init
    <3> QED
      BY <3>1, <3>2 DEF Init
  <2>2. /\ pid \in [Slots -> Nat] /\ next \in [Slots -> Slots \cup {NULL}]
        /\ ready_queue \in Slots \cup {NULL}
    BY DEF Init
  <2> QED
    BY <1>1, <2>1, <2>2, SlotFacts, CallFields DEF TypeOK
<1>3. CallOK /\ Leaving
  BY <1>1, CallFields DEF CallOK, Leaving
<1>4. SingleRunning /\ PidsUnique /\ PidsBelow
  BY <1>1, SlotFacts DEF Init, SingleRunning, PidsUnique, PidsBelow
<1> QED
  BY <1>2, <1>3, <1>4 DEF AnyInv

\* create_process and fork_process.
LEMMA createAny ==
    ASSUME AnyInv, create_process
    PROVE  AnyInv'
<1>1. CASE FreeSlots = {}
  <2>1. UNCHANGED procVars
    BY <1>1 DEF create_process
  <2> QED
    BY <2>1 DEF procVars, AnyInv, TypeOK, CallOK, SingleRunning, PidsUnique, PidsBelow, Leaving
<1>2. CASE FreeSlots # {}
  <2>1. PICK s \in First(FreeSlots) : NewProcess(s)
    BY <1>2 DEF create_process
  <2>2. s \in Slots
    BY <2>1 DEF First, FreeSlots
  <2>3. UNCHANGED <<ready_queue, current_process, order, misused>>
    BY <1>2 DEF create_process
  <2>4. /\ pid' = [pid EXCEPT ![s] = next_pid] /\ next_pid' = next_pid + 1
        /\ state' = [state EXCEPT ![s] = "READY"] /\ next' = [next EXCEPT ![s] = NULL]
        /\ call' = Enqueue(s, FALSE)
    BY <2>1 DEF NewProcess
  <2>5. TypeOK'
    <3>1. call' \in Calls
      BY <2>2, <2>4, CallFields
    <3>2. /\ order' \in Seq(Slots) /\ ready_queue' \in Slots \cup {NULL}
          /\ current_process' \in Slots /\ misused' \in BOOLEAN
      BY <2>3 DEF AnyInv, TypeOK
    <3>3. /\ state' \in [Slots -> States] /\ pid' \in [Slots -> Nat]
          /\ next' \in [Slots -> Slots \cup {NULL}] /\ next_pid' \in Nat
      BY <2>2, <2>4 DEF AnyInv, TypeOK, States
    <3> QED
      BY <3>1, <3>2, <3>3 DEF TypeOK
  <2>6. CallOK' /\ Leaving'
    <3>1. call'.op = "enqueue" /\ call'.proc = s /\ call'.switch = FALSE
      BY <2>4 DEF Enqueue, Call
    <3> QED
      BY <2>2, <3>1 DEF CallOK, Leaving
  <2>7. SingleRunning'
    BY <2>3, <2>4 DEF AnyInv, TypeOK, SingleRunning
  <2>8. PidsUnique' /\ PidsBelow'
    BY <2>2, <2>4 DEF AnyInv, TypeOK, PidsUnique, PidsBelow
  <2> QED
    BY <2>5, <2>6, <2>7, <2>8 DEF AnyInv
<1> QED
  BY <1>1, <1>2

\* scheduler_get_next, and exit, wait and sleep, which change the current
\* process's state first.
LEMMA GetNextAny ==
    ASSUME AnyInv, NEW st \in [Slots -> States],
           \A s \in Slots : s # current_process => st[s] = state[s], GetNextFrom(st)
    PROVE  AnyInv'
<1> DEFINE c == current_process
<1>1. UNCHANGED <<pid, next, ready_queue, current_process, next_pid, order, misused>> /\ c \in Slots
  BY DEF GetNextFrom, AnyInv, TypeOK
<1>2. /\ state' \in [Slots -> States] /\ state'[c] # "RUNNING"
      /\ \A s \in Slots : s # c => state'[s] = state[s]
  <2>1. CASE st[c] = "RUNNING"
    BY <2>1, <1>1 DEF GetNextFrom, States
  <2>2. CASE st[c] # "RUNNING"
    BY <2>2, <1>1 DEF GetNextFrom
  <2> QED
    BY <2>1, <2>2
<1>3. call' = Enqueue(c, TRUE) \/ call' = Dequeue
  BY DEF GetNextFrom
<1>4. TypeOK'
  <2>1. call' \in Calls
    BY <1>1, <1>3, CallFields
  <2> QED
    BY <1>1, <1>2, <2>1 DEF AnyInv, TypeOK
<1>5. CallOK'
  <2>1. CASE call' = Enqueue(c, TRUE)
    <3>1. call'.op = "enqueue" /\ call'.proc = c
      BY <2>1 DEF Enqueue, Call
    <3> QED
      BY <1>1, <3>1 DEF CallOK
  <2>2. CASE call' = Dequeue
    BY <2>2, CallFields DEF CallOK
  <2> QED
    BY <1>3, <2>1, <2>2
<1>6. SingleRunning' /\ Leaving'
  BY <1>1, <1>2 DEF AnyInv, SingleRunning, Leaving
<1>7. PidsUnique' /\ PidsBelow'
  BY <1>1 DEF AnyInv, PidsUnique, PidsBelow
<1> QED
  BY <1>4, <1>5, <1>6, <1>7 DEF AnyInv

\* The calls that give up the processor.
LEMMA LeaveAny ==
    ASSUME AnyInv, scheduler_get_next \/ exit_process \/ wait_process \/ sleep_process
    PROVE  AnyInv'
<1>1. state \in [Slots -> States] /\ current_process \in Slots
  BY DEF AnyInv, TypeOK
<1>2. CASE scheduler_get_next
  BY <1>1, <1>2, GetNextAny DEF scheduler_get_next
<1>3. CASE exit_process
  <2> DEFINE st == [state EXCEPT ![current_process] = "TERMINATED"]
  <2>1. st \in [Slots -> States] /\ \A s \in Slots : s # current_process => st[s] = state[s]
    BY <1>1 DEF States
  <2>2. GetNextFrom(st)
    BY <1>3 DEF exit_process
  <2> HIDE DEF st
  <2> QED
    BY <2>1, <2>2, GetNextAny
<1>4. CASE wait_process \/ sleep_process
  <2> DEFINE st == [state EXCEPT ![current_process] = "BLOCKED"]
  <2>1. st \in [Slots -> States] /\ \A s \in Slots : s # current_process => st[s] = state[s]
    BY <1>1 DEF States
  <2>2. GetNextFrom(st)
    BY <1>4 DEF wait_process, sleep_process
  <2> HIDE DEF st
  <2> QED
    BY <2>1, <2>2, GetNextAny
<1> QED
  BY <1>2, <1>3, <1>4

\* kill_process marks at most one slot TERMINATED.
LEMMA killAny ==
    ASSUME AnyInv, NEW p, kill_process(p)
    PROVE  AnyInv'
<1>1. UNCHANGED <<pid, next, ready_queue, current_process, next_pid, call, order>>
      /\ misused' \in BOOLEAN
  BY DEF kill_process
<1>2. /\ state' \in [Slots -> States]
      /\ \A s \in Slots : state'[s] = state[s] \/ state'[s] = "TERMINATED"
  <2>1. state \in [Slots -> States]
    BY DEF AnyInv, TypeOK
  <2>2. CASE Targets(p) = {}
    BY <2>1, <2>2 DEF kill_process
  <2>3. CASE Targets(p) # {}
    <3>1. PICK t \in First(Targets(p)) : state' = [state EXCEPT ![t] = "TERMINATED"]
      BY <2>3 DEF kill_process
    <3> QED
      BY <2>1, <3>1 DEF States
  <2> QED
    BY <2>2, <2>3
<1>3. TypeOK'
  BY <1>1, <1>2 DEF AnyInv, TypeOK
<1>4. CallOK'
  BY <1>1 DEF AnyInv, CallOK
<1>5. SingleRunning' /\ Leaving'
  BY <1>1, <1>2 DEF AnyInv, TypeOK, SingleRunning, Leaving
<1>6. PidsUnique' /\ PidsBelow'
  BY <1>1 DEF AnyInv, PidsUnique, PidsBelow
<1> QED
  BY <1>3, <1>4, <1>5, <1>6 DEF AnyInv

\* add_to_ready_queue makes a process READY.
LEMMA addAny ==
    ASSUME AnyInv, NEW proc \in Slots, add_to_ready_queue(proc)
    PROVE  AnyInv'
<1>1. UNCHANGED <<pid, next, ready_queue, current_process, next_pid, order>>
      /\ state' = [state EXCEPT ![proc] = "READY"] /\ call' = Enqueue(proc, FALSE)
      /\ misused' \in BOOLEAN
  BY DEF add_to_ready_queue
<1>2. call' \in Calls /\ call'.op = "enqueue" /\ call'.proc = proc /\ ~call'.switch
  BY <1>1, CallFields DEF Enqueue, Call
<1>3. TypeOK'
  BY <1>1, <1>2 DEF AnyInv, TypeOK, States
<1>4. CallOK' /\ Leaving'
  BY <1>2 DEF CallOK, Leaving
<1>5. SingleRunning'
  BY <1>1 DEF AnyInv, TypeOK, SingleRunning
<1>6. PidsUnique' /\ PidsBelow'
  BY <1>1 DEF AnyInv, PidsUnique, PidsBelow
<1> QED
  BY <1>3, <1>4, <1>5, <1>6 DEF AnyInv

\* After an append enqueue_process's caller returns or goes on to dequeue.
LEMMA ReturnCall ==
    ASSUME call \in Calls, Return
    PROVE  /\ call' \in Calls /\ (call' = Idle \/ call' = Dequeue)
           /\ call'.switch = call.switch
           /\ call.switch => call' = Dequeue
           /\ ~call.switch => call' = Idle
<1>1. call.switch \in BOOLEAN
  BY DEF Calls
<1>2. CASE call.switch
  BY <1>2, CallFields DEF Return
<1>3. CASE ~call.switch
  BY <1>1, <1>3, CallFields DEF Return
<1> QED
  BY <1>2, <1>3

\* The ghost stays a sequence of slots, and is followed until the misuse.
LEMMA FollowedFacts ==
    ASSUME NEW q \in Seq(Slots)
    PROVE  /\ Followed(q) \in Seq(Slots)
           /\ ~misused => Followed(q) = q
<1>1. CASE misused
  BY <1>1 DEF Followed
<1>2. CASE ~misused
  BY <1>2 DEF Followed
<1> QED
  BY <1>1, <1>2

\* The steps inside a call.
LEMMA StepsAny ==
    ASSUME AnyInv, Steps
    PROVE  AnyInv'
<1>0. call \in Calls /\ call.switch \in BOOLEAN
  BY DEF AnyInv, TypeOK, Calls
<1>1. ASSUME UNCHANGED <<state, pid, current_process, next_pid>>, TypeOK', CallOK',
             call'.switch = call.switch
      PROVE  AnyInv'
  BY <1>1 DEF AnyInv, SingleRunning, PidsUnique, PidsBelow, Leaving
<1>2. ASSUME call' = Idle \/ call' = Dequeue PROVE CallOK'
  BY <1>2, CallFields DEF CallOK
<1>3. CASE EnqueueStart
  <2>1. call.proc \in Slots /\ UNCHANGED <<state, pid, current_process, next_pid, misused>>
        /\ next' = [next EXCEPT ![call.proc] = NULL]
    BY <1>3 DEF EnqueueStart, AnyInv, CallOK
  <2>2. CASE ready_queue = NULL
    <3>1. /\ ready_queue' = call.proc /\ Return
          /\ order' = Followed(Append(order, call.proc)) /\ Append(order, call.proc) \in Seq(Slots)
      BY <1>3, <2>1, <2>2 DEF EnqueueStart, AnyInv, TypeOK
    <3>2. TypeOK'
      BY <1>0, <2>1, <3>1, ReturnCall, FollowedFacts DEF AnyInv, TypeOK
    <3> QED
      BY <1>0, <1>1, <1>2, <2>1, <3>1, <3>2, ReturnCall
  <2>3. CASE ready_queue # NULL
    <3>1. call' = Call("walk", call.proc, ready_queue, call.switch)
          /\ UNCHANGED <<ready_queue, order>> /\ ready_queue \in Slots
      BY <1>3, <2>3 DEF EnqueueStart, AnyInv, TypeOK
    <3>2. /\ call'.op = "walk" /\ call'.proc = call.proc /\ call'.at = ready_queue
          /\ call'.switch = call.switch /\ call' \in Calls
      BY <1>0, <2>1, <3>1 DEF Call, Calls
    <3>3. TypeOK' /\ CallOK'
      BY <2>1, <3>1, <3>2 DEF AnyInv, TypeOK, CallOK
    <3> QED
      BY <1>1, <2>1, <3>2, <3>3
  <2> QED
    BY <2>2, <2>3
<1>4. CASE WalkOn
  <2>1. /\ call.op = "walk" /\ next[call.at] # NULL /\ call.at \in Slots /\ call.proc \in Slots
        /\ call' = [call EXCEPT !.at = next[call.at]]
        /\ UNCHANGED <<state, pid, next, ready_queue, current_process, next_pid, order, misused>>
    BY <1>4 DEF WalkOn, AnyInv, CallOK
  <2>2. next[call.at] \in Slots
    BY <2>1 DEF AnyInv, TypeOK
  <2>3. /\ call' \in Calls /\ call'.op = "walk" /\ call'.proc = call.proc
        /\ call'.at = next[call.at] /\ call'.switch = call.switch
    BY <1>0, <2>1, <2>2 DEF Calls
  <2>4. TypeOK' /\ CallOK'
    BY <2>1, <2>2, <2>3 DEF AnyInv, TypeOK, CallOK
  <2> QED
    BY <1>1, <2>1, <2>3, <2>4
<1>5. CASE WalkEnds
  <2>1. /\ call.at \in Slots /\ call.proc \in Slots /\ Return
        /\ next' = [next EXCEPT ![call.at] = call.proc]
        /\ order' = Followed(Append(order, call.proc))
        /\ UNCHANGED <<state, pid, ready_queue, current_process, next_pid, misused>>
    BY <1>5 DEF WalkEnds, AnyInv, CallOK
  <2>2. Append(order, call.proc) \in Seq(Slots)
    BY <2>1 DEF AnyInv, TypeOK
  <2>3. TypeOK'
    BY <1>0, <2>1, <2>2, ReturnCall, FollowedFacts DEF AnyInv, TypeOK
  <2> QED
    BY <1>0, <1>1, <1>2, <2>1, <2>3, ReturnCall
<1>6. CASE Dispatch
  <2> DEFINE proc == IF ready_queue = NULL THEN 0 ELSE ready_queue
  <2>1. proc \in Slots
    BY SlotFacts DEF AnyInv, TypeOK
  <2>2. /\ state' = [state EXCEPT ![proc] = "RUNNING"] /\ current_process' = proc
        /\ call' = Idle /\ UNCHANGED <<pid, next_pid, misused>> /\ call.op = "dequeue"
    BY <1>6 DEF Dispatch
  <2>3. ready_queue' \in Slots \cup {NULL} /\ next' \in [Slots -> Slots \cup {NULL}]
    BY <1>6 DEF Dispatch, AnyInv, TypeOK
  <2>4. order' \in Seq(Slots)
    <3>1. (IF order = <<>> THEN order ELSE Tail(order)) \in Seq(Slots)
      BY DEF AnyInv, TypeOK
    <3> QED
      BY <1>6, <3>1, FollowedFacts DEF Dispatch
  <2> HIDE DEF proc
  <2>5. TypeOK'
    BY <2>1, <2>2, <2>3, <2>4, CallFields DEF AnyInv, TypeOK, States
  <2>6. CallOK' /\ Leaving'
    BY <2>2, CallFields DEF CallOK, Leaving
  <2>7. call = Dequeue /\ call.switch
    BY <2>2, CallFields DEF AnyInv, CallOK
  <2>8. \A s \in Slots : state[s] # "RUNNING"
    BY <2>7 DEF AnyInv, Leaving, SingleRunning
  <2>9. SingleRunning'
    BY <2>1, <2>2, <2>8 DEF SingleRunning, AnyInv, TypeOK
  <2>10. PidsUnique' /\ PidsBelow'
    BY <2>2 DEF AnyInv, PidsUnique, PidsBelow
  <2> QED
    BY <2>5, <2>6, <2>9, <2>10 DEF AnyInv
<1> QED
  BY <1>3, <1>4, <1>5, <1>6 DEF Steps

\* Every step of the unrestricted process manager keeps its invariant.
LEMMA NextAny ==
    ASSUME AnyInv, [Next]_procVars
    PROVE  AnyInv'
<1>1. CASE UNCHANGED procVars
  BY <1>1 DEF procVars, AnyInv, TypeOK, CallOK, SingleRunning, PidsUnique, PidsBelow, Leaving
<1>2. CASE Next
  BY <1>2, createAny, LeaveAny, killAny, addAny, StepsAny
     DEF Next, Syscalls, sys_exit, sys_fork, sys_waitpid, sys_sleep, sys_kill, fork_process
<1> QED
  BY <1>1, <1>2

\* Whatever is called in whatever order, at most one process is RUNNING: the
\* one scheduler_get_next chose last.
THEOREM ProcessSingleRunning == Spec => []SingleRunning
<1>1. Init => AnyInv
  BY AnyInit
<1>2. AnyInv /\ [Next]_procVars => AnyInv'
  BY NextAny
<1>3. AnyInv => SingleRunning
  BY DEF AnyInv
<1> QED
  BY <1>1, <1>2, <1>3, PTL DEF Spec

\* create_process_empty never gives a pid that another process still has.
THEOREM ProcessPidsUnique == Spec => []PidsUnique
<1>1. Init => AnyInv
  BY AnyInit
<1>2. AnyInv /\ [Next]_procVars => AnyInv'
  BY NextAny
<1>3. AnyInv => PidsUnique
  BY DEF AnyInv
<1> QED
  BY <1>1, <1>2, <1>3, PTL DEF Spec

-----------------------------------------------------------------------------
\* The linked list nx from rq spells the sequence q.
Spells(nx, rq, q) ==
    /\ rq = IF q = <<>> THEN NULL ELSE q[1]
    /\ \A i \in 1..Len(q) : nx[q[i]] = IF i = Len(q) THEN NULL ELSE q[i + 1]
    /\ \A i, j \in 1..Len(q) : q[i] = q[j] => i = j
In(s, q) == \E i \in 1..Len(q) : q[i] = s

\* The property speaks of the same list.
LEMMA ChainedSpells ==
    /\ Chained <=> Spells(next, ready_queue, order)
    /\ Chained' <=> Spells(next', ready_queue', order')
    /\ \A s : InQueue(s) <=> In(s, order)
  BY DEF Chained, Spells, InQueue, In

\* The list's head is NULL exactly when nothing waits.
LEMMA HeadNull ==
    ASSUME NEW nx, NEW rq, NEW q \in Seq(Slots), Spells(nx, rq, q)
    PROVE  /\ rq = NULL <=> q = <<>>
           /\ rq # NULL => rq = q[1] /\ Len(q) >= 1 /\ In(rq, q)
<1>1. CASE q = <<>>
  BY <1>1 DEF Spells
<1>2. CASE q # <<>>
  <2>1. Len(q) >= 1 /\ q[1] \in Slots /\ rq = q[1]
    BY <1>2 DEF Spells
  <2> QED
    BY <1>2, <2>1, SlotFacts DEF In
<1> QED
  BY <1>1, <1>2

\* A link that is not in the list may be changed.
LEMMA SpellsOther ==
    ASSUME NEW nx \in [Slots -> Slots \cup {NULL}], NEW rq, NEW q \in Seq(Slots),
           Spells(nx, rq, q), NEW s \in Slots, ~In(s, q), NEW v
    PROVE  Spells([nx EXCEPT ![s] = v], rq, q)
  BY DEF Spells, In

\* Appending to an empty list.
LEMMA SpellsFirst ==
    ASSUME NEW nx \in [Slots -> Slots \cup {NULL}], NEW s \in Slots, NEW q \in Seq(Slots),
           q = <<>>
    PROVE  /\ Spells([nx EXCEPT ![s] = NULL], s, Append(q, s))
           /\ Append(q, s) # <<>> /\ Append(q, s)[1] = s
           /\ \A t : In(t, Append(q, s)) <=> t = s
<1>1. /\ Len(Append(q, s)) = 1 /\ Append(q, s)[1] = s /\ Append(q, s) # <<>>
  OBVIOUS
<1> DEFINE r == Append(q, s)
<1> HIDE DEF r
<1>2. Len(r) = 1 /\ r[1] = s /\ r # <<>>
  BY <1>1 DEF r
<1>3. 1..Len(r) = {1}
  BY <1>2
<1>4. Spells([nx EXCEPT ![s] = NULL], s, r) /\ \A t : In(t, r) <=> t = s
  BY <1>2, <1>3 DEF Spells, In
<1> QED
  BY <1>2, <1>4 DEF r

\* Linking s after the last of a list that is not empty.
LEMMA SpellsAppend ==
    ASSUME NEW nx \in [Slots -> Slots \cup {NULL}], NEW rq, NEW q \in Seq(Slots),
           Spells(nx, rq, q), NEW s \in Slots, ~In(s, q), nx[s] = NULL,
           NEW at \in Slots, In(at, q), nx[at] = NULL
    PROVE  /\ Spells([nx EXCEPT ![at] = s], rq, Append(q, s))
           /\ Append(q, s) # <<>> /\ Append(q, s)[1] = q[1] /\ q # <<>>
           /\ \A t : In(t, Append(q, s)) <=> In(t, q) \/ t = s
<1> DEFINE n == Len(q)
           r == Append(q, s)
<1>1. n \in Nat /\ \A i \in 1..n : q[i] \in Slots
  OBVIOUS
<1>2. PICK k \in 1..n : q[k] = at
  BY DEF In
<1>3. k = n
  <2> SUFFICES ASSUME k # n PROVE FALSE
    OBVIOUS
  <2>1. nx[at] = q[k + 1] /\ k + 1 \in 1..n
    BY <1>1, <1>2 DEF Spells
  <2> QED
    BY <2>1, <1>1, SlotFacts
<1>4. /\ Len(r) = n + 1 /\ r[n + 1] = s /\ \A i \in 1..n : r[i] = q[i]
      /\ r # <<>> /\ n >= 1
  BY <1>1, <1>2
<1> HIDE DEF r
<1>5. r[1] = q[1] /\ q # <<>> /\ rq = q[1]
  BY <1>1, <1>4 DEF Spells
<1>6. \A i, j \in 1..Len(r) : r[i] = r[j] => i = j
  BY <1>1, <1>4 DEF Spells, In
<1>7. ASSUME NEW i \in 1..Len(r)
      PROVE  [nx EXCEPT ![at] = s][r[i]] = IF i = Len(r) THEN NULL ELSE r[i + 1]
  <2>1. CASE i = n + 1
    <3>1. s # at
      BY DEF In
    <3> QED
      BY <2>1, <3>1, <1>4
  <2>2. CASE i = n
    BY <2>2, <1>1, <1>2, <1>3, <1>4
  <2>3. CASE i < n
    <3>1. q[i] # at /\ nx[q[i]] = q[i + 1] /\ i \in 1..n /\ i + 1 \in 1..n
      BY <2>3, <1>1, <1>2, <1>3, <1>4 DEF Spells
    <3> QED
      BY <2>3, <3>1, <1>1, <1>4
  <2> QED
    BY <2>1, <2>2, <2>3, <1>1, <1>4
<1>8. Spells([nx EXCEPT ![at] = s], rq, r)
  BY <1>4, <1>5, <1>6, <1>7 DEF Spells
<1>9. \A t : In(t, r) <=> In(t, q) \/ t = s
  <2> TAKE t
  <2>1. (\E i \in 1..(n + 1) : r[i] = t) <=> (\E i \in 1..n : r[i] = t) \/ r[n + 1] = t
    BY <1>1
  <2>2. (\E i \in 1..n : r[i] = t) <=> (\E i \in 1..n : q[i] = t)
    BY <1>4
  <2> QED
    BY <2>1, <2>2, <1>4 DEF In
<1> QED
  BY <1>4, <1>5, <1>8, <1>9 DEF r

\* Taking the head off a list.
LEMMA SpellsTail ==
    ASSUME NEW nx \in [Slots -> Slots \cup {NULL}], NEW rq, NEW q \in Seq(Slots),
           Spells(nx, rq, q), q # <<>>
    PROVE  /\ Spells([nx EXCEPT ![rq] = NULL], nx[rq], Tail(q))
           /\ \A t : In(t, Tail(q)) <=> In(t, q) /\ t # q[1]
<1> DEFINE n == Len(q)
           r == Tail(q)
<1>1. n \in Nat /\ n >= 1 /\ \A i \in 1..n : q[i] \in Slots
  OBVIOUS
<1>2. Len(r) = n - 1 /\ \A i \in 1..(n - 1) : r[i] = q[i + 1]
  BY <1>1
<1>3. rq = q[1] /\ rq \in Slots
  BY <1>1 DEF Spells
<1>4. r = <<>> <=> n = 1
  <2>1. r \in Seq(Slots)
    OBVIOUS
  <2> HIDE DEF r
  <2>2. r = <<>> <=> Len(r) = 0
    BY <2>1
  <2> QED
    BY <1>1, <1>2, <2>2
<1> HIDE DEF r
<1>5. nx[rq] = IF r = <<>> THEN NULL ELSE r[1]
  <2>1. CASE n = 1
    BY <2>1, <1>1, <1>3, <1>4 DEF Spells
  <2>2. CASE n # 1
    BY <2>2, <1>1, <1>2, <1>3, <1>4 DEF Spells
  <2> QED
    BY <2>1, <2>2
<1>6. \A i, j \in 1..Len(r) : r[i] = r[j] => i = j
  <2> SUFFICES ASSUME NEW i \in 1..Len(r), NEW j \in 1..Len(r), r[i] = r[j]
               PROVE  i = j
    OBVIOUS
  <2>1. i + 1 \in 1..n /\ j + 1 \in 1..n /\ q[i + 1] = q[j + 1]
    BY <1>1, <1>2
  <2>2. i + 1 = j + 1
    BY <2>1 DEF Spells
  <2> QED
    BY <2>2, <1>1, <1>2
<1>7. ASSUME NEW i \in 1..Len(r)
      PROVE  [nx EXCEPT ![rq] = NULL][r[i]] = IF i = Len(r) THEN NULL ELSE r[i + 1]
  <2>1. i + 1 \in 1..n /\ r[i] = q[i + 1] /\ i + 1 # 1 /\ 1 \in 1..n
    BY <1>1, <1>2
  <2>2. r[i] # rq /\ r[i] \in Slots
    BY <2>1, <1>1, <1>3 DEF Spells
  <2>3. nx[q[i + 1]] = IF i + 1 = n THEN NULL ELSE q[(i + 1) + 1]
    BY <2>1 DEF Spells
  <2> QED
    BY <2>1, <2>2, <2>3, <1>1, <1>2
<1>8. Spells([nx EXCEPT ![rq] = NULL], nx[rq], r)
  BY <1>5, <1>6, <1>7 DEF Spells
<1>9. ASSUME NEW t PROVE In(t, r) <=> In(t, q) /\ t # q[1]
  <2>1. ASSUME In(t, r) PROVE In(t, q) /\ t # q[1]
    <3>1. PICK i \in 1..Len(r) : r[i] = t
      BY <2>1 DEF In
    <3>2. i + 1 \in 1..n /\ q[i + 1] = t /\ i + 1 # 1 /\ 1 \in 1..n
      BY <3>1, <1>1, <1>2
    <3> QED
      BY <3>2 DEF In, Spells
  <2>2. ASSUME In(t, q), t # q[1] PROVE In(t, r)
    <3>1. PICK i \in 1..n : q[i] = t
      BY <2>2 DEF In
    <3>2. i # 1
      BY <2>2, <3>1
    <3>3. i - 1 \in 1..Len(r) /\ (i - 1) + 1 = i
      BY <3>1, <3>2, <1>1, <1>2
    <3> QED
      BY <3>1, <3>3, <1>1, <1>2 DEF In
  <2> QED
    BY <2>1, <2>2
<1> QED
  BY <1>8, <1>9 DEF r

-----------------------------------------------------------------------------
\* A process is on its way into the queue.
Adding == call.op \in {"enqueue", "walk"}

\* The process being enqueued is READY and not yet in the list; the walk is at
\* a slot of the list.
EnqueueOK ==
    /\ Adding => state[call.proc] = "READY" /\ ~In(call.proc, order)
    /\ call.op = "walk" => next[call.proc] = NULL /\ In(call.at, order)

\* READY and queued go together, but for the process being enqueued and, just
\* before a dequeue, for slot 0 at the head of the list.
ReadyOK ==
    /\ call.op # "dequeue" =>
         \A s \in Slots : state[s] = "READY" <=> In(s, order) \/ (Adding /\ s = call.proc)
    /\ call.op = "dequeue" =>
         \A s \in Slots : /\ state[s] = "READY" => In(s, order)
                          /\ In(s, order) => \/ state[s] = "READY"
                                             \/ s = 0 /\ order[1] = 0

\* The current process runs, or it is slot 0, taken from idle by the first
\* process created, and will be the first to be dequeued.
CurrentOK ==
    ~call.switch =>
        \/ state[current_process] = "RUNNING"
        \/ /\ current_process = 0 /\ state[0] = "READY"
           /\ IF order = <<>> THEN Adding /\ call.proc = 0 ELSE order[1] = 0

\* A slot without a pid was never used; while slot 0 has none nothing was.
Unused == \A s \in Slots : s # 0 /\ pid[s] = 0 => state[s] = "NEW"
Fresh ==
    pid[0] = 0 =>
        /\ current_process = 0
        /\ \A s \in Slots : pid[s] = 0
        /\ call.op = "idle" => state[0] = "RUNNING"
        /\ Adding => call.op = "enqueue" /\ call.switch

\* The invariant of the process manager until the queue is misused.
OrderlyInv ==
    /\ AnyInv /\ Spells(next, ready_queue, order)
    /\ EnqueueOK /\ ReadyOK /\ CurrentOK /\ Unused /\ Fresh

\* In a fresh table nothing but slot 0 can be queued.
LEMMA FreshEmpty ==
    ASSUME OrderlyInv, pid[0] = 0
    PROVE  /\ \A s \in Slots : s # 0 => state[s] = "NEW"
           /\ call.op \in {"idle", "enqueue"} => order = <<>>
           /\ call.op # "walk"
<1>1. \A s \in Slots : s # 0 => state[s] = "NEW"
  BY DEF OrderlyInv, Unused, Fresh
<1>2. ASSUME call.op \in {"idle", "enqueue"}, order # <<>> PROVE FALSE
  <2>1. order[1] \in Slots /\ In(order[1], order)
    <3>1. order \in Seq(Slots)
      BY DEF OrderlyInv, AnyInv, TypeOK
    <3>2. Len(order) >= 1 /\ order[1] \in Slots
      BY <3>1, <1>2
    <3> QED
      BY <3>2 DEF In
  <2>2. state[order[1]] = "READY"
    BY <2>1, <1>2 DEF OrderlyInv, ReadyOK
  <2>3. order[1] = 0
    BY <1>1, <2>1, <2>2
  <2>4. call.op = "idle" => state[0] = "RUNNING"
    BY DEF OrderlyInv, Fresh
  <2>5. CASE call.op = "enqueue"
    <3>1. call.proc \in Slots /\ state[call.proc] = "READY" /\ ~In(call.proc, order)
      BY <2>5 DEF OrderlyInv, EnqueueOK, Adding, AnyInv, CallOK
    <3>2. call.proc = 0
      BY <1>1, <3>1
    <3> QED
      BY <2>1, <2>3, <3>1, <3>2
  <2> QED
    BY <1>2, <2>2, <2>3, <2>4, <2>5
<1>3. call.op # "walk"
  BY DEF OrderlyInv, Fresh, Adding
<1> QED
  BY <1>1, <1>2, <1>3

\* The table init_process_manager leaves satisfies the orderly invariant.
LEMMA OrderlyInit == Init => OrderlyInv
<1> SUFFICES ASSUME Init PROVE OrderlyInv
  OBVIOUS
<1>1. AnyInv
  BY AnyInit
<1>2. call.op = "idle" /\ call.switch = FALSE /\ ~Adding /\ order = <<>>
  BY CallFields DEF Init, Adding
<1>3. \A s : ~In(s, order)
  BY <1>2 DEF In
<1>4. Spells(next, ready_queue, order)
  BY <1>2, ProcessAssumption DEF Init, Spells
<1>5. EnqueueOK /\ ReadyOK
  BY <1>2, <1>3 DEF Init, EnqueueOK, ReadyOK
<1>6. CurrentOK /\ Unused /\ Fresh
  BY <1>2, SlotFacts DEF Init, CurrentOK, Unused, Fresh
<1> QED
  BY <1>1, <1>4, <1>5, <1>6 DEF OrderlyInv

\* Creation takes a slot that is in no queue and is not the current one,
\* unless it is idle's at the very beginning.
LEMMA createOrderly ==
    ASSUME OrderlyInv, create_process
    PROVE  OrderlyInv'
<1>0. AnyInv'
  BY createAny DEF OrderlyInv
<1>1. CASE FreeSlots = {}
  <2>1. UNCHANGED procVars
    BY <1>1 DEF create_process
  <2> QED
    BY <2>1, <1>0 DEF procVars, OrderlyInv, EnqueueOK, ReadyOK, CurrentOK, Unused, Fresh, Adding
<1>2. CASE FreeSlots # {}
  <2>1. PICK s \in First(FreeSlots) : NewProcess(s)
    BY <1>2 DEF create_process
  <2>2. /\ s \in Slots
        /\ state[s] = "TERMINATED" \/ pid[s] = 0
        /\ \A t \in FreeSlots : s <= t
    BY <2>1 DEF First, FreeSlots
  <2>3. UNCHANGED <<ready_queue, current_process, order>>
        /\ call.op = "idle" /\ ~call.switch /\ ~Adding
    BY <1>2, CallFields DEF create_process, Adding
  <2>4. /\ pid' = [pid EXCEPT ![s] = next_pid] /\ next_pid > 0
        /\ state' = [state EXCEPT ![s] = "READY"] /\ next' = [next EXCEPT ![s] = NULL]
        /\ call' = Enqueue(s, FALSE)
    BY <2>1 DEF NewProcess, OrderlyInv, AnyInv, PidsBelow
  <2>5. call'.op = "enqueue" /\ call'.proc = s /\ ~call'.switch
    BY <2>4 DEF Enqueue, Call
  <2>6. /\ state \in [Slots -> States] /\ pid \in [Slots -> Nat] /\ current_process \in Slots
        /\ next \in [Slots -> Slots \cup {NULL}] /\ order \in Seq(Slots) /\ 0 \in Slots
    BY SlotFacts DEF OrderlyInv, AnyInv, TypeOK
  <2>7. pid[0] = 0 => s = 0
    BY <2>2, <2>6, SlotFacts DEF FreeSlots
  <2>8. \A t \in Slots : state[t] = "READY" <=> In(t, order)
    BY <2>3 DEF OrderlyInv, ReadyOK
  <2>9. ~In(s, order)
    <3>1. CASE pid[0] = 0
      BY <3>1, <2>3, FreshEmpty DEF In
    <3>2. CASE pid[0] # 0
      BY <2>2, <2>8, <3>2 DEF OrderlyInv, Unused
    <3> QED
      BY <3>1, <3>2
  <2>10. Spells(next', ready_queue', order')
    BY <2>3, <2>4, <2>2, <2>6, <2>9, SpellsOther DEF OrderlyInv
  <2>11. EnqueueOK'
    BY <2>2, <2>3, <2>4, <2>5, <2>6, <2>9 DEF EnqueueOK, Adding
  <2>12. ReadyOK'
    BY <2>2, <2>3, <2>4, <2>5, <2>6, <2>8 DEF ReadyOK, Adding
  <2>13. CurrentOK'
    <3>1. CASE pid[0] = 0
      BY <3>1, <2>3, <2>4, <2>5, <2>6, <2>7, FreshEmpty DEF OrderlyInv, Fresh, CurrentOK, Adding
    <3>2. CASE pid[0] # 0
      <4>1. state[s] # "READY" /\ state[s] # "RUNNING"
        BY <2>2, <3>2 DEF OrderlyInv, Unused
      <4>2. \/ state[current_process] = "RUNNING"
            \/ current_process = 0 /\ state[0] = "READY" /\ order # <<>> /\ order[1] = 0
        BY <2>3 DEF OrderlyInv, CurrentOK
      <4>3. s # current_process
        BY <4>1, <4>2
      <4> QED
        BY <4>2, <4>3, <2>3, <2>4, <2>5, <2>6 DEF CurrentOK
    <3> QED
      BY <3>1, <3>2
  <2>14. Unused'
    BY <2>4, <2>6 DEF OrderlyInv, Unused
  <2>15. Fresh'
    BY <2>2, <2>4, <2>6, <2>7 DEF Fresh
  <2> QED
    BY <1>0, <2>10, <2>11, <2>12, <2>13, <2>14, <2>15 DEF OrderlyInv
<1> QED
  BY <1>1, <1>2

\* scheduler_get_next up to its dequeue, after the current process's state was
\* left alone or set to BLOCKED or TERMINATED.
LEMMA GetNextOrderly ==
    ASSUME OrderlyInv, call = Idle, NEW st \in [Slots -> States],
           \A s \in Slots : s # current_process => st[s] = state[s],
           st[current_process] \in {state[current_process], "BLOCKED", "TERMINATED"},
           GetNextFrom(st)
    PROVE  OrderlyInv'
<1> DEFINE c == current_process
<1>0. AnyInv'
  BY GetNextAny DEF OrderlyInv
<1>1. UNCHANGED <<pid, next, ready_queue, current_process, next_pid, order>>
  BY DEF GetNextFrom
<1>2. /\ state \in [Slots -> States] /\ c \in Slots /\ 0 \in Slots /\ order \in Seq(Slots)
      /\ call.op = "idle" /\ ~call.switch /\ ~Adding
  BY SlotFacts, CallFields DEF OrderlyInv, AnyInv, TypeOK, Adding
<1>3. \A s \in Slots : state[s] = "READY" <=> In(s, order)
  BY <1>2 DEF OrderlyInv, ReadyOK
<1>4. \/ state[c] = "RUNNING"
      \/ c = 0 /\ state[0] = "READY" /\ order # <<>> /\ order[1] = 0
  BY <1>2 DEF OrderlyInv, CurrentOK
<1>5. Spells(next', ready_queue', order')
  BY <1>1 DEF OrderlyInv
<1>6. \A s \in Slots : s # c => state'[s] = state[s]
  BY <1>2 DEF GetNextFrom
<1>7. Unused'
  BY <1>1, <1>4, <1>6 DEF OrderlyInv, Unused
<1>8. CASE st[c] = "RUNNING"
  <2>1. state'[c] = "READY" /\ call' = Enqueue(c, TRUE)
    BY <1>2, <1>8 DEF GetNextFrom
  <2>2. call'.op = "enqueue" /\ call'.proc = c /\ call'.switch = TRUE
    BY <2>1 DEF Enqueue, Call
  <2>3. ~In(c, order)
    BY <1>2, <1>3, <1>4, <1>8
  <2>4. EnqueueOK'
    BY <1>1, <2>1, <2>2, <2>3 DEF EnqueueOK, Adding
  <2>5. ReadyOK'
    BY <1>1, <1>2, <1>3, <1>6, <2>1, <2>2 DEF ReadyOK, Adding
  <2>6. CurrentOK' /\ Fresh'
    BY <1>1, <2>2 DEF CurrentOK, OrderlyInv, Fresh, Adding
  <2> QED
    BY <1>0, <1>5, <1>7, <2>4, <2>5, <2>6 DEF OrderlyInv
<1>9. CASE st[c] # "RUNNING"
  <2>1. state' = st /\ call' = Dequeue
    BY <1>9 DEF GetNextFrom
  <2>2. call'.op = "dequeue" /\ call'.switch
    BY <2>1, CallFields
  <2>3. EnqueueOK' /\ CurrentOK'
    BY <2>2 DEF EnqueueOK, CurrentOK, Adding
  <2>4. Fresh'
    BY <1>1, <2>2 DEF OrderlyInv, Fresh, Adding
  <2>5. ReadyOK'
    <3>1. ASSUME NEW s \in Slots
          PROVE  /\ st[s] = "READY" => In(s, order)
                 /\ In(s, order) => st[s] = "READY" \/ (s = 0 /\ order[1] = 0)
      <4>1. CASE s # c
        BY <4>1, <1>3
      <4>2. CASE s = c
        BY <4>2, <1>3, <1>4
      <4> QED
        BY <4>1, <4>2
    <3> QED
      BY <1>1, <2>1, <2>2, <3>1 DEF ReadyOK
  <2> QED
    BY <1>0, <1>5, <1>7, <2>3, <2>4, <2>5 DEF OrderlyInv
<1> QED
  BY <1>8, <1>9

\* The calls that give up the processor.
LEMMA LeaveOrderly ==
    ASSUME OrderlyInv, scheduler_get_next \/ exit_process \/ wait_process \/ sleep_process
    PROVE  OrderlyInv'
<1>1. state \in [Slots -> States] /\ current_process \in Slots
  BY DEF OrderlyInv, AnyInv, TypeOK
<1>2. CASE scheduler_get_next
  BY <1>1, <1>2, GetNextOrderly DEF scheduler_get_next
<1>3. CASE exit_process
  <2> DEFINE st == [state EXCEPT ![current_process] = "TERMINATED"]
  <2>1. /\ st \in [Slots -> States] /\ st[current_process] = "TERMINATED"
        /\ \A s \in Slots : s # current_process => st[s] = state[s]
    BY <1>1 DEF States
  <2>2. GetNextFrom(st) /\ call = Idle
    BY <1>3 DEF exit_process
  <2> HIDE DEF st
  <2> QED
    BY <2>1, <2>2, GetNextOrderly
<1>4. CASE wait_process \/ sleep_process
  <2> DEFINE st == [state EXCEPT ![current_process] = "BLOCKED"]
  <2>1. /\ st \in [Slots -> States] /\ st[current_process] = "BLOCKED"
        /\ \A s \in Slots : s # current_process => st[s] = state[s]
    BY <1>1 DEF States
  <2>2. GetNextFrom(st) /\ call = Idle
    BY <1>4 DEF wait_process, sleep_process
  <2> HIDE DEF st
  <2> QED
    BY <2>1, <2>2, GetNextOrderly
<1> QED
  BY <1>2, <1>3, <1>4

\* Killing a blocked process.
LEMMA killOrderly ==
    ASSUME OrderlyInv, NEW p, kill_process(p), ~misused'
    PROVE  OrderlyInv'
<1>0. AnyInv' /\ \A s \in Targets(p) : state[s] = "BLOCKED"
  BY killAny DEF OrderlyInv, kill_process
<1>1. UNCHANGED <<pid, next, ready_queue, current_process, next_pid, call, order>>
      /\ call = Idle
  BY DEF kill_process
<1>2. call.op = "idle" /\ ~call.switch /\ ~Adding /\ current_process \in Slots /\ 0 \in Slots
  BY <1>1, CallFields, SlotFacts DEF Adding, OrderlyInv, AnyInv, TypeOK
<1>3. \A s \in Slots : \/ state'[s] = state[s]
                       \/ state[s] = "BLOCKED" /\ state'[s] = "TERMINATED"
  <2>1. state \in [Slots -> States]
    BY DEF OrderlyInv, AnyInv, TypeOK
  <2>2. CASE Targets(p) = {}
    BY <2>2 DEF kill_process
  <2>3. CASE Targets(p) # {}
    <3>1. PICK t \in First(Targets(p)) : state' = [state EXCEPT ![t] = "TERMINATED"]
      BY <2>3 DEF kill_process
    <3>2. t \in Slots /\ state[t] = "BLOCKED"
      BY <1>0, <3>1 DEF First, Targets
    <3> QED
      BY <2>1, <3>1, <3>2
  <2> QED
    BY <2>2, <2>3
<1>4. Spells(next', ready_queue', order')
  BY <1>1 DEF OrderlyInv
<1>5. EnqueueOK' /\ ReadyOK'
  BY <1>1, <1>2, <1>3 DEF OrderlyInv, EnqueueOK, ReadyOK, Adding
<1>6. CurrentOK'
  BY <1>1, <1>2, <1>3 DEF OrderlyInv, CurrentOK, Adding
<1>7. Unused' /\ Fresh'
  BY <1>1, <1>2, <1>3 DEF OrderlyInv, Unused, Fresh, Adding
<1> QED
  BY <1>0, <1>4, <1>5, <1>6, <1>7 DEF OrderlyInv

\* Waking a blocked process.
LEMMA addOrderly ==
    ASSUME OrderlyInv, NEW proc \in Slots, add_to_ready_queue(proc), ~misused'
    PROVE  OrderlyInv'
<1>0. AnyInv' /\ state[proc] = "BLOCKED"
  BY addAny DEF OrderlyInv, add_to_ready_queue
<1>1. UNCHANGED <<pid, next, ready_queue, current_process, next_pid, order>>
      /\ state' = [state EXCEPT ![proc] = "READY"] /\ call' = Enqueue(proc, FALSE)
      /\ call = Idle
  BY DEF add_to_ready_queue
<1>2. call'.op = "enqueue" /\ call'.proc = proc /\ ~call'.switch
  BY <1>1 DEF Enqueue, Call
<1>3. /\ call.op = "idle" /\ ~call.switch /\ ~Adding /\ state \in [Slots -> States]
      /\ current_process \in Slots /\ 0 \in Slots
  BY <1>1, CallFields, SlotFacts DEF Adding, OrderlyInv, AnyInv, TypeOK
<1>4. \A s \in Slots : state[s] = "READY" <=> In(s, order)
  BY <1>3 DEF OrderlyInv, ReadyOK
<1>5. Spells(next', ready_queue', order')
  BY <1>1 DEF OrderlyInv
<1>6. EnqueueOK' /\ ReadyOK'
  BY <1>0, <1>1, <1>2, <1>3, <1>4 DEF EnqueueOK, ReadyOK, Adding
<1>7. CurrentOK'
  BY <1>0, <1>1, <1>2, <1>3 DEF OrderlyInv, CurrentOK
<1>8. Unused'
  BY <1>0, <1>1, <1>3 DEF OrderlyInv, Unused
<1>9. pid[0] # 0
  BY <1>0, <1>3, FreshEmpty DEF OrderlyInv, Fresh
<1>10. Fresh'
  BY <1>1, <1>9 DEF Fresh
<1> QED
  BY <1>0, <1>5, <1>6, <1>7, <1>8, <1>10 DEF OrderlyInv

\* enqueue_process up to its loop.
LEMMA EnqueueStartOrderly ==
    ASSUME OrderlyInv, EnqueueStart, ~misused
    PROVE  OrderlyInv'
<1> DEFINE p == call.proc
<1>0. AnyInv'
  BY StepsAny DEF OrderlyInv, Steps
<1>1. /\ call.op = "enqueue" /\ next' = [next EXCEPT ![p] = NULL]
      /\ UNCHANGED <<state, pid, current_process, next_pid>>
  BY DEF EnqueueStart
<1>2. /\ call \in Calls /\ p \in Slots /\ order \in Seq(Slots) /\ Adding
      /\ next \in [Slots -> Slots \cup {NULL}]
      /\ Spells(next, ready_queue, order)
  BY <1>1 DEF OrderlyInv, AnyInv, CallOK, TypeOK, Adding
<1>3. state[p] = "READY" /\ ~In(p, order)
  BY <1>2 DEF OrderlyInv, EnqueueOK
<1>4. \A s \in Slots : state[s] = "READY" <=> In(s, order) \/ s = p
  BY <1>1, <1>2 DEF OrderlyInv, ReadyOK
<1>5. Unused'
  BY <1>1 DEF OrderlyInv, Unused
<1>6. CASE ready_queue = NULL
  <2>1. ready_queue' = p /\ order' = Append(order, p) /\ Return
    BY <1>1, <1>6 DEF EnqueueStart, Followed
  <2>2. order = <<>>
    BY <1>2, <1>6, HeadNull
  <2>3. /\ Spells(next', ready_queue', order') /\ order' # <<>> /\ order'[1] = p
        /\ \A t : In(t, order') <=> t = p
    <3> HIDE DEF p
    <3> QED
      BY <1>1, <1>2, <2>1, <2>2, SpellsFirst
  <2>4. /\ call' = Idle \/ call' = Dequeue
        /\ call'.switch = call.switch /\ (~call.switch => call' = Idle)
        /\ (call.switch => call' = Dequeue)
    BY <1>2, <2>1, ReturnCall
  <2>5. ~Adding' /\ call'.op # "walk" /\ (call'.op = "idle" => ~call.switch)
    BY <2>4, CallFields DEF Adding
  <2>6. EnqueueOK'
    BY <2>5 DEF EnqueueOK
  <2>7. ReadyOK'
    <3>1. \A s \in Slots : state'[s] = "READY" <=> In(s, order')
      BY <1>1, <1>4, <2>2, <2>3 DEF In
    <3> QED
      BY <2>5, <3>1 DEF ReadyOK
  <2>8. CurrentOK'
    BY <1>1, <2>2, <2>3, <2>4 DEF OrderlyInv, CurrentOK
  <2>9. Fresh'
    BY <1>1, <2>5, <1>2 DEF OrderlyInv, Fresh
  <2> QED
    BY <1>0, <1>5, <2>3, <2>6, <2>7, <2>8, <2>9 DEF OrderlyInv
<1>7. CASE ready_queue # NULL
  <2>1. call' = Call("walk", p, ready_queue, call.switch) /\ UNCHANGED <<ready_queue, order>>
    BY <1>1, <1>7 DEF EnqueueStart
  <2>2. /\ call'.op = "walk" /\ call'.proc = p /\ call'.at = ready_queue
        /\ call'.switch = call.switch
    BY <2>1 DEF Call
  <2>3. In(ready_queue, order) /\ order # <<>>
    BY <1>2, <1>7, HeadNull
  <2>4. Spells(next', ready_queue', order')
    BY <1>1, <1>2, <1>3, <2>1, SpellsOther
  <2>5. EnqueueOK'
    BY <1>1, <1>2, <1>3, <2>1, <2>2, <2>3 DEF EnqueueOK, Adding
  <2>6. ReadyOK'
    BY <1>1, <1>4, <2>1, <2>2 DEF ReadyOK, Adding
  <2>7. CurrentOK'
    BY <1>1, <2>1, <2>2, <2>3 DEF OrderlyInv, CurrentOK
  <2>8. Fresh'
    BY <1>1, <2>3, FreshEmpty DEF Fresh
  <2> QED
    BY <1>0, <1>5, <2>4, <2>5, <2>6, <2>7, <2>8 DEF OrderlyInv
<1> QED
  BY <1>6, <1>7

\* The walk follows a link of the list.
LEMMA WalkOnOrderly ==
    ASSUME OrderlyInv, WalkOn
    PROVE  OrderlyInv'
<1> DEFINE a == call.at
<1>0. AnyInv'
  BY StepsAny DEF OrderlyInv, Steps
<1>1. /\ call.op = "walk" /\ next[a] # NULL /\ call' = [call EXCEPT !.at = next[a]]
      /\ UNCHANGED <<state, pid, next, ready_queue, current_process, next_pid, order>>
  BY DEF WalkOn
<1>2. call \in Calls /\ order \in Seq(Slots) /\ In(a, order) /\ Spells(next, ready_queue, order)
  BY <1>1 DEF OrderlyInv, AnyInv, TypeOK, EnqueueOK
<1>3. /\ call'.op = "walk" /\ call'.proc = call.proc /\ call'.at = next[a]
      /\ call'.switch = call.switch
  BY <1>1, <1>2 DEF Calls
<1>4. In(next[a], order)
  <2>1. PICK i \in 1..Len(order) : order[i] = a
    BY <1>2 DEF In
  <2>2. i # Len(order) /\ next[a] = order[i + 1]
    BY <1>1, <1>2, <2>1 DEF Spells
  <2>3. i + 1 \in 1..Len(order)
    BY <1>2, <2>1, <2>2
  <2> QED
    BY <2>2, <2>3 DEF In
<1>5. EnqueueOK'
  BY <1>1, <1>3, <1>4 DEF OrderlyInv, EnqueueOK, Adding
<1>6. ReadyOK' /\ CurrentOK'
  BY <1>1, <1>3 DEF OrderlyInv, ReadyOK, CurrentOK, Adding
<1>7. Unused' /\ Fresh'
  BY <1>1, <1>3 DEF OrderlyInv, Unused, Fresh, Adding
<1> QED
  BY <1>0, <1>1, <1>5, <1>6, <1>7 DEF OrderlyInv

\* The walk has found the last slot and links the new one to it.
LEMMA WalkEndsOrderly ==
    ASSUME OrderlyInv, WalkEnds, ~misused
    PROVE  OrderlyInv'
<1> DEFINE p == call.proc
           a == call.at
<1>0. AnyInv'
  BY StepsAny DEF OrderlyInv, Steps
<1>1. /\ call.op = "walk" /\ next[a] = NULL /\ next' = [next EXCEPT ![a] = p]
      /\ order' = Append(order, p) /\ Return
      /\ UNCHANGED <<state, pid, ready_queue, current_process, next_pid>>
  BY DEF WalkEnds, Followed
<1>2. /\ call \in Calls /\ p \in Slots /\ a \in Slots /\ order \in Seq(Slots) /\ Adding
      /\ next \in [Slots -> Slots \cup {NULL}] /\ Spells(next, ready_queue, order)
  BY <1>1 DEF OrderlyInv, AnyInv, CallOK, TypeOK, Adding
<1>3. state[p] = "READY" /\ ~In(p, order) /\ next[p] = NULL /\ In(a, order)
  BY <1>1, <1>2 DEF OrderlyInv, EnqueueOK
<1>4. \A s \in Slots : state[s] = "READY" <=> In(s, order) \/ s = p
  BY <1>1, <1>2 DEF OrderlyInv, ReadyOK
<1>5. /\ Spells(next', ready_queue', order') /\ order' # <<>> /\ order'[1] = order[1]
      /\ order # <<>> /\ \A t : In(t, order') <=> In(t, order) \/ t = p
  <2> HIDE DEF p, a
  <2>1. /\ Spells([next EXCEPT ![a] = p], ready_queue, Append(order, p))
        /\ Append(order, p) # <<>> /\ Append(order, p)[1] = order[1] /\ order # <<>>
        /\ \A t : In(t, Append(order, p)) <=> In(t, order) \/ t = p
    <3>1. next[p] = NULL /\ next[a] = NULL /\ ~In(p, order) /\ In(a, order)
      BY <1>1, <1>3
    <3> QED
      BY <1>2, <3>1, SpellsAppend
  <2> QED
    BY <1>1, <2>1
<1>6. /\ call' = Idle \/ call' = Dequeue
      /\ call'.switch = call.switch
  BY <1>1, <1>2, ReturnCall
<1>7. ~Adding' /\ call'.op # "walk"
  BY <1>6, CallFields DEF Adding
<1>8. EnqueueOK'
  BY <1>7 DEF EnqueueOK
<1>9. ReadyOK'
  BY <1>1, <1>4, <1>5, <1>7 DEF ReadyOK
<1>10. CurrentOK'
  BY <1>1, <1>5, <1>6 DEF OrderlyInv, CurrentOK
<1>11. Unused'
  BY <1>1 DEF OrderlyInv, Unused
<1>12. Fresh'
  BY <1>1, FreshEmpty DEF Fresh
<1> QED
  BY <1>0, <1>5, <1>8, <1>9, <1>10, <1>11, <1>12 DEF OrderlyInv

\* scheduler_get_next dequeues the head, or falls back on slot 0.
LEMMA DispatchOrderly ==
    ASSUME OrderlyInv, Dispatch, ~misused
    PROVE  /\ OrderlyInv'
           /\ order # <<>> => current_process' = order[1] /\ order' = Tail(order)
           /\ order = <<>> => current_process' = 0 /\ order' = order
<1>0. AnyInv'
  BY StepsAny DEF OrderlyInv, Steps
<1>1. /\ call.op = "dequeue" /\ call' = Idle /\ UNCHANGED <<pid, next_pid>>
      /\ state \in [Slots -> States] /\ order \in Seq(Slots) /\ 0 \in Slots
      /\ next \in [Slots -> Slots \cup {NULL}] /\ Spells(next, ready_queue, order)
  BY SlotFacts DEF Dispatch, OrderlyInv, AnyInv, TypeOK
<1>2. call'.op = "idle" /\ ~call'.switch /\ ~Adding'
  BY <1>1, CallFields DEF Adding
<1>3. \A s \in Slots : /\ state[s] = "READY" => In(s, order)
                       /\ In(s, order) => state[s] = "READY" \/ (s = 0 /\ order[1] = 0)
  BY <1>1 DEF OrderlyInv, ReadyOK
<1>4. EnqueueOK'
  BY <1>2 DEF EnqueueOK
<1>5. CASE order = <<>>
  <2>1. ready_queue = NULL
    BY <1>1, <1>5, HeadNull
  <2>2. /\ state' = [state EXCEPT ![0] = "RUNNING"] /\ current_process' = 0
        /\ UNCHANGED <<next, ready_queue, order>>
    BY <2>1, <1>5 DEF Dispatch, Followed
  <2>3. ReadyOK'
    BY <1>1, <1>2, <1>3, <1>5, <2>2 DEF ReadyOK, In
  <2>4. CurrentOK' /\ Fresh'
    BY <1>1, <1>2, <2>2 DEF CurrentOK, OrderlyInv, Fresh
  <2>5. Unused'
    BY <1>1, <2>2 DEF OrderlyInv, Unused
  <2> QED
    BY <1>0, <1>1, <1>4, <1>5, <2>2, <2>3, <2>4, <2>5 DEF OrderlyInv
<1>6. CASE order # <<>>
  <2> DEFINE r == ready_queue
  <2>1. r # NULL /\ r = order[1] /\ In(r, order)
    BY <1>1, <1>6, HeadNull
  <2>2. r \in Slots
    BY <2>1, <1>1 DEF In
  <2>3. /\ state' = [state EXCEPT ![r] = "RUNNING"] /\ current_process' = r
        /\ ready_queue' = next[r] /\ next' = [next EXCEPT ![r] = NULL]
        /\ order' = Tail(order)
    BY <2>1, <1>6 DEF Dispatch, Followed
  <2>4. /\ Spells(next', ready_queue', order')
        /\ \A t : In(t, order') <=> In(t, order) /\ t # order[1]
    BY <1>1, <1>6, <2>3, SpellsTail
  <2>5. \A s \in Slots : state'[s] = "READY" <=> In(s, order')
    BY <1>1, <1>3, <2>1, <2>2, <2>3, <2>4
  <2>6. ReadyOK'
    BY <1>2, <2>5 DEF ReadyOK
  <2>7. state[r] = "READY" \/ r = 0
    BY <1>3, <2>1, <2>2
  <2>8. CurrentOK'
    BY <1>1, <2>2, <2>3 DEF CurrentOK
  <2>9. Unused'
    BY <1>1, <2>2, <2>3, <2>7 DEF OrderlyInv, Unused
  <2>10. Fresh'
    <3>1. pid[0] = 0 => r = 0
      BY <2>2, <2>7, FreshEmpty
    <3> QED
      BY <1>1, <1>2, <2>3, <3>1 DEF OrderlyInv, Fresh
  <2> QED
    BY <1>0, <1>4, <1>6, <2>1, <2>3, <2>4, <2>6, <2>8, <2>9, <2>10 DEF OrderlyInv
<1> QED
  BY <1>5, <1>6

\* Only kill_process and add_to_ready_queue can misuse the queue, and nothing
\* undoes it.
LEMMA MisuseStays ==
    ASSUME [Next]_procVars, misused \in BOOLEAN, ~misused'
    PROVE  ~misused
<1>1. CASE create_process
  BY <1>1 DEF create_process, procVars
<1>2. CASE scheduler_get_next \/ exit_process \/ wait_process \/ sleep_process
  BY <1>2 DEF scheduler_get_next, exit_process, wait_process, sleep_process, GetNextFrom
<1>3. CASE (\E p \in 0..MaxPid : kill_process(p)) \/ \E proc \in Slots : add_to_ready_queue(proc)
  BY <1>3 DEF kill_process, add_to_ready_queue
<1>4. CASE Steps
  BY <1>4 DEF Steps, EnqueueStart, WalkOn, WalkEnds, Dispatch
<1>5. CASE UNCHANGED procVars
  BY <1>5 DEF procVars
<1> QED
  BY <1>1, <1>2, <1>3, <1>4, <1>5
     DEF Next, Syscalls, sys_exit, sys_fork, sys_waitpid, sys_sleep, sys_kill, fork_process

\* Every step that leaves the queue used as it should be keeps its invariant.
LEMMA NextOrderly ==
    ASSUME OrderlyInv, [Next]_procVars, ~misused'
    PROVE  OrderlyInv'
<1>0. ~misused
  BY MisuseStays DEF OrderlyInv, AnyInv, TypeOK
<1>1. CASE UNCHANGED procVars
  <2>1. AnyInv'
    BY <1>1, NextAny DEF OrderlyInv
  <2> QED
    BY <1>1, <2>1 DEF procVars, OrderlyInv, EnqueueOK, ReadyOK, CurrentOK, Unused, Fresh, Adding
<1>2. CASE create_process
  BY <1>2, createOrderly
<1>3. CASE scheduler_get_next \/ exit_process \/ wait_process \/ sleep_process
  BY <1>3, LeaveOrderly
<1>4. CASE (\E p \in 0..MaxPid : kill_process(p)) \/ \E proc \in Slots : add_to_ready_queue(proc)
  BY <1>4, killOrderly, addOrderly
<1>5. CASE Steps
  BY <1>0, <1>5, EnqueueStartOrderly, WalkOnOrderly, WalkEndsOrderly, DispatchOrderly DEF Steps
<1> QED
  BY <1>1, <1>2, <1>3, <1>4, <1>5
     DEF Next, Syscalls, sys_exit, sys_fork, sys_waitpid, sys_sleep, sys_kill, fork_process

\* The inductive invariant of process.c under every caller.
ProcInv == AnyInv /\ (misused \/ OrderlyInv)

\* The inductive invariant holds throughout, whatever is called.
THEOREM ProcessInvariant == Spec => []ProcInv
<1>1. Init => ProcInv
  BY AnyInit, OrderlyInit DEF ProcInv
<1>2. ProcInv /\ [Next]_procVars => ProcInv'
  <2> SUFFICES ASSUME ProcInv, [Next]_procVars PROVE AnyInv' /\ (misused' \/ OrderlyInv')
    BY DEF ProcInv
  <2>1. AnyInv'
    BY NextAny DEF ProcInv
  <2>2. ASSUME ~misused' PROVE OrderlyInv'
    <3>1. ~misused
      BY <2>2, MisuseStays DEF ProcInv, AnyInv, TypeOK
    <3> QED
      BY <2>2, <3>1, NextOrderly DEF ProcInv
  <2> QED
    BY <2>1, <2>2
<1> QED
  BY <1>1, <1>2, PTL DEF Spec

\* The table, the links and the call in progress keep their types.
THEOREM ProcessTypeCorrect == Spec => []TypeOK
<1>1. ProcInv => TypeOK
  BY DEF ProcInv, AnyInv
<1> QED
  BY <1>1, ProcessInvariant, PTL

\* The list that enqueue_process and dequeue_process keep never bites its tail
\* and holds exactly the READY processes, unless a caller has killed or queued
\* a process that was not blocked.
THEOREM ProcessQueueExact == Spec => []QueueExact
<1>1. ProcInv => QueueExact
  <2> SUFFICES ASSUME OrderlyInv PROVE Chained /\ QueueIsReady
    BY DEF QueueExact, ProcInv
  <2>1. Chained
    BY ChainedSpells DEF OrderlyInv
  <2>2. QueueIsReady
    <3> SUFFICES ASSUME call = Idle, NEW s \in Slots
                 PROVE  state[s] = "READY" <=> InQueue(s)
      BY DEF QueueIsReady
    <3>1. call.op = "idle" /\ ~Adding
      BY CallFields DEF Adding
    <3> QED
      BY <3>1, ChainedSpells DEF OrderlyInv, ReadyOK
  <2> QED
    BY <2>1, <2>2
<1> QED
  BY <1>1, ProcessInvariant, PTL

\* Until the misuse a step is a step of the line, or leaves the line alone.
LEMMA StepRefines ==
    ASSUME OrderlyInv, Next, ~misused
    PROVE  Abstract!Next \/ UNCHANGED <<order, current_process>>
<1>0. ASSUME NEW p \in Slots, ~In(p, order), order' = Append(order, p), UNCHANGED current_process
      PROVE  Abstract!Next
  BY <1>0 DEF Abstract!Next, Abstract!Join, In
<1>1. CASE create_process
  BY <1>1 DEF create_process, procVars
<1>2. CASE scheduler_get_next \/ exit_process \/ wait_process \/ sleep_process
  BY <1>2 DEF scheduler_get_next, exit_process, wait_process, sleep_process, GetNextFrom
<1>3. CASE (\E p \in 0..MaxPid : kill_process(p)) \/ \E proc \in Slots : add_to_ready_queue(proc)
  BY <1>3 DEF kill_process, add_to_ready_queue
<1>4. CASE EnqueueStart
  <2>1. call.proc \in Slots /\ ~In(call.proc, order)
    BY <1>4 DEF EnqueueStart, OrderlyInv, AnyInv, CallOK, EnqueueOK, Adding
  <2> QED
    BY <1>0, <1>4, <2>1 DEF EnqueueStart, Followed
<1>5. CASE WalkOn
  BY <1>5 DEF WalkOn
<1>6. CASE WalkEnds
  <2>1. call.proc \in Slots /\ ~In(call.proc, order)
    BY <1>6 DEF WalkEnds, OrderlyInv, AnyInv, CallOK, EnqueueOK, Adding
  <2> QED
    BY <1>0, <1>6, <2>1 DEF WalkEnds, Followed
<1>7. CASE Dispatch
  BY <1>7, DispatchOrderly, SlotFacts DEF Abstract!Next, Abstract!Serve, Abstract!NobodyWaits
<1> QED
  BY <1>1, <1>2, <1>3, <1>4, <1>5, <1>6, <1>7
     DEF Next, Steps, Syscalls, sys_exit, sys_fork, sys_waitpid, sys_sleep, sys_kill, fork_process

\* The links of process.c implement a line served in order of arrival, for as
\* long as nobody kills or queues a process that is not blocked.
THEOREM ProcessImplementsRunQueue == Spec => ImplementsRunQueue
<1>1. Init => Abstract!Init
  BY SlotFacts DEF Init, Abstract!Init
<1>2. ProcInv /\ [Next]_procVars => [~misused' => Abstract!Next]_<<order, current_process>>
  <2> SUFFICES ASSUME ProcInv, [Next]_procVars, ~misused'
               PROVE  Abstract!Next \/ UNCHANGED <<order, current_process>>
    OBVIOUS
  <2>1. ~misused /\ OrderlyInv
    BY MisuseStays DEF ProcInv, AnyInv, TypeOK
  <2> QED
    BY <2>1, StepRefines DEF procVars
<1> QED
  BY <1>1, <1>2, ProcessInvariant, PTL DEF Spec, ImplementsRunQueue
==============================================================================
