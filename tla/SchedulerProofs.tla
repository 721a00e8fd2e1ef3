--------------------------- MODULE SchedulerProofs ---------------------------
(***************************************************************************)
(* Proofs about the time-slice scheduler for every set of processes and    *)
(* every caller: the head and tail pointers and the links spell the        *)
(* processes that wait, in order, until a process is added that is queued  *)
(* already or about to be put back; only then can schedule leave the       *)
(* process it takes in the queue.  And about the timer: a delay is exact   *)
(* up to two ticks, across every wrap of the clock.                        *)
(***************************************************************************)
EXTENDS Scheduler, Timer, SequenceTheorems, WellFoundedInduction, TLAPS

\* NULL is no process.
LEMMA ProcFacts ==
    ASSUME SchedulerConstants
    PROVE  /\ NULL \notin All /\ Procs \subseteq All /\ init_process \in All
           /\ init_process \notin Procs
  BY DEF SchedulerConstants, All, NULL, init_process

-----------------------------------------------------------------------------
\* The queue's pointers as a record, and the record q spelling the sequence s.
Queues == [head : All \cup {NULL}, tail : All \cup {NULL}, next : [All -> All \cup {NULL}]]
In(p, s) == \E i \in 1..Len(s) : s[i] = p
Spells(q, s) ==
    /\ q.head = IF s = <<>> THEN NULL ELSE s[1]
    /\ q.tail = IF s = <<>> THEN NULL ELSE s[Len(s)]
    /\ \A i \in 1..Len(s) : q.next[s[i]] = IF i = Len(s) THEN NULL ELSE s[i + 1]
    /\ \A i, j \in 1..Len(s) : s[i] = s[j] => i = j
    /\ \A p \in All : ~In(p, s) => q.next[p] = NULL

\* The head is NULL exactly when nothing waits.
LEMMA HeadNull ==
    ASSUME SchedulerConstants, NEW q \in Queues, NEW s \in Seq(Procs), Spells(q, s)
    PROVE  /\ q.head = NULL <=> s = <<>>
           /\ s # <<>> => q.head \in Procs /\ q.head = s[1] /\ 1 \in 1..Len(s)
<1>1. CASE s = <<>>
  BY <1>1 DEF Spells
<1>2. CASE s # <<>>
  <2>1. Len(s) >= 1 /\ s[1] \in Procs /\ q.head = s[1]
    BY <1>2 DEF Spells
  <2> QED
    BY <1>2, <2>1, ProcFacts
<1> QED
  BY <1>1, <1>2

\* add_to_ready_queue of a process that does not wait puts it last.
LEMMA AddedSpells ==
    ASSUME SchedulerConstants, NEW q \in Queues, NEW s \in Seq(Procs), Spells(q, s),
           NEW p \in Procs, ~In(p, s)
    PROVE  Added(q, p) \in Queues /\ Spells(Added(q, p), Append(s, p))
<1> DEFINE n == Len(s)
           r == Append(s, p)
           a == Added(q, p)
<1>1. /\ n \in Nat /\ p \in All /\ \A i \in 1..n : s[i] \in Procs /\ s[i] \in All /\ s[i] # p
      /\ q.next \in [All -> All \cup {NULL}] /\ q.head \in All \cup {NULL}
      /\ q.tail \in All \cup {NULL}
  BY ProcFacts DEF In, Queues
<1>2. /\ Len(r) = n + 1 /\ r[n + 1] = p /\ \A i \in 1..n : r[i] = s[i]
      /\ r # <<>>
  BY <1>1
<1> HIDE DEF r
<1>3. \A i, j \in 1..(n + 1) : r[i] = r[j] => i = j
  BY <1>1, <1>2 DEF Spells
<1>4. \A t : In(t, r) <=> In(t, s) \/ t = p
  BY <1>1, <1>2 DEF In
<1>5. CASE s = <<>>
  <2>1. q.head = NULL /\ n = 0
    BY <1>5, HeadNull
  <2>2. a = [head |-> p, tail |-> p, next |-> [q.next EXCEPT ![p] = NULL]]
    BY <2>1 DEF Added
  <2>3. a.head = p /\ a.tail = p /\ a.next = [q.next EXCEPT ![p] = NULL] /\ a \in Queues
    BY <2>2, <1>1 DEF Queues
  <2> HIDE DEF a
  <2>4. \A t \in All : a.next[t] = NULL
    BY <2>3, <2>1, <1>1, <1>5 DEF Spells, In
  <2>5. Spells(a, r)
    BY <2>1, <2>3, <2>4, <1>1, <1>2, <1>3 DEF Spells
  <2> QED
    BY <2>3, <2>5 DEF a, r
<1>6. CASE s # <<>>
  <2>1. q.head # NULL /\ q.head = s[1] /\ n >= 1 /\ q.tail = s[n] /\ q.tail \in All
    BY <1>6, <1>1, HeadNull DEF Spells
  <2> DEFINE nx == [t \in All |-> IF t = q.tail THEN p ELSE [q.next EXCEPT ![p] = NULL][t]]
  <2>2. a = [head |-> q.head, tail |-> p, next |-> nx]
    BY <2>1 DEF Added
  <2>3. /\ nx \in [All -> All \cup {NULL}]
        /\ \A t \in All : nx[t] = IF t = q.tail THEN p ELSE IF t = p THEN NULL ELSE q.next[t]
    BY <2>1, <1>1
  <2> HIDE DEF nx
  <2>4. a.head = q.head /\ a.tail = p /\ a.next = nx /\ a \in Queues
    BY <2>2, <2>3, <1>1 DEF Queues
  <2> HIDE DEF a
  <2>5. ASSUME NEW i \in 1..(n + 1)
        PROVE  a.next[r[i]] = IF i = n + 1 THEN NULL ELSE r[i + 1]
    <3>1. CASE i = n + 1
      <4>1. n \in 1..n /\ q.tail # p
        BY <2>1, <1>1
      <4> QED
        BY <3>1, <4>1, <2>3, <2>4, <1>1, <1>2
    <3>2. CASE i = n
      <4>1. n \in 1..n /\ r[i] = q.tail /\ r[i + 1] = p
        BY <3>2, <2>1, <1>1, <1>2
      <4> QED
        BY <3>2, <4>1, <2>1, <2>3, <2>4, <1>1
    <3>3. CASE i < n
      <4>1. i \in 1..n /\ i + 1 \in 1..n /\ n \in 1..n /\ i # n
        BY <3>3, <1>1
      <4>2. r[i] = s[i] /\ r[i + 1] = s[i + 1] /\ s[i] # q.tail /\ s[i] # p /\ s[i] \in All
        BY <4>1, <2>1, <1>1, <1>2 DEF Spells
      <4>3. q.next[s[i]] = s[i + 1]
        BY <4>1 DEF Spells
      <4> QED
        BY <3>3, <4>2, <4>3, <2>3, <2>4, <1>1
    <3> QED
      BY <3>1, <3>2, <3>3, <1>1
  <2>6. ASSUME NEW t \in All, ~In(t, r) PROVE a.next[t] = NULL
    <3>1. ~In(t, s) /\ t # p
      BY <2>6, <1>4
    <3>2. t # q.tail
      BY <3>1, <2>1, <1>1 DEF In
    <3> QED
      BY <3>1, <3>2, <2>3, <2>4 DEF Spells
  <2>7. r[1] = s[1]
    BY <2>1, <1>1, <1>2
  <2>8. Spells(a, r)
    BY <2>1, <2>4, <2>5, <2>6, <2>7, <1>1, <1>2, <1>3 DEF Spells
  <2> QED
    BY <2>4, <2>8 DEF a, r
<1> QED
  BY <1>5, <1>6

\* Taking the head off leaves the rest, in order.
LEMMA HeadRemoved ==
    ASSUME SchedulerConstants, NEW q \in Queues, NEW s \in Seq(Procs), Spells(q, s), s # <<>>
    PROVE  /\ RemovedHead(q) \in Queues /\ Spells(RemovedHead(q), Tail(s))
           /\ Tail(s) \in Seq(Procs) /\ \A t : In(t, Tail(s)) <=> In(t, s) /\ t # q.head
<1> DEFINE n == Len(s)
           p == s[1]
           r == Tail(s)
           a == RemovedHead(q)
<1>1. /\ n \in Nat /\ n >= 1 /\ \A i \in 1..n : s[i] \in Procs /\ s[i] \in All /\ s[i] # NULL
      /\ q.next \in [All -> All \cup {NULL}] /\ q.head \in All \cup {NULL}
      /\ q.tail \in All \cup {NULL} /\ q.head = p /\ p \in All
  BY HeadNull, ProcFacts DEF Queues
<1>2. /\ q.tail = s[n]
      /\ \A i \in 1..n : q.next[s[i]] = IF i = n THEN NULL ELSE s[i + 1]
      /\ \A i, j \in 1..n : s[i] = s[j] => i = j
      /\ \A t \in All : ~In(t, s) => q.next[t] = NULL
  BY DEF Spells
<1>3. r \in Seq(Procs) /\ Len(r) = n - 1 /\ \A i \in 1..(n - 1) : r[i] = s[i + 1]
  BY <1>1
<1>4. /\ a.head = q.next[p] /\ a.tail = (IF q.tail = p THEN NULL ELSE q.tail)
      /\ a.next = [q.next EXCEPT ![p] = NULL] /\ a \in Queues
  BY <1>1 DEF RemovedHead, Queues
<1> HIDE DEF a, p, n, r
<1>5. s[1] = p
  BY DEF p
<1>6. r = <<>> <=> n = 1
  <2>1. r \in Seq(Procs)
    BY <1>3
  <2>2. r = <<>> <=> Len(r) = 0
    BY <2>1
  <2> QED
    BY <2>2, <1>1, <1>3
<1>cases. n = 1 \/ n > 1
  BY <1>1
<1>7. \A i, j \in 1..Len(r) : r[i] = r[j] => i = j
  <2> SUFFICES ASSUME NEW i \in 1..Len(r), NEW j \in 1..Len(r), r[i] = r[j] PROVE i = j
    OBVIOUS
  <2>1. i + 1 \in 1..n /\ j + 1 \in 1..n /\ s[i + 1] = s[j + 1]
    BY <1>1, <1>3
  <2>2. i + 1 = j + 1
    BY <2>1, <1>2
  <2> QED
    BY <2>2, <1>1, <1>3
<1>8. ASSUME NEW t PROVE In(t, r) <=> In(t, s) /\ t # p
  <2>1. ASSUME In(t, r) PROVE In(t, s) /\ t # p
    <3>1. PICK i \in 1..Len(r) : r[i] = t
      BY <2>1 DEF In
    <3>2. i + 1 \in 1..n /\ s[i + 1] = t /\ i + 1 # 1 /\ 1 \in 1..n
      BY <3>1, <1>1, <1>3
    <3> QED
      BY <3>2, <1>2, <1>5 DEF In, n
  <2>2. ASSUME In(t, s), t # p PROVE In(t, r)
    <3>1. PICK i \in 1..n : s[i] = t
      BY <2>2 DEF In, n
    <3>2. i # 1
      BY <2>2, <3>1, <1>5
    <3>3. i - 1 \in 1..Len(r) /\ (i - 1) + 1 = i
      BY <3>1, <3>2, <1>1, <1>3
    <3> QED
      BY <3>1, <3>3, <1>1, <1>3 DEF In
  <2> QED
    BY <2>1, <2>2
<1>9. a.head = IF r = <<>> THEN NULL ELSE r[1]
  <2>1. 1 \in 1..n /\ (n > 1 => 1 \in 1..(n - 1))
    BY <1>1
  <2>2. q.next[p] = IF 1 = n THEN NULL ELSE s[1 + 1]
    BY <2>1, <1>2, <1>5
  <2> QED
    BY <2>1, <2>2, <1>cases, <1>3, <1>4, <1>6
<1>10. a.tail = IF r = <<>> THEN NULL ELSE r[n - 1]
  <2>1. CASE n = 1
    BY <2>1, <1>2, <1>4, <1>5, <1>6
  <2>2. CASE n > 1
    <3>1. n - 1 \in 1..(n - 1) /\ (n - 1) + 1 = n /\ 1 \in 1..n /\ n \in 1..n /\ n # 1
      BY <2>2, <1>1
    <3>2. s[n] # s[1]
      BY <3>1, <1>2
    <3> QED
      BY <3>1, <3>2, <2>2, <1>2, <1>3, <1>4, <1>5, <1>6
  <2> QED
    BY <2>1, <2>2, <1>cases
<1>11. ASSUME NEW i \in 1..(n - 1)
       PROVE  a.next[r[i]] = IF i = n - 1 THEN NULL ELSE r[i + 1]
  <2>1. /\ i + 1 \in 1..n /\ 1 \in 1..n /\ i + 1 # 1 /\ r[i] = s[i + 1]
        /\ i + 1 = n <=> i = n - 1
    BY <1>1, <1>3
  <2>2. s[i + 1] # p /\ s[i + 1] \in All
    BY <2>1, <1>1, <1>2, <1>5
  <2>3. q.next[s[i + 1]] = IF i + 1 = n THEN NULL ELSE s[(i + 1) + 1]
    BY <2>1, <1>2
  <2>4. i # n - 1 => i + 1 \in 1..(n - 1)
    BY <1>1
  <2>5. i # n - 1 => r[i + 1] = s[(i + 1) + 1]
    BY <2>4, <1>3
  <2> QED
    BY <2>1, <2>2, <2>3, <2>5, <1>1, <1>4
<1>12. ASSUME NEW t \in All, ~In(t, r) PROVE a.next[t] = NULL
  BY <1>12, <1>1, <1>2, <1>4, <1>8
<1>13. Spells(a, r)
  BY <1>3, <1>7, <1>9, <1>10, <1>11, <1>12 DEF Spells
<1> QED
  BY <1>1, <1>3, <1>4, <1>8, <1>13 DEF a, r, p

\* Appending adds one process to the line.
LEMMA InAppend ==
    ASSUME NEW s \in Seq(Procs), NEW p \in Procs
    PROVE  Append(s, p) \in Seq(Procs) /\ \A t : In(t, Append(s, p)) <=> In(t, s) \/ t = p
<1> DEFINE r == Append(s, p)
<1>1. /\ Len(r) = Len(s) + 1 /\ r[Len(s) + 1] = p /\ r \in Seq(Procs) /\ Len(s) \in Nat
      /\ \A i \in 1..Len(s) : r[i] = s[i]
  OBVIOUS
<1>2. \A i : i \in 1..(Len(s) + 1) <=> i \in 1..Len(s) \/ i = Len(s) + 1
  BY <1>1
<1> HIDE DEF r
<1>3. \A t : In(t, r) <=> In(t, s) \/ t = p
  BY <1>1, <1>2 DEF In
<1> QED
  BY <1>1, <1>3 DEF r

-----------------------------------------------------------------------------
\* The same of the variables.
LEMMA QueueSpells ==
    /\ Linked <=> Spells(Queue, order)
    /\ TypeOK => Queue \in Queues
    /\ \A p : InQueue(p) <=> In(p, order)
    /\ \A p : InQueue(p)' <=> In(p, order')
  BY DEF Linked, Spells, Queue, TypeOK, Queues, InQueue, In

\* The pointers' types, and whatever the links are, what the pointers may be.
LEMMA QueueTypes ==
    ASSUME SchedulerConstants, NEW q \in Queues
    PROVE  /\ \A p \in Procs : Added(q, p) \in Queues
           /\ q.head # NULL => RemovedHead(q) \in Queues
           /\ SetQueue(q) => /\ ready_queue' \in All \cup {NULL}
                             /\ ready_queue_tail' \in All \cup {NULL}
                             /\ next' \in [All -> All \cup {NULL}]
<1>1. /\ q.next \in [All -> All \cup {NULL}] /\ q.head \in All \cup {NULL}
      /\ q.tail \in All \cup {NULL}
  BY DEF Queues
<1>2. ASSUME NEW p \in Procs PROVE Added(q, p) \in Queues
  <2>1. p \in All
    BY ProcFacts
  <2>2. [t \in All |-> IF t = q.tail THEN p ELSE [q.next EXCEPT ![p] = NULL][t]]
          \in [All -> All \cup {NULL}]
    BY <1>1, <2>1
  <2>3. [q.next EXCEPT ![p] = NULL] \in [All -> All \cup {NULL}]
    BY <1>1, <2>1
  <2> QED
    BY <1>1, <2>1, <2>2, <2>3 DEF Added, Queues
<1>3. ASSUME q.head # NULL PROVE RemovedHead(q) \in Queues
  BY <1>1, <1>3 DEF RemovedHead, Queues
<1>4. ASSUME SetQueue(q)
      PROVE  /\ ready_queue' \in All \cup {NULL} /\ ready_queue_tail' \in All \cup {NULL}
             /\ next' \in [All -> All \cup {NULL}]
  BY <1>1, <1>4 DEF SetQueue
<1> QED
  BY <1>2, <1>3, <1>4

\* A step that sets the queue to what spells the new line keeps it exact.
LEMMA QueueSet ==
    ASSUME NEW q \in Queues, SetQueue(q), Spells(q, order')
    PROVE  Linked'
<1>1. ready_queue' = q.head /\ ready_queue_tail' = q.tail /\ next' = q.next
  BY DEF SetQueue
<1> QED
  BY <1>1, QueueSpells DEF Queues, Linked, Spells, In, InQueue

\* What holds until the queue is misused: the links are exact, a process that
\* is RUNNING, which schedule would put back, is not queued, and what schedule
\* has just taken is not queued either.
Orderly ==
    /\ Linked
    /\ \A p \in All : state[p] = "RUNNING" => ~In(p, order)
    /\ ~In(taken, order)

\* The inductive invariant.
SchedInv == SchedulerConstants /\ TypeOK /\ (misused \/ Orderly)

\* The ghost is a sequence of processes, and follows the line until the misuse.
LEMMA FollowFacts ==
    ASSUME TypeOK, NEW line \in Seq(Procs), NEW misuse \in BOOLEAN, Follow(line, misuse)
    PROVE  /\ order' \in Seq(Procs) /\ misused' \in BOOLEAN
           /\ ~misused' => order' = line /\ ~misused /\ ~misuse
<1>1. misused' = (misused \/ misuse) /\ order' = IF misused' THEN <<>> ELSE line
  BY DEF Follow
<1>2. misused' \in BOOLEAN
  BY <1>1
<1>3. CASE misused'
  BY <1>1, <1>2, <1>3
<1>4. CASE ~misused'
  <2>1. order' = line
    BY <1>1, <1>4
  <2>2. ~misused /\ ~misuse
    BY <1>1, <1>4
  <2> QED
    BY <1>2, <1>4, <2>1, <2>2
<1> QED
  BY <1>3, <1>4

\* schedule keeps the types, from any queue, states and line.
LEMMA ScheduleType ==
    ASSUME SchedulerConstants, TypeOK, NEW q \in Queues, NEW line \in Seq(Procs),
           NEW st \in [All -> {"READY", "RUNNING"}], NEW misuse \in BOOLEAN,
           schedule(q, st, line, misuse)
    PROVE  TypeOK'
<1>1. current \in All /\ cpu \in All /\ time_slice \in [All -> Nat] /\ SLICE \in Nat
  BY DEF TypeOK, SchedulerConstants
<1>2. current' = current
  BY DEF schedule
<1>3. CASE SliceLeft
  <2>1. /\ SetQueue(q) /\ state' = st /\ cpu' = cpu /\ Follow(line, misuse) /\ taken' = NULL
        /\ time_slice' = [time_slice EXCEPT ![current] = @ - 1] /\ time_slice[current] > 0
    BY <1>3 DEF schedule, SliceLeft
  <2>2. time_slice' \in [All -> Nat]
    BY <2>1, <1>1
  <2>3. order' \in Seq(Procs) /\ misused' \in BOOLEAN
    BY <2>1, FollowFacts
  <2> QED
    BY <2>1, <2>2, <2>3, <1>1, <1>2, QueueTypes DEF TypeOK
<1>4. CASE ~SliceLeft
  <2> DEFINE picked == IF q.head = NULL THEN init_process ELSE q.head
             left == IF line = <<>> THEN line ELSE Tail(line)
             q1 == IF picked = init_process THEN q ELSE RemovedHead(q)
             back == current # init_process /\ st[current] = "RUNNING"
             ord == IF back THEN Append(left, current) ELSE left
  <2>1. /\ time_slice' = [time_slice EXCEPT ![current] = SLICE]
        /\ SetQueue(IF back THEN Added(q1, current) ELSE q1)
        /\ state' = (IF back THEN [st EXCEPT ![current] = "READY"] ELSE st)
        /\ Follow(ord, misuse)
        /\ taken' = IF picked = init_process \/ (back /\ picked = current) THEN NULL ELSE picked
        /\ IF picked # current THEN switch_process(picked) ELSE UNCHANGED cpu
    BY <1>4 DEF schedule
  <2>2. picked \in All /\ left \in Seq(Procs)
    BY ProcFacts DEF Queues
  <2>3. q1 \in Queues
    BY QueueTypes
  <2> HIDE DEF picked, left, q1
  <2>4. back => current \in Procs
    BY <1>1 DEF All
  <2>5. ord \in Seq(Procs) /\ (IF back THEN Added(q1, current) ELSE q1) \in Queues
    BY <2>2, <2>3, <2>4, InAppend, QueueTypes
  <2>6. order' \in Seq(Procs) /\ misused' \in BOOLEAN
    BY <2>1, <2>5, FollowFacts
  <2>7. /\ time_slice' \in [All -> Nat] /\ state' \in [All -> {"READY", "RUNNING"}]
        /\ cpu' \in All /\ taken' \in All \cup {NULL}
    BY <2>1, <2>2, <1>1 DEF switch_process
  <2>8. /\ ready_queue' \in All \cup {NULL} /\ ready_queue_tail' \in All \cup {NULL}
        /\ next' \in [All -> All \cup {NULL}]
    BY <2>1, <2>5, QueueTypes
  <2> QED
    BY <2>6, <2>7, <2>8, <1>1, <1>2 DEF TypeOK
<1> QED
  BY <1>3, <1>4

\* schedule, from a queue that spells line, with states in which nothing queued
\* is RUNNING, wherever they come from.
LEMMA ScheduleOrderly ==
    ASSUME SchedulerConstants, TypeOK, NEW q \in Queues, NEW line \in Seq(Procs),
           NEW st \in [All -> {"READY", "RUNNING"}], NEW misuse \in BOOLEAN, Spells(q, line),
           \A p \in All : st[p] = "RUNNING" => ~In(p, line),
           schedule(q, st, line, misuse), ~misused'
    PROVE  Orderly'
<1>1. current \in All /\ NULL \notin Procs
  BY ProcFacts DEF TypeOK
<1>null. \A s \in Seq(Procs) : ~In(NULL, s)
  BY <1>1 DEF In
<1>3. CASE SliceLeft
  <2>1. SetQueue(q) /\ state' = st /\ Follow(line, misuse) /\ taken' = NULL
    BY <1>3 DEF schedule
  <2>2. order' = line
    BY <2>1, FollowFacts
  <2>3. Linked'
    BY <2>1, <2>2, QueueSet
  <2> QED
    BY <2>1, <2>2, <2>3, <1>null DEF Orderly
<1>4. CASE ~SliceLeft
  <2> DEFINE picked == IF q.head = NULL THEN init_process ELSE q.head
             left == IF line = <<>> THEN line ELSE Tail(line)
             q1 == IF picked = init_process THEN q ELSE RemovedHead(q)
             back == current # init_process /\ st[current] = "RUNNING"
             ord == IF back THEN Append(left, current) ELSE left
  <2>1. /\ SetQueue(IF back THEN Added(q1, current) ELSE q1)
        /\ state' = (IF back THEN [st EXCEPT ![current] = "READY"] ELSE st)
        /\ Follow(ord, misuse)
        /\ taken' = IF picked = init_process \/ (back /\ picked = current) THEN NULL ELSE picked
    BY <1>4 DEF schedule
  <2>2. /\ q1 \in Queues /\ left \in Seq(Procs) /\ Spells(q1, left)
        /\ \A t : In(t, left) => In(t, line)
        /\ picked # init_process => ~In(picked, left)
    <3>1. CASE line = <<>>
      <4>1. q.head = NULL /\ picked = init_process
        BY <3>1, HeadNull
      <4> QED
        BY <4>1, <3>1
    <3>2. CASE line # <<>>
      <4>1. q.head # NULL /\ q.head \in Procs
        BY <3>2, HeadNull, ProcFacts
      <4>2. picked = q.head /\ picked # init_process
        BY <4>1, ProcFacts
      <4>3. left = Tail(line) /\ q1 = RemovedHead(q)
        BY <3>2, <4>2
      <4> QED
        BY <4>2, <4>3, <3>2, HeadRemoved
    <3> QED
      BY <3>1, <3>2
  <2> HIDE DEF picked, left, q1
  <2>3. CASE back
    <3>1. current \in Procs /\ ~In(current, left)
      BY <2>3, <2>2, <1>1 DEF All
    <3>2. Added(q1, current) \in Queues /\ Spells(Added(q1, current), Append(left, current))
      BY <3>1, <2>2, AddedSpells
    <3>3. /\ SetQueue(Added(q1, current)) /\ Follow(Append(left, current), misuse)
          /\ state' = [st EXCEPT ![current] = "READY"]
      BY <2>1, <2>3
    <3>4. /\ order' = Append(left, current) /\ order' \in Seq(Procs)
          /\ \A t : In(t, order') <=> In(t, left) \/ t = current
      <4>1. /\ Append(left, current) \in Seq(Procs)
            /\ \A t : In(t, Append(left, current)) <=> In(t, left) \/ t = current
        BY <3>1, <2>2, InAppend
      <4>2. order' = Append(left, current)
        BY <3>3, <4>1, FollowFacts
      <4> QED
        BY <4>1, <4>2
    <3>5. Linked'
      BY <3>2, <3>3, <3>4, QueueSet
    <3>6. ~In(taken', order')
      <4>1. CASE taken' = NULL
        BY <4>1, <3>4, <1>null
      <4>2. CASE taken' # NULL
        BY <4>2, <3>4, <2>1, <2>2, <2>3
      <4> QED
        BY <4>1, <4>2
    <3>7. \A p \in All : state'[p] = "RUNNING" => ~In(p, order')
      BY <3>3, <3>4, <2>2, <1>1
    <3> QED
      BY <3>5, <3>6, <3>7 DEF Orderly
  <2>4. CASE ~back
    <3>1. SetQueue(q1) /\ Follow(left, misuse) /\ state' = st
      BY <2>1, <2>4
    <3>2. order' = left
      BY <3>1, <2>2, FollowFacts
    <3>3. Linked'
      BY <3>1, <3>2, <2>2, QueueSet
    <3>4. ~In(taken', order')
      BY <3>2, <2>1, <2>2, <1>null
    <3> QED
      BY <3>1, <3>2, <3>3, <3>4, <2>2 DEF Orderly
  <2> QED
    BY <2>3, <2>4
<1> QED
  BY <1>3, <1>4

-----------------------------------------------------------------------------
\* init_scheduler leaves an empty queue.
LEMMA SchedInit == SchedulerConstants /\ Init => SchedInv
<1> SUFFICES ASSUME SchedulerConstants, Init PROVE SchedInv
  OBVIOUS
<1>1. TypeOK
  <2>1. order \in Seq(Procs)
    BY DEF Init
  <2>2. misused \in BOOLEAN
    BY DEF Init
  <2> QED
    BY <2>1, <2>2, ProcFacts DEF Init, TypeOK, SchedulerConstants
<1>2. Orderly
  BY DEF Init, Orderly, Linked, In, InQueue
<1> QED
  BY <1>1, <1>2 DEF SchedInv

\* add_to_ready_queue.
LEMMA AddInv ==
    ASSUME SchedInv, NEW p \in Procs, add_to_ready_queue(p)
    PROVE  SchedInv'
<1> DEFINE misuse == InQueue(p) \/ state[p] = "RUNNING"
<1>1. /\ SetQueue(Added(Queue, p)) /\ Follow(Append(order, p), misuse) /\ taken' = NULL
      /\ UNCHANGED <<current, cpu, state, time_slice>>
  BY DEF add_to_ready_queue
<1>2. /\ Queue \in Queues /\ order \in Seq(Procs) /\ TypeOK /\ SchedulerConstants
      /\ misuse \in BOOLEAN
  BY QueueSpells DEF SchedInv, TypeOK
<1>3. Added(Queue, p) \in Queues
  BY <1>2, QueueTypes
<1>4. /\ Append(order, p) \in Seq(Procs)
      /\ \A t : In(t, Append(order, p)) <=> In(t, order) \/ t = p
  BY <1>2, InAppend
<1>5. /\ order' \in Seq(Procs) /\ misused' \in BOOLEAN
      /\ ~misused' => order' = Append(order, p) /\ ~misused /\ ~misuse
  BY <1>1, <1>2, <1>4, FollowFacts
<1>6. /\ ready_queue' \in All \cup {NULL} /\ ready_queue_tail' \in All \cup {NULL}
      /\ next' \in [All -> All \cup {NULL}]
  BY <1>1, <1>2, <1>3, QueueTypes
<1>7. TypeOK'
  BY <1>1, <1>2, <1>5, <1>6 DEF TypeOK
<1>8. ASSUME ~misused' PROVE Orderly'
  <2>1. /\ Orderly /\ order' = Append(order, p) /\ ~In(p, order) /\ state[p] # "RUNNING"
    BY <1>5, <1>8, QueueSpells DEF SchedInv
  <2>2. Spells(Queue, order)
    BY <2>1, QueueSpells DEF Orderly
  <2>3. Spells(Added(Queue, p), order')
    BY <1>2, <2>1, <2>2, AddedSpells
  <2>4. Linked'
    BY <1>1, <1>3, <2>3, QueueSet
  <2>5. p # NULL /\ ~In(NULL, order)
    BY <1>2, ProcFacts DEF In
  <2> QED
    BY <1>1, <1>4, <2>1, <2>4, <2>5 DEF Orderly
<1> QED
  BY <1>2, <1>7, <1>8 DEF SchedInv, SchedulerConstants

\* A timer tick.
LEMMA TickInv ==
    ASSUME SchedInv, timer_tick_handler
    PROVE  SchedInv'
<1>1. /\ Queue \in Queues /\ order \in Seq(Procs) /\ TypeOK /\ SchedulerConstants
      /\ state \in [All -> {"READY", "RUNNING"}] /\ FALSE \in BOOLEAN
  BY QueueSpells DEF SchedInv, TypeOK
<1>2. schedule(Queue, state, order, FALSE)
  BY DEF timer_tick_handler
<1>3. TypeOK'
  BY <1>1, <1>2, ScheduleType
<1>4. ASSUME ~misused' PROVE Orderly'
  <2>1. ~misused
    <3>1. \E line : Follow(line, FALSE)
      BY <1>2 DEF schedule
    <3> QED
      BY <3>1, <1>4 DEF Follow
  <2>2. Spells(Queue, order) /\ \A p \in All : state[p] = "RUNNING" => ~In(p, order)
    BY <2>1, QueueSpells DEF SchedInv, Orderly
  <2> QED
    BY <1>1, <1>2, <1>4, <2>2, ScheduleOrderly
<1> QED
  BY <1>1, <1>3, <1>4 DEF SchedInv, SchedulerConstants

\* yield, in any state of the queue.
LEMMA YieldInv ==
    ASSUME SchedInv, yield
    PROVE  SchedInv'
<1>1. /\ Queue \in Queues /\ order \in Seq(Procs) /\ TypeOK /\ SchedulerConstants
      /\ state \in [All -> {"READY", "RUNNING"}] /\ current \in All
  BY QueueSpells DEF SchedInv, TypeOK
<1>2. CASE current = init_process
  BY <1>2, TickInv DEF yield, timer_tick_handler
<1>3. CASE current # init_process
  <2> DEFINE q == Added(Queue, current)
             st == [state EXCEPT ![current] = "READY"]
             line == Append(order, current)
             misuse == InQueue(current)
  <2>1. current \in Procs
    BY <1>1, <1>3 DEF All
  <2>2. q \in Queues /\ misuse \in BOOLEAN /\ st \in [All -> {"READY", "RUNNING"}]
    <3>1. misuse \in BOOLEAN
      BY DEF InQueue
    <3> QED
      BY <3>1, <2>1, <1>1, QueueTypes
  <2>3. line \in Seq(Procs) /\ \A t : In(t, line) <=> In(t, order) \/ t = current
    BY <2>1, <1>1, InAppend
  <2>4. schedule(q, st, line, misuse)
    BY <1>3 DEF yield
  <2>5. \E l : Follow(l, misuse)
    BY <2>4 DEF schedule
  <2>6. ASSUME ~misused' PROVE Spells(q, line) /\ \A p \in All : st[p] = "RUNNING" => ~In(p, line)
    <3>1. ~misused /\ ~InQueue(current)
      BY <2>5, <2>6 DEF Follow
    <3>2. /\ Spells(Queue, order) /\ \A p \in All : state[p] = "RUNNING" => ~In(p, order)
          /\ ~In(current, order)
      BY <3>1, QueueSpells DEF SchedInv, Orderly
    <3>3. Spells(q, line)
      BY <3>2, <2>1, <1>1, AddedSpells
    <3> QED
      BY <3>2, <3>3, <2>3, <1>1
  <2> HIDE DEF q, st, line, misuse
  <2>7. TypeOK'
    BY <2>2, <2>3, <2>4, <1>1, ScheduleType
  <2>8. ASSUME ~misused' PROVE Orderly'
    BY <2>2, <2>3, <2>4, <2>6, <2>8, <1>1, ScheduleOrderly
  <2> QED
    BY <1>1, <2>7, <2>8 DEF SchedInv, SchedulerConstants
<1> QED
  BY <1>2, <1>3

\* set_process_priority touches a slice only.
LEMMA PriorityInv ==
    ASSUME SchedInv, NEW p \in Procs, NEW priority \in Prios, set_process_priority(p, priority)
    PROVE  SchedInv'
<1>1. /\ priority * PRIO_SLICE \in Nat /\ SchedulerConstants /\ TypeOK
      /\ UNCHANGED <<ready_queue, ready_queue_tail, next, current, cpu, state, order, misused>>
      /\ taken' = NULL
  BY DEF SchedInv, SchedulerConstants, set_process_priority
<1>2. time_slice' \in [All -> Nat]
  BY <1>1 DEF TypeOK, set_process_priority
<1>3. TypeOK'
  BY <1>1, <1>2 DEF TypeOK
<1>4. ASSUME ~misused' PROVE Orderly'
  <2>1. Orderly
    BY <1>1, <1>4 DEF SchedInv
  <2>2. ~In(NULL, order)
    BY <1>1, ProcFacts DEF In, TypeOK
  <2> QED
    BY <1>1, <2>1, <2>2 DEF Orderly, Linked, InQueue
<1> QED
  BY <1>1, <1>3, <1>4 DEF SchedInv, SchedulerConstants

\* Every step of every caller keeps the invariant.
LEMMA SchedStep == SchedInv /\ [Next]_schedVars => SchedInv'
<1> SUFFICES ASSUME SchedInv, [Next]_schedVars PROVE SchedInv'
  OBVIOUS
<1>1. CASE Next
  BY <1>1, AddInv, TickInv, YieldInv, PriorityInv DEF Next
<1>2. CASE UNCHANGED schedVars
  BY <1>2 DEF schedVars, SchedInv, SchedulerConstants, TypeOK, Orderly, Linked, InQueue
<1> QED
  BY <1>1, <1>2

\* The invariant holds in every state the scheduler reaches.
THEOREM SchedInvariant == SchedulerConstants /\ Spec => []SchedInv
  BY SchedInit, SchedStep, PTL DEF Spec

\* The head, the tail and the links of scheduler.c's ready queue spell the
\* processes added and not yet taken, in order and each once, under every caller
\* of add_to_ready_queue, yield, schedule and set_process_priority, until one
\* adds a process that is queued already or that schedule will put back.
THEOREM SchedQueueExact == SchedulerConstants /\ Spec => []QueueExact
<1>1. SchedInv => QueueExact
  BY DEF SchedInv, Orderly, QueueExact
<1> QED
  BY <1>1, SchedInvariant, PTL

\* Such an addition, which a second yield within a slice is, is the only way in
\* which schedule can leave the process it takes at the head of the queue.
THEOREM SchedTakenLeaves == SchedulerConstants /\ Spec => [](misused \/ TakenLeavesQueue)
<1>1. SchedInv => misused \/ TakenLeavesQueue
  <2> SUFFICES ASSUME SchedInv, ~misused, taken # NULL, ready_queue = taken PROVE FALSE
    BY DEF TakenLeavesQueue
  <2>1. Spells(Queue, order) /\ Queue \in Queues /\ order \in Seq(Procs) /\ ~In(taken, order)
        /\ SchedulerConstants /\ Queue.head = taken
    BY QueueSpells DEF SchedInv, Orderly, TypeOK, Queue
  <2>2. order # <<>> /\ taken = order[1] /\ 1 \in 1..Len(order)
    BY <2>1, HeadNull
  <2> QED
    BY <2>1, <2>2 DEF In
<1> QED
  BY <1>1, SchedInvariant, PTL

-----------------------------------------------------------------------------
(* The timer that drives the scheduler. *)

\* Quotient and remainder.
LEMMA DivMod ==
    ASSUME NEW n \in Int, NEW m \in Nat \ {0}
    PROVE  n \div m \in Int /\ n % m \in 0..(m - 1) /\ n % m = n - m * (n \div m)
<1>1. n \div m \in Int /\ n % m \in 0..(m - 1)
  OBVIOUS
<1>2. n % m = n - m * (n \div m)
  OBVIOUS
<1> QED
  BY <1>1, <1>2

\* Only the zeroth multiple of m is that small.
LEMMA SmallMultiple ==
    ASSUME NEW m \in Nat \ {0}, NEW d \in Int, m * d < m, m * d > 0 - m
    PROVE  d = 0
<1>1. d >= 1 => m * d >= m
  OBVIOUS
<1>2. d <= 0 - 1 => m * d <= 0 - m
  OBVIOUS
<1> QED
  BY <1>1, <1>2

\* The remainder is the one number below m that differs from n by a multiple of m.
LEMMA ModUnique ==
    ASSUME NEW n \in Int, NEW m \in Nat \ {0}, NEW k \in Int, NEW w \in 0..(m - 1), n = m * k + w
    PROVE  n % m = w
<1> DEFINE q == n \div m
           r == n % m
<1>1. q \in Int /\ r \in 0..(m - 1) /\ r = n - m * q
  BY DivMod
<1> HIDE DEF q, r
<1>2. m * (k - q) = r - w
  BY <1>1
<1> DEFINE d == k - q
<1>3. d \in Int /\ m * d < m /\ m * d > 0 - m
  BY <1>1, <1>2
<1> HIDE DEF d
<1>4. d = 0
  BY <1>3, SmallMultiple
<1>5. m * (k - q) = 0
  BY <1>4 DEF d
<1>6. r = w
  BY <1>1, <1>2, <1>5
<1> QED
  BY <1>6 DEF r

-----------------------------------------------------------------------------
\* delay_ms looked at the clock k ticks, and those of lag, ago: the time was not up.
Looked(k) == \E l \in Nat : waited = l + k + lag /\ l * ms_per_tick < ms

\* Ticks and milliseconds: the time since start is the ticks waited for, up to
\* wraps of the counter and of the product.
Since(t, p, s, w, W) == \E q \in Int : t * p = s + w * p + q * W
InStep == Since(tick_count, ms_per_tick, start, waited, WORD)

\* The inductive invariant: ticks have their length from init_timer on, and a delay
\* in progress has looked at the clock at most two ticks ago, or not yet at all.
ClockTypes ==
    /\ tick_count \in Nat /\ ms_per_tick \in Nat /\ waited \in Nat /\ lag \in {0, 1} /\ start \in Int
    /\ pc \in {"idle", "check", "hlt", "asleep"}
    /\ frequency = 0 => pc = "idle"
    /\ frequency # 0 => \E freq \in Freqs : ms_per_tick = TickOf(freq)
DelayGoing ==
    pc # "idle" =>
        /\ ms \in Delays /\ InStep
        /\ IF pc = "check" THEN waited = lag \/ Looked(1) ELSE Looked(0)
ClockInv == ClockTypes /\ DelayGoing

\* The constants, as the arithmetic needs them.
LEMMA ClockSizes ==
    /\ WORD \in Nat \ {0} /\ Delays \subseteq Nat
    /\ \A freq \in Freqs : TickOf(freq) \in Nat
    /\ \A freq \in Freqs, m \in Delays :
          TickOf(freq) >= 1 /\ m + 2 * TickOf(freq) <= WORD
<1>1. WORD \in Nat \ {0} /\ Delays \subseteq Nat /\ SECOND \in Nat /\ DEFAULT \in Nat \ {0} /\ Freqs \subseteq Nat
  BY TimerAssumption
<1>2. ASSUME NEW freq \in Freqs PROVE TickOf(freq) \in Nat
  <2> DEFINE f == IF freq = 0 THEN DEFAULT ELSE freq
  <2>1. f \in Nat \ {0}
    BY <1>1
  <2> HIDE DEF f
  <2>2. SECOND \div f \in Nat
    BY <1>1, <2>1
  <2> QED
    BY <2>2 DEF f, TickOf
<1> QED
  BY <1>1, <1>2, DelayAssumption

\* While a delay is going on its ticks do not fill the word.
LEMMA DelaySizes ==
    ASSUME ClockInv, pc # "idle"
    PROVE  /\ ms_per_tick \in Nat /\ ms_per_tick >= 1 /\ ms \in Nat /\ ms + 2 * ms_per_tick <= WORD
           /\ frequency # 0
<1>1. frequency # 0 /\ ms \in Delays
  BY DEF ClockInv, ClockTypes, DelayGoing
<1>2. PICK freq \in Freqs : ms_per_tick = TickOf(freq)
  BY <1>1 DEF ClockInv, ClockTypes
<1> QED
  BY <1>1, <1>2, ClockSizes

\* One tick more, of the counter and of the ticks waited for.
LEMMA TickAdds ==
    ASSUME NEW t \in Nat, NEW p \in Nat, NEW W \in Nat \ {0}, NEW s \in Int, NEW w \in Nat,
           Since(t, p, s, w, W)
    PROVE  Since((t + 1) % W, p, s, w + 1, W)
<1>0. PICK q \in Int : t * p = s + w * p + q * W
  BY DEF Since
<1> DEFINE r == (t + 1) \div W
           m == (t + 1) % W
<1>1. r \in Int /\ m \in 0..(W - 1) /\ m = (t + 1) - W * r
  <2>1. t + 1 \in Int
    OBVIOUS
  <2> QED
    BY <2>1, DivMod
<1> HIDE DEF r, m
<1>2. m * p = (t + 1) * p - W * r * p
  BY <1>1
<1>3. (t + 1) * p = t * p + p /\ (w + 1) * p = w * p + p
  OBVIOUS
<1>4. (q - r * p) * W = q * W - W * r * p /\ q - r * p \in Int
  BY <1>1
<1> DEFINE tp == t * p
           wp == w * p
           qW == q * W
           wrap == W * r * p
<1>5. tp \in Int /\ wp \in Int /\ qW \in Int /\ wrap \in Int
  BY <1>1
<1>6. m * p = (tp + p) - wrap /\ tp = s + wp + qW
  BY <1>0, <1>2, <1>3
<1>7. s + (w + 1) * p + (q - r * p) * W = s + (wp + p) + (qW - wrap)
  BY <1>3, <1>4
<1> HIDE DEF tp, wp, qW, wrap
<1>8. (tp + p) - wrap = s + (wp + p) + (qW - wrap)
  BY <1>5, <1>6
<1>9. m * p = s + (w + 1) * p + (q - r * p) * W
  BY <1>6, <1>7, <1>8
<1> QED
  BY <1>1, <1>4, <1>9 DEF m, Since

\* The difference of two times, in unsigned arithmetic ...
Difference(t, p, s, W) == (((t * p) % W) - s) % W

\* ... is the time between them.
LEMMA Elapsed ==
    ASSUME NEW t \in Nat, NEW p \in Nat, NEW W \in Nat \ {0}, NEW s \in Int, NEW w \in Nat,
           NEW e \in 0..(W - 1), e = w * p, Since(t, p, s, w, W)
    PROVE  Difference(t, p, s, W) = e
<1>0. PICK q \in Int : t * p = s + w * p + q * W
  BY DEF Since
<1> DEFINE n == t * p
           k == n \div W
           g == n % W
           wp == w * p
<1>1. n \in Int /\ wp \in Nat
  OBVIOUS
<1>2. k \in Int /\ g \in 0..(W - 1) /\ g = n - W * k
  BY <1>1, DivMod
<1>3. n = s + wp + q * W /\ wp \in 0..(W - 1)
  BY <1>0, <1>1
<1>4. q * W = W * q
  OBVIOUS
<1> HIDE DEF n, k, g, wp
<1>5. W * (q - k) = W * q - W * k
  BY <1>2
<1> DEFINE qW == W * q
           kW == W * k
<1>6. qW \in Int /\ kW \in Int
  BY <1>2
<1>7. g = n - kW /\ n = s + wp + qW
  BY <1>2, <1>3, <1>4
<1>8. W * (q - k) = qW - kW
  BY <1>5
<1> HIDE DEF qW, kW
<1>9. g - s = W * (q - k) + wp
  BY <1>1, <1>6, <1>7, <1>8
<1>10. g - s \in Int /\ q - k \in Int
  BY <1>2
<1>11. (g - s) % W = wp
  BY <1>3, <1>9, <1>10, ModUnique
<1> QED
  BY <1>11 DEF g, n, wp, Difference

\* A product with a tick's length.
LEMMA Times ==
    ASSUME NEW l \in Nat, NEW p \in Nat
    PROVE  l * p \in Nat /\ (l + 1) * p = l * p + p /\ (p >= 1 => l <= l * p)
<1>1. l * p \in Nat /\ (l + 1) * p = l * p + p
  OBVIOUS
<1>2. ASSUME p >= 1 PROVE l <= l * p
  <2>1. p - 1 \in Nat /\ l * (p - 1) \in Nat
    BY <1>2
  <2>2. l * p = l + l * (p - 1)
    OBVIOUS
  <2> DEFINE a == l * (p - 1)
  <2>3. a \in Nat /\ l * p = l + a
    BY <2>1, <2>2
  <2> HIDE DEF a
  <2> QED
    BY <2>3
<1> QED
  BY <1>1, <1>2

\* A delay has waited for fewer ticks than fit in a word, and when it looks at the
\* clock for less than two ticks beyond what it was asked for.
LEMMA DelayBounds ==
    ASSUME ClockInv, pc # "idle"
    PROVE  /\ waited \in Nat /\ waited < WORD
           /\ waited * ms_per_tick \in Nat
           /\ pc = "check" => waited * ms_per_tick < ms + 2 * ms_per_tick
<1>1. /\ ms_per_tick \in Nat /\ ms_per_tick >= 1 /\ ms \in Nat /\ ms + 2 * ms_per_tick <= WORD
      /\ WORD \in Nat /\ waited \in Nat /\ lag \in {0, 1}
  BY DelaySizes, ClockSizes DEF ClockInv, ClockTypes
<1> DEFINE p == ms_per_tick
           wp == waited * p
<1>2. wp \in Nat /\ (p >= 1 => waited <= wp)
  BY <1>1, Times
<1>3. CASE pc = "check" /\ waited = lag
  <2>1. wp = 0 \/ wp = p
    BY <1>1, <1>3
  <2>2. waited = 0 \/ waited = 1
    BY <1>1, <1>3
  <2> HIDE DEF wp
  <2>3. wp < ms + 2 * p /\ waited < WORD
    BY <1>1, <1>3, <2>1, <2>2
  <2> QED
    BY <1>1, <1>2, <1>3, <2>3 DEF wp
<1>4. CASE pc = "check" /\ Looked(1)
  <2>1. PICK l \in Nat : waited = l + 1 + lag /\ l * p < ms
    BY <1>4 DEF Looked
  <2> DEFINE lp == l * p
  <2>2. lp \in Nat /\ l <= lp /\ (l + 1) * p = lp + p /\ ((l + 1) + 1) * p = (l + 1) * p + p
    BY <1>1, Times
  <2>3. wp = lp + p \/ wp = (lp + p) + p
    <3>1. waited = l + 1 \/ waited = (l + 1) + 1
      BY <1>1, <2>1
    <3> QED
      BY <2>2, <3>1
  <2>4. lp < ms
    BY <2>1
  <2> HIDE DEF lp, wp
  <2>5. wp < ms + 2 * p
    BY <1>1, <2>2, <2>3, <2>4
  <2>6. waited < WORD
    BY <1>1, <2>1, <2>2, <2>4
  <2> QED
    BY <1>1, <1>2, <1>4, <2>5, <2>6 DEF wp
<1>5. CASE pc # "check"
  <2>1. Looked(0)
    BY <1>5 DEF ClockInv, DelayGoing
  <2>2. PICK l \in Nat : waited = l + 0 + lag /\ l * p < ms
    BY <2>1 DEF Looked
  <2> DEFINE lp == l * p
  <2>3. lp \in Nat /\ l <= lp
    BY <1>1, Times
  <2>4. lp < ms
    BY <2>2
  <2> HIDE DEF lp
  <2>5. waited < WORD
    BY <1>1, <2>2, <2>3, <2>4
  <2> QED
    BY <1>1, <1>2, <1>5, <2>5
<1>6. pc = "check" => waited = lag \/ Looked(1)
  BY DEF ClockInv, DelayGoing
<1> QED
  BY <1>3, <1>4, <1>5, <1>6

-----------------------------------------------------------------------------
\* Nothing has ticked.
LEMMA ClockInit == TimerInit => ClockInv
  BY DEF TimerInit, ClockInv, ClockTypes, DelayGoing

\* A tick's length is set once, before any delay.
LEMMA InitTimerStep ==
    ASSUME ClockInv, NEW freq \in Freqs, init_timer(freq)
    PROVE  ClockInv'
<1>1. /\ frequency = 0 /\ ms_per_tick' = TickOf(freq) /\ TickOf(freq) \in Nat
      /\ UNCHANGED <<tick_count, pc, start, ms, waited, lag>>
  BY ClockSizes DEF init_timer
<1>2. frequency' # 0
  BY TimerAssumption DEF init_timer
<1>3. pc = "idle" /\ pc' = "idle"
  BY <1>1 DEF ClockInv, ClockTypes
<1>4. ClockTypes'
  BY <1>1, <1>2, <1>3 DEF ClockInv, ClockTypes
<1> QED
  BY <1>3, <1>4 DEF ClockInv, DelayGoing

\* The counter stays a natural number.
LEMMA CountNat ==
    ASSUME ClockInv
    PROVE  (tick_count + 1) % WORD \in Nat
<1>1. tick_count + 1 \in Int /\ WORD \in Nat \ {0}
  BY ClockSizes DEF ClockInv, ClockTypes
<1> QED
  BY <1>1

\* A tick with no delay going on, from the chip or from yield.
LEMMA IdleTickStep ==
    ASSUME ClockInv, pc = "idle", pc' = "idle", frequency # 0,
           tick_count' = (tick_count + 1) % WORD, waited' \in Nat, lag' \in {0, 1},
           UNCHANGED <<frequency, ms_per_tick, start>>
    PROVE  ClockInv'
<1>1. tick_count' \in Nat
  BY CountNat
<1> QED
  BY <1>1 DEF ClockInv, ClockTypes, DelayGoing

\* A tick during a delay: one more waited for, and it ends a hlt.
LEMMA CallbackStep ==
    ASSUME ClockInv, timer_callback
    PROVE  ClockInv'
<1>1. /\ frequency # 0 /\ tick_count' = (tick_count + 1) % WORD
      /\ UNCHANGED <<frequency, ms_per_tick, start, ms>>
      /\ pc \in {"idle", "check", "hlt", "asleep"} /\ lag \in {0, 1} /\ waited \in Nat
      /\ tick_count \in Nat /\ ms_per_tick \in Nat /\ start \in Int
  BY DEF timer_callback, Interrupt, ClockInv, ClockTypes
<1>2. CASE pc = "idle"
  <2>1. pc' = "idle" /\ waited' = 0 /\ lag' = lag
    BY <1>2 DEF timer_callback, Interrupt
  <2> QED
    BY <1>1, <1>2, <2>1, IdleTickStep
<1>3. CASE pc # "idle"
  <2>1. waited < WORD
    BY <1>3, DelayBounds
  <2>2. waited' = waited + 1
    BY <1>3, <2>1 DEF timer_callback, Interrupt
  <2>3. InStep'
    <3>1. Since(tick_count, ms_per_tick, start, waited, WORD)
      BY <1>3 DEF ClockInv, DelayGoing, InStep
    <3>2. Since((tick_count + 1) % WORD, ms_per_tick, start, waited + 1, WORD)
      <4>1. WORD \in Nat \ {0}
        BY ClockSizes
      <4> QED
        BY <1>1, <3>1, <4>1, TickAdds, Zenon
    <3> QED
      BY <1>1, <2>2, <3>2 DEF InStep
  <2>4. CASE pc = "asleep"
    <3>1. pc' = "check" /\ lag' = lag
      BY <2>4 DEF timer_callback, Interrupt
    <3>2. Looked(0)
      BY <2>4 DEF ClockInv, DelayGoing
    <3>3. PICK l \in Nat : waited = l + 0 + lag /\ l * ms_per_tick < ms
      BY <3>2 DEF Looked
    <3>4. waited' = l + 1 + lag'
      BY <1>1, <2>2, <3>1, <3>3
    <3>5. Looked(1)'
      BY <1>1, <3>3, <3>4 DEF Looked
    <3>6. ClockTypes'
      BY <1>1, <2>2, <3>1, CountNat DEF ClockInv, ClockTypes
    <3> QED
      BY <1>1, <2>3, <2>4, <3>1, <3>5, <3>6 DEF ClockInv, DelayGoing
  <2>5. CASE pc = "hlt"
    <3>1. pc' = "hlt" /\ lag = 0 /\ lag' = 1
      BY <2>5 DEF timer_callback, Interrupt
    <3>2. Looked(0)
      BY <2>5 DEF ClockInv, DelayGoing
    <3>3. PICK l \in Nat : waited = l + 0 + lag /\ l * ms_per_tick < ms
      BY <3>2 DEF Looked
    <3>4. waited' = l + 0 + lag'
      BY <1>1, <2>2, <3>1, <3>3
    <3>5. Looked(0)'
      BY <1>1, <3>3, <3>4 DEF Looked
    <3>6. ClockTypes'
      BY <1>1, <2>2, <3>1, CountNat DEF ClockInv, ClockTypes
    <3> QED
      BY <1>1, <2>3, <2>5, <3>1, <3>5, <3>6 DEF ClockInv, DelayGoing
  <2>6. CASE pc = "check"
    <3>1. pc' = "check" /\ lag = 0 /\ lag' = 1
      BY <2>6 DEF timer_callback, Interrupt
    <3>2. waited' = lag' \/ Looked(1)'
      <4>1. CASE waited = lag
        BY <2>2, <3>1, <4>1
      <4>2. CASE Looked(1)
        <5>1. PICK l \in Nat : waited = l + 1 + lag /\ l * ms_per_tick < ms
          BY <4>2 DEF Looked
        <5>2. waited' = l + 1 + lag'
          BY <1>1, <2>2, <3>1, <5>1
        <5> QED
          BY <1>1, <5>1, <5>2 DEF Looked
      <4> QED
        BY <2>6, <4>1, <4>2 DEF ClockInv, DelayGoing
    <3>3. ClockTypes'
      BY <1>1, <2>2, <3>1, CountNat DEF ClockInv, ClockTypes
    <3> QED
      BY <1>1, <2>3, <2>6, <3>1, <3>2, <3>3 DEF ClockInv, DelayGoing
  <2> QED
    BY <1>1, <1>3, <2>4, <2>5, <2>6
<1> QED
  BY <1>2, <1>3

\* yield's own tick comes with no delay going on.
LEMMA YieldStep ==
    ASSUME ClockInv, process_yield
    PROVE  ClockInv'
<1>1. /\ pc = "idle" /\ pc' = "idle" /\ frequency # 0 /\ tick_count' = (tick_count + 1) % WORD
      /\ UNCHANGED <<frequency, ms_per_tick, start, waited, lag>>
  BY DEF process_yield
<1>2. waited' \in Nat /\ lag' \in {0, 1}
  BY <1>1 DEF ClockInv, ClockTypes
<1> QED
  BY <1>1, <1>2, IdleTickStep

\* A delay begins at the time it reads.
LEMMA DelayStep ==
    ASSUME ClockInv, NEW m \in Delays, delay_ms(m)
    PROVE  ClockInv'
<1>1. /\ frequency # 0 /\ pc' = "check" /\ ms' = m /\ waited' = 0 /\ lag' = 0
      /\ start' = (tick_count * ms_per_tick) % WORD
      /\ UNCHANGED <<frequency, ms_per_tick, tick_count>>
      /\ tick_count \in Nat /\ ms_per_tick \in Nat /\ WORD \in Nat \ {0}
  BY ClockSizes DEF delay_ms, get_time_ms, ClockInv, ClockTypes
<1> DEFINE n == tick_count * ms_per_tick
           k == n \div WORD
           g == n % WORD
<1>2. n \in Int
  BY <1>1
<1>3. k \in Int /\ g \in 0..(WORD - 1) /\ g = n - WORD * k
  BY <1>1, <1>2, DivMod
<1>4. WORD * k = k * WORD /\ WORD * k \in Int /\ 0 * ms_per_tick = 0
  BY <1>1, <1>3
<1> HIDE DEF n, k, g
<1>5. n = g + 0 + k * WORD
  BY <1>2, <1>3, <1>4
<1>6. InStep'
  BY <1>1, <1>3, <1>4, <1>5 DEF InStep, Since, n, g
<1>7. start' \in Int
  BY <1>1, <1>3 DEF n, g
<1>8. ClockTypes'
  BY <1>1, <1>7 DEF ClockInv, ClockTypes
<1> QED
  BY <1>1, <1>6, <1>8 DEF ClockInv, DelayGoing

\* The loop's condition compares the ticks waited for with the delay.
LEMMA NotYetIs ==
    ASSUME ClockInv, pc = "check"
    PROVE  /\ NotYet <=> waited * ms_per_tick < ms
           /\ waited * ms_per_tick \in Nat /\ ms \in Nat
           /\ waited * ms_per_tick < ms + 2 * ms_per_tick
<1>1. pc # "idle"
  OBVIOUS
<1>2. /\ waited \in Nat /\ waited * ms_per_tick \in Nat /\ waited * ms_per_tick < ms + 2 * ms_per_tick
      /\ ms_per_tick \in Nat /\ ms \in Nat /\ ms + 2 * ms_per_tick <= WORD
      /\ WORD \in Nat \ {0} /\ tick_count \in Nat /\ start \in Int
  BY <1>1, DelayBounds, DelaySizes, ClockSizes DEF ClockInv, ClockTypes
<1>3. Since(tick_count, ms_per_tick, start, waited, WORD)
  BY <1>1 DEF ClockInv, DelayGoing, InStep
<1>4. waited * ms_per_tick < WORD
  <2> DEFINE wp == waited * ms_per_tick
  <2>1. wp \in Nat /\ wp < ms + 2 * ms_per_tick
    BY <1>2
  <2> HIDE DEF wp
  <2>2. wp < WORD
    BY <1>2, <2>1
  <2> QED
    BY <2>2 DEF wp
<1>5. Difference(tick_count, ms_per_tick, start, WORD) = waited * ms_per_tick
  <2>1. /\ tick_count \in Nat /\ ms_per_tick \in Nat /\ WORD \in Nat \ {0} /\ start \in Int
        /\ waited \in Nat
    BY <1>2
  <2>2. waited * ms_per_tick \in 0..(WORD - 1)
    BY <1>2, <1>4
  <2> QED
    BY <1>3, <2>1, <2>2, Elapsed
<1> QED
  BY <1>2, <1>5 DEF NotYet, get_time_ms, Difference

\* A look at the clock.
LEMMA CheckStep ==
    ASSUME ClockInv, Check
    PROVE  ClockInv'
<1>1. /\ pc = "check" /\ lag' = 0 /\ UNCHANGED <<frequency, ms_per_tick, tick_count>>
      /\ waited \in Nat /\ lag \in {0, 1} /\ frequency # 0
  BY DEF Check, ClockInv, ClockTypes
<1>2. CASE NotYet
  <2>1. pc' = "hlt" /\ UNCHANGED <<start, ms, waited>>
    BY <1>2 DEF Check
  <2>2. waited * ms_per_tick < ms
    BY <1>1, <1>2, NotYetIs
  <2>3. waited' = waited + 0 + lag'
    BY <1>1, <2>1
  <2>4. Looked(0)'
    BY <1>1, <2>1, <2>2, <2>3 DEF Looked
  <2>5. ClockTypes'
    BY <1>1, <2>1 DEF ClockInv, ClockTypes
  <2>6. ms' \in Delays /\ InStep'
    BY <1>1, <2>1 DEF ClockInv, DelayGoing, InStep
  <2> QED
    BY <2>1, <2>4, <2>5, <2>6 DEF ClockInv, DelayGoing
<1>3. CASE ~NotYet
  <2>1. pc' = "idle" /\ start' = 0 /\ waited' = 0
    BY <1>3 DEF Check
  <2> QED
    BY <1>1, <2>1 DEF ClockInv, ClockTypes, DelayGoing
<1> QED
  BY <1>2, <1>3

\* Every step keeps the invariant.
LEMMA ClockStep ==
    ASSUME ClockInv, [TimerNext]_timerVars
    PROVE  ClockInv'
<1>1. ASSUME NEW freq \in Freqs, init_timer(freq) PROVE ClockInv'
  BY <1>1, InitTimerStep
<1>2. CASE timer_callback
  BY <1>2, CallbackStep
<1>3. CASE process_yield
  BY <1>3, YieldStep
<1>4. ASSUME NEW m \in Delays, delay_ms(m) PROVE ClockInv'
  BY <1>4, DelayStep
<1>5. CASE Check
  BY <1>5, CheckStep
<1>6. CASE Hlt
  BY <1>6 DEF Hlt, ClockInv, ClockTypes, DelayGoing, InStep, Looked
<1>7. CASE UNCHANGED timerVars
  BY <1>7 DEF timerVars, ClockInv, ClockTypes, DelayGoing, InStep, Looked
<1> QED
  BY <1>1, <1>2, <1>3, <1>4, <1>5, <1>6, <1>7 DEF TimerNext

\* kernel/timer.c: while a delay is going on the clock and its start differ by the
\* ticks that came since, whatever wrapped meanwhile, and its last look at the clock
\* is at most two ticks old.
THEOREM TimerInvariant == TimerSpec => []ClockInv
<1>1. ClockInv /\ [TimerNext]_timerVars => ClockInv'
  BY ClockStep
<1> QED
  BY <1>1, ClockInit, PTL DEF TimerSpec

\* delay_ms: it waits for as many ticks as its milliseconds make and for fewer than
\* two more, for every word size, frequency and delay that keeps two ticks away from
\* the range of the milliseconds.
THEOREM TimerDelayExact == TimerSpec => DelayExact
<1>1. ASSUME ClockInv, TimerNext, pc = "check", pc' = "idle"
      PROVE  ms <= waited * ms_per_tick /\ waited * ms_per_tick < ms + 2 * ms_per_tick
  <2>1. Check
    BY <1>1 DEF TimerNext, init_timer, timer_callback, Interrupt,
                process_yield, delay_ms, Hlt
  <2>2. ~NotYet
    BY <1>1, <2>1 DEF Check
  <2> DEFINE wp == waited * ms_per_tick
  <2>3. ~(wp < ms) /\ wp \in Nat /\ ms \in Nat /\ wp < ms + 2 * ms_per_tick
    BY <1>1, <2>2, NotYetIs
  <2> HIDE DEF wp
  <2>4. ms <= wp
    BY <2>3
  <2> QED
    BY <2>3, <2>4 DEF wp
<1>2. ClockInv /\ [TimerNext]_timerVars =>
        [pc = "check" /\ pc' = "idle" =>
           /\ ms <= waited * ms_per_tick
           /\ waited * ms_per_tick < ms + 2 * ms_per_tick]_timerVars
  BY <1>1
<1> QED
  BY <1>2, TimerInvariant, PTL DEF TimerSpec, DelayExact

\* kernel/timer.c: the counter and the time stay within a word, the divisor within
\* what the chip takes, and a delay is at one of its three places or nowhere.
THEOREM TimerType == TimerSpec => []TimerTypeOK
<1>1. /\ WORD \in Nat \ {0} /\ PIT \in Nat \ {0} /\ BASE \in Nat /\ SECOND \in Nat
      /\ DEFAULT \in Nat \ {0} /\ Freqs \subseteq Nat /\ Delays \subseteq Nat
  BY TimerAssumption
<1>2. TimerInit => TimerTypeOK
  BY <1>1 DEF TimerInit, TimerTypeOK
<1>3. ASSUME TimerTypeOK, [TimerNext]_timerVars PROVE TimerTypeOK'
  <2>1. ASSUME NEW freq \in Freqs, init_timer(freq) PROVE TimerTypeOK'
    <3> DEFINE f == IF freq = 0 THEN DEFAULT ELSE freq
    <3>1. f \in Nat \ {0}
      BY <1>1
    <3>2. frequency' = f /\ ms_per_tick' = SECOND \div f /\ divisor' = (BASE \div f) % PIT
          /\ UNCHANGED <<tick_count, pc, start, ms, waited, lag>>
      BY <2>1 DEF init_timer, TickOf
    <3> HIDE DEF f
    <3>3. SECOND \div f \in Nat /\ BASE \div f \in Nat
      BY <1>1, <3>1
    <3>4. (BASE \div f) % PIT \in 0..(PIT - 1)
      BY <1>1, <3>3
    <3> QED
      BY <1>3, <3>1, <3>2, <3>3, <3>4 DEF TimerTypeOK
  <2>2. (tick_count + 1) % WORD \in 0..(WORD - 1)
    BY <1>1, <1>3 DEF TimerTypeOK
  <2>3. CASE timer_callback
    BY <1>1, <1>3, <2>2, <2>3 DEF timer_callback, Interrupt, TimerTypeOK
  <2>4. CASE process_yield
    BY <1>3, <2>2, <2>4 DEF process_yield, TimerTypeOK
  <2>5. ASSUME NEW m \in Delays, delay_ms(m) PROVE TimerTypeOK'
    <3>1. tick_count * ms_per_tick \in Int
      BY <1>1, <1>3 DEF TimerTypeOK
    <3>2. get_time_ms \in 0..(WORD - 1)
      BY <1>1, <3>1 DEF get_time_ms
    <3> QED
      BY <1>1, <1>3, <2>5, <3>2 DEF delay_ms, TimerTypeOK
  <2>6. CASE Check
    BY <1>1, <1>3, <2>6 DEF Check, TimerTypeOK
  <2>7. CASE Hlt
    BY <1>3, <2>7 DEF Hlt, TimerTypeOK
  <2>8. CASE UNCHANGED timerVars
    BY <1>3, <2>8 DEF timerVars, TimerTypeOK
  <2> QED
    BY <1>3, <2>1, <2>3, <2>4, <2>5, <2>6, <2>7, <2>8 DEF TimerNext
<1> QED
  BY <1>2, <1>3, PTL DEF TimerSpec
==============================================================================
