----------------------- MODULE BellmanFordMooreProofs -----------------------
(***************************************************************************)
(* Single-source paths, for every graph, start and potential: the types,   *)
(* the queue, that the lengths that are printed are shortest, what each    *)
(* phase achieves, and that the flag tells of a negative cycle.            *)
(*                                                                         *)
(* That a distance is never too short is the duality argument: a feasible  *)
(* potential is at most 0 at the start and grows by at most the weight     *)
(* along an edge, hence stays below whatever a relaxation assigns.  That   *)
(* none is too long in the end is what the last pass looks at, provided    *)
(* it looks at every edge and nothing changes meanwhile.                   *)
(***************************************************************************)
EXTENDS BellmanFordMoore, SequenceTheorems, SumTheorems

(* Before the first phase, and in one.                                     *)
Phases ==
  /\ pc = "start" => /\ queue = <<>> /\ in_queue = [x \in V |-> FALSE]
                     /\ i = 0 /\ left = 0
  /\ pc \in {"pop", "scan"} => i < size - 1

StartBound == pc \notin {"start", "error"} => distance[start] <= 0

(* The last pass has found nothing before u.                               *)
PassedOver ==
  /\ pc \in {"start", "phase", "pop", "scan", "check"} => ~has_negative_cycle
  /\ pc \in {"check", "done"} =>
       \A x, y \in V : (x < u /\ ~has_negative_cycle) => ~Improves(x, y)
  /\ (pc = "done" /\ ~has_negative_cycle) => u = size + 1

IInv == TypeOK /\ Phases /\ InQueueIsQueue /\ NeverTooShort /\ StartBound /\ PassedOver

-----------------------------------------------------------------------------
(* The types of the pieces of state the steps below combine.               *)
LEMMA Types ==
  ASSUME TypeOK
  PROVE  /\ size \in Nat /\ INT_MAX \in Nat
         /\ \A x \in Ints : x \in Int
         /\ \A x \in V : x \in Int /\ x <= size /\ 1 <= x
         /\ \A x \in Int : (1 <= x /\ x <= size) => x \in V
         /\ \A x, y \in V : weight(graph, x, y) \in Int
         /\ \A x, y \in V : y \in adjacency_list(graph, x) <=> is_edge(graph, x, y)
         /\ \A x \in V : distance[x] \in Int
         /\ Len(queue) \in Nat
         /\ \A k \in 1..Len(queue) : queue[k] \in V
<1>1. size \in Nat /\ INT_MAX \in Nat /\ \A x \in Ints : x \in Int
  BY PathsAssumption DEF PathsAssumption, Ints
<1>2. /\ \A x \in V : x \in Int /\ x <= size /\ 1 <= x
      /\ \A x \in Int : (1 <= x /\ x <= size) => x \in V
  BY <1>1 DEF V
<1>3. graph \in [V -> [V -> Int]] /\ DOMAIN graph = V
  BY DEF TypeOK, GraphsOn, V
<1>4. \A x, y \in V : weight(graph, x, y) \in Int
  BY <1>3 DEF weight
<1>5. \A x, y \in V : y \in adjacency_list(graph, x) <=> is_edge(graph, x, y)
  BY <1>3 DEF adjacency_list, Vertices
<1>6. /\ \A x \in V : distance[x] \in Int
      /\ Len(queue) \in Nat
      /\ \A k \in 1..Len(queue) : queue[k] \in V
  BY <1>1 DEF TypeOK
<1> QED
  BY <1>1, <1>2, <1>4, <1>5, <1>6

LEMMA InitInv == Init => IInv
<1> SUFFICES ASSUME Init PROVE IInv
  OBVIOUS
<1>1. TypeOK
  <2>1. graph \in GraphsOn(size, Int) /\ start \in Int /\ size \in Nat /\ INT_MAX \in Ints
    BY PathsAssumption DEF PathsAssumption, Init, Ints
  <2>2. /\ distance \in [V -> Ints] /\ predecessor \in [V -> V \cup {None}]
        /\ queue \in Seq(V) /\ in_queue \in [V -> BOOLEAN] /\ left \in 0..Len(queue)
    BY <2>1 DEF Init
  <2>3. i \in 0..size /\ u \in 1..(size + 1) /\ v \in 1..(size + 1) /\ (start \in V => i < size)
    BY <2>1 DEF Init, V
  <2> QED
    BY <2>1, <2>2, <2>3 DEF Init, TypeOK
<1>2. InQueueIsQueue
  BY DEF Init, InQueueIsQueue
<1>3. NeverTooShort
  BY DEF Init, NeverTooShort
<1>4. StartBound /\ PassedOver /\ Phases
  BY DEF Init, StartBound, PassedOver, Phases
<1> QED
  BY <1>1, <1>2, <1>3, <1>4 DEF IInv

(* Steps that leave the distances alone leave the potentials below them.   *)
LEMMA SameDistances ==
  ASSUME IInv, UNCHANGED <<graph, start, distance>>
  PROVE  /\ NeverTooShort'
         /\ \A x, y : Improves(x, y)' = Improves(x, y)
         /\ pc \notin {"start", "error"} => StartBound'
  BY DEF IInv, NeverTooShort, Feasible, Improves, StartBound

(* Nor does a step disturb the queue that leaves it alone.                 *)
LEMMA SameQueue ==
  ASSUME IInv, UNCHANGED <<queue, in_queue>>
  PROVE  InQueueIsQueue'
  BY DEF IInv, InQueueIsQueue

(* A start outside the graph.                                              *)
LEMMA RefuseInv == IInv /\ Refuse => IInv'
<1> SUFFICES ASSUME IInv, Refuse PROVE IInv'
  OBVIOUS
<1>1. TypeOK'
  BY DEF IInv, Refuse, TypeOK
<1>2. InQueueIsQueue' /\ NeverTooShort'
  BY SameQueue, SameDistances DEF Refuse
<1>3. StartBound' /\ PassedOver' /\ Phases'
  BY DEF Refuse, StartBound, PassedOver, Phases
<1> QED
  BY <1>1, <1>2, <1>3 DEF IInv

(* The start is at distance 0, and no potential exceeds that.              *)
LEMMA BeginInv == IInv /\ Begin => IInv'
<1> SUFFICES ASSUME IInv, Begin PROVE IInv'
  OBVIOUS
<1> USE DEF IInv
<1>1. /\ pc = "start" /\ pc' = "phase" /\ start \in V /\ queue' = <<start>> /\ i = 0 /\ left = 0
      /\ distance' = [distance EXCEPT ![start] = 0]
      /\ in_queue = [x \in V |-> FALSE] /\ in_queue' = [in_queue EXCEPT ![start] = TRUE]
      /\ UNCHANGED <<graph, start, predecessor, i, left, u, v, has_negative_cycle>>
  BY DEF Begin, Phases
<1>2. Len(queue') = 1 /\ queue'[1] = start /\ queue' \in Seq(V)
  BY <1>1
<1>3. distance' \in [V -> Ints] /\ distance'[start] = 0 /\ in_queue' \in [V -> BOOLEAN]
  <2>1. distance \in [V -> Ints] /\ 0 \in Ints
    BY Types DEF TypeOK, Ints
  <2>2. distance' \in [V -> Ints] /\ distance'[start] = 0
    BY <1>1, <2>1
  <2>3. in_queue' \in [V -> BOOLEAN]
    BY <1>1, Zenon
  <2> QED
    BY <2>2, <2>3
<1>4. TypeOK'
  BY <1>1, <1>2, <1>3, Types DEF TypeOK
<1>5. InQueueIsQueue'
  <2>1. \A x \in V : in_queue'[x] <=> x = start
    BY <1>1
  <2>2. \A k \in 1..Len(queue') : k = 1
    BY <1>2
  <2>3. 1 \in 1..Len(queue')
    BY <1>2
  <2> QED
    BY <1>2, <2>1, <2>2, <2>3 DEF InQueueIsQueue
<1>6. NeverTooShort'
  <2> SUFFICES ASSUME NEW p \in Potentials, Feasible(p), NEW x \in V, distance'[x] # INT_MAX
               PROVE  p[x] <= distance'[x]
    BY <1>1 DEF NeverTooShort, Feasible
  <2>1. CASE x = start
    BY <1>3, <2>1 DEF Feasible
  <2>2. CASE x # start
    BY <1>1, <2>2 DEF NeverTooShort, TypeOK
  <2> QED
    BY <2>1, <2>2
<1>7. StartBound' /\ PassedOver' /\ Phases'
  BY <1>1, <1>3 DEF StartBound, PassedOver, Phases
<1> QED
  BY <1>4, <1>5, <1>6, <1>7

(* A phase begins: what is left of it is the queue.                        *)
LEMMA PhaseStartInv == IInv /\ PhaseStart => IInv'
<1> SUFFICES ASSUME IInv, PhaseStart PROVE IInv'
  OBVIOUS
<1>1. TypeOK'
  <2>1. left' \in 0..Len(queue')
    BY Types DEF IInv, PhaseStart
  <2> QED
    BY <2>1 DEF IInv, PhaseStart, TypeOK
<1>2. InQueueIsQueue' /\ NeverTooShort' /\ StartBound'
  BY SameQueue, SameDistances DEF PhaseStart
<1>3. PassedOver' /\ Phases'
  BY DEF IInv, PhaseStart, PassedOver, Phases
<1> QED
  BY <1>1, <1>2, <1>3 DEF IInv

(* The vertex that is popped was in the queue once.                        *)
LEMMA PopInv == IInv /\ Pop => IInv'
<1> SUFFICES ASSUME IInv, Pop PROVE IInv'
  OBVIOUS
<1> USE DEF IInv
<1>1. /\ pc = "pop" /\ pc' = "scan" /\ left > 0 /\ u' = Head(queue) /\ queue' = Tail(queue)
      /\ in_queue' = [in_queue EXCEPT ![Head(queue)] = FALSE] /\ left' = left - 1 /\ v' = 1
      /\ UNCHANGED <<graph, start, distance, predecessor, i, has_negative_cycle>>
  BY DEF Pop
<1>2. Len(queue) \in Nat /\ Len(queue) >= 1 /\ left \in 0..Len(queue) /\ queue \in Seq(V)
  BY <1>1 DEF TypeOK
<1>3. /\ Head(queue) = queue[1] /\ Head(queue) \in V
      /\ queue' \in Seq(V) /\ Len(queue') = Len(queue) - 1
      /\ \A k \in 1..Len(queue') : queue'[k] = queue[k + 1]
  BY <1>1, <1>2
<1>4. TypeOK'
  <2>1. left' \in 0..Len(queue')
    BY <1>1, <1>2, <1>3
  <2>2. u' \in V /\ u' \in 1..(size + 1) /\ v' \in 1..(size + 1)
    BY <1>1, <1>3, Types
  <2>3. in_queue' \in [V -> BOOLEAN]
    BY <1>1, <1>3 DEF TypeOK
  <2> QED
    BY <1>1, <1>3, <2>1, <2>2, <2>3 DEF TypeOK
<1>5. InQueueIsQueue'
  <2>1. \A k \in 1..Len(queue') : k + 1 \in 1..Len(queue) /\ k + 1 # 1
    BY <1>2, <1>3
  <2>2. 1 \in 1..Len(queue)
    BY <1>2
  <2>3. \A k, l \in 1..Len(queue) : queue[k] = queue[l] => k = l
    BY DEF InQueueIsQueue
  <2>4. \A k, l \in 1..Len(queue') : queue'[k] = queue'[l] => k = l
    <3> SUFFICES ASSUME NEW k \in 1..Len(queue'), NEW l \in 1..Len(queue'), queue'[k] = queue'[l]
                 PROVE  k = l
      OBVIOUS
    <3>1. queue[k + 1] = queue[l + 1]
      BY <1>3
    <3>2. k + 1 = l + 1
      BY <2>1, <2>3, <3>1
    <3> QED
      BY <3>2
  <2>5. ASSUME NEW x \in V PROVE in_queue'[x] <=> \E k \in 1..Len(queue') : queue'[k] = x
    <3>1. CASE x = queue[1]
      <4>1. ~in_queue'[x]
        BY <1>1, <1>3, <3>1 DEF TypeOK
      <4>2. ASSUME NEW k \in 1..Len(queue'), queue'[k] = x PROVE FALSE
        BY <1>3, <2>1, <2>2, <2>3, <3>1, <4>2
      <4> QED
        BY <4>1, <4>2
    <3>2. CASE x # queue[1]
      <4>1. in_queue'[x] = in_queue[x]
        BY <1>1, <1>3, <3>2 DEF TypeOK
      <4>2. in_queue[x] <=> \E k \in 1..Len(queue) : queue[k] = x
        BY DEF InQueueIsQueue
      <4>3. ASSUME NEW k \in 1..Len(queue), queue[k] = x PROVE \E l \in 1..Len(queue') : queue'[l] = x
        <5>1. k # 1
          BY <3>2, <4>3
        <5>2. k - 1 \in 1..Len(queue') /\ (k - 1) + 1 = k
          BY <1>2, <1>3, <5>1
        <5> QED
          BY <1>3, <4>3, <5>2
      <4>4. ASSUME NEW l \in 1..Len(queue'), queue'[l] = x PROVE \E k \in 1..Len(queue) : queue[k] = x
        BY <1>3, <2>1, <4>4
      <4> QED
        BY <4>1, <4>2, <4>3, <4>4
    <3> QED
      BY <3>1, <3>2
  <2> QED
    BY <2>4, <2>5 DEF InQueueIsQueue
<1>6. NeverTooShort' /\ StartBound'
  BY <1>1, SameDistances
<1>7. PassedOver' /\ Phases'
  BY <1>1 DEF PassedOver, Phases
<1> QED
  BY <1>4, <1>5, <1>6, <1>7

(* A relaxation assigns no less than a potential allows, and queues the    *)
(* vertex unless it is queued.                                             *)
LEMMA RelaxInv == IInv /\ Relax => IInv'
<1> SUFFICES ASSUME IInv, Relax PROVE IInv'
  OBVIOUS
<1> USE DEF IInv
<1>1. /\ pc = "scan" /\ pc' = "scan" /\ v <= size /\ Improves(u, v) /\ ~Overflows(u, v)
      /\ distance' = [distance EXCEPT ![v] = distance[u] + weight(graph, u, v)]
      /\ predecessor' = [predecessor EXCEPT ![v] = u]
      /\ queue' = IF in_queue[v] THEN queue ELSE Append(queue, v)
      /\ in_queue' = [in_queue EXCEPT ![v] = TRUE] /\ v' = v + 1
      /\ UNCHANGED <<graph, start, i, left, u, has_negative_cycle>>
  BY DEF Relax
<1>2. u \in V /\ v \in V /\ start \in V
  <2>1. v \in 1..(size + 1) /\ u \in V /\ start \in V
    BY <1>1 DEF TypeOK
  <2> QED
    BY <1>1, <2>1, Types
<1>3. /\ is_edge(graph, u, v) /\ distance[u] # INT_MAX
      /\ distance[v] > distance[u] + weight(graph, u, v)
      /\ weight(graph, u, v) \in Int /\ distance[u] \in Int /\ distance[v] \in Int
      /\ distance[u] + weight(graph, u, v) \in Ints
  BY <1>1, <1>2, Types DEF Improves, Overflows
<1>4. /\ distance' \in [V -> Ints] /\ distance'[v] = distance[u] + weight(graph, u, v)
      /\ \A x \in V : x # v => distance'[x] = distance[x]
  <2>1. distance \in [V -> Ints]
    BY DEF TypeOK
  <2> QED
    BY <1>1, <1>2, <1>3, <2>1
<1>5. /\ in_queue' \in [V -> BOOLEAN] /\ in_queue'[v] = TRUE
      /\ \A x \in V : x # v => in_queue'[x] = in_queue[x]
  <2>1. in_queue \in [V -> BOOLEAN]
    BY DEF TypeOK
  <2> QED
    BY <1>1, <1>2, <2>1
<1>6. predecessor' \in [V -> V \cup {None}] /\ v' \in 1..(size + 1)
  <2>1. predecessor \in [V -> V \cup {None}] /\ v \in Int /\ size \in Int
    BY <1>2, Types DEF TypeOK
  <2>2. v' \in 1..(size + 1)
    BY <1>1, <1>2, <2>1, Types
  <2> QED
    BY <1>1, <1>2, <2>1, <2>2
<1>7. InQueueIsQueue' /\ queue' \in Seq(V) /\ Len(queue') >= Len(queue)
  <2>1. CASE in_queue[v]
    <3>1. queue' = queue /\ \A x \in V : in_queue'[x] <=> in_queue[x]
      BY <1>1, <1>5, <2>1
    <3>2. queue \in Seq(V) /\ Len(queue) \in Nat
      BY DEF TypeOK
    <3> QED
      BY <3>1, <3>2 DEF InQueueIsQueue
  <2>2. CASE ~in_queue[v]
    <3>1. queue' = Append(queue, v) /\ queue \in Seq(V)
      BY <1>1, <2>2 DEF TypeOK
    <3>2. /\ queue' \in Seq(V) /\ Len(queue') = Len(queue) + 1 /\ Len(queue) \in Nat
          /\ queue'[Len(queue) + 1] = v
          /\ \A k \in 1..Len(queue) : queue'[k] = queue[k]
      BY <1>2, <3>1
    <3>3. /\ \A k \in 1..Len(queue') : k \in 1..Len(queue) \/ k = Len(queue) + 1
          /\ \A k \in 1..Len(queue) : k \in 1..Len(queue')
          /\ Len(queue) + 1 \in 1..Len(queue')
      BY <3>2
    <3>4. \A k \in 1..Len(queue) : queue[k] # v
      BY <1>2, <2>2 DEF InQueueIsQueue
    <3>5. \A k, l \in 1..Len(queue) : queue[k] = queue[l] => k = l
      BY DEF InQueueIsQueue
    <3>6. ASSUME NEW k \in 1..Len(queue'), NEW l \in 1..Len(queue'), queue'[k] = queue'[l]
          PROVE  k = l
      <4>1. CASE k \in 1..Len(queue) /\ l \in 1..Len(queue)
        <5>1. queue[k] = queue[l]
          BY <3>2, <3>6, <4>1, Zenon
        <5> QED
          BY <3>5, <4>1, <5>1, Zenon
      <4>2. CASE k = Len(queue) + 1 /\ l \in 1..Len(queue)
        <5>1. queue[l] = v
          BY <3>2, <3>6, <4>2, Zenon
        <5> QED
          BY <3>4, <4>2, <5>1, Zenon
      <4>3. CASE k \in 1..Len(queue) /\ l = Len(queue) + 1
        <5>1. queue[k] = v
          BY <3>2, <3>6, <4>3, Zenon
        <5> QED
          BY <3>4, <4>3, <5>1, Zenon
      <4>4. CASE k = Len(queue) + 1 /\ l = Len(queue) + 1
        BY <4>4
      <4> QED
        BY <3>3, <4>1, <4>2, <4>3, <4>4
    <3>7. ASSUME NEW x \in V PROVE in_queue'[x] <=> \E k \in 1..Len(queue') : queue'[k] = x
      <4>1. CASE x = v
        BY <1>5, <3>2, <3>3, <4>1, Zenon
      <4>2. CASE x # v
        <5>1. in_queue'[x] <=> \E k \in 1..Len(queue) : queue[k] = x
          BY <1>5, <4>2, Zenon DEF InQueueIsQueue
        <5>2. (\E k \in 1..Len(queue') : queue'[k] = x) <=> \E k \in 1..Len(queue) : queue[k] = x
          BY <3>2, <3>3, <4>2, Zenon
        <5> QED
          BY <5>1, <5>2, Zenon
      <4> QED
        BY <4>1, <4>2
    <3>8. InQueueIsQueue'
      BY <3>6, <3>7, Zenon DEF InQueueIsQueue
    <3> QED
      BY <3>2, <3>8
  <2> QED
    BY <2>1, <2>2
<1>8. TypeOK'
  <2>1. left' \in 0..Len(queue')
    BY <1>1, <1>7, Types DEF TypeOK
  <2> QED
    BY <1>1, <1>2, <1>4, <1>5, <1>6, <1>7, <2>1 DEF TypeOK
<1>9. NeverTooShort'
  <2> SUFFICES ASSUME NEW p \in Potentials, Feasible(p), NEW x \in V, distance'[x] # INT_MAX
               PROVE  p[x] <= distance'[x]
    BY <1>1 DEF NeverTooShort, Feasible
  <2>1. \A y \in V : distance[y] # INT_MAX => p[y] <= distance[y]
    BY <1>2 DEF NeverTooShort
  <2>2. p \in [V -> Int]
    BY PathsAssumption DEF PathsAssumption, V
  <2>3. CASE x = v
    <3>1. p[v] <= p[u] + weight(graph, u, v)
      BY <1>2, <1>3 DEF Feasible
    <3>2. p[u] <= distance[u] /\ p[u] \in Int /\ p[v] \in Int
      BY <1>2, <1>3, <2>1, <2>2
    <3> QED
      BY <1>3, <1>4, <2>3, <3>1, <3>2
  <2>4. CASE x # v
    BY <1>4, <2>1, <2>4
  <2> QED
    BY <2>3, <2>4
<1>10. StartBound'
  <2>1. distance[start] <= 0 /\ distance[start] \in Int
    BY <1>1, <1>2, Types DEF StartBound
  <2>2. distance'[start] <= distance[start] /\ distance'[start] \in Int
    BY <1>2, <1>3, <1>4, <2>1
  <2>3. distance'[start] <= 0
    BY <2>1, <2>2
  <2> QED
    BY <1>1, <1>2, <1>3, <2>3 DEF StartBound
<1>11. PassedOver' /\ Phases'
  BY <1>1 DEF PassedOver, Phases
<1> QED
  BY <1>7, <1>8, <1>9, <1>10, <1>11

(* A sum that is no int: only the end is left.                             *)
LEMMA OverflowInv == IInv /\ (Overflow \/ CheckOverflow) => IInv'
<1> SUFFICES ASSUME IInv, Overflow \/ CheckOverflow PROVE IInv'
  OBVIOUS
<1>1. /\ pc \in {"scan", "check"} /\ pc' = "undefined"
      /\ UNCHANGED <<graph, start, distance, predecessor, queue, in_queue, i, left, u, v,
                     has_negative_cycle>>
  BY DEF Overflow, CheckOverflow
<1>2. TypeOK'
  BY <1>1 DEF IInv, TypeOK
<1>3. InQueueIsQueue' /\ NeverTooShort' /\ StartBound'
  BY <1>1, SameQueue, SameDistances
<1>4. PassedOver' /\ Phases'
  BY <1>1 DEF IInv, PassedOver, Phases
<1> QED
  BY <1>2, <1>3, <1>4 DEF IInv

(* A neighbour that is no nearer is passed over.                           *)
LEMMA ScanSkipInv == IInv /\ ScanSkip => IInv'
<1> SUFFICES ASSUME IInv, ScanSkip PROVE IInv'
  OBVIOUS
<1>1. TypeOK'
  <2>1. v' \in 1..(size + 1)
    BY Types DEF IInv, ScanSkip, TypeOK
  <2> QED
    BY <2>1 DEF IInv, ScanSkip, TypeOK
<1>2. InQueueIsQueue' /\ NeverTooShort' /\ StartBound'
  BY SameQueue, SameDistances DEF ScanSkip
<1>3. PassedOver' /\ Phases'
  BY DEF IInv, ScanSkip, PassedOver, Phases
<1> QED
  BY <1>1, <1>2, <1>3 DEF IInv

(* The end of a vertex.                                                    *)
LEMMA ScanEndInv == IInv /\ ScanEnd => IInv'
<1> SUFFICES ASSUME IInv, ScanEnd PROVE IInv'
  OBVIOUS
<1>1. TypeOK'
  BY DEF IInv, ScanEnd, TypeOK
<1>2. InQueueIsQueue' /\ NeverTooShort' /\ StartBound'
  BY SameQueue, SameDistances DEF ScanEnd
<1>3. PassedOver' /\ Phases'
  BY DEF IInv, ScanEnd, PassedOver, Phases
<1> QED
  BY <1>1, <1>2, <1>3 DEF IInv

(* The end of a phase.                                                     *)
LEMMA PhaseEndInv == IInv /\ PhaseEnd => IInv'
<1> SUFFICES ASSUME IInv, PhaseEnd PROVE IInv'
  OBVIOUS
<1>1. TypeOK'
  <2>1. i' \in 0..size /\ i' < size
    BY Types DEF IInv, PhaseEnd, TypeOK, Phases
  <2> QED
    BY <2>1 DEF IInv, PhaseEnd, TypeOK
<1>2. InQueueIsQueue' /\ NeverTooShort' /\ StartBound'
  BY SameQueue, SameDistances DEF PhaseEnd
<1>3. PassedOver' /\ Phases'
  BY DEF IInv, PhaseEnd, PassedOver, Phases
<1> QED
  BY <1>1, <1>2, <1>3 DEF IInv

(* The last pass begins with the first vertex.                             *)
LEMMA PhasesEndInv == IInv /\ PhasesEnd => IInv'
<1> SUFFICES ASSUME IInv, PhasesEnd PROVE IInv'
  OBVIOUS
<1>1. TypeOK'
  <2>1. u' \in 1..(size + 1)
    BY Types DEF IInv, PhasesEnd
  <2> QED
    BY <2>1 DEF IInv, PhasesEnd, TypeOK
<1>2. InQueueIsQueue' /\ NeverTooShort' /\ StartBound'
  BY SameQueue, SameDistances DEF PhasesEnd
<1>3. PassedOver' /\ Phases'
  <2>1. \A x \in V : ~(x < 1)
    BY Types DEF IInv
  <2> QED
    BY <2>1 DEF IInv, PhasesEnd, PassedOver, Phases
<1> QED
  BY <1>1, <1>2, <1>3 DEF IInv

(* No edge of u leads to a shorter path: on to the next vertex.            *)
LEMMA CheckVertexInv == IInv /\ CheckVertex => IInv'
<1> SUFFICES ASSUME IInv, CheckVertex PROVE IInv'
  OBVIOUS
<1>1. TypeOK'
  <2>1. u' \in 1..(size + 1)
    BY Types DEF IInv, CheckVertex, TypeOK
  <2> QED
    BY <2>1 DEF IInv, CheckVertex, TypeOK
<1>2. InQueueIsQueue' /\ NeverTooShort' /\ StartBound'
  BY SameQueue, SameDistances DEF CheckVertex
<1>3. PassedOver' /\ Phases'
  <2>1. \A x, y \in V : x < u + 1 => ~Improves(x, y)
    <3>1. \A x \in V : x < u + 1 => x < u \/ x = u
      <4>1. u \in Int
        BY DEF IInv, TypeOK
      <4>2. \A x \in V : x \in Int
        BY Types DEF IInv
      <4> QED
        BY <4>1, <4>2
    <3> QED
      BY <3>1 DEF IInv, CheckVertex, PassedOver
  <2>2. \A x, y : Improves(x, y)' = Improves(x, y)
    BY SameDistances DEF CheckVertex
  <2> QED
    BY <2>1, <2>2 DEF IInv, CheckVertex, PassedOver, Phases
<1> QED
  BY <1>1, <1>2, <1>3 DEF IInv

(* One does: the flag is set.                                              *)
LEMMA FindCycleInv == IInv /\ FindCycle => IInv'
<1> SUFFICES ASSUME IInv, FindCycle PROVE IInv'
  OBVIOUS
<1>1. TypeOK'
  BY DEF IInv, FindCycle, TypeOK
<1>2. InQueueIsQueue' /\ NeverTooShort' /\ StartBound'
  BY SameQueue, SameDistances DEF FindCycle
<1>3. PassedOver' /\ Phases'
  BY DEF IInv, FindCycle, PassedOver, Phases
<1> QED
  BY <1>1, <1>2, <1>3 DEF IInv

(* The last pass has seen every vertex.                                    *)
LEMMA CheckEndInv == IInv /\ CheckEnd => IInv'
<1> SUFFICES ASSUME IInv, CheckEnd PROVE IInv'
  OBVIOUS
<1>1. TypeOK'
  BY DEF IInv, CheckEnd, TypeOK
<1>2. InQueueIsQueue' /\ NeverTooShort' /\ StartBound'
  BY SameQueue, SameDistances DEF CheckEnd
<1>3. PassedOver' /\ Phases'
  <2>1. u = size + 1
    <3>1. u \in 1..(size + 1) /\ u > size
      BY DEF IInv, CheckEnd, TypeOK
    <3>2. size \in Nat
      BY Types DEF IInv
    <3> QED
      BY <3>1, <3>2
  <2>2. \A x, y : Improves(x, y)' = Improves(x, y)
    BY SameDistances DEF CheckEnd
  <2> QED
    BY <2>1, <2>2 DEF IInv, CheckEnd, PassedOver, Phases
<1> QED
  BY <1>1, <1>2, <1>3 DEF IInv

(* A step that changes nothing.                                            *)
LEMMA StutterInv == IInv /\ UNCHANGED vars => IInv'
<1> SUFFICES ASSUME IInv, UNCHANGED vars PROVE IInv'
  OBVIOUS
<1>1. TypeOK' /\ StartBound' /\ Phases'
  BY DEF vars, IInv, TypeOK, StartBound, Phases
<1>2. InQueueIsQueue' /\ NeverTooShort' /\ \A x, y : Improves(x, y)' = Improves(x, y)
  BY SameQueue, SameDistances DEF vars
<1>3. PassedOver'
  BY <1>2 DEF vars, IInv, PassedOver
<1> QED
  BY <1>1, <1>2, <1>3 DEF IInv

-----------------------------------------------------------------------------
(* The inductive invariant.                                                *)
THEOREM Invariance == Spec => []IInv
<1>1. IInv /\ [Next]_vars => IInv'
  BY RefuseInv, BeginInv, PhaseStartInv, PopInv, RelaxInv, OverflowInv, ScanSkipInv, ScanEndInv,
     PhaseEndInv, PhasesEndInv, CheckVertexInv, FindCycleInv, CheckEndInv, StutterInv,
     Zenon DEF Next, Terminated
<1> QED
  BY InitInv, <1>1, PTL DEF Spec

(* The state keeps its types: relaxEdges indexes its vectors with vertices *)
(* only, takes no more vertices from the queue than there are, and every   *)
(* distance it stores is an int.                                           *)
THEOREM TypeCorrect == Spec => []TypeOK
<1>1. IInv => TypeOK
  BY DEF IInv
<1> QED
  BY Invariance, <1>1, PTL

(* The queue holds the vertices that in_queue marks, each once.            *)
THEOREM QueueIsSound == Spec => []InQueueIsQueue
<1>1. IInv => InQueueIsQueue
  BY DEF IInv
<1> QED
  BY Invariance, <1>1, PTL

(* printDistances prints the lengths of shortest paths: no distance is     *)
(* ever below a potential, and in the end no edge leads to a shorter one,  *)
(* for every graph, start and set of potentials, and however many phases   *)
(* were made.                                                              *)
THEOREM DistancesAreShortest == Spec => []DistancesShortest
<1>1. IInv => NothingImproves
  <2> SUFFICES ASSUME IInv, pc = "done", ~has_negative_cycle
               PROVE  distance[start] <= 0 /\ \A x, y \in V : ~Improves(x, y)
    BY DEF NothingImproves
  <2>1. \A x \in V : x < size + 1
    BY Types DEF IInv
  <2> QED
    BY <2>1 DEF IInv, StartBound, PassedOver
<1>2. IInv => DistancesShortest
  BY <1>1 DEF IInv, DistancesShortest
<1> QED
  BY Invariance, <1>2, PTL

-----------------------------------------------------------------------------
(* The phases, and the flag.  Lightest is a recursive function; what the   *)
(* proofs use of it is LightestLaw.                                        *)

Via(L, x) == { L[y] + weight(graph, y, x) :
                 y \in { y \in V : is_edge(graph, y, x) /\ L[y] # INT_MAX } }

Best(L, x) == CHOOSE d \in Via(L, x) \cup {L[x]} : \A e \in Via(L, x) \cup {L[x]} : d <= e

Further(L) == [x \in V |-> Best(L, x)]

AtOnce == [x \in V |-> IF x = start THEN 0 ELSE INT_MAX]

(* One edge more: nobody is farther, and who is nearer is so by an edge.   *)
LEMMA BestLaw ==
  ASSUME TypeOK, NEW L \in [V -> Int], NEW x \in V
  PROVE  /\ Best(L, x) \in Int
         /\ Best(L, x) <= L[x]
         /\ \A y \in V : (is_edge(graph, y, x) /\ L[y] # INT_MAX) =>
                            Best(L, x) <= L[y] + weight(graph, y, x)
         /\ \/ Best(L, x) = L[x]
            \/ \E y \in V : /\ is_edge(graph, y, x) /\ L[y] # INT_MAX
                            /\ Best(L, x) = L[y] + weight(graph, y, x)
<1> DEFINE Y == { y \in V : is_edge(graph, y, x) /\ L[y] # INT_MAX }
           g == [y \in Y |-> L[y] + weight(graph, y, x)]
           S == Via(L, x) \cup {L[x]}
<1>1. Via(L, x) = { g[y] : y \in Y }
  BY DEF Via
<1>2. \A y \in V : weight(graph, y, x) \in Int /\ L[y] \in Int
  BY Types
<1>3. IsFiniteSet(Y)
  <2>1. IsFiniteSet(V)
    BY Types, FS_Interval DEF V
  <2> QED
    BY <2>1, FS_Subset
<1>4. IsFiniteSet(Via(L, x))
  <2>1. g \in Surjection(Y, Via(L, x))
    BY <1>1 DEF Surjection
  <2> QED
    BY <1>3, <2>1, FS_Surjection
<1>5. IsFiniteSet(S) /\ S \in SUBSET Int /\ L[x] \in S
  <2>1. IsFiniteSet({L[x]})
    BY FS_Singleton
  <2>2. IsFiniteSet(S)
    BY <1>4, <2>1, FS_Union
  <2>3. \A y \in Y : g[y] \in Int
    BY <1>2
  <2>4. S \in SUBSET Int /\ L[x] \in S
    <3> HIDE DEF g
    <3> QED
      BY <1>1, <1>2, <2>3
  <2> QED
    BY <2>2, <2>4
<1>6. PICK m \in S : \A n \in S : m <= n
  <2> HIDE DEF S
  <2> QED
    BY <1>5, LeastInteger
<1>7. Best(L, x) \in S /\ \A n \in S : Best(L, x) <= n
  BY <1>6, Zenon DEF Best
<1>8. \A y \in Y : L[y] + weight(graph, y, x) \in S
  BY DEF Via
<1>9. Best(L, x) = L[x] \/ \E y \in Y : Best(L, x) = L[y] + weight(graph, y, x)
  BY <1>7, Zenon DEF Via
<1>10. Best(L, x) \in Int /\ Best(L, x) <= L[x]
  BY <1>5, <1>7
<1>11. \A y \in V : (is_edge(graph, y, x) /\ L[y] # INT_MAX) =>
                       Best(L, x) <= L[y] + weight(graph, y, x)
  <2> HIDE DEF S
  <2> QED
    BY <1>7, <1>8
<1> QED
  BY <1>9, <1>10, <1>11

LEMMA LightestUnfolded ==
  Lightest = CHOOSE L : L = [k \in 0..size |-> IF k = 0 THEN AtOnce ELSE Further(L[k - 1])]
BY Zenon DEF Lightest, AtOnce, Further, Best, Via

(* The function exists, and has the types one expects.                     *)
LEMMA LightestSteps ==
  ASSUME TypeOK
  PROVE  /\ Lightest[0] = AtOnce
         /\ \A k \in 1..size : Lightest[k] = Further(Lightest[k - 1])
         /\ \A k \in 0..size : Lightest[k] \in [V -> Int]
<1> DEFINE T == [V -> Int]
           F(L) == [k \in 0..size |-> IF k = 0 THEN AtOnce ELSE Further(L[k - 1])]
           P == [k \in 0..size |-> IF k = 0 THEN {AtOnce} ELSE T]
           R == [k \in 1..size |-> { p \in T \X T : p[2] = Further(p[1]) }]
<1>1. size \in Nat /\ AtOnce \in T
  BY Types DEF AtOnce
<1>2. ASSUME NEW L \in T PROVE Further(L) \in T
  BY <1>2, BestLaw DEF Further
<1>3. \A k \in 0..size : P[k] \subseteq T
  BY <1>1
<1>4. P[0] # {}
  BY <1>1
<1>5. ASSUME NEW k \in 1..size, NEW a \in P[k - 1] PROVE \E b \in P[k] : <<a, b>> \in R[k]
  <2>1. k \in 0..size /\ k - 1 \in 0..size /\ k # 0
    BY <1>1
  <2>2. a \in T
    BY <1>3, <2>1
  <2>3. Further(a) \in P[k] /\ <<a, Further(a)>> \in R[k]
    BY <1>2, <2>1, <2>2
  <2> QED
    BY <2>3
<1>6. PICK f \in [0..size -> T] : /\ \A k \in 0..size : f[k] \in P[k]
                                  /\ \A k \in 1..size : <<f[k - 1], f[k]>> \in R[k]
  <2> HIDE DEF T, P, R
  <2> QED
    BY <1>1, <1>3, <1>4, <1>5, Stepwise
<1>7. f = F(f)
  <2>1. f[0] = AtOnce
    BY <1>1, <1>6
  <2>2. \A k \in 0..size : k # 0 => k \in 1..size
    BY <1>1
  <2>3. \A k \in 1..size : f[k] = Further(f[k - 1])
    BY <1>6
  <2>4. \A k \in 0..size : f[k] = F(f)[k]
    BY <2>1, <2>2, <2>3
  <2> QED
    BY <2>4
<1>8. Lightest = F(Lightest)
  BY <1>7, LightestUnfolded, Zenon
<1>9. \A k \in 0..size : Lightest[k] = IF k = 0 THEN AtOnce ELSE Further(Lightest[k - 1])
  BY <1>8
<1>10. Lightest[0] = AtOnce /\ \A k \in 1..size : Lightest[k] = Further(Lightest[k - 1])
  BY <1>1, <1>9
<1>11. \A k \in 0..size : Lightest[k] \in T
  <2> DEFINE U == { k \in 0..size : Lightest[k] \notin T }
  <2> SUFFICES ASSUME U # {} PROVE FALSE
    BY Zenon
  <2>1. PICK m \in U : \A j \in U : m <= j
    <3>1. U \in SUBSET Nat
      OBVIOUS
    <3> HIDE DEF U
    <3> QED
      BY <3>1, LeastNatural
  <2>2. m # 0
    BY <1>1, <1>10
  <2>3. m \in 1..size /\ m - 1 \in 0..size /\ ~(m <= m - 1)
    BY <1>1, <2>2
  <2>4. Lightest[m - 1] \in T
    BY <2>1, <2>3
  <2>5. Lightest[m] \in T
    BY <1>2, <1>10, <2>3, <2>4
  <2> QED
    BY <2>5
<1> QED
  BY <1>10, <1>11

(* With one edge more, nobody is farther, and the reason is an edge.       *)
LEMMA LightestLaw ==
  ASSUME TypeOK
  PROVE  /\ \A k \in 0..size : \A x \in V : Lightest[k][x] \in Int
         /\ \A x \in V : Lightest[0][x] = IF x = start THEN 0 ELSE INT_MAX
         /\ \A k \in 1..size : \A x \in V :
              /\ k - 1 \in 0..size
              /\ Lightest[k][x] <= Lightest[k - 1][x]
              /\ \A y \in V : (is_edge(graph, y, x) /\ Lightest[k - 1][y] # INT_MAX) =>
                   Lightest[k][x] <= Lightest[k - 1][y] + weight(graph, y, x)
              /\ \/ Lightest[k][x] = Lightest[k - 1][x]
                 \/ \E y \in V : /\ is_edge(graph, y, x) /\ Lightest[k - 1][y] # INT_MAX
                                 /\ Lightest[k][x] = Lightest[k - 1][y] + weight(graph, y, x)
<1>1. \A k \in 0..size : \A x \in V : Lightest[k][x] \in Int
  BY LightestSteps
<1>2. \A x \in V : Lightest[0][x] = IF x = start THEN 0 ELSE INT_MAX
  BY LightestSteps DEF AtOnce
<1>3. ASSUME NEW k \in 1..size, NEW x \in V
      PROVE  /\ k - 1 \in 0..size
             /\ Lightest[k][x] = Best(Lightest[k - 1], x)
             /\ Lightest[k - 1] \in [V -> Int]
  <2>1. k - 1 \in 0..size
    BY Types
  <2> QED
    BY <2>1, LightestSteps DEF Further
<1>4. ASSUME NEW k \in 1..size, NEW x \in V
      PROVE  /\ k - 1 \in 0..size
             /\ Lightest[k][x] <= Lightest[k - 1][x]
             /\ \A y \in V : (is_edge(graph, y, x) /\ Lightest[k - 1][y] # INT_MAX) =>
                  Lightest[k][x] <= Lightest[k - 1][y] + weight(graph, y, x)
             /\ \/ Lightest[k][x] = Lightest[k - 1][x]
                \/ \E y \in V : /\ is_edge(graph, y, x) /\ Lightest[k - 1][y] # INT_MAX
                                /\ Lightest[k][x] = Lightest[k - 1][y] + weight(graph, y, x)
  <2> DEFINE L == Lightest[k - 1]
  <2>1. Lightest[k][x] = Best(L, x) /\ L \in [V -> Int] /\ k - 1 \in 0..size
    BY <1>3
  <2> HIDE DEF L
  <2>2. /\ Best(L, x) <= L[x]
        /\ \A y \in V : (is_edge(graph, y, x) /\ L[y] # INT_MAX) =>
                            Best(L, x) <= L[y] + weight(graph, y, x)
        /\ \/ Best(L, x) = L[x]
           \/ \E y \in V : /\ is_edge(graph, y, x) /\ L[y] # INT_MAX
                           /\ Best(L, x) = L[y] + weight(graph, y, x)
    BY <2>1, BestLaw
  <2> QED
    BY <2>1, <2>2, Zenon DEF L
<1> QED
  BY <1>1, <1>2, <1>4, Zenon

(* With more edges still, nobody is farther.                               *)
LEMMA LightestFalls ==
  ASSUME TypeOK, NEW k \in 0..size, NEW l \in k..size, NEW x \in V
  PROVE  Lightest[l][x] <= Lightest[k][x]
<1> DEFINE n == l - k
           f == [j \in 0..n |-> Lightest[k + j][x]]
           g == [j \in 0..n |-> Lightest[k][x]]
<1>1. size \in Nat /\ k \in Nat /\ l \in Int /\ n \in Nat /\ k + n = l
  BY Types
<1>2. \A j \in 0..n : k + j \in 0..size /\ f[j] = Lightest[k + j][x] /\ g[j] = Lightest[k][x]
  BY <1>1
<1>3. \A j \in 0..n : f[j] \in Int /\ g[j] \in Int
  BY <1>2, LightestLaw
<1>4. f[0] <= g[0]
  <2>1. k + 0 = k /\ 0 \in 0..n
    BY <1>1
  <2> QED
    BY <1>2, <1>3, <2>1
<1>5. ASSUME NEW j \in 1..n PROVE f[j] - f[j - 1] <= g[j] - g[j - 1]
  <2>1. k + j \in 1..size /\ (k + j) - 1 = k + (j - 1) /\ j - 1 \in 0..n /\ j \in 0..n
    BY <1>1
  <2>2. Lightest[k + j][x] <= Lightest[(k + j) - 1][x]
    BY <2>1, LightestLaw
  <2>3. f[j] <= f[j - 1] /\ g[j] = g[j - 1]
    BY <1>2, <2>1, <2>2
  <2> QED
    BY <1>3, <2>1, <2>3
<1>6. f[n] <= g[n]
  <2> HIDE DEF f, g, n
  <2> QED
    BY <1>1, <1>3, <1>4, <1>5, NoFaster
<1> QED
  BY <1>1, <1>2, <1>6

(* Everybody is INT_MAX away at most.                                      *)
LEMMA LightestBound ==
  ASSUME TypeOK, NEW k \in 0..size, NEW x \in V
  PROVE  /\ Lightest[k][x] \in Int /\ Lightest[k][x] <= INT_MAX
         /\ start \in V => Lightest[k][start] <= 0
<1>1. size \in Nat /\ INT_MAX \in Nat
  BY Types
<1>2. 0 \in 0..size /\ k \in 0..size
  BY <1>1
<1>3. \A y \in V : Lightest[k][y] <= Lightest[0][y] /\ Lightest[0][y] \in Int
                   /\ Lightest[k][y] \in Int
  BY <1>1, <1>2, LightestFalls, LightestLaw
<1>4. \A y \in V : Lightest[0][y] = IF y = start THEN 0 ELSE INT_MAX
  BY LightestLaw
<1> QED
  BY <1>1, <1>3, <1>4

(* The graph does not change.                                              *)
LEMMA SameLightest ==
  ASSUME UNCHANGED <<graph, start>>
  PROVE  Lightest' = Lightest
BY DEF Lightest

-----------------------------------------------------------------------------
(* In phase i no distance exceeds the weight of a walk of i edges, and of  *)
(* whoever is not at the front of the queue, or has been scanned, the      *)
(* neighbours are as near as one edge more can make them.  An edge that    *)
(* would shorten a path begins at a vertex that is queued.                 *)

Near(k) == \A x \in V : distance[x] <= Lightest[k][x]

Phasing == pc \in {"phase", "pop", "scan"}

Nearing == Phasing => Near(i)

Unscanned(x, y) == pc = "scan" /\ x = u /\ y >= v

Requeued ==
  Phasing => \A x, y \in V : Improves(x, y) => in_queue[x] \/ Unscanned(x, y)

Ahead(x) == \E k \in 1..left : queue[k] = x

Spread(x, y) ==
  (is_edge(graph, x, y) /\ Lightest[i][x] # INT_MAX) =>
    distance[y] <= Lightest[i][x] + weight(graph, x, y)

Spreading ==
  pc \in {"pop", "scan"} =>
    \A x, y \in V : Ahead(x) \/ Unscanned(x, y) \/ Spread(x, y)

(* n - 1 phases have been made, or there was nothing left to do.           *)
Ending ==
  pc \in {"check", "done"} => Near(size - 1) \/ \A x, y \in V : ~Improves(x, y)

Untouched == pc = "start" => distance = [x \in V |-> INT_MAX]

Flagged == has_negative_cycle => \E x, y \in V : Improves(x, y)

(* Walks of n edges are no lighter than those of n - 1.                    *)
Settled == \A x \in V : Lightest[size][x] = Lightest[size - 1][x]

Bounded == Settled => \A x \in V : Lightest[size][x] <= distance[x]

WInv == IInv /\ Nearing /\ Requeued /\ Spreading /\ Ending /\ Untouched /\ Flagged
        /\ Bounded

LEMMA WInvInit == Init => WInv
<1> SUFFICES ASSUME Init PROVE WInv
  OBVIOUS
<1>1. IInv /\ pc = "start" /\ ~has_negative_cycle /\ distance = [x \in V |-> INT_MAX]
  BY InitInv DEF Init
<1>2. Nearing /\ Requeued /\ Spreading /\ Ending /\ Untouched /\ Flagged
  BY <1>1 DEF Untouched, Nearing, Requeued, Spreading, Ending, Flagged, Phasing
<1>3. Bounded
  <2>1. size \in 0..size
    BY <1>1, Types DEF IInv
  <2> QED
    BY <1>1, <2>1, LightestBound DEF Bounded, IInv
<1> QED
  BY <1>1, <1>2, <1>3 DEF WInv

(* What the steps below use, with the next state's distances where they    *)
(* are the same.                                                           *)
LEMMA WSame ==
  ASSUME WInv, UNCHANGED <<graph, start, distance>>
  PROVE  /\ Bounded' /\ (UNCHANGED has_negative_cycle => Flagged')
         /\ \A k : Near(k)' = Near(k)
         /\ \A x, y : Improves(x, y)' = Improves(x, y)
         /\ UNCHANGED i => \A x, y : Spread(x, y)' = Spread(x, y)
<1>1. Lightest' = Lightest
  BY SameLightest
<1>2. \A x, y : Improves(x, y)' = Improves(x, y)
  BY DEF Improves
<1> QED
  BY <1>1, <1>2 DEF WInv, Bounded, Settled, Flagged, Near, Spread

(* Before the phases and after them.                                       *)
LEMMA WRefuse == WInv /\ Refuse /\ IInv' => WInv'
BY WSame DEF Refuse, WInv, Nearing, Requeued, Spreading, Ending, Untouched, Phasing

LEMMA WOverflow == WInv /\ (Overflow \/ CheckOverflow) /\ IInv' => WInv'
<1> SUFFICES ASSUME WInv, Overflow \/ CheckOverflow, IInv' PROVE WInv'
  OBVIOUS
<1>1. /\ pc' = "undefined"
      /\ UNCHANGED <<graph, start, distance, has_negative_cycle>>
  BY DEF Overflow, CheckOverflow
<1> QED
  BY <1>1, WSame DEF WInv, Nearing, Requeued, Spreading, Ending, Untouched, Phasing

(* Only the start is in reach, and it is in the queue.                     *)
LEMMA WBegin == WInv /\ Begin /\ IInv' => WInv'
<1> SUFFICES ASSUME WInv, Begin, IInv' PROVE WInv'
  OBVIOUS
<1>1. /\ pc' = "phase" /\ i' = 0 /\ start \in V
      /\ distance' = [distance EXCEPT ![start] = 0]
      /\ in_queue' = [in_queue EXCEPT ![start] = TRUE]
      /\ UNCHANGED <<graph, start, i, has_negative_cycle>>
      /\ ~has_negative_cycle
  BY DEF Begin, WInv, IInv, Phases, PassedOver
<1>2. TypeOK /\ distance \in [V -> Ints] /\ in_queue \in [V -> BOOLEAN] /\ Lightest' = Lightest
  BY <1>1, SameLightest DEF WInv, IInv, TypeOK
<1>3. distance = [x \in V |-> INT_MAX]
  BY DEF Begin, WInv, Untouched
<1>4. distance'[start] = 0 /\ \A x \in V : x # start => distance'[x] = INT_MAX
  BY <1>1, <1>2, <1>3
<1>5. size \in 0..size /\ 0 \in 0..size /\ INT_MAX \in Nat
  BY <1>2, Types
<1>6. Nearing'
  <2>1. \A x \in V : distance'[x] <= Lightest[0][x]
    BY <1>4, <1>5, <1>2, LightestLaw
  <2> QED
    BY <1>1, <1>2, <2>1 DEF Nearing, Near
<1>7. Requeued'
  <2>1. \A x, y \in V : Improves(x, y)' => x = start
    BY <1>1, <1>4 DEF Improves
  <2>2. in_queue'[start]
    BY <1>1, <1>2
  <2> QED
    BY <2>1, <2>2 DEF Requeued
<1>8. Bounded'
  <2>1. \A x \in V : Lightest[size][x] <= distance'[x]
    BY <1>1, <1>2, <1>4, <1>5, LightestBound
  <2> QED
    BY <1>2, <2>1 DEF Bounded
<1>9. Spreading' /\ Ending' /\ Untouched' /\ Flagged'
  BY <1>1 DEF Untouched, Spreading, Ending, Flagged
<1> QED
  BY <1>6, <1>7, <1>8, <1>9 DEF WInv

(* The front of the queue is all of it, and the others have been scanned   *)
(* since their distance changed.                                           *)
LEMMA WPhaseStart == WInv /\ PhaseStart /\ IInv' => WInv'
<1> SUFFICES ASSUME WInv, PhaseStart, IInv' PROVE WInv'
  OBVIOUS
<1>1. /\ pc = "phase" /\ pc' = "pop" /\ left' = Len(queue)
      /\ UNCHANGED <<graph, start, distance, queue, in_queue, i, u, v, has_negative_cycle>>
  BY DEF PhaseStart
<1>2. TypeOK /\ InQueueIsQueue /\ i \in 0..size
  BY DEF WInv, IInv, TypeOK
<1>3. Near(i) /\ \A x, y \in V : Improves(x, y) => in_queue[x]
  BY <1>1 DEF WInv, Nearing, Requeued, Phasing, Unscanned
<1>4. ASSUME NEW x \in V, NEW y \in V, ~in_queue[x] PROVE Spread(x, y)
  <2> SUFFICES ASSUME is_edge(graph, x, y), Lightest[i][x] # INT_MAX
               PROVE  distance[y] <= Lightest[i][x] + weight(graph, x, y)
    BY DEF Spread
  <2>1. Lightest[i][x] \in Int /\ Lightest[i][x] <= INT_MAX /\ distance[x] <= Lightest[i][x]
    BY <1>2, <1>3, LightestBound DEF Near
  <2>2. /\ distance[x] \in Int /\ distance[y] \in Int /\ weight(graph, x, y) \in Int
        /\ INT_MAX \in Int /\ y \in adjacency_list(graph, x)
    BY <1>2, Types
  <2>3. distance[x] # INT_MAX
    BY <2>1, <2>2
  <2>4. ~(distance[y] > distance[x] + weight(graph, x, y))
    BY <1>3, <1>4, <2>2, <2>3 DEF Improves
  <2> QED
    BY <2>1, <2>2, <2>4
<1>5. ASSUME NEW x \in V, in_queue[x] PROVE Ahead(x)'
  BY <1>1, <1>2, <1>5 DEF Ahead, InQueueIsQueue
<1>6. Spreading'
  <2>1. \A x, y : Spread(x, y)' = Spread(x, y)
    BY <1>1, WSame
  <2> QED
    BY <1>4, <1>5, <2>1 DEF Spreading
<1>7. Nearing' /\ Requeued' /\ Bounded' /\ Flagged'
  BY <1>1, <1>3, WSame DEF Nearing, Requeued
<1> QED
  BY <1>1, <1>6, <1>7 DEF WInv, Ending, Untouched

(* The vertex that is popped is to be scanned, the others are where they   *)
(* were, in front or not.                                                  *)
LEMMA WPop == WInv /\ Pop /\ IInv' => WInv'
<1> SUFFICES ASSUME WInv, Pop, IInv' PROVE WInv'
  OBVIOUS
<1>1. /\ pc = "pop" /\ pc' = "scan" /\ left > 0 /\ u' = Head(queue) /\ queue' = Tail(queue)
      /\ in_queue' = [in_queue EXCEPT ![Head(queue)] = FALSE] /\ left' = left - 1 /\ v' = 1
      /\ UNCHANGED <<graph, start, distance, i, has_negative_cycle>>
  BY DEF Pop
<1>2. TypeOK /\ left \in Nat /\ left <= Len(queue) /\ Len(queue) \in Nat /\ queue \in Seq(V)
      /\ in_queue \in [V -> BOOLEAN]
  BY DEF WInv, IInv, TypeOK
<1>3. /\ u' = queue[1] /\ u' \in V
      /\ \A k \in 1..(left - 1) : queue'[k] = queue[k + 1]
  BY <1>1, <1>2
<1>4. \A x \in V : x # u' => in_queue'[x] = in_queue[x]
  BY <1>1, <1>2
<1>5. ASSUME NEW x \in V, NEW y \in V, x = u' PROVE Unscanned(x, y)'
  <2>1. y >= 1
    BY <1>2, Types
  <2> QED
    BY <1>1, <1>5, <2>1 DEF Unscanned
<1>6. Near(i) /\ \A x, y \in V : Improves(x, y) => in_queue[x]
  BY <1>1 DEF WInv, Nearing, Requeued, Phasing, Unscanned
<1>7. Nearing' /\ Bounded' /\ Flagged'
  BY <1>1, <1>6, WSame DEF Nearing
<1>8. Requeued'
  <2>1. \A x, y : Improves(x, y)' = Improves(x, y)
    BY <1>1, WSame
  <2>2. ASSUME NEW x \in V, NEW y \in V, Improves(x, y) PROVE in_queue'[x] \/ Unscanned(x, y)'
    BY <1>1, <1>4, <1>5, <1>6, <2>2 DEF Unscanned
  <2> QED
    BY <2>1, <2>2 DEF Requeued
<1>9. Spreading'
  <2>1. \A x, y : Spread(x, y)' = Spread(x, y)
    BY <1>1, WSame
  <2>2. \A x, y \in V : Ahead(x) \/ Spread(x, y)
    BY <1>1 DEF WInv, Spreading, Unscanned
  <2>3. ASSUME NEW x \in V, Ahead(x), x # u' PROVE Ahead(x)'
    <3>1. PICK k \in 1..left : queue[k] = x
      BY <2>3 DEF Ahead
    <3>2. k # 1 /\ k - 1 \in 1..(left - 1) /\ (k - 1) + 1 = k
      BY <1>2, <1>3, <2>3, <3>1
    <3>3. queue'[k - 1] = x
      BY <1>3, <3>1, <3>2
    <3> QED
      BY <1>1, <3>2, <3>3 DEF Ahead
  <2>4. ASSUME NEW x \in V, NEW y \in V PROVE (Ahead(x) \/ Unscanned(x, y) \/ Spread(x, y))'
    <3>1. CASE x = u'
      BY <1>1, <1>5, <3>1 DEF Unscanned
    <3>2. CASE x # u'
      BY <2>1, <2>2, <2>3, <3>2
    <3> QED
      BY <3>1, <3>2
  <2> QED
    BY <2>4 DEF Spreading
<1> QED
  BY <1>1, <1>7, <1>8, <1>9 DEF WInv, Ending, Untouched

(* A relaxation makes a distance shorter, but not shorter than a walk, and *)
(* leaves the front of the queue alone.                                    *)
LEMMA WRelax == WInv /\ Relax /\ IInv' => WInv'
<1> SUFFICES ASSUME WInv, Relax, IInv' PROVE WInv'
  OBVIOUS
<1>1. /\ pc = "scan" /\ pc' = "scan" /\ v <= size /\ Improves(u, v)
      /\ distance' = [distance EXCEPT ![v] = distance[u] + weight(graph, u, v)]
      /\ queue' = IF in_queue[v] THEN queue ELSE Append(queue, v)
      /\ in_queue' = [in_queue EXCEPT ![v] = TRUE] /\ v' = v + 1
      /\ UNCHANGED <<graph, start, i, left, u, has_negative_cycle>>
  BY DEF Relax
<1>2. /\ TypeOK /\ u \in V /\ v \in V /\ i \in 0..size /\ size \in 0..size /\ Lightest' = Lightest
      /\ distance \in [V -> Ints] /\ in_queue \in [V -> BOOLEAN]
      /\ queue \in Seq(V) /\ left \in 0..Len(queue)
  <2>1. TypeOK
    BY DEF WInv, IInv
  <2>2. v \in V /\ size \in 0..size
    <3>1. v \in 1..(size + 1) /\ size \in Nat
      BY <2>1, Types DEF TypeOK
    <3> QED
      BY <1>1, <3>1 DEF V
  <2> QED
    BY <1>1, <2>1, <2>2, SameLightest DEF TypeOK
<1>3. /\ is_edge(graph, u, v) /\ distance[u] # INT_MAX
      /\ distance[v] > distance[u] + weight(graph, u, v)
      /\ weight(graph, u, v) \in Int /\ INT_MAX \in Int
      /\ \A x \in V : distance[x] \in Int /\ x \in Int
  BY <1>1, <1>2, Types DEF Improves
<1>4. /\ distance'[v] = distance[u] + weight(graph, u, v)
      /\ \A x \in V : x # v => distance'[x] = distance[x]
      /\ in_queue'[v] /\ \A x \in V : x # v => in_queue'[x] = in_queue[x]
  BY <1>1, <1>2
<1>5. \A x \in V : distance'[x] <= distance[x] /\ distance'[x] \in Int
  BY <1>2, <1>3, <1>4
<1>6. Nearing'
  <2>1. \A x \in V : distance[x] <= Lightest[i][x] /\ Lightest[i][x] \in Int
    BY <1>1, <1>2, LightestBound DEF WInv, Nearing, Phasing, Near
  <2>2. \A x \in V : distance'[x] <= Lightest[i][x]
    BY <1>3, <1>5, <2>1
  <2> QED
    BY <1>1, <1>2, <2>2 DEF Nearing, Near
<1>7. Requeued'
  <2> SUFFICES ASSUME NEW x \in V, NEW y \in V, Improves(x, y)', ~in_queue'[x]
               PROVE  Unscanned(x, y)'
    BY DEF Requeued
  <2>1. x # v /\ distance'[x] = distance[x] /\ ~in_queue[x]
    BY <1>4
  <2>2. /\ y \in adjacency_list(graph, x) /\ distance[x] # INT_MAX
        /\ distance'[y] > distance[x] + weight(graph, x, y)
    BY <1>1, <2>1 DEF Improves
  <2>3. weight(graph, x, y) \in Int
    BY <1>2, Types
  <2>4. Improves(x, y)
    BY <1>3, <1>5, <2>2, <2>3 DEF Improves
  <2>5. x = u /\ y >= v
    BY <1>1, <2>1, <2>4 DEF WInv, Requeued, Phasing, Unscanned
  <2>6. y # v
    <3> SUFFICES ASSUME y = v PROVE FALSE
      OBVIOUS
    <3> QED
      BY <1>3, <1>4, <2>2, <2>5
  <2>7. y >= v + 1
    BY <1>2, <1>3, <2>5, <2>6
  <2> QED
    BY <1>1, <2>5, <2>7 DEF Unscanned
<1>8. Spreading'
  <2>1. ASSUME NEW x \in V, Ahead(x) PROVE Ahead(x)'
    <3>1. \A k \in 1..left : queue'[k] = queue[k]
      <4>1. CASE in_queue[v]
        BY <1>1, <4>1
      <4>2. CASE ~in_queue[v]
        BY <1>1, <1>2, <4>2
      <4> QED
        BY <4>1, <4>2
    <3> QED
      BY <1>1, <2>1, <3>1 DEF Ahead
  <2>2. ASSUME NEW x \in V, NEW y \in V, Spread(x, y) PROVE Spread(x, y)'
    <3> SUFFICES ASSUME is_edge(graph, x, y), Lightest[i][x] # INT_MAX
                 PROVE  distance'[y] <= Lightest[i][x] + weight(graph, x, y)
      BY <1>1, <1>2 DEF Spread
    <3>1. distance[y] <= Lightest[i][x] + weight(graph, x, y)
      BY <2>2 DEF Spread
    <3>2. Lightest[i][x] \in Int /\ weight(graph, x, y) \in Int
      BY <1>2, LightestBound, Types
    <3> QED
      BY <1>3, <1>5, <3>1, <3>2
  <2>3. ASSUME NEW x \in V, NEW y \in V, x = u, y = v PROVE Spread(x, y)'
    <3>1. Lightest[i][u] \in Int /\ distance[u] <= Lightest[i][u]
      BY <1>1, <1>2, LightestBound DEF WInv, Nearing, Phasing, Near
    <3>2. distance'[v] <= Lightest[i][u] + weight(graph, u, v)
      BY <1>2, <1>3, <1>4, <3>1
    <3> QED
      BY <1>1, <1>2, <2>3, <3>2 DEF Spread
  <2>4. ASSUME NEW x \in V, NEW y \in V PROVE (Ahead(x) \/ Unscanned(x, y) \/ Spread(x, y))'
    <3>1. CASE x = u /\ y = v
      BY <2>3, <3>1
    <3>2. CASE ~(x = u /\ y = v)
      <4>1. Ahead(x) \/ Unscanned(x, y) \/ Spread(x, y)
        BY <1>1 DEF WInv, Spreading
      <4>2. ASSUME Unscanned(x, y) PROVE Unscanned(x, y)'
        <5>1. x = u /\ y >= v /\ y # v
          BY <3>2, <4>2 DEF Unscanned
        <5>2. y >= v + 1
          BY <1>2, <1>3, <5>1
        <5> QED
          BY <1>1, <5>1, <5>2 DEF Unscanned
      <4> QED
        BY <2>1, <2>2, <4>1, <4>2
    <3> QED
      BY <3>1, <3>2
  <2> QED
    BY <2>4 DEF Spreading
<1>9. Bounded'
  <2> SUFFICES ASSUME Settled, NEW x \in V PROVE Lightest[size][x] <= distance'[x]
    BY <1>1, <1>2 DEF Bounded, Settled
  <2>1. \A y \in V : Lightest[size][y] \in Int /\ Lightest[size][y] <= distance[y]
    BY <1>2, LightestBound DEF WInv, Bounded
  <2>2. CASE x = v
    <3>1. Lightest[size][u] \in Int /\ Lightest[size][u] <= distance[u]
      BY <1>2, <2>1
    <3>2. distance[u] <= INT_MAX
      <4>1. distance[u] \in Ints
        BY <1>2
      <4> QED
        BY <1>3, <4>1 DEF Ints
    <3>3. Lightest[size - 1][u] = Lightest[size][u] /\ Lightest[size][u] # INT_MAX
      BY <1>2, <1>3, <3>1, <3>2 DEF Settled
    <3>4. size \in 1..size
      BY <1>2, Types DEF V
    <3>5. Lightest[size][v] <= Lightest[size - 1][u] + weight(graph, u, v)
      BY <1>2, <1>3, <3>3, <3>4, LightestLaw
    <3> QED
      BY <1>2, <1>3, <1>4, <2>1, <2>2, <3>1, <3>3, <3>5, SMTT(40)
  <2>3. CASE x # v
    BY <1>4, <2>1, <2>3
  <2> QED
    BY <2>2, <2>3
<1>10. Ending' /\ Untouched' /\ Flagged'
  <2>1. ~has_negative_cycle
    BY <1>1 DEF WInv, IInv, PassedOver
  <2> QED
    BY <1>1, <2>1 DEF Ending, Untouched, Flagged
<1> QED
  BY <1>6, <1>7, <1>8, <1>9, <1>10 DEF WInv

(* A neighbour that is passed over is near enough.                         *)
LEMMA WScanSkip == WInv /\ ScanSkip /\ IInv' => WInv'
<1> SUFFICES ASSUME WInv, ScanSkip, IInv' PROVE WInv'
  OBVIOUS
<1>1. /\ pc = "scan" /\ pc' = "scan" /\ v <= size /\ ~Improves(u, v) /\ v' = v + 1
      /\ UNCHANGED <<graph, start, distance, queue, in_queue, i, left, u, has_negative_cycle>>
  BY DEF ScanSkip
<1>2. TypeOK /\ u \in V /\ v \in V /\ i \in 0..size
  <2>1. TypeOK
    BY DEF WInv, IInv
  <2>2. v \in V
    <3>1. v \in 1..(size + 1) /\ size \in Nat
      BY <2>1, Types DEF TypeOK
    <3> QED
      BY <1>1, <3>1 DEF V
  <2> QED
    BY <1>1, <2>1, <2>2 DEF TypeOK
<1>3. \A x, y \in V : (Unscanned(x, y) /\ ~(x = u /\ y = v)) => Unscanned(x, y)'
  <2> SUFFICES ASSUME NEW x \in V, NEW y \in V, x = u, y >= v, y # v PROVE y >= v + 1
    BY <1>1 DEF Unscanned
  <2>1. y \in Int /\ v \in Int
    BY <1>2, Types
  <2> QED
    BY <2>1
<1>4. Nearing' /\ Bounded' /\ Flagged'
  BY <1>1, WSame DEF WInv, Nearing, Phasing
<1>5. Requeued'
  <2>1. \A x, y \in V : Improves(x, y) => in_queue[x] \/ Unscanned(x, y)
    BY <1>1 DEF WInv, Requeued, Phasing
  <2>2. \A x, y : Improves(x, y)' = Improves(x, y)
    BY <1>1, WSame
  <2> QED
    BY <1>1, <1>3, <2>1, <2>2 DEF Requeued
<1>6. Spread(u, v)
  <2> SUFFICES ASSUME is_edge(graph, u, v), Lightest[i][u] # INT_MAX
               PROVE  distance[v] <= Lightest[i][u] + weight(graph, u, v)
    BY DEF Spread
  <2>1. Lightest[i][u] \in Int /\ Lightest[i][u] <= INT_MAX /\ distance[u] <= Lightest[i][u]
    BY <1>1, <1>2, LightestBound DEF WInv, Nearing, Phasing, Near
  <2>2. /\ distance[u] \in Int /\ distance[v] \in Int /\ weight(graph, u, v) \in Int
        /\ INT_MAX \in Int /\ v \in adjacency_list(graph, u)
    BY <1>2, Types
  <2>3. ~(distance[v] > distance[u] + weight(graph, u, v))
    <3>1. distance[u] # INT_MAX
      BY <2>1, <2>2
    <3> QED
      BY <1>1, <2>2, <3>1 DEF Improves
  <2> QED
    BY <2>1, <2>2, <2>3
<1>7. Spreading'
  <2>1. \A x, y : Spread(x, y)' = Spread(x, y)
    BY <1>1, WSame
  <2>2. \A x : Ahead(x)' = Ahead(x)
    BY <1>1 DEF Ahead
  <2>3. \A x, y \in V : Ahead(x) \/ Unscanned(x, y) \/ Spread(x, y)
    BY <1>1 DEF WInv, Spreading
  <2>4. ASSUME NEW x \in V, NEW y \in V PROVE Ahead(x) \/ Unscanned(x, y)' \/ Spread(x, y)
    BY <1>3, <1>6, <2>3
  <2> QED
    BY <2>1, <2>2, <2>4 DEF Spreading
<1> QED
  BY <1>1, <1>4, <1>5, <1>7 DEF WInv, Ending, Untouched

(* All neighbours of u have been looked at.                                *)
LEMMA WScanEnd == WInv /\ ScanEnd /\ IInv' => WInv'
<1> SUFFICES ASSUME WInv, ScanEnd, IInv' PROVE WInv'
  OBVIOUS
<1>1. /\ pc = "scan" /\ pc' = "pop" /\ v > size
      /\ UNCHANGED <<graph, start, distance, queue, in_queue, i, left, u, v, has_negative_cycle>>
  BY DEF ScanEnd
<1>2. \A x, y \in V : ~Unscanned(x, y)
  <2>1. v \in Int /\ size \in Int /\ \A y \in V : y \in Int /\ y <= size
    BY Types DEF WInv, IInv, TypeOK
  <2>2. \A y \in V : ~(y >= v)
    BY <1>1, <2>1
  <2> QED
    BY <2>2 DEF Unscanned
<1>3. Nearing' /\ Bounded' /\ Flagged'
  BY <1>1, WSame DEF WInv, Nearing, Phasing
<1>4. Requeued'
  BY <1>1, <1>2, WSame DEF WInv, Requeued, Phasing
<1>5. Spreading'
  <2>1. \A x, y : Spread(x, y)' = Spread(x, y)
    BY <1>1, WSame
  <2>2. \A x : Ahead(x)' = Ahead(x)
    BY <1>1 DEF Ahead
  <2> QED
    BY <1>1, <1>2, <2>1, <2>2 DEF WInv, Spreading
<1> QED
  BY <1>1, <1>3, <1>4, <1>5 DEF WInv, Ending, Untouched

(* Nobody is ahead, so the distances are those of one edge more.           *)
LEMMA WPhaseEnd == WInv /\ PhaseEnd /\ IInv' => WInv'
<1> SUFFICES ASSUME WInv, PhaseEnd, IInv' PROVE WInv'
  OBVIOUS
<1>1. /\ pc = "pop" /\ pc' = "phase" /\ left = 0 /\ i' = i + 1
      /\ UNCHANGED <<graph, start, distance, queue, in_queue, left, u, v, has_negative_cycle>>
  BY DEF PhaseEnd
<1>2. TypeOK /\ i \in 0..size /\ i + 1 \in 1..size /\ (i + 1) - 1 = i
  <2>1. TypeOK /\ i \in 0..size /\ i < size - 1 /\ size \in Nat
    BY <1>1, Types DEF WInv, IInv, Phases, TypeOK
  <2> QED
    BY <2>1
<1>3. \A x, y \in V : Spread(x, y)
  BY <1>1 DEF WInv, Spreading, Unscanned, Ahead
<1>4. Near(i)
  BY <1>1 DEF WInv, Nearing, Phasing
<1>5. Near(i + 1)
  <2> SUFFICES ASSUME NEW x \in V PROVE distance[x] <= Lightest[i + 1][x]
    BY DEF Near
  <2>1. \/ Lightest[i + 1][x] = Lightest[i][x]
        \/ \E y \in V : /\ is_edge(graph, y, x) /\ Lightest[i][y] # INT_MAX
                        /\ Lightest[i + 1][x] = Lightest[i][y] + weight(graph, y, x)
    BY <1>2, LightestLaw
  <2> QED
    BY <1>3, <1>4, <2>1 DEF Near, Spread
<1>6. Nearing'
  <2>1. Lightest' = Lightest /\ i' = i + 1 /\ distance' = distance
    BY <1>1, SameLightest
  <2> QED
    BY <1>5, <2>1 DEF Nearing, Near
<1>7. Requeued'
  BY <1>1, WSame DEF WInv, Requeued, Phasing, Unscanned
<1>8. Bounded' /\ Flagged'
  BY <1>1, WSame
<1> QED
  BY <1>1, <1>6, <1>7, <1>8 DEF WInv, Ending, Untouched, Spreading

(* n - 1 phases were enough, or the queue is empty.                        *)
LEMMA WPhasesEnd == WInv /\ PhasesEnd /\ IInv' => WInv'
<1> SUFFICES ASSUME WInv, PhasesEnd, IInv' PROVE WInv'
  OBVIOUS
<1>1. /\ pc = "phase" /\ pc' = "check" /\ (i >= size - 1 \/ queue = <<>>)
      /\ has_negative_cycle' = FALSE
      /\ UNCHANGED <<graph, start, distance, queue, in_queue, i, left, v>>
  BY DEF PhasesEnd
<1>2. Near(i) /\ \A x, y \in V : Improves(x, y) => in_queue[x]
  BY <1>1 DEF WInv, Nearing, Requeued, Phasing, Unscanned
<1>3. Near(size - 1) \/ \A x, y \in V : ~Improves(x, y)
  <2>1. CASE i >= size - 1
    <3>1. i = size - 1
      <4>1. i \in 0..size /\ i < size /\ size \in Nat
        BY <1>1, Types DEF WInv, IInv, TypeOK
      <4> QED
        BY <2>1, <4>1
    <3> QED
      BY <1>2, <3>1
  <2>2. CASE queue = <<>>
    <3>1. \A x \in V : ~in_queue[x]
      BY <2>2 DEF WInv, IInv, InQueueIsQueue
    <3> QED
      BY <1>2, <3>1
  <2> QED
    BY <1>1, <2>1, <2>2
<1>4. Ending'
  <2>1. Near(size - 1)' = Near(size - 1) /\ \A x, y : Improves(x, y)' = Improves(x, y)
    BY <1>1, WSame
  <2> QED
    BY <1>3, <2>1 DEF Ending
<1>5. Bounded'
  BY <1>1, WSame
<1> QED
  BY <1>1, <1>4, <1>5 DEF WInv, Nearing, Requeued, Spreading, Untouched, Flagged, Phasing

(* The last pass only looks.                                               *)
LEMMA WCheck == WInv /\ (CheckVertex \/ FindCycle \/ CheckEnd) /\ IInv' => WInv'
<1> SUFFICES ASSUME WInv, CheckVertex \/ FindCycle \/ CheckEnd, IInv' PROVE WInv'
  OBVIOUS
<1>1. /\ pc = "check" /\ pc' \in {"check", "done"}
      /\ UNCHANGED <<graph, start, distance, queue, in_queue, i, left, v>>
  BY DEF CheckVertex, FindCycle, CheckEnd
<1>2. Bounded' /\ Near(size - 1)' = Near(size - 1) /\ \A x, y : Improves(x, y)' = Improves(x, y)
  BY <1>1, WSame
<1>3. Ending'
  BY <1>1, <1>2 DEF WInv, Ending
<1>4. Flagged'
  <2>1. CASE FindCycle
    <3>1. u \in V
      <4>1. u \in 1..(size + 1) /\ u <= size /\ size \in Nat
        BY <2>1, Types DEF FindCycle, WInv, IInv, TypeOK
      <4> QED
        BY <4>1 DEF V
    <3> QED
      BY <1>2, <2>1, <3>1 DEF FindCycle, Flagged
  <2>2. CASE ~FindCycle
    BY <1>2, <2>2 DEF CheckVertex, CheckEnd, WInv, Flagged
  <2> QED
    BY <2>1, <2>2
<1> QED
  BY <1>1, <1>2, <1>3, <1>4 DEF WInv, Nearing, Requeued, Spreading, Untouched, Phasing

LEMMA WStutter == WInv /\ UNCHANGED vars /\ IInv' => WInv'
<1> SUFFICES ASSUME WInv, UNCHANGED vars, IInv' PROVE WInv'
  OBVIOUS
<1>1. UNCHANGED <<graph, start, distance, queue, in_queue, i, left, u, v, has_negative_cycle, pc>>
  BY DEF vars
<1>2. /\ Bounded' /\ Flagged' /\ Near(i)' = Near(i) /\ Near(size - 1)' = Near(size - 1)
      /\ \A x, y : Improves(x, y)' = Improves(x, y)
      /\ \A x, y : Spread(x, y)' = Spread(x, y)
      /\ \A x, y : Unscanned(x, y)' = Unscanned(x, y)
      /\ \A x : Ahead(x)' = Ahead(x)
  BY <1>1, WSame DEF Unscanned, Ahead
<1>3. Nearing' /\ Requeued' /\ Untouched'
  BY <1>1, <1>2 DEF WInv, Nearing, Requeued, Untouched, Phasing
<1>4. Spreading' /\ Ending'
  BY <1>1, <1>2 DEF WInv, Spreading, Ending
<1> QED
  BY <1>2, <1>3, <1>4 DEF WInv

LEMMA WInvariance == Spec => []WInv
<1>1. WInv /\ [Next]_vars /\ IInv' => WInv'
  BY WRefuse, WBegin, WPhaseStart, WPop, WRelax, WOverflow, WScanSkip, WScanEnd, WPhaseEnd,
     WPhasesEnd, WCheck, WStutter, Zenon DEF Next, Terminated
<1> QED
  BY WInvInit, <1>1, Invariance, PTL DEF Spec

(* After i phases no distance exceeds the weight of a walk of i edges from *)
(* the start, and every edge that would shorten a path begins at a vertex  *)
(* in the queue, so that an empty queue is the end of the work.            *)
THEOREM PhasesAreEnough == Spec => []PhaseBound
<1>1. WInv => PhaseBound
  BY DEF WInv, Nearing, Requeued, Unscanned, Phasing, Near, PhaseBound
<1> QED
  BY WInvariance, <1>1, PTL

-----------------------------------------------------------------------------
(* Negative cycles.  A vertex that n edges bring nearer than n - 1 is at   *)
(* the end of a walk of n edges, each of which was needed.  The walk meets *)
(* a vertex twice; the shortest part of it between two meetings is a       *)
(* cycle, and it is negative because the vertex is nearer the second time. *)

After(j, k) == IF j = k THEN 1 ELSE j + 1

Round(k, c) ==
  CHOOSE W : W = [j \in 0..k |-> IF j = 0 THEN 0
                                 ELSE W[j - 1] + weight(graph, c[j], c[After(j, k)])]

LEMMA NegativeCycleUnfolded ==
  NegativeCycle <=>
    \E k \in V : \E c \in [1..k -> V] :
      /\ \A j, l \in 1..k : c[j] = c[l] => j = l
      /\ \A j \in 1..k : is_edge(graph, c[j], c[After(j, k)])
      /\ \A j \in 1..k : Lightest[size][c[j]] # INT_MAX
      /\ Round(k, c)[k] < 0
BY DEF NegativeCycle, Round, After

(* The weights of the first edges of a cycle, added up.                    *)
LEMMA RoundLaw ==
  ASSUME TypeOK, NEW k \in V, NEW c \in [1..k -> V]
  PROVE  /\ Round(k, c)[0] = 0
         /\ \A j \in 1..k : Round(k, c)[j] = Round(k, c)[j - 1] + weight(graph, c[j], c[After(j, k)])
         /\ \A j \in 0..k : Round(k, c)[j] \in Int
<1> DEFINE w(j) == weight(graph, c[j], c[After(j, k)])
           F(W) == [j \in 0..k |-> IF j = 0 THEN 0 ELSE W[j - 1] + w(j)]
           P == [j \in 0..k |-> IF j = 0 THEN {0} ELSE Int]
           R == [j \in 1..k |-> { p \in Int \X Int : p[2] = p[1] + w(j) }]
<1>1. k \in Nat
  BY DEF V
<1>2. \A j \in 1..k : w(j) \in Int
  <2>1. \A j \in 1..k : After(j, k) \in 1..k
    BY <1>1 DEF After
  <2> QED
    BY <2>1, Types
<1> HIDE DEF w
<1>3. P[0] # {} /\ \A j \in 0..k : P[j] \subseteq Int
  BY <1>1
<1>4. ASSUME NEW j \in 1..k, NEW a \in P[j - 1] PROVE \E b \in P[j] : <<a, b>> \in R[j]
  <2>1. j \in 0..k /\ j - 1 \in 0..k /\ j # 0
    BY <1>1
  <2>2. a \in Int
    BY <1>3, <2>1
  <2>3. a + w(j) \in P[j] /\ <<a, a + w(j)>> \in R[j]
    BY <1>2, <2>1, <2>2
  <2> QED
    BY <2>3
<1>5. PICK f \in [0..k -> Int] : /\ \A j \in 0..k : f[j] \in P[j]
                                 /\ \A j \in 1..k : <<f[j - 1], f[j]>> \in R[j]
  <2> HIDE DEF P, R
  <2> QED
    BY <1>1, <1>3, <1>4, Stepwise
<1>6. f = F(f)
  <2>1. f[0] = 0
    BY <1>1, <1>5
  <2>2. \A j \in 0..k : j # 0 => j \in 1..k
    BY <1>1
  <2>3. \A j \in 1..k : f[j] = f[j - 1] + w(j)
    BY <1>5
  <2>4. \A j \in 0..k : f[j] = F(f)[j]
    BY <2>1, <2>2, <2>3
  <2> QED
    BY <2>4
<1> DEFINE W == Round(k, c)
<1>7. W = F(W)
  <2>1. W = CHOOSE g : g = F(g)
    BY Zenon DEF Round, w
  <2> QED
    BY <1>6, <2>1, Zenon
<1> HIDE DEF W
<1>8. \A j \in 0..k : W[j] = IF j = 0 THEN 0 ELSE W[j - 1] + w(j)
  BY <1>7
<1>9. W[0] = 0 /\ \A j \in 1..k : W[j] = W[j - 1] + w(j)
  BY <1>1, <1>8
<1>10. \A j \in 0..k : W[j] \in Int
  <2> DEFINE U == { j \in 0..k : W[j] \notin Int }
  <2> SUFFICES ASSUME U # {} PROVE FALSE
    BY Zenon
  <2>1. PICK m \in U : \A j \in U : m <= j
    <3>1. U \in SUBSET Nat
      OBVIOUS
    <3> HIDE DEF U
    <3> QED
      BY <3>1, LeastNatural
  <2>2. m # 0
    BY <1>9
  <2>3. m \in 1..k /\ m - 1 \in 0..k /\ ~(m <= m - 1)
    BY <1>1, <2>2
  <2>4. W[m - 1] \in Int
    BY <2>1, <2>3
  <2>5. W[m] \in Int
    BY <1>2, <1>9, <2>3, <2>4
  <2> QED
    BY <2>5
<1> QED
  BY <1>9, <1>10, Zenon DEF W, w

(* The walk to whom n edges bring nearer, numbered from its beginning.     *)
LEMMA LongWalk ==
  ASSUME TypeOK, start \in V, ~Settled
  PROVE  \E g \in [0..size -> V] :
           /\ \A k \in 1..size : Lightest[k][g[k]] < Lightest[k - 1][g[k]]
           /\ \A k \in 1..size :
                /\ is_edge(graph, g[k - 1], g[k])
                /\ Lightest[k - 1][g[k - 1]] # INT_MAX
                /\ Lightest[k][g[k]] = Lightest[k - 1][g[k - 1]] + weight(graph, g[k - 1], g[k])
<1> DEFINE n == size
           Nearer(k, x) == Lightest[k][x] < Lightest[k - 1][x]
           Link(k, x, y) == /\ is_edge(graph, y, x) /\ Lightest[k - 1][y] # INT_MAX
                            /\ Lightest[k][x] = Lightest[k - 1][y] + weight(graph, y, x)
           P == [j \in 0..n |-> { x \in V : j # n => Nearer(n - j, x) }]
           R == [j \in 1..n |-> { p \in V \X V : Link(n - j + 1, p[1], p[2]) }]
<1>1. n \in Nat /\ n >= 1 /\ n \in 1..n
  BY Types DEF V
<1>2. PICK z \in V : Nearer(n, z)
  <2>1. \A x \in V : Lightest[n][x] <= Lightest[n - 1][x] /\ Lightest[n][x] \in Int
                     /\ Lightest[n - 1][x] \in Int
    BY <1>1, LightestLaw
  <2> QED
    BY <2>1 DEF Settled
<1>3. P[0] # {}
  <2>1. 0 \in 0..n /\ n - 0 = n
    BY <1>1
  <2> QED
    BY <1>2, <2>1
<1>4. \A j \in 0..n : P[j] \subseteq V
  OBVIOUS
<1>5. ASSUME NEW j \in 1..n, NEW a \in P[j - 1] PROVE \E b \in P[j] : <<a, b>> \in R[j]
  <2> DEFINE k == n - j + 1
  <2>1. /\ k \in 1..n /\ k - 1 = n - j /\ n - (j - 1) = k /\ j - 1 \in 0..n /\ j - 1 # n
        /\ j \in 0..n /\ k \in Int
    BY <1>1
  <2>2. a \in V /\ Nearer(k, a)
    BY <2>1
  <2>3. Lightest[k][a] \in Int /\ Lightest[k - 1][a] \in Int
    BY <2>1, <2>2, LightestLaw
  <2>4. PICK b \in V : Link(k, a, b)
    <3>1. Lightest[k][a] # Lightest[k - 1][a]
      BY <2>2, <2>3
    <3> HIDE DEF k
    <3> QED
      BY <2>1, <2>2, <3>1, LightestLaw
  <2>5. b \in P[j]
    <3> SUFFICES ASSUME j # n PROVE Nearer(k - 1, b)
      BY <2>1
    <3>1. k - 1 \in 1..n /\ k \in Int
      BY <1>1
    <3>2. /\ Lightest[k - 1][b] <= Lightest[(k - 1) - 1][b]
          /\ Lightest[k - 1][b] \in Int /\ Lightest[(k - 1) - 1][b] \in Int
      BY <3>1, LightestLaw, <1>1
    <3>3. Lightest[k - 1][b] # Lightest[(k - 1) - 1][b]
      <4> SUFFICES ASSUME Lightest[k - 1][b] = Lightest[(k - 1) - 1][b] PROVE FALSE
        OBVIOUS
      <4>1. is_edge(graph, b, a) /\ Lightest[(k - 1) - 1][b] # INT_MAX
        BY <2>4
      <4>2. Lightest[k - 1][a] <= Lightest[(k - 1) - 1][b] + weight(graph, b, a)
        <5> HIDE DEF k
        <5> QED
          BY <2>2, <3>1, <4>1, LightestLaw
      <4>3. Lightest[k][a] = Lightest[k - 1][b] + weight(graph, b, a)
        BY <2>4
      <4>4. weight(graph, b, a) \in Int
        BY <2>2, Types
      <4> QED
        BY <2>2, <2>3, <3>2, <4>2, <4>3, <4>4
    <3> QED
      BY <3>2, <3>3
  <2>6. <<a, b>> \in R[j]
    BY <2>2, <2>4
  <2> QED
    BY <2>5, <2>6
<1>6. PICK f \in [0..n -> V] : /\ \A j \in 0..n : f[j] \in P[j]
                               /\ \A j \in 1..n : <<f[j - 1], f[j]>> \in R[j]
  <2> HIDE DEF P, R, n
  <2> QED
    BY <1>1, <1>3, <1>4, <1>5, Stepwise
<1> DEFINE g == [k \in 0..n |-> f[n - k]]
<1>7. g \in [0..n -> V]
  BY <1>1
<1>8. ASSUME NEW k \in 1..n PROVE Nearer(k, g[k])
  <2>1. k \in 0..n /\ n - k \in 0..n /\ n - k # n /\ n - (n - k) = k
    BY <1>1
  <2>2. f[n - k] \in P[n - k] /\ g[k] = f[n - k]
    BY <1>6, <2>1
  <2>3. Nearer(n - (n - k), f[n - k])
    BY <2>1, <2>2
  <2> QED
    BY <2>1, <2>2, <2>3
<1>9. ASSUME NEW k \in 1..n PROVE Link(k, g[k], g[k - 1])
  <2> DEFINE j == n - k + 1
  <2>1. /\ j \in 1..n /\ j - 1 = n - k /\ n - (k - 1) = j /\ n - j + 1 = k
        /\ k \in 0..n /\ k - 1 \in 0..n
    BY <1>1
  <2>2. <<f[j - 1], f[j]>> \in R[j]
    BY <1>6, <2>1
  <2>3. Link(n - j + 1, f[j - 1], f[j])
    <3> HIDE DEF j
    <3> QED
      BY <2>1, <2>2
  <2>4. g[k] = f[j - 1] /\ g[k - 1] = f[j]
    BY <2>1
  <2> QED
    BY <2>1, <2>3, <2>4
<1> HIDE DEF g
<1> QED
  BY <1>7, <1>8, <1>9

(* The part of it between two meetings, the shortest there is.             *)
LEMMA CycleOfWalk ==
  ASSUME TypeOK, start \in V, ~Settled
  PROVE  NegativeCycle
<1>1. PICK g \in [0..size -> V] :
           /\ \A k \in 1..size : Lightest[k][g[k]] < Lightest[k - 1][g[k]]
           /\ \A k \in 1..size :
                /\ is_edge(graph, g[k - 1], g[k])
                /\ Lightest[k - 1][g[k - 1]] # INT_MAX
                /\ Lightest[k][g[k]] = Lightest[k - 1][g[k - 1]] + weight(graph, g[k - 1], g[k])
  BY LongWalk
<1>2. size \in Nat
  BY Types
<1> DEFINE Meets(a, d) == a + d <= size /\ g[a] = g[a + d]
           D == { d \in 1..size : \E a \in 0..size : Meets(a, d) }
<1>3. D # {}
  <2>1. PICK x \in 0..size, y \in 0..size : x # y /\ g[x] = g[y]
    <3>1. /\ IsFiniteSet(0..size) /\ Cardinality(0..size) = size + 1
          /\ IsFiniteSet(V) /\ Cardinality(V) = size
      BY <1>2, FS_Interval DEF V
    <3> QED
      BY <1>1, <1>2, <3>1, FS_PigeonHole, SMTT(40)
  <2>2. CASE x < y
    <3>1. y - x \in 1..size /\ Meets(x, y - x)
      BY <1>2, <2>1, <2>2
    <3> QED
      BY <3>1
  <2>3. CASE y < x
    <3>1. x - y \in 1..size /\ Meets(y, x - y)
      BY <1>2, <2>1, <2>3
    <3> QED
      BY <3>1
  <2> QED
    BY <2>1, <2>2, <2>3
<1>4. PICK d \in D : \A e \in D : d <= e
  <2>1. D \in SUBSET Nat
    OBVIOUS
  <2> HIDE DEF D
  <2> QED
    BY <1>3, <2>1, LeastNatural
<1>5. PICK a \in 0..size : Meets(a, d)
  OBVIOUS
<1>6. d \in 1..size /\ d \in V /\ a \in Nat /\ a + d <= size /\ g[a] = g[a + d]
  BY <1>5 DEF V
<1> DEFINE c == [j \in 1..d |-> g[a + j - 1]]
<1>7. \A j \in 1..d : a + j - 1 \in 0..size /\ c[j] = g[a + j - 1] /\ c[j] \in V
  BY <1>2, <1>6
<1>8. c \in [1..d -> V]
  BY <1>7
<1>9. ASSUME NEW j \in 1..d
      PROVE  /\ a + j \in 1..size /\ (a + j) - 1 = a + j - 1
             /\ c[After(j, d)] = g[a + j] /\ c[j] = g[(a + j) - 1]
  <2>1. a + j \in 1..size /\ (a + j) - 1 = a + j - 1
    BY <1>2, <1>6
  <2>2. CASE j = d
    <3>1. 1 \in 1..d /\ a + 1 - 1 = a /\ After(j, d) = 1
      BY <1>2, <1>6, <2>2 DEF After
    <3>2. c[1] = g[a]
      BY <3>1
    <3> HIDE DEF c
    <3> QED
      BY <1>6, <1>7, <2>1, <2>2, <3>1, <3>2
  <2>3. CASE j # d
    <3>1. j + 1 \in 1..d /\ a + (j + 1) - 1 = a + j /\ After(j, d) = j + 1
      BY <1>6, <2>3 DEF After
    <3>2. c[j + 1] = g[a + j]
      BY <3>1
    <3> HIDE DEF c
    <3> QED
      BY <1>7, <2>1, <3>1, <3>2
  <2> QED
    BY <2>2, <2>3
<1> HIDE DEF c
<1>10. ASSUME NEW j \in 1..d, NEW l \in 1..d, c[j] = c[l] PROVE j = l
  <2>1. ASSUME NEW p \in 1..d, NEW q \in 1..d, p < q, c[p] = c[q] PROVE FALSE
    <3> DEFINE x == a + p - 1
               e == q - p
    <3>1. x \in 0..size /\ e \in 1..size /\ e < d /\ x + e = a + q - 1 /\ x + e <= size
      BY <1>2, <1>6, <1>7, <2>1
    <3>2. g[x] = g[x + e]
      <4> HIDE DEF x, e
      <4>1. g[a + p - 1] = g[a + q - 1]
        BY <1>7, <2>1
      <4> QED
        BY <3>1, <4>1 DEF x
    <3>3. e \in D
      BY <3>1, <3>2
    <3>4. d <= e
      BY <1>4, <3>3
    <3> QED
      BY <1>6, <3>1, <3>4
  <2>2. j \in Int /\ l \in Int
    BY <1>6
  <2> QED
    BY <1>10, <2>1, <2>2
<1>11. \A j \in 1..d : is_edge(graph, c[j], c[After(j, d)])
  BY <1>1, <1>9
<1>12. ASSUME NEW j \in 1..d PROVE Lightest[size][c[j]] # INT_MAX
  <2> DEFINE k == (a + j) - 1
  <2>1. k \in 0..size /\ size \in k..size /\ a + j \in 1..size /\ c[j] = g[k] /\ g[k] \in V
    BY <1>2, <1>7, <1>9
  <2>2. Lightest[k][g[k]] # INT_MAX
    BY <1>1, <2>1
  <2>3. Lightest[size][g[k]] <= Lightest[k][g[k]]
    <3> HIDE DEF k
    <3> QED
      BY <2>1, LightestFalls
  <2>4. Lightest[k][g[k]] \in Int /\ Lightest[k][g[k]] <= INT_MAX
    <3> HIDE DEF k
    <3> QED
      BY <2>1, LightestBound
  <2>5. Lightest[size][g[k]] \in Int /\ INT_MAX \in Int
    BY <1>2, <2>1, LightestLaw, Types
  <2> HIDE DEF k
  <2> QED
    BY <2>1, <2>2, <2>3, <2>4, <2>5
<1>13. Round(d, c)[d] < 0
  <2> DEFINE W == Round(d, c)
             h == [j \in 0..d |-> Lightest[a + j][g[a + j]] - Lightest[a][g[a]]]
  <2>1. /\ W[0] = 0
        /\ \A j \in 1..d : W[j] = W[j - 1] + weight(graph, c[j], c[After(j, d)])
        /\ \A j \in 0..d : W[j] \in Int
    BY <1>6, <1>8, RoundLaw
  <2> HIDE DEF W
  <2>2. d \in Nat /\ 0 \in 0..d /\ d \in 0..d /\ \A j \in 0..d : a + j \in 0..size
    BY <1>2, <1>6
  <2>3. a + 0 = a /\ a \in 0..size /\ g[a] \in V /\ Lightest[a][g[a]] \in Int
    <3>1. a + 0 = a /\ a \in 0..size /\ g[a] \in V
      BY <1>1, <1>5, <1>6
    <3> QED
      BY <3>1, LightestLaw
  <2>4. \A j \in 0..d : /\ Lightest[a + j][g[a + j]] \in Int /\ h[j] \in Int
                        /\ h[j] = Lightest[a + j][g[a + j]] - Lightest[a][g[a]]
    <3>1. \A j \in 0..d : Lightest[a + j][g[a + j]] \in Int
      BY <1>1, <2>2, LightestLaw
    <3> QED
      BY <2>3, <3>1
  <2>5. h[0] = 0
    BY <2>2, <2>3, <2>4
  <2>6. ASSUME NEW j \in 1..d PROVE W[j] - W[j - 1] <= h[j] - h[j - 1]
    <3>1. j \in 0..d /\ j - 1 \in 0..d /\ a + (j - 1) = (a + j) - 1
      BY <1>6
    <3>2. h[j] - h[j - 1] = Lightest[a + j][g[a + j]] - Lightest[(a + j) - 1][g[(a + j) - 1]]
      <4>1. /\ h[j] = Lightest[a + j][g[a + j]] - Lightest[a][g[a]]
            /\ h[j - 1] = Lightest[(a + j) - 1][g[(a + j) - 1]] - Lightest[a][g[a]]
            /\ Lightest[a + j][g[a + j]] \in Int
            /\ Lightest[(a + j) - 1][g[(a + j) - 1]] \in Int
        BY <2>4, <3>1
      <4> QED
        BY <2>3, <4>1, SMTT(40)
    <3>3. Lightest[a + j][g[a + j]]
            = Lightest[(a + j) - 1][g[(a + j) - 1]] + weight(graph, c[j], c[After(j, d)])
      BY <1>1, <1>9
    <3>4. weight(graph, c[j], c[After(j, d)]) \in Int /\ Lightest[(a + j) - 1][g[(a + j) - 1]] \in Int
      <4>1. Lightest[a + (j - 1)][g[a + (j - 1)]] \in Int
        BY <2>4, <3>1
      <4>2. After(j, d) \in 1..d
        BY <1>6 DEF After
      <4> QED
        BY <1>7, <3>1, <4>1, <4>2, Types
    <3>5. W[j] - W[j - 1] = weight(graph, c[j], c[After(j, d)])
      BY <2>1, <3>1, <3>4
    <3> HIDE DEF h
    <3> QED
      BY <3>2, <3>3, <3>4, <3>5
  <2>7. W[d] <= h[d]
    <3> HIDE DEF h
    <3>1. \A j \in 0..d : W[j] \in Int /\ h[j] \in Int
      BY <2>1, <2>4
    <3>2. W[0] <= h[0]
      BY <2>1, <2>5
    <3> QED
      BY <2>2, <2>6, <3>1, <3>2, NoFaster
  <2>8. h[d] < 0
    <3> DEFINE y == g[a]
    <3>1. /\ a + d \in 1..size /\ (a + d) - 1 \in a..size /\ (a + d) - 1 \in 0..size
          /\ y \in V /\ g[a + d] = y /\ a \in 0..size
      BY <1>2, <1>5, <1>6
    <3>2. Lightest[a + d][g[a + d]] < Lightest[(a + d) - 1][g[a + d]]
      BY <1>1, <3>1
    <3> HIDE DEF y
    <3>3. Lightest[(a + d) - 1][y] <= Lightest[a][y]
      BY <3>1, LightestFalls
    <3>4. Lightest[a + d][y] \in Int /\ Lightest[(a + d) - 1][y] \in Int /\ Lightest[a][y] \in Int
      BY <3>1, <2>2, LightestLaw
    <3>5. Lightest[a + d][y] < Lightest[a][y]
      BY <3>1, <3>2, <3>3, <3>4
    <3>6. h[d] = Lightest[a + d][y] - Lightest[a][y]
      BY <2>2, <2>4, <3>1 DEF y
    <3> QED
      BY <3>4, <3>5, <3>6
  <2>9. W[d] \in Int /\ h[d] \in Int
    BY <2>1, <2>2, <2>4
  <2> QED
    BY <2>7, <2>8, <2>9 DEF W
<1> QED
  BY <1>6, <1>8, <1>10, <1>11, <1>12, <1>13, NegativeCycleUnfolded

(* Unless the flag is set, nothing is left to improve, so that no walk is  *)
(* lighter than the distance of its end.                                   *)
LEMMA NearAtLast ==
  ASSUME WInv, pc = "done", ~has_negative_cycle
  PROVE  Near(size) /\ \A x, y \in V : ~Improves(x, y)
<1>1. TypeOK /\ start \in V /\ size \in Nat /\ u = size + 1
  BY Types DEF WInv, IInv, TypeOK, PassedOver
<1>2. distance[start] <= 0 /\ \A x, y \in V : ~Improves(x, y)
  <2>1. \A x \in V : x < size + 1
    BY <1>1, Types
  <2> QED
    BY <1>1, <2>1 DEF WInv, IInv, StartBound, PassedOver
<1> DEFINE U == { k \in 0..size : ~Near(k) }
<1>3. ASSUME U # {} PROVE FALSE
  <2>1. PICK m \in U : \A j \in U : m <= j
    <3>1. U \in SUBSET Nat
      OBVIOUS
    <3> HIDE DEF U
    <3> QED
      BY <1>3, <3>1, LeastNatural
  <2>2. \A x \in V : distance[x] \in Int /\ distance[x] <= INT_MAX /\ INT_MAX \in Int
    <3>1. \A x \in V : distance[x] \in Ints /\ INT_MAX \in Int
      BY <1>1, Types DEF TypeOK
    <3> QED
      BY <3>1 DEF Ints
  <2>3. m # 0
    <3>1. Near(0)
      BY <1>1, <1>2, <2>2, LightestLaw DEF Near
    <3> QED
      BY <3>1
  <2>4. m \in 1..size /\ m - 1 \in 0..size /\ ~(m <= m - 1)
    BY <1>1, <2>3
  <2>5. Near(m - 1)
    BY <2>1, <2>4
  <2>6. ASSUME NEW x \in V PROVE distance[x] <= Lightest[m][x]
    <3>1. \/ Lightest[m][x] = Lightest[m - 1][x]
          \/ \E y \in V : /\ is_edge(graph, y, x) /\ Lightest[m - 1][y] # INT_MAX
                          /\ Lightest[m][x] = Lightest[m - 1][y] + weight(graph, y, x)
      BY <1>1, <2>4, LightestLaw
    <3>2. CASE Lightest[m][x] = Lightest[m - 1][x]
      BY <2>5, <3>2 DEF Near
    <3>3. ASSUME NEW y \in V, is_edge(graph, y, x), Lightest[m - 1][y] # INT_MAX,
                 Lightest[m][x] = Lightest[m - 1][y] + weight(graph, y, x)
          PROVE  distance[x] <= Lightest[m][x]
      <4>1. /\ Lightest[m - 1][y] \in Int /\ Lightest[m - 1][y] <= INT_MAX
            /\ distance[y] <= Lightest[m - 1][y]
        BY <1>1, <2>4, <2>5, LightestBound DEF Near
      <4>2. weight(graph, y, x) \in Int /\ x \in adjacency_list(graph, y)
        BY <1>1, <3>3, Types
      <4>3. distance[y] # INT_MAX
        BY <2>2, <3>3, <4>1
      <4>4. ~(distance[x] > distance[y] + weight(graph, y, x))
        BY <1>2, <4>2, <4>3 DEF Improves
      <4> QED
        BY <2>2, <3>3, <4>1, <4>2, <4>4
    <3> QED
      BY <3>1, <3>2, <3>3
  <2>7. Near(m)
    BY <2>6 DEF Near
  <2> QED
    BY <2>7
<1>4. size \in 0..size
  BY <1>1
<1> QED
  BY <1>2, <1>3, <1>4

(* Around a negative cycle within reach some edge improves its end.        *)
LEMMA NoCycleUnnoticed ==
  ASSUME WInv, pc = "done", ~has_negative_cycle
  PROVE  ~NegativeCycle
<1>1. PICK k \in V : NegativeCycle =>
    \E c \in [1..k -> V] :
      /\ \A j \in 1..k : is_edge(graph, c[j], c[After(j, k)])
      /\ \A j \in 1..k : Lightest[size][c[j]] # INT_MAX
      /\ Round(k, c)[k] < 0
  <2>1. start \in V
    BY DEF WInv, IInv, TypeOK
  <2> QED
    BY <2>1, NegativeCycleUnfolded, Zenon
<1> SUFFICES ASSUME NEW c \in [1..k -> V],
                    \A j \in 1..k : is_edge(graph, c[j], c[After(j, k)]),
                    \A j \in 1..k : Lightest[size][c[j]] # INT_MAX,
                    Round(k, c)[k] < 0
             PROVE  FALSE
  BY <1>1, Zenon
<1>2. TypeOK /\ size \in Nat /\ k \in Nat /\ k >= 1 /\ Near(size)
      /\ \A x, y \in V : ~Improves(x, y)
  BY Types, NearAtLast DEF WInv, IInv, V
<1> DEFINE W == Round(k, c)
           a == distance[c[1]]
           f == [j \in 0..k |-> (IF j = 0 THEN a ELSE distance[c[After(j, k)]]) - a]
<1>3. /\ W[0] = 0
      /\ \A j \in 1..k : W[j] = W[j - 1] + weight(graph, c[j], c[After(j, k)])
      /\ \A j \in 0..k : W[j] \in Int
  BY <1>2, RoundLaw
<1> HIDE DEF W
<1>4. /\ \A j \in 1..k : c[j] \in V /\ distance[c[j]] \in Int /\ After(j, k) \in 1..k
      /\ a \in Int /\ 0 \in 0..k /\ k \in 0..k /\ 1 \in 1..k
  <2>1. TypeOK
    BY <1>2
  <2>2. \A j \in 1..k : c[j] \in V /\ After(j, k) \in 1..k
    BY <1>2 DEF After
  <2>3. 0 \in 0..k /\ k \in 0..k /\ 1 \in 1..k
    BY <1>2
  <2>4. \A x \in V : distance[x] \in Int
    BY <2>1, Types
  <2> QED
    BY <2>2, <2>3, <2>4
<1>5. /\ \A j \in 0..k : f[j] \in Int
      /\ f[0] = 0 /\ f[k] = 0
      /\ \A j \in 1..k : f[j] = distance[c[After(j, k)]] - a /\ f[j - 1] = distance[c[j]] - a
  <2>1. \A j \in 0..k : j # 0 => j \in 1..k
    BY <1>2
  <2>2. \A j \in 0..k : f[j] \in Int
    BY <1>4, <2>1, SMTT(40)
  <2>3. f[0] = 0
    BY <1>4
  <2>4. After(k, k) = 1
    BY DEF After
  <2>5. f[k] = 0
    BY <1>2, <1>4, <2>4
  <2>6. ASSUME NEW j \in 1..k PROVE f[j] = distance[c[After(j, k)]] - a
    <3>1. j \in 0..k /\ j # 0
      BY <1>2
    <3> QED
      BY <3>1
  <2>7. ASSUME NEW j \in 1..k PROVE f[j - 1] = distance[c[j]] - a
    <3>1. CASE j = 1
      BY <1>4, <2>3, <3>1
    <3>2. CASE j # 1
      <4>1. j - 1 \in 0..k /\ j - 1 # 0 /\ After(j - 1, k) = j
        BY <1>2, <3>2 DEF After
      <4> QED
        BY <4>1
    <3> QED
      BY <3>1, <3>2
  <2> HIDE DEF f, a
  <2> QED
    BY <2>2, <2>3, <2>5, <2>6, <2>7
<1>6. ASSUME NEW j \in 1..k PROVE f[j] - f[j - 1] <= W[j] - W[j - 1]
  <2> DEFINE x == c[j]
             y == c[After(j, k)]
  <2>1. x \in V /\ y \in V /\ is_edge(graph, x, y) /\ Lightest[size][x] # INT_MAX
    BY <1>4
  <2>2. f[j] - f[j - 1] = distance[y] - distance[x]
    <3>1. f[j] = distance[y] - a /\ f[j - 1] = distance[x] - a
      BY <1>5
    <3>2. distance[x] \in Int /\ distance[y] \in Int
      BY <1>4
    <3> HIDE DEF f, a, x, y
    <3> QED
      BY <1>4, <3>1, <3>2, SMTT(40)
  <2>3. W[j] - W[j - 1] = weight(graph, x, y)
    <3>1. TypeOK /\ j - 1 \in 0..k
      BY <1>2
    <3>2. weight(graph, x, y) \in Int
      <4> HIDE DEF x, y
      <4> QED
        BY <2>1, <3>1, Types
    <3> QED
      BY <1>3, <3>1, <3>2
  <2> HIDE DEF f, x, y
  <2>4. /\ distance[x] \in Int /\ distance[y] \in Int /\ weight(graph, x, y) \in Int
        /\ INT_MAX \in Int /\ y \in adjacency_list(graph, x)
    <3>1. TypeOK
      BY <1>2
    <3> QED
      BY <2>1, <3>1, Types
  <2>5. distance[x] # INT_MAX
    <3>1. size \in 0..size
      BY <1>2
    <3>2. /\ Lightest[size][x] \in Int /\ Lightest[size][x] <= INT_MAX
          /\ distance[x] <= Lightest[size][x]
      BY <1>2, <2>1, <3>1, LightestBound DEF Near
    <3> QED
      BY <2>1, <2>4, <3>2
  <2>6. ~(distance[y] > distance[x] + weight(graph, x, y))
    BY <1>2, <2>1, <2>4, <2>5 DEF Improves
  <2> QED
    BY <2>2, <2>3, <2>4, <2>6
<1>7. f[k] <= W[k]
  <2> HIDE DEF f
  <2>1. f[0] <= W[0]
    BY <1>3, <1>5
  <2>2. \A j \in 0..k : f[j] \in Int /\ W[j] \in Int
    BY <1>3, <1>5
  <2> QED
    BY <1>2, <1>6, <2>1, <2>2, NoFaster
<1>8. W[k] \in Int /\ W[k] < 0
  BY <1>3, <1>4 DEF W
<1> QED
  BY <1>5, <1>7, <1>8

(* Had the walks of n edges been no lighter, the distances would be theirs *)
(* and the last pass would have found nothing.                             *)
LEMMA NoFalseAlarm ==
  ASSUME WInv, pc = "done", has_negative_cycle
  PROVE  NegativeCycle
<1>1. TypeOK /\ size \in 1..size /\ size \in 0..size /\ size - 1 \in 0..size /\ start \in V
  <2>1. TypeOK /\ start \in V
    BY DEF WInv, IInv, TypeOK
  <2>2. size \in Nat /\ size >= 1
    BY <2>1, Types
  <2> QED
    BY <2>1, <2>2
<1> SUFFICES ASSUME Settled PROVE FALSE
  BY <1>1, CycleOfWalk
<1>2. PICK x \in V, y \in V : Improves(x, y)
  BY DEF WInv, Flagged
<1>3. Near(size - 1)
  BY <1>2 DEF WInv, Ending
<1>4. ASSUME NEW z \in V PROVE distance[z] = Lightest[size][z] /\ distance[z] = Lightest[size - 1][z]
  <2>1. Lightest[size][z] <= distance[z] /\ distance[z] <= Lightest[size - 1][z]
    BY <1>3 DEF WInv, Bounded, Near
  <2>2. Lightest[size - 1][z] = Lightest[size][z]
    BY DEF Settled
  <2>3. distance[z] \in Int /\ Lightest[size][z] \in Int
    BY <1>1, LightestLaw, Types
  <2> QED
    BY <2>1, <2>2, <2>3
<1>5. /\ is_edge(graph, x, y) /\ distance[x] # INT_MAX
      /\ distance[y] > distance[x] + weight(graph, x, y)
      /\ distance[x] \in Int /\ distance[y] \in Int /\ weight(graph, x, y) \in Int
  BY <1>1, <1>2, Types DEF Improves
<1>6. Lightest[size][y] <= Lightest[size - 1][x] + weight(graph, x, y)
  BY <1>1, <1>4, <1>5, LightestLaw
<1> QED
  BY <1>4, <1>5, <1>6

(* has_negative_cycle is set exactly if there is a negative cycle all of   *)
(* which is within reach of the start: a run that ends has not missed one, *)
(* and relaxations were not cut off too early to tell.                     *)
THEOREM FlagIsRight == Spec => []FlagIffNegativeCycle
<1>1. WInv => FlagIffNegativeCycle
  <2> SUFFICES ASSUME WInv, pc = "done" PROVE has_negative_cycle <=> NegativeCycle
    BY DEF FlagIffNegativeCycle
  <2>1. CASE has_negative_cycle
    BY <2>1, NoFalseAlarm
  <2>2. CASE ~has_negative_cycle
    BY <2>2, NoCycleUnnoticed
  <2> QED
    BY <2>1, <2>2
<1> QED
  BY WInvariance, <1>1, PTL

=============================================================================
