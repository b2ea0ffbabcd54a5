-------------------------- MODULE AntColonyProofs --------------------------
(***************************************************************************)
(* The ant colony, for every graph without negative weights, any number of *)
(* ants and of iterations, and whatever they choose at random: what        *)
(* GetBestPath returns, and where the pheromone lies.                      *)
(*                                                                         *)
(* The path of an ant at work never repeats a vertex (Wandering), so that  *)
(* a path of full length is a route (Arrived).  That a deposit lies along  *)
(* one route needs that no two are made under one name (Unmarked).  That   *)
(* no earlier route was shorter is kept with the pheromone (Unbeaten):     *)
(* when an ant marks its route, the best is at most as long (Arrived).     *)
(***************************************************************************)
EXTENDS AntColony, SumTheorems, SequenceTheorems

Wandering ==
  pc = "wander" =>
    /\ k < num_ants /\ Len(path) \in 1..size
    /\ \A i, j \in 1..Len(path) : path[i] = path[j] => i = j
    /\ \A i \in 1..(Len(path) - 1) : is_edge(graph, path[i], path[i + 1])

Arrived ==
  /\ Len(path_lengths) = Len(paths)
  /\ \A i \in 1..Len(paths) : /\ Len(paths[i]) = size /\ paths[i] \in Routes
                              /\ path_lengths[i] = Length(paths[i])

(* The deposits to come are not there yet. *)
Unmarked ==
  \A a \in V \X V : \A d \in pheromones_[a] :
    d[1] < iter \/ (pc = "deposit" /\ d[1] = iter /\ d[2] < k) \/ pc = "undefined"

Iterating == pc # "done" => iter < max_iterations

(* On a complete graph every ant gets through. *)
NobodyStuck ==
  Complete => /\ pc # "undefined"
              /\ pc \in {"ants", "wander"} => Len(paths) = k
              /\ pc = "deposit" => Len(paths) = num_ants

IInv ==
  /\ TypeOK /\ graph \in Graphs
  /\ Wandering /\ Arrived /\ Unmarked /\ Iterating /\ NobodyStuck
  /\ BestSoFar /\ Unbeaten

-----------------------------------------------------------------------------
(* The sums of the first terms of a sequence of naturals.                  *)
LEMMA PartialSums ==
  ASSUME NEW n \in Nat, NEW w \in [2..n -> Nat]
  PROVE  \E f \in [1..n -> Nat] :
           \A i \in 1..n : f[i] = IF i = 1 THEN 0 ELSE f[i - 1] + w[i]
<1> DEFINE Sums(f, m) == \A i \in 1..m : f[i] = IF i = 1 THEN 0 ELSE f[i - 1] + w[i]
           T == { m \in Nat : m <= n /\ ~\E f \in [1..m -> Nat] : Sums(f, m) }
<1> SUFFICES ASSUME ~\E f \in [1..n -> Nat] : Sums(f, n) PROVE FALSE
  OBVIOUS
<1>1. PICK m \in T : \A j \in T : m <= j
  <2>1. n <= n
    OBVIOUS
  <2>2. T \in SUBSET Nat /\ n \in T
    BY <2>1, Zenon
  <2> HIDE DEF T
  <2> QED
    BY <2>2, LeastNatural
<1>2. m \in Nat /\ m <= n /\ ~\E f \in [1..m -> Nat] : Sums(f, m)
  OBVIOUS
<1>3. m # 0
  <2>1. [i \in 1..0 |-> 0] \in [1..0 -> Nat] /\ Sums([i \in 1..0 |-> 0], 0)
    OBVIOUS
  <2> QED
    BY <1>2, <2>1
<1>4. PICK f \in [1..(m - 1) -> Nat] : Sums(f, m - 1)
  <2>1. m - 1 \in Nat /\ m - 1 <= n /\ ~(m <= m - 1)
    BY <1>2, <1>3
  <2>2. m - 1 \notin T
    BY <1>1, <2>1, Zenon
  <2> QED
    BY <2>1, <2>2, Zenon
<1> DEFINE g == [i \in 1..m |-> IF i = m THEN IF m = 1 THEN 0 ELSE f[m - 1] + w[m] ELSE f[i]]
<1>5. g \in [1..m -> Nat]
  <2>1. m # 1 => f[m - 1] \in Nat /\ w[m] \in Nat
    BY <1>2, <1>3
  <2>2. \A i \in 1..m : i # m => f[i] \in Nat
    BY <1>2
  <2> QED
    BY <2>1, <2>2
<1>6. ASSUME NEW i \in 1..m
      PROVE  g[i] = IF i = 1 THEN 0 ELSE g[i - 1] + w[i]
  <2>1. CASE i = m
    <3>1. i # 1 => g[i - 1] = f[m - 1]
      BY <1>2, <2>1
    <3> QED
      BY <1>2, <2>1, <3>1
  <2>2. CASE i # m
    <3>1. i \in 1..(m - 1) /\ g[i] = f[i] /\ (i # 1 => g[i - 1] = f[i - 1])
      BY <1>2, <2>2
    <3> QED
      BY <1>4, <3>1
  <2> QED
    BY <2>1, <2>2
<1> QED
  BY <1>2, <1>5, <1>6

(* The length of a path is a natural number.                               *)
LEMMA LengthType ==
  ASSUME graph \in GraphsOn(size, Nat), NEW p \in Seq(V), p # <<>>
  PROVE  Length(p) \in Nat
<1> DEFINE n == Len(p)
           F(f) == [i \in 1..n |-> IF i = 1 THEN 0 ELSE f[i - 1] + weight(graph, p[i - 1], p[i])]
           s == CHOOSE f : f = F(f)
           w == [i \in 2..n |-> weight(graph, p[i - 1], p[i])]
<1>1. Length(p) = s[n]
  BY Zenon DEF Length
<1>2. n \in Nat /\ n >= 1 /\ \A i \in 1..n : p[i] \in V
  BY EmptySeq
<1>3. \A i \in 2..n : i - 1 \in 1..n /\ i \in 1..n
  BY <1>2
<1>4. w \in [2..n -> Nat]
  BY <1>2, <1>3 DEF GraphsOn, weight, V
<1>5. \A i \in 2..n : w[i] = weight(graph, p[i - 1], p[i])
  OBVIOUS
<1>6. PICK f \in [1..n -> Nat] : \A i \in 1..n : f[i] = IF i = 1 THEN 0 ELSE f[i - 1] + w[i]
  BY <1>2, <1>4, PartialSums
<1> HIDE DEF w
<1>7. f = F(f)
  <2>1. \A i \in 1..n : i # 1 => i \in 2..n
    BY <1>2
  <2>2. \A i \in 1..n : f[i] = F(f)[i]
    BY <1>5, <1>6, <2>1
  <2> QED
    BY <2>2
<1>8. s = F(s)
  BY <1>7, Zenon
<1> HIDE DEF s
<1>9. \A i \in 1..n : s[i] = IF i = 1 THEN 0 ELSE s[i - 1] + w[i]
  <2>1. \A i \in 1..n : s[i] = IF i = 1 THEN 0 ELSE s[i - 1] + weight(graph, p[i - 1], p[i])
    BY <1>8
  <2>2. \A i \in 1..n : i # 1 => i \in 2..n
    BY <1>2
  <2> QED
    BY <1>5, <2>1, <2>2
<1>10. \A i \in 1..n : s[i] = f[i]
  <2> DEFINE T == { i \in 1..n : s[i] # f[i] }
  <2> SUFFICES ASSUME T # {} PROVE FALSE
    BY Zenon
  <2>1. PICK m \in T : \A j \in T : m <= j
    <3>1. T \in SUBSET Nat
      BY <1>2
    <3> HIDE DEF T
    <3> QED
      BY <3>1, LeastNatural
  <2>2. m \in 1..n /\ s[m] # f[m]
    BY Zenon
  <2>3. m # 1
    BY <1>6, <1>9, <2>2
  <2>4. s[m - 1] = f[m - 1]
    <3>1. m - 1 \in 1..n /\ ~(m <= m - 1)
      BY <1>2, <2>2, <2>3
    <3> QED
      BY <2>1, <3>1, Zenon
  <2> QED
    BY <1>6, <1>9, <2>2, <2>3, <2>4
<1> QED
  BY <1>1, <1>2, <1>10

-----------------------------------------------------------------------------
LEMMA Types ==
  ASSUME IInv
  PROVE  /\ size \in Nat /\ size >= 1 /\ num_ants \in Nat /\ num_ants >= 1
         /\ max_iterations \in Nat /\ max_iterations >= 1
         /\ graph \in GraphsOn(size, Nat)
         /\ k \in Nat /\ k <= num_ants /\ iter \in Nat /\ iter <= max_iterations
         /\ Len(path) \in Nat /\ Len(paths) \in Nat /\ Len(path_lengths) \in Nat
         /\ DOMAIN path_lengths = 1..Len(path_lengths)
BY ColonyAssumption DEF ColonyAssumption, IInv, TypeOK

(* A path of full length without repetitions is a route.                   *)
LEMMA FullPathIsRoute ==
  ASSUME size \in Nat, NEW p \in Seq(V), Len(p) = size,
         \A i, j \in 1..Len(p) : p[i] = p[j] => i = j,
         \A i \in 1..(Len(p) - 1) : is_edge(graph, p[i], p[i + 1])
  PROVE  p \in Routes
<1>1. p \in [V -> V]
  BY DEF V
<1>2. ASSUME NEW i \in 1..(Len(p) - 1) PROVE p[i] \in V /\ p[i + 1] \in V
  <2>1. i \in 1..Len(p) /\ i + 1 \in 1..Len(p)
    OBVIOUS
  <2> QED
    BY <2>1
<1>3. Steps(p) \subseteq { a \in V \X V : is_edge(graph, a[1], a[2]) }
  BY <1>2 DEF Steps
<1>4. \A i, j \in V : p[i] = p[j] => i = j
  BY DEF V
<1> QED
  BY <1>1, <1>3, <1>4 DEF Routes

(* Routes and lengths are those of the graph, which does not change.       *)
LEMMA SameGraph ==
  ASSUME graph' = graph
  PROVE  /\ Routes' = Routes /\ \A p : Length(p)' = Length(p)
         /\ Complete' <=> Complete
<1>1. Routes' = Routes
  BY DEF Routes, is_edge, weight
<1>2. \A p : Length(p)' = Length(p)
  BY Zenon DEF Length, weight
<1>3. Complete' <=> Complete
  BY DEF Complete
<1> QED
  BY <1>1, <1>2, <1>3

LEMMA UnbeatenByDeposit ==
  /\ Unbeaten <=>
       \A d : Laid(pheromones_, d) # {} =>
               \E p \in Routes : /\ Laid(pheromones_, d) = Trail(graph, p)
                                 /\ best_path_length_ <= Length(p)
  /\ Unbeaten' <=>
       \A d : Laid(pheromones_', d) # {} =>
               \E p \in Routes' : /\ Laid(pheromones_', d) = Trail(graph', p)
                                  /\ best_path_length_' <= Length(p)'
<1>1. \A d : d \in Deposits <=> Laid(pheromones_, d) # {}
  BY DEF Laid, Deposits
<1>2. \A d : d \in Deposits' <=> Laid(pheromones_', d) # {}
  BY DEF Laid, Deposits
<1>3. Unbeaten' <=>
        \A d \in Deposits' :
          \E p \in Routes' : /\ Laid(pheromones_', d) = Trail(graph', p)
                             /\ best_path_length_' <= Length(p)'
  BY Zenon DEF Unbeaten, Laid, Trail
<1> QED
  BY <1>1, <1>2, <1>3, Zenon DEF Unbeaten

(* Every route has a length.                                               *)
LEMMA RouteLength ==
  ASSUME IInv, NEW p \in Routes
  PROVE  Length(p) \in Nat
<1>1. p \in Seq(V) /\ p # <<>>
  <2>1. p \in [1..size -> V] /\ size \in Nat /\ size >= 1
    BY Types DEF Routes, V
  <2>2. Len(p) = size /\ p \in Seq(V)
    BY <2>1
  <2> QED
    BY <2>1, <2>2
<1> QED
  BY <1>1, LengthType, Types

(* No marked route is shorter than the best as long as neither the graph   *)
(* nor the pheromone changes and the best gets no longer.                  *)
LEMMA StillUnbeaten ==
  ASSUME IInv, graph' = graph, pheromones_' = pheromones_,
         best_path_length_' \in Nat, best_path_length_' <= best_path_length_
  PROVE  Unbeaten'
<1>1. Routes' = Routes /\ \A p : Length(p)' = Length(p)
  BY SameGraph
<1>2. \A p \in Routes : Length(p) \in Nat
  BY RouteLength
<1>3. best_path_length_ \in Nat
  BY DEF IInv, TypeOK
<1>4. \A p \in Routes : best_path_length_ <= Length(p) => best_path_length_' <= Length(p)
  BY <1>2, <1>3
<1>5. \A d : Laid(pheromones_', d) # {} =>
              \E p \in Routes' : /\ Laid(pheromones_', d) = Trail(graph', p)
                                 /\ best_path_length_ <= Length(p)
  BY <1>1, UnbeatenByDeposit, Zenon DEF IInv
<1>6. \A d : Laid(pheromones_', d) # {} =>
              \E p \in Routes' : /\ Laid(pheromones_', d) = Trail(graph', p)
                                 /\ best_path_length_' <= Length(p)'
  BY <1>1, <1>4, <1>5, Zenon
<1> QED
  BY <1>6, UnbeatenByDeposit, Zenon

(* Steps that leave the routes and the trails alone.                       *)
LEMMA SameRoutes ==
  ASSUME IInv, UNCHANGED <<graph, pheromones_, best_path_, best_path_length_>>
  PROVE  Unbeaten' /\ (UNCHANGED path_lengths => BestSoFar')
                   /\ (UNCHANGED <<paths, path_lengths>> => Arrived')
<1>1. /\ Routes' = Routes /\ \A p : Length(p)' = Length(p)
  BY SameGraph
<1>2. Unbeaten'
  BY StillUnbeaten DEF IInv, TypeOK
<1>3. UNCHANGED path_lengths => BestSoFar'
  BY <1>1 DEF IInv, BestSoFar
<1>4. UNCHANGED <<paths, path_lengths>> => Arrived'
  BY <1>1 DEF IInv, Arrived
<1> QED
  BY <1>2, <1>3, <1>4

LEMMA InitInv == Init => IInv
<1> SUFFICES ASSUME Init PROVE IInv
  OBVIOUS
<1> USE ColonyAssumption DEF Init, ColonyAssumption
<1>1. TypeOK
  BY DEF TypeOK
<1>2. Wandering /\ Arrived /\ Iterating /\ NobodyStuck
  BY DEF Wandering, Arrived, Iterating, NobodyStuck
<1>3. Unmarked
  BY DEF Unmarked
<1>4. BestSoFar
  BY DEF BestSoFar
<1>5. Unbeaten
  <2>1. Deposits = {}
    BY DEF Deposits
  <2> QED
    BY <2>1 DEF Unbeaten
<1> QED
  BY <1>1, <1>2, <1>3, <1>4, <1>5 DEF IInv

LEMMA PlaceAntInv == IInv /\ PlaceAnt => IInv'
<1> SUFFICES ASSUME IInv, PlaceAnt PROVE IInv'
  OBVIOUS
<1>1. /\ pc = "ants" /\ k < num_ants /\ pc' = "wander"
      /\ UNCHANGED <<graph, pheromones_, best_path_, best_path_length_, iter, k, paths, path_lengths>>
  BY DEF PlaceAnt
<1>2. PICK start \in V : path' = <<start>>
  BY DEF PlaceAnt
<1>3. TypeOK'
  BY <1>1, <1>2 DEF IInv, TypeOK
<1>4. Wandering'
  BY <1>1, <1>2, Types DEF Wandering
<1>5. Arrived' /\ BestSoFar' /\ Unbeaten'
  BY <1>1, SameRoutes
<1>6. Unmarked' /\ Iterating' /\ NobodyStuck'
  BY <1>1, SameGraph DEF IInv, Unmarked, Iterating, NobodyStuck
<1> QED
  BY <1>1, <1>3, <1>4, <1>5, <1>6 DEF IInv

LEMMA WanderInv == IInv /\ Wander => IInv'
<1> SUFFICES ASSUME IInv, Wander PROVE IInv'
  OBVIOUS
<1>1. /\ pc = "wander" /\ pc' = "wander" /\ Len(path) < size /\ path \in Seq(V)
      /\ UNCHANGED <<graph, pheromones_, best_path_, best_path_length_, iter, k, paths, path_lengths>>
  BY DEF Wander, IInv, TypeOK
<1>2. PICK x \in Candidates : path' = Append(path, x)
  BY DEF Wander
<1> DEFINE n == Len(path)
<1>3. /\ x \in V /\ \A i \in 1..n : path[i] # x
      /\ is_edge(graph, path[n], x)
  BY <1>1, <1>2 DEF Candidates, Visited
<1>4. /\ path' \in Seq(V) /\ Len(path') = n + 1 /\ path'[n + 1] = x
      /\ \A i \in 1..n : path'[i] = path[i]
      /\ n \in Nat
  BY <1>1, <1>2, <1>3, AppendProperties
<1>5. /\ k < num_ants /\ n \in 1..size
      /\ \A i, j \in 1..n : path[i] = path[j] => i = j
      /\ \A i \in 1..(n - 1) : is_edge(graph, path[i], path[i + 1])
  BY <1>1 DEF IInv, Wandering
<1> HIDE DEF n
<1>6. TypeOK'
  BY <1>1, <1>4 DEF IInv, TypeOK
<1>7. Wandering'
  <2>1. ASSUME NEW i \in 1..(n + 1), NEW j \in 1..(n + 1), path'[i] = path'[j] PROVE i = j
    BY <1>3, <1>4, <1>5, <2>1
  <2>2. ASSUME NEW i \in 1..n PROVE is_edge(graph, path'[i], path'[i + 1])
    <3>1. CASE i = n
      BY <1>3, <1>4, <1>5, <3>1
    <3>2. CASE i # n
      <4>1. i \in 1..(n - 1) /\ i + 1 \in 1..n
        BY <1>4, <3>2
      <4> QED
        BY <1>4, <1>5, <4>1
    <3> QED
      BY <3>1, <3>2
  <2>3. Len(path') \in 1..size /\ Len(path') - 1 = n
    BY <1>1, <1>4, <1>5, Types DEF n
  <2> QED
    BY <1>1, <1>4, <1>5, <2>1, <2>2, <2>3 DEF Wandering
<1>8. Arrived' /\ BestSoFar' /\ Unbeaten'
  BY <1>1, SameRoutes
<1>9. Unmarked' /\ Iterating' /\ NobodyStuck'
  BY <1>1, SameGraph DEF IInv, Unmarked, Iterating, NobodyStuck
<1> QED
  BY <1>1, <1>6, <1>7, <1>8, <1>9 DEF IInv

LEMMA ArriveCompleteInv == IInv /\ ArriveComplete => IInv'
<1> SUFFICES ASSUME IInv, ArriveComplete PROVE IInv'
  OBVIOUS
<1>1. /\ pc = "wander" /\ pc' = "ants" /\ Len(path) = size /\ k' = k + 1
      /\ paths' = Append(paths, path) /\ path_lengths' = Append(path_lengths, Length(path))
      /\ UNCHANGED <<graph, pheromones_, iter, path>>
      /\ path \in Seq(V) /\ paths \in Seq(Seq(V)) /\ path_lengths \in Seq(Nat)
      /\ k < num_ants
  BY DEF ArriveComplete, IInv, TypeOK, Wandering
<1>2. path \in Routes
  BY <1>1, FullPathIsRoute, Types DEF IInv, Wandering
<1>3. Length(path) \in Nat
  BY <1>1, LengthType, Types
<1>4. /\ Routes' = Routes /\ \A p : Length(p)' = Length(p)
      /\ Complete' <=> Complete
  BY <1>1, SameGraph
<1> DEFINE L == Length(path)  m == Len(paths)  n == Len(path_lengths)
<1>5. \/ /\ L < best_path_length_ /\ best_path_' = path /\ best_path_length_' = L
      \/ /\ ~(L < best_path_length_)
         /\ best_path_' = best_path_ /\ best_path_length_' = best_path_length_
  BY DEF ArriveComplete, Shorter
<1>6. /\ paths' \in Seq(Seq(V)) /\ Len(paths') = m + 1 /\ paths'[m + 1] = path
      /\ \A i \in 1..m : paths'[i] = paths[i]
      /\ m \in Nat
  BY <1>1, AppendProperties
<1>7. /\ path_lengths' \in Seq(Nat) /\ Len(path_lengths') = n + 1 /\ path_lengths'[n + 1] = L
      /\ \A i \in 1..n : path_lengths'[i] = path_lengths[i]
      /\ n \in Nat /\ \A i \in 1..n : path_lengths[i] \in Nat
  BY <1>1, <1>3, AppendProperties
<1>8. TypeOK'
  <2>1. best_path_' \in Seq(V) /\ best_path_length_' \in Nat
    BY <1>1, <1>3, <1>5 DEF IInv, TypeOK
  <2>2. k' \in 0..num_ants
    BY <1>1, Types
  <2> QED
    BY <1>1, <1>6, <1>7, <2>1, <2>2 DEF IInv, TypeOK
<1>9. Arrived'
  <2>3. n = m
    BY DEF IInv, Arrived
  <2> SUFFICES ASSUME NEW i \in 1..(m + 1)
               PROVE  /\ Len(paths'[i]) = size /\ paths'[i] \in Routes
                      /\ path_lengths'[i] = Length(paths'[i])
    BY <1>4, <1>6, <1>7, <2>3 DEF Arrived
  <2>1. CASE i = m + 1
    BY <1>1, <1>2, <1>6, <1>7, <2>1, <2>3
  <2>2. CASE i \in 1..m
    BY <1>6, <1>7, <2>2, <2>3 DEF IInv, Arrived
  <2> QED
    BY <1>6, <2>1, <2>2
<1>10. BestSoFar'
  <2>1. best_path_' # <<>> => best_path_' \in Routes /\ best_path_length_' = Length(best_path_')
    BY <1>2, <1>5 DEF IInv, BestSoFar
  <2>2. \A i \in 1..n : best_path_length_ <= path_lengths[i]
    BY Types DEF IInv, BestSoFar
  <2>3. /\ best_path_length_ \in Nat /\ best_path_length_' \in Nat
        /\ best_path_length_' <= L /\ best_path_length_' <= best_path_length_
    BY <1>3, <1>5 DEF IInv, TypeOK
  <2> HIDE DEF L, n
  <2>4. \A i \in 1..(n + 1) : best_path_length_' <= path_lengths'[i]
    <3> SUFFICES ASSUME NEW i \in 1..(n + 1) PROVE best_path_length_' <= path_lengths'[i]
      OBVIOUS
    <3>1. CASE i = n + 1
      BY <1>7, <2>3, <3>1
    <3>2. CASE i \in 1..n
      BY <1>7, <2>2, <2>3, <3>2
    <3> QED
      BY <1>7, <3>1, <3>2
  <2>5. DOMAIN path_lengths' = 1..(n + 1)
    BY <1>7
  <2>6. best_path_' # <<>> => best_path_length_' = Length(best_path_)'
    BY <1>4, <2>1
  <2> QED
    BY <1>4, <2>1, <2>4, <2>5, <2>6 DEF BestSoFar
<1>11. Wandering' /\ Unmarked' /\ Iterating'
  BY <1>1 DEF IInv, Wandering, Unmarked, Iterating
<1>12. NobodyStuck'
  BY <1>1, <1>4, <1>6 DEF IInv, NobodyStuck
<1>13. Unbeaten'
  <2>1. /\ best_path_length_ \in Nat /\ best_path_length_' \in Nat
        /\ best_path_length_' <= best_path_length_
    BY <1>3, <1>5 DEF IInv, TypeOK
  <2> QED
    BY <1>1, <2>1, StillUnbeaten
<1> QED
  BY <1>1, <1>8, <1>9, <1>10, <1>11, <1>12, <1>13 DEF IInv

(* On a complete graph an ant that has not seen every vertex has a         *)
(* candidate.                                                              *)
LEMMA CandidateLeft ==
  ASSUME size \in Nat, path \in Seq(V), Len(path) \in 1..size, Len(path) < size, Complete
  PROVE  Candidates # {}
<1> DEFINE n == Len(path)
           S == { path[i] : i \in 1..n }
           f == [i \in 1..n |-> path[i]]
<1>1. n \in Nat /\ \A i \in 1..n : path[i] \in V
  OBVIOUS
<1>2. f \in Surjection(1..n, S)
  BY DEF Surjection
<1>3. IsFiniteSet(1..n) /\ Cardinality(1..n) = n
  BY <1>1, FS_Interval
<1>4. IsFiniteSet(S) /\ Cardinality(S) <= n
  <2> HIDE DEF S, f, n
  <2> QED
    BY <1>2, <1>3, FS_Surjection
<1>5. Cardinality(V) = size
  BY FS_Interval DEF V
<1>6. PICK x \in V : x \notin S
  <2> SUFFICES ASSUME V \subseteq S PROVE FALSE
    OBVIOUS
  <2>1. Cardinality(V) <= Cardinality(S)
    <3> HIDE DEF S
    <3> QED
      BY <1>4, FS_Subset
  <2>2. Cardinality(S) \in Nat
    <3> HIDE DEF S
    <3> QED
      BY <1>4, FS_CardinalityType
  <2> HIDE DEF S
  <2> QED
    BY <1>1, <1>4, <1>5, <2>1, <2>2
<1>7. Visited = S
  BY DEF Visited
<1>8. path[n] \in S /\ path[n] \in V
  BY <1>1
<1>9. is_edge(graph, path[n], x)
  BY <1>6, <1>8 DEF Complete
<1> QED
  BY <1>6, <1>7, <1>9 DEF Candidates

LEMMA ArriveStuckInv == IInv /\ ArriveStuck => IInv'
<1> SUFFICES ASSUME IInv, ArriveStuck PROVE IInv'
  OBVIOUS
<1>1. /\ pc = "wander" /\ pc' = "ants" /\ k' = k + 1 /\ Len(path) < size /\ Candidates = {}
      /\ UNCHANGED <<graph, pheromones_, best_path_, best_path_length_, iter, path, paths,
                     path_lengths>>
  BY DEF ArriveStuck
<1>2. path \in Seq(V) /\ k < num_ants /\ Len(path) \in 1..size
  BY <1>1 DEF IInv, TypeOK, Wandering
<1>3. ~Complete
  BY <1>1, <1>2, CandidateLeft, Types
<1>4. TypeOK'
  <2>1. k' \in 0..num_ants
    BY <1>1, <1>2, Types
  <2> QED
    BY <1>1, <2>1 DEF IInv, TypeOK
<1>5. Arrived' /\ BestSoFar' /\ Unbeaten'
  BY <1>1, SameRoutes
<1>6. Wandering' /\ Unmarked' /\ Iterating'
  BY <1>1 DEF IInv, Wandering, Unmarked, Iterating
<1>7. NobodyStuck'
  BY <1>1, <1>3, SameGraph DEF NobodyStuck
<1> QED
  BY <1>1, <1>4, <1>5, <1>6, <1>7 DEF IInv

LEMMA AllArrivedInv == IInv /\ AllArrived => IInv'
<1> SUFFICES ASSUME IInv, AllArrived PROVE IInv'
  OBVIOUS
<1>1. /\ pc = "ants" /\ k = num_ants /\ k' = 0 /\ pc' = "deposit"
      /\ UNCHANGED <<graph, pheromones_, best_path_, best_path_length_, iter, path, paths,
                     path_lengths>>
  BY DEF AllArrived
<1>2. TypeOK'
  <2>1. k' \in 0..num_ants
    BY <1>1, Types
  <2> QED
    BY <1>1, <2>1 DEF IInv, TypeOK
<1>3. Arrived' /\ BestSoFar' /\ Unbeaten'
  BY <1>1, SameRoutes
<1>4. Wandering' /\ Unmarked' /\ Iterating'
  BY <1>1 DEF IInv, Wandering, Unmarked, Iterating
<1>5. NobodyStuck'
  BY <1>1, SameGraph DEF IInv, NobodyStuck
<1> QED
  BY <1>1, <1>2, <1>3, <1>4, <1>5 DEF IInv

(* What an ant marks is the trail of its route.                            *)
LEMMA MarkedTrail ==
  ASSUME graph \in GraphsOn(size, Nat), NEW p \in Routes
  PROVE  Marked(p) = Trail(graph, p) /\ Marked(p) \subseteq V \X V
<1>1. CheckDirected(graph) <=> ~\A x, y \in V : graph[x][y] = graph[y][x]
  BY DEF CheckDirected, Vertices, weight, GraphsOn, V
<1>2. Marked(p) = Trail(graph, p)
  BY <1>1, Zenon DEF Marked, Trail
<1>3. Steps(p) \subseteq V \X V
  BY DEF Routes
<1>4. \A a \in Steps(p) : a[1] \in V /\ a[2] \in V
  BY <1>3
<1>5. { <<a[2], a[1]>> : a \in Steps(p) } \subseteq V \X V
  BY <1>4
<1>6. Trail(graph, p) \subseteq V \X V
  BY <1>3, <1>5 DEF Trail
<1> QED
  BY <1>2, <1>6

LEMMA DepositInv == IInv /\ Deposit => IInv'
<1> SUFFICES ASSUME IInv, Deposit PROVE IInv'
  OBVIOUS
<1>1. /\ pc = "deposit" /\ k < num_ants
      /\ UNCHANGED <<graph, best_path_, best_path_length_, iter, path, paths, path_lengths>>
  BY DEF Deposit
<1>2. /\ Routes' = Routes /\ \A p : Length(p)' = Length(p)
      /\ Complete' <=> Complete
  BY <1>1, SameGraph
<1>3. Arrived'
  BY <1>1, <1>2 DEF IInv, Arrived
<1>4. BestSoFar'
  BY <1>1, <1>2 DEF IInv, BestSoFar
<1>5. CASE k < Len(paths)
  <2> DEFINE p == paths[k + 1]
             d0 == <<iter, k>>
  <2>1. k' = k + 1 /\ pc' = pc
    BY <1>5 DEF Deposit
  <2>2. Len(p) = size /\ p \in Routes /\ best_path_length_ <= Length(p)
    <3>1. k + 1 \in 1..Len(paths) /\ k + 1 \in DOMAIN path_lengths
      BY <1>5, Types DEF IInv, Arrived
    <3>2. Len(p) = size /\ p \in Routes /\ path_lengths[k + 1] = Length(p)
      BY <3>1 DEF IInv, Arrived
    <3> QED
      BY <3>1, <3>2 DEF IInv, BestSoFar
  <2>3. pheromones_' = [a \in V \X V |-> pheromones_[a] \cup
                          IF a \in Marked(p) THEN {d0} ELSE {}]
    BY <1>5, <2>2 DEF Deposit
  <2>4. iter < max_iterations /\ iter \in Nat /\ k \in Nat
    BY <1>1, Types DEF IInv, Iterating
  <2>5. Marked(p) = Trail(graph, p) /\ Marked(p) \subseteq V \X V
    BY <2>2, MarkedTrail, Types
  <2>6. \A a \in V \X V : d0 \notin pheromones_[a]
    BY <1>1, <2>4 DEF IInv, Unmarked
  <2> HIDE DEF p
  <2>7. TypeOK'
    <3>1. k' \in 0..num_ants
      BY <1>1, <2>1, Types
    <3>2. d0 \in (0..(max_iterations - 1)) \X (0..(num_ants - 1))
      BY <1>1, <2>4, Types
    <3> HIDE DEF d0
    <3>3. pheromones_' \in [V \X V -> SUBSET ((0..(max_iterations - 1)) \X (0..(num_ants - 1)))]
      BY <2>3, <3>2 DEF IInv, TypeOK
    <3> QED
      BY <1>1, <2>1, <3>1, <3>3 DEF IInv, TypeOK
  <2>8. Unmarked'
    <3> SUFFICES ASSUME NEW a \in V \X V, NEW d \in pheromones_'[a]
                 PROVE  d[1] < iter \/ (d[1] = iter /\ d[2] < k + 1)
      BY <1>1, <2>1 DEF Unmarked
    <3>1. d \in pheromones_[a] \/ d = d0
      BY <2>3
    <3>2. CASE d \in pheromones_[a]
      <4>1. d[1] < iter \/ (d[1] = iter /\ d[2] < k)
        BY <1>1, <3>2 DEF IInv, Unmarked
      <4>2. d[2] \in Nat
        BY <3>2 DEF IInv, TypeOK
      <4> QED
        BY <2>4, <4>1, <4>2
    <3>3. CASE d = d0
      BY <2>4, <3>3
    <3> QED
      BY <3>1, <3>2, <3>3
  <2>9. Unbeaten'
    <3>1. Laid(pheromones_', d0) = Marked(p)
      <4> HIDE DEF d0
      <4> QED
        BY <2>3, <2>5, <2>6 DEF Laid
    <3>2. \A d : d # d0 => Laid(pheromones_', d) = Laid(pheromones_, d)
      <4> HIDE DEF d0
      <4> QED
        BY <2>3 DEF Laid
    <3>3. \A d : Laid(pheromones_, d) # {} =>
                   \E q \in Routes : /\ Laid(pheromones_, d) = Trail(graph, q)
                                     /\ best_path_length_ <= Length(q)
      BY UnbeatenByDeposit, Zenon DEF IInv
    <3> HIDE DEF d0
    <3>4. \A d : Laid(pheromones_', d) # {} =>
                   \E q \in Routes : /\ Laid(pheromones_', d) = Trail(graph, q)
                                     /\ best_path_length_ <= Length(q)
      BY <2>2, <2>5, <3>1, <3>2, <3>3, Zenon
    <3>5. \A d : Laid(pheromones_', d) # {} =>
                   \E q \in Routes' : /\ Laid(pheromones_', d) = Trail(graph', q)
                                      /\ best_path_length_' <= Length(q)'
      BY <1>1, <1>2, <3>4, Zenon
    <3> QED
      BY <3>5, UnbeatenByDeposit, Zenon
  <2>10. Wandering' /\ Iterating'
    BY <1>1, <2>1 DEF IInv, Wandering, Iterating
  <2>11. NobodyStuck'
    BY <1>1, <1>2, <2>1 DEF IInv, NobodyStuck
  <2> QED
    BY <1>1, <1>3, <1>4, <2>7, <2>8, <2>9, <2>10, <2>11 DEF IInv
<1>6. CASE ~(k < Len(paths))
  <2>1. pc' = "undefined" /\ UNCHANGED <<pheromones_, k>>
    BY <1>6 DEF Deposit
  <2>2. TypeOK'
    BY <1>1, <2>1 DEF IInv, TypeOK
  <2>3. ~Complete
    BY <1>1, <1>6, Types DEF IInv, NobodyStuck
  <2>4. Unbeaten'
    BY <1>1, <2>1, SameRoutes
  <2>5. Wandering' /\ Unmarked' /\ Iterating' /\ NobodyStuck'
    BY <1>1, <1>2, <2>1, <2>3 DEF IInv, Wandering, Unmarked, Iterating, NobodyStuck
  <2> QED
    BY <1>1, <1>3, <1>4, <2>2, <2>4, <2>5 DEF IInv
<1> QED
  BY <1>5, <1>6

LEMMA NextIterationInv == IInv /\ NextIteration => IInv'
<1> SUFFICES ASSUME IInv, NextIteration PROVE IInv'
  OBVIOUS
<1>1. /\ pc = "deposit" /\ k = num_ants /\ iter' = iter + 1 /\ k' = 0
      /\ paths' = <<>> /\ path_lengths' = <<>>
      /\ pc' = IF iter + 1 < max_iterations THEN "ants" ELSE "done"
      /\ UNCHANGED <<graph, pheromones_, best_path_, best_path_length_, path>>
  BY DEF NextIteration
<1>2. iter < max_iterations /\ iter \in Nat
  BY <1>1, Types DEF IInv, Iterating
<1>3. /\ Routes' = Routes /\ \A p : Length(p)' = Length(p)
      /\ Complete' <=> Complete
  BY <1>1, SameGraph
<1>4. TypeOK'
  <2>1. k' \in 0..num_ants /\ iter' \in 0..max_iterations
    BY <1>1, <1>2, Types
  <2> QED
    BY <1>1, <2>1 DEF IInv, TypeOK
<1>5. Arrived' /\ Wandering' /\ Iterating' /\ NobodyStuck'
  BY <1>1, <1>2 DEF Arrived, Wandering, Iterating, NobodyStuck
<1>6. Unmarked'
  <2> SUFFICES ASSUME NEW a \in V \X V, NEW d \in pheromones_[a] PROVE d[1] < iter + 1
    BY <1>1 DEF Unmarked
  <2>1. d[1] < iter \/ d[1] = iter
    BY <1>1 DEF IInv, Unmarked
  <2>2. d[1] \in Nat
    BY DEF IInv, TypeOK
  <2> QED
    BY <1>2, <2>1, <2>2
<1>7. BestSoFar'
  BY <1>1, <1>3 DEF IInv, BestSoFar
<1>8. Unbeaten'
  BY <1>1, SameRoutes
<1> QED
  BY <1>1, <1>4, <1>5, <1>6, <1>7, <1>8 DEF IInv

LEMMA StutterInv == IInv /\ UNCHANGED vars => IInv'
<1> SUFFICES ASSUME IInv, UNCHANGED vars PROVE IInv'
  OBVIOUS
<1>1. Arrived' /\ BestSoFar' /\ Unbeaten'
  BY SameRoutes DEF vars
<1>2. TypeOK' /\ Wandering' /\ Unmarked' /\ Iterating'
  BY DEF vars, IInv, TypeOK, Wandering, Unmarked, Iterating
<1>3. NobodyStuck'
  BY SameGraph DEF vars, IInv, NobodyStuck
<1> QED
  BY <1>1, <1>2, <1>3 DEF vars, IInv

-----------------------------------------------------------------------------
(* The inductive invariant holds in every state Run can reach.             *)
THEOREM Invariance == Spec => []IInv
<1>1. IInv /\ [Next]_vars => IInv'
  <2> SUFFICES ASSUME IInv, [Next]_vars PROVE IInv'
    OBVIOUS
  <2> QED
    BY PlaceAntInv, WanderInv, ArriveCompleteInv, ArriveStuckInv, AllArrivedInv, DepositInv,
       NextIterationInv, StutterInv DEF Next, Terminated
<1> QED
  BY <1>1, InitInv, PTL DEF Spec

(* Every variable of the class keeps its type: in particular every deposit *)
(* is made in an iteration there is and by an ant there is.                *)
THEOREM TypeCorrect == Spec => []TypeOK
<1>1. IInv => TypeOK
  BY DEF IInv
<1> QED
  BY <1>1, Invariance, PTL

(* What GetBestPath returns is a route, of the length GetBestPathLength    *)
(* says, and no ant has done better, in this or an earlier iteration.      *)
THEOREM BestPathIsRight == Spec => []BestPathIsBestRoute
<1>1. IInv => BestPathIsBestRoute
  BY DEF IInv, BestPathIsBestRoute
<1> QED
  BY <1>1, Invariance, PTL

(* UpdatePheromones: the pheromone of every ant lies along one route, in   *)
(* both directions on an undirected graph.                                 *)
THEOREM TrailsLieOnRoutes == Spec => []TrailsAreRoutes
<1>1. IInv => TrailsAreRoutes
  BY Zenon DEF IInv, Unbeaten, TrailsAreRoutes
<1> QED
  BY <1>1, Invariance, PTL

(* On a complete graph UpdatePheromones never reads past the end of paths, *)
(* because there is one path for every ant.                                *)
THEOREM CompleteGraphsAreSafe == Spec => [](Complete => RunReachesItsEnd)
<1>1. IInv => (Complete => RunReachesItsEnd)
  BY DEF IInv, NobodyStuck, RunReachesItsEnd
<1> QED
  BY <1>1, Invariance, PTL

=============================================================================
