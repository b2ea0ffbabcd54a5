--------------------------- MODULE MatchingProofs ---------------------------
(***************************************************************************)
(* The matching program, for every size and set of graphs: its types, that *)
(* match is a matching at every step of the recursion, up to the one       *)
(* vertex that is changing hands, and that the counter counts it.          *)
(*                                                                         *)
(* The recursion is an alternating path in the making: every frame below   *)
(* the top waits at a neighbour that is matched to the next frame's        *)
(* vertex.  Because visited turns nobody in twice, these vertices are      *)
(* distinct, hence so are the neighbours, and each of the assignments made *)
(* while a successful search returns undoes the double match that the one  *)
(* before has made.  The vertex the search has begun with is not matched,  *)
(* because only vertices before it are.                                    *)
(*                                                                         *)
(* That a refused graph has no two-colouring needs no odd cycle: whatever  *)
(* colouring it has can be made to agree with the colours given (Agree).   *)
(*                                                                         *)
(* That the matching is a maximum one needs no augmenting path either:     *)
(* what a failed search has visited is never left by a later one, so that  *)
(* the vertices nobody is matched to can be counted (second part).         *)
(***************************************************************************)
EXTENDS Matching, TLAPS, SequenceTheorems, FiniteSetTheorems

Coloring == pc \in {"color", "neighbors"}
Searching == pc \in {"call", "scan", "return"}
Won == pc = "return" /\ result

Queued(x) == \E i \in 1..Len(q) : q[i] = x

(* The edges from x to the columns before k do not clash.                  *)
Settled(x, k) ==
  \A y \in V : (y < k /\ is_edge(graph, x, y)) => color[y] \notin {0, color[x]}

ColoringInv ==
  Coloring =>
    /\ \A x \in V : color[x] # 0 => \/ Queued(x)
                                    \/ pc = "neighbors" /\ x = current /\ Settled(x, neighbor)
                                    \/ Settled(x, size + 1)
    /\ \A x \in V : x < u => color[x] # 0
    /\ \A i \in 1..Len(q) : color[q[i]] # 0
    /\ pc = "neighbors" => current \in V /\ color[current] # 0

Fresh == pc = "start" => color = [x \in V |-> 0] /\ q = <<>> /\ u = 1

Bipartition ==
  pc \in {"sources", "call", "scan", "return", "done"} =>
    \A x \in V : /\ color[x] \in {1, 2}
                 /\ \A y \in V : is_edge(graph, x, y) => color[x] # color[y]

NothingYet ==
  /\ pc \in {"start", "color", "neighbors", "error"} => match = [x \in V |-> Free] /\ maxMatching = 0
  /\ ~Searching => stack = <<>>

Frames ==
  \A i \in 1..Len(stack) :
    /\ visited[stack[i][1]] /\ color[stack[i][1]] = 1
    /\ \A j \in 1..Len(stack) : stack[i][1] = stack[j][1] => i = j

(* Frame i is in a loop iteration for a neighbour.                         *)
AtNeighbor(i) == stack[i][2] \in V /\ is_edge(graph, stack[i][1], stack[i][2])

Chain ==
  \A i \in 1..(Len(stack) - 1) : AtNeighbor(i) /\ match[stack[i][2]] = stack[i + 1][1]

Top ==
  /\ pc = "call" => callee \in V /\ color[callee] = 1
  /\ (pc = "call" /\ stack = <<>>) => callee = u
  /\ (pc = "call" /\ stack # <<>>) => AtNeighbor(Len(stack)) /\ match[Frame[2]] = callee
  /\ pc = "scan" => stack # <<>>
  /\ (pc = "return" /\ stack # <<>>) => AtNeighbor(Len(stack))
  /\ (Won /\ stack # <<>>) => /\ match[Frame[2]] # Free
                              /\ \A i \in 1..Len(stack) : match[Frame[2]] # stack[i][1]

Source ==
  /\ Searching => u \in V /\ color[u] = 1
  /\ stack # <<>> => stack[1][1] = u
  /\ \A y \in V : match[y] # Free => match[y] < u \/ (Won /\ stack = <<>> /\ match[y] = u)

SearchInv == Frames /\ Chain /\ Top /\ Source

IInv ==
  /\ TypeOK
  /\ Fresh /\ ColoringInv /\ Bipartition /\ NothingYet
  /\ SearchInv
  /\ MatchingSound /\ CountsMatched

-----------------------------------------------------------------------------
(* The types of the pieces of state the steps below combine.               *)
LEMMA Types ==
  ASSUME TypeOK
  PROVE  /\ size \in Int
         /\ \A x \in V : x \in Int /\ x # Free /\ x <= size /\ 1 <= x
         /\ \A x \in Int : (1 <= x /\ x <= size) => x \in V
         /\ \A i \in 1..Len(stack) : /\ stack[i][1] \in V
                                     /\ stack[i][2] \in 1..(size + 1)
                                     /\ stack[i] = <<stack[i][1], stack[i][2]>>
         /\ \A i \in 1..Len(q) : q[i] \in V
<1>1. size \in Int
  BY GraphAssumption DEF GraphAssumption
<1>2. \A x \in V : x \in Int /\ x # Free /\ x <= size /\ 1 <= x
  BY <1>1 DEF V, Free
<1>3. \A x \in Int : (1 <= x /\ x <= size) => x \in V
  BY <1>1 DEF V
<1>4. \A i \in 1..Len(stack) : stack[i] \in V \X (1..(size + 1))
  BY DEF TypeOK
<1>5. \A i \in 1..Len(stack) : /\ stack[i][1] \in V
                              /\ stack[i][2] \in 1..(size + 1)
                              /\ stack[i] = <<stack[i][1], stack[i][2]>>
  BY <1>4
<1>6. \A i \in 1..Len(q) : q[i] \in V
  BY DEF TypeOK
<1> QED
  BY <1>1, <1>2, <1>3, <1>5, <1>6

(* What is left of the stack when the top frame returns, and the stack     *)
(* when the loop of the top frame goes on.                                 *)
LEMMA Frames1 ==
  ASSUME TypeOK, stack # <<>>
  PROVE  /\ Len(stack) \in 1..Len(stack)
         /\ Frame[1] \in V /\ Frame[2] \in 1..(size + 1)
         /\ Caller \in Seq(V \X (1..(size + 1)))
         /\ Len(Caller) = Len(stack) - 1
         /\ Len(stack) = 1 => Caller = <<>>
         /\ \A i \in 1..(Len(stack) - 1) : Caller[i] = stack[i]
<1>1. Len(stack) \in Nat /\ Len(stack) >= 1 /\ \A i \in 1..Len(stack) : stack[i] \in V \X (1..(size + 1))
  BY DEF TypeOK
<1>2. \A i \in 1..(Len(stack) - 1) : stack[i] \in V \X (1..(size + 1))
  BY <1>1
<1>3. /\ Caller \in Seq(V \X (1..(size + 1)))
      /\ Len(Caller) = Len(stack) - 1
      /\ \A i \in 1..(Len(stack) - 1) : Caller[i] = stack[i]
  <2>1. \A i \in 1..(Len(stack) - 1) : stack[i] \in V \X (1..(size + 1))
    BY <1>2
  <2>2. 1 \in Int /\ Len(stack) - 1 \in Int
    BY <1>1
  <2> HIDE DEF V
  <2>3. /\ SubSeq(stack, 1, Len(stack) - 1) \in Seq(V \X (1..(size + 1)))
        /\ Len(SubSeq(stack, 1, Len(stack) - 1)) =
             IF 1 <= Len(stack) - 1 THEN Len(stack) - 1 - 1 + 1 ELSE 0
        /\ \A i \in 1..(Len(stack) - 1 - 1 + 1) :
             SubSeq(stack, 1, Len(stack) - 1)[i] = stack[1 + i - 1]
    BY <2>1, <2>2, SubSeqProperties
  <2>4. ASSUME NEW i \in 1..(Len(stack) - 1) PROVE SubSeq(stack, 1, Len(stack) - 1)[i] = stack[i]
    <3>1. i \in 1..(Len(stack) - 1 - 1 + 1) /\ 1 + i - 1 = i
      BY <1>1
    <3> QED
      BY <3>1, <2>3
  <2>5. Len(SubSeq(stack, 1, Len(stack) - 1)) = Len(stack) - 1
    <3>1. Len(stack) \in Nat /\ Len(stack) >= 1
      BY <1>1
    <3>2. Len(SubSeq(stack, 1, Len(stack) - 1)) =
            IF 1 <= Len(stack) - 1 THEN Len(stack) - 1 - 1 + 1 ELSE 0
      BY <2>3
    <3>3. (IF 1 <= Len(stack) - 1 THEN Len(stack) - 1 - 1 + 1 ELSE 0) = Len(stack) - 1
      <4>1. \A n \in Nat : n >= 1 => (IF 1 <= n - 1 THEN n - 1 - 1 + 1 ELSE 0) = n - 1
        OBVIOUS
      <4> QED
        BY <3>1, <4>1
    <3> QED
      BY <3>2, <3>3
  <2> QED
    BY <2>3, <2>4, <2>5, Zenon DEF Caller
<1>4. Len(stack) \in 1..Len(stack)
  BY <1>1
<1>5. Frame[1] \in V /\ Frame[2] \in 1..(size + 1)
  BY <1>4, Types DEF Frame
<1>6. Len(stack) = 1 => Caller = <<>>
  BY <1>3
<1> QED
  BY <1>3, <1>4, <1>5, <1>6

(* When the loop of the top frame goes on, only its neighbour changes.     *)
LEMMA Advances ==
  ASSUME TypeOK, stack # <<>>, Frame[2] \in V
  PROVE  /\ Advanced \in Seq(V \X (1..(size + 1)))
         /\ Len(Advanced) = Len(stack) /\ Advanced # <<>>
         /\ \A i \in 1..Len(stack) : Advanced[i][1] = stack[i][1]
         /\ \A i \in 1..(Len(stack) - 1) : Advanced[i] = stack[i]
<1>1. Len(stack) \in Nat /\ Len(stack) >= 1 /\ \A i \in 1..Len(stack) : stack[i] \in V \X (1..(size + 1))
  BY DEF TypeOK
<1>2. <<Frame[1], Frame[2] + 1>> \in V \X (1..(size + 1))
  BY Frames1, Types
<1>3. Advanced \in Seq(V \X (1..(size + 1))) /\ Len(Advanced) = Len(stack) /\ Advanced # <<>>
  BY <1>1, <1>2 DEF Advanced, TypeOK
<1>4. \A i \in 1..(Len(stack) - 1) : Advanced[i] = stack[i]
  BY <1>1 DEF Advanced, TypeOK
<1>5. Advanced[Len(stack)][1] = stack[Len(stack)][1]
  BY <1>1 DEF Advanced, TypeOK, Frame
<1>6. ASSUME NEW i \in 1..Len(stack) PROVE Advanced[i][1] = stack[i][1]
  BY <1>1, <1>4, <1>5
<1> QED
  BY <1>3, <1>4, <1>6

(* While the colours are given there is nothing to say about the search.   *)
Idle ==
  /\ pc \in {"start", "color", "neighbors", "error", "sources"}
  /\ stack = <<>> /\ match = [x \in V |-> Free] /\ maxMatching = 0

LEMMA IdleInv == Idle => NothingYet /\ SearchInv /\ MatchingSound /\ CountsMatched
<1> SUFFICES ASSUME Idle
             PROVE  NothingYet /\ SearchInv /\ MatchingSound /\ CountsMatched
  OBVIOUS
<1>1. NothingYet
  BY DEF Idle, NothingYet, Searching
<1>2. Frames /\ Chain /\ Top /\ Source
  BY DEF Idle, Frames, Chain, Top, Source, Searching, Won
<1>3. MatchingSound
  BY DEF Idle, MatchingSound, MatchedEdges, OneMateEach
<1>4. CountsMatched
  <2>1. { y \in V : match[y] # Free } = {}
    BY DEF Idle
  <2> QED
    BY <2>1, FS_EmptySet DEF Idle, CountsMatched, V, Free
<1> QED
  BY <1>1, <1>2, <1>3, <1>4 DEF SearchInv

LEMMA IdleNext == Idle' => (NothingYet /\ SearchInv /\ MatchingSound /\ CountsMatched)'
  BY IdleInv, PTL

LEMMA InitInv == Init => IInv
<1> SUFFICES ASSUME Init PROVE IInv
  OBVIOUS
<1>1. TypeOK
  <2>1. graph \in GraphsOn(size, Int) /\ color \in [V -> 0..2]
    BY GraphAssumption DEF GraphAssumption, Init
  <2>2. match \in [V -> V \cup {Free}] /\ visited \in [V -> BOOLEAN] /\ result \in BOOLEAN
    BY DEF Init
  <2>3. q \in Seq(V) /\ stack \in Seq(V \X (1..(size + 1))) /\ matchingPairs \subseteq V \X V
    BY DEF Init
  <2> QED
    BY <2>1, <2>2, <2>3, GraphAssumption DEF GraphAssumption, Init, TypeOK
<1>2. Idle
  BY DEF Init, Idle
<1>3. Fresh /\ ColoringInv /\ Bipartition
  BY DEF Init, Fresh, ColoringInv, Coloring, Bipartition
<1> QED
  BY <1>1, <1>2, <1>3, IdleInv DEF IInv

-----------------------------------------------------------------------------
(* Before and while the colours are given, the program is idle otherwise.  *)
LEMMA NowIdle == (IInv /\ pc \in {"start", "color", "neighbors"}) => Idle
  BY DEF IInv, NothingYet, Searching, Idle

(* The check for direction leads to the first round of the colouring.      *)
LEMMA StartInv == IInv /\ Start => IInv'
<1> SUFFICES ASSUME IInv, Start PROVE IInv'
  OBVIOUS
<1>1. TypeOK'
  BY DEF IInv, Start, TypeOK, coloring, search
<1>2. Idle'
  BY NowIdle DEF Start, Idle, search
<1>3. Fresh' /\ ColoringInv' /\ Bipartition'
  BY Types DEF IInv, Start, Fresh, ColoringInv, Bipartition, Coloring, coloring
<1> QED
  BY <1>1, <1>2, <1>3, IdleNext DEF IInv

(* A vertex that begins a component is coloured and queued.                *)
LEMMA ColorRootInv == IInv /\ ColorRoot => IInv'
<1> SUFFICES ASSUME IInv, ColorRoot PROVE IInv'
  OBVIOUS
<1> USE Types DEF IInv
<1>1. u \in V /\ u' = u + 1 /\ u' \in 1..(size + 1)
  BY DEF ColorRoot, TypeOK
<1>0. TypeOK'
  <2>1. color' \in [V -> 0..2] /\ q' \in Seq(V)
    <3>1. color \in [V -> 0..2] /\ q \in Seq(V) /\ 1 \in 0..2 /\ <<u>> \in Seq(V)
      BY <1>1 DEF TypeOK
    <3>2. (color' = [color EXCEPT ![u] = 1] /\ q' = <<u>>) \/ (color' = color /\ q' = q)
      BY DEF ColorRoot
    <3>3. [color EXCEPT ![u] = 1] \in [V -> 0..2]
      BY <3>1
    <3> QED
      BY <3>1, <3>2, <3>3
  <2> QED
    BY <1>1, <2>1 DEF ColorRoot, TypeOK, search
<1>2. Idle'
  BY NowIdle DEF ColorRoot, Idle, search
<1>3. Fresh' /\ Bipartition'
  BY DEF ColorRoot, Fresh, Bipartition
<1>4. ColoringInv'
  <2>1. \A x \in V : color[x] # 0 => Settled(x, size + 1)
    BY DEF ColorRoot, ColoringInv, Coloring, Queued, TypeOK
  <2>2. CASE color[u] = 0
    <3>1. color' = [color EXCEPT ![u] = 1] /\ q' = <<u>> /\ u' = u + 1 /\ pc' = "color" /\ graph' = graph
      BY <2>2 DEF ColorRoot
    <3>2. \A x \in V : x # u => (color'[x] = color[x] /\ (Settled(x, size + 1) => Settled(x, size + 1)'))
      BY <1>1, <2>2, <3>1 DEF Settled, TypeOK, is_edge, weight
    <3>3. color'[u] = 1 /\ Len(q') = 1 /\ q'[1] = u
      BY <1>1, <3>1 DEF TypeOK
    <3>4. ASSUME NEW x \in V, color'[x] # 0 PROVE Queued(x)' \/ Settled(x, size + 1)'
      <4>1. CASE x = u
        BY <3>3, <4>1 DEF Queued
      <4>2. CASE x # u
        BY <2>1, <3>2, <3>4, <4>2
      <4> QED
        BY <4>1, <4>2
    <3>5. \A i \in 1..Len(q') : color'[q'[i]] # 0
      BY <3>3
    <3>6. \A x \in V : x < u' => color'[x] # 0
      <4>1. \A x \in V : x < u => color[x] # 0
        BY DEF ColorRoot, ColoringInv, Coloring
      <4> QED
        BY <1>1, <3>2, <3>3, <4>1
    <3> QED
      BY <3>1, <3>4, <3>5, <3>6 DEF ColoringInv, Coloring
  <2>3. CASE color[u] # 0
    BY <1>1, <2>1, <2>3 DEF ColorRoot, ColoringInv, Coloring, Settled, Queued
  <2> QED
    BY <2>2, <2>3
<1> QED
  BY <1>0, <1>2, <1>3, <1>4, IdleNext

(* The next vertex of the queue is taken, with no neighbour settled yet.   *)
LEMMA ColorNextInv == IInv /\ ColorNext => IInv'
<1> SUFFICES ASSUME IInv, ColorNext PROVE IInv'
  OBVIOUS
<1> USE Types DEF IInv
<1>1. /\ current' \in V /\ q' \in Seq(V) /\ Len(q') = Len(q) - 1
      /\ \A i \in 1..Len(q') : q'[i] = q[i + 1]
      /\ current' = q[1] /\ Len(q) \in Nat /\ Len(q) >= 1
  BY DEF ColorNext, TypeOK
<1>2. TypeOK'
  BY <1>1 DEF ColorNext, TypeOK, search
<1>3. Idle'
  BY NowIdle DEF ColorNext, Idle, search
<1>4. Fresh' /\ Bipartition'
  BY DEF ColorNext, Fresh, Bipartition
<1>5. ColoringInv'
  <2>1. ASSUME NEW x \in V, Queued(x) PROVE Queued(x)' \/ x = current'
    <3>1. PICK i \in 1..Len(q) : q[i] = x
      BY <2>1 DEF Queued
    <3>2. CASE i = 1
      BY <1>1, <3>1, <3>2
    <3>3. CASE i # 1
      <4>1. i - 1 \in 1..Len(q') /\ q'[i - 1] = x
        BY <1>1, <3>1, <3>3
      <4> QED
        BY <4>1 DEF Queued
    <3> QED
      BY <3>2, <3>3
  <2>2. \A x \in V : Settled(x, 1)'
    BY DEF Settled
  <2>3. \A x \in V : Settled(x, size + 1) => Settled(x, size + 1)'
    BY DEF Settled, ColorNext
  <2>4. pc = "color" /\ pc' = "neighbors" /\ neighbor' = 1 /\ color' = color /\ u' = u
    BY DEF ColorNext
  <2>5. \A i \in 1..Len(q) : color[q[i]] # 0
    BY <2>4 DEF ColoringInv, Coloring
  <2>6. ASSUME NEW i \in 1..Len(q') PROVE color'[q'[i]] # 0
    <3>1. i + 1 \in 1..Len(q) /\ q'[i] = q[i + 1]
      BY <1>1
    <3> QED
      BY <2>4, <2>5, <3>1
  <2>7. color'[current'] # 0
    BY <1>1, <2>4, <2>5
  <2>8. \A x \in V : color[x] # 0 => Queued(x) \/ Settled(x, size + 1)
    BY <2>4 DEF ColoringInv, Coloring
  <2>9. \A x \in V : x < u => color[x] # 0
    BY <2>4 DEF ColoringInv, Coloring
  <2> QED
    BY <1>1, <2>1, <2>2, <2>3, <2>4, <2>6, <2>7, <2>8, <2>9 DEF ColoringInv, Coloring
<1> QED
  BY <1>2, <1>3, <1>4, <1>5, IdleNext

(* A neighbour that does not clash is passed over.                         *)
LEMMA NeighborSkipInv == IInv /\ NeighborSkip => IInv'
<1> SUFFICES ASSUME IInv, NeighborSkip PROVE IInv'
  OBVIOUS
<1> USE Types DEF IInv
<1>1. TypeOK'
  BY DEF NeighborSkip, TypeOK, search
<1>2. Idle'
  BY NowIdle DEF NeighborSkip, Idle, search
<1>3. Fresh' /\ Bipartition'
  BY DEF NeighborSkip, Fresh, Bipartition
<1>4. ColoringInv'
  <2>1. Settled(current, neighbor) => Settled(current, neighbor + 1)
    <3>1. ASSUME NEW y \in V, y < neighbor + 1 PROVE y < neighbor \/ y = neighbor
      BY <3>1 DEF TypeOK
    <3>2. is_edge(graph, current, neighbor) => color[neighbor] \notin {0, color[current]}
      BY DEF NeighborSkip
    <3> QED
      BY <3>1, <3>2 DEF Settled
  <2>2. /\ \A x : Settled(x, size + 1) = Settled(x, size + 1)' /\ Queued(x)' = Queued(x)
        /\ Settled(current, neighbor + 1) = Settled(current, neighbor)'
    BY DEF NeighborSkip, Settled, Queued
  <2> QED
    BY <2>1, <2>2 DEF NeighborSkip, ColoringInv, Coloring
<1> QED
  BY <1>1, <1>2, <1>3, <1>4, IdleNext

(* An uncoloured neighbour is given the other colour and queued.           *)
LEMMA NeighborColorInv == IInv /\ NeighborColor => IInv'
<1> SUFFICES ASSUME IInv, NeighborColor PROVE IInv'
  OBVIOUS
<1> USE Types DEF IInv
<1>1. /\ neighbor \in V /\ q' \in Seq(V) /\ Len(q') = Len(q) + 1 /\ q'[Len(q) + 1] = neighbor
      /\ \A i \in 1..Len(q) : q'[i] = q[i]
      /\ Len(q) \in Nat
  BY DEF NeighborColor, TypeOK
<1>2. /\ color[neighbor] = 0 /\ color' \in [V -> 0..2] /\ color'[neighbor] \in {1, 2}
      /\ \A x \in V : x # neighbor => color'[x] = color[x]
  BY <1>1 DEF NeighborColor, TypeOK
<1>3. current \in V /\ color[current] # 0 /\ color'[current] = color[current] /\ color'[neighbor] # color[current]
  BY <1>1, <1>2 DEF NeighborColor, TypeOK, ColoringInv, Coloring
<1>4. TypeOK'
  BY <1>1, <1>2 DEF NeighborColor, TypeOK, search
<1>5. Idle'
  BY NowIdle DEF NeighborColor, Idle, search
<1>6. Fresh' /\ Bipartition'
  BY DEF NeighborColor, Fresh, Bipartition
<1>7. ColoringInv'
  <2>1. \A x \in V : color[x] # 0 /\ Settled(x, size + 1) => Settled(x, size + 1)'
    BY <1>1, <1>2 DEF Settled, NeighborColor
  <2>2. Settled(current, neighbor) => Settled(current, neighbor)'
    <3> SUFFICES ASSUME Settled(current, neighbor), NEW y \in V, y < neighbor + 1, is_edge(graph, current, y)
                 PROVE  color'[y] \notin {0, color'[current]}
      BY DEF Settled, NeighborColor
    <3>1. CASE y = neighbor
      BY <1>2, <1>3, <3>1
    <3>2. CASE y # neighbor
      <4>1. y < neighbor
        BY <1>1, <3>2
      <4>2. color[y] \notin {0, color[current]}
        BY <4>1 DEF Settled
      <4> QED
        BY <1>2, <1>3, <3>2, <4>2
    <3> QED
      BY <3>1, <3>2
  <2>3. \A x \in V : (x = neighbor \/ Queued(x)) => Queued(x)'
    <3>1. \A i \in 1..Len(q) : i \in 1..Len(q')
      BY <1>1
    <3>2. Len(q) + 1 \in 1..Len(q')
      BY <1>1
    <3> QED
      BY <1>1, <3>1, <3>2 DEF Queued
  <2>4. \A i \in 1..Len(q') : color'[q'[i]] # 0
    <3> SUFFICES ASSUME NEW i \in 1..Len(q') PROVE color'[q'[i]] # 0
      OBVIOUS
    <3>1. CASE i = Len(q) + 1
      BY <1>1, <1>2, <3>1
    <3>2. CASE i \in 1..Len(q)
      BY <1>1, <1>2, <3>2 DEF ColoringInv, Coloring, NeighborColor
    <3> QED
      BY <1>1, <3>1, <3>2
  <2>5. \A x \in V : x < u' => color'[x] # 0
    BY <1>1, <1>2 DEF ColoringInv, Coloring, NeighborColor
  <2>6. pc = "neighbors" /\ pc' = "neighbors" /\ current' = current /\ neighbor' = neighbor + 1
    BY DEF NeighborColor
  <2>7. ASSUME NEW x \in V, color'[x] # 0
        PROVE  Queued(x)' \/ (x = current' /\ Settled(x, neighbor)') \/ Settled(x, size + 1)'
    <3>1. CASE x = neighbor
      BY <2>3, <3>1
    <3>2. CASE x # neighbor
      BY <1>2, <2>1, <2>2, <2>3, <2>6, <2>7, <3>2 DEF ColoringInv, Coloring
    <3> QED
      BY <3>1, <3>2
  <2> QED
    BY <1>3, <2>4, <2>5, <2>6, <2>7 DEF ColoringInv, Coloring
<1> QED
  BY <1>4, <1>5, <1>6, <1>7, IdleNext

(* A clash is the end.                                                     *)
LEMMA NeighborClashInv == IInv /\ NeighborClash => IInv'
<1> SUFFICES ASSUME IInv, NeighborClash PROVE IInv'
  OBVIOUS
<1>1. TypeOK'
  BY DEF IInv, NeighborClash, TypeOK, coloring, search
<1>2. Idle'
  BY NowIdle DEF NeighborClash, Idle, search
<1>3. Fresh' /\ ColoringInv' /\ Bipartition'
  BY DEF NeighborClash, Fresh, ColoringInv, Bipartition, Coloring
<1> QED
  BY <1>1, <1>2, <1>3, IdleNext DEF IInv

(* The last neighbour settled, the vertex is settled.                      *)
LEMMA NeighborsDoneInv == IInv /\ NeighborsDone => IInv'
<1> SUFFICES ASSUME IInv, NeighborsDone PROVE IInv'
  OBVIOUS
<1> USE Types DEF IInv
<1>1. TypeOK'
  BY DEF NeighborsDone, TypeOK, coloring, search
<1>2. Idle'
  BY NowIdle DEF NeighborsDone, Idle, search
<1>3. Fresh' /\ Bipartition'
  BY DEF NeighborsDone, Fresh, Bipartition
<1>4. ColoringInv'
  <2>1. neighbor = size + 1
    BY DEF NeighborsDone, TypeOK
  <2>2. \A x : Settled(x, size + 1) = Settled(x, size + 1)' /\ Queued(x)' = Queued(x)
    BY DEF NeighborsDone, coloring, Settled, Queued
  <2> QED
    BY <2>1, <2>2 DEF NeighborsDone, ColoringInv, Coloring, coloring
<1> QED
  BY <1>1, <1>2, <1>3, <1>4, IdleNext

(* With the queue empty and every vertex coloured, no edge clashes.        *)
LEMMA ColoredInv == IInv /\ Colored => IInv'
<1> SUFFICES ASSUME IInv, Colored PROVE IInv'
  OBVIOUS
<1> USE Types DEF IInv
<1>1. TypeOK'
  BY DEF Colored, TypeOK, coloring, search
<1>2. Idle'
  BY NowIdle DEF Colored, Idle, search
<1>3. Fresh' /\ ColoringInv'
  BY DEF Colored, Fresh, ColoringInv, Coloring
<1>4. Bipartition'
  <2>1. \A x \in V : color[x] # 0 /\ Settled(x, size + 1)
    BY DEF Colored, ColoringInv, Coloring, Queued, TypeOK
  <2>2. \A x \in V : color[x] \in {1, 2}
    BY <2>1 DEF TypeOK
  <2> QED
    BY <2>1, <2>2 DEF Settled, Bipartition, Colored, coloring
<1> QED
  BY <1>1, <1>2, <1>3, <1>4, IdleNext

-----------------------------------------------------------------------------
(* What the steps of the search leave alone.                               *)
LEMMA Calm ==
  ASSUME IInv, pc \in {"sources", "call", "scan", "return"}, UNCHANGED <<graph, coloring>>,
         pc' \in {"sources", "call", "scan", "return", "done"}
  PROVE  Fresh' /\ ColoringInv' /\ Bipartition'
  BY DEF IInv, Fresh, ColoringInv, Coloring, Bipartition, coloring

(* Nor does a step that keeps match disturb it.                            *)
LEMMA SameMatching ==
  ASSUME IInv, UNCHANGED <<graph, color, match>>, ~Won
  PROVE  MatchedEdges' /\ OneMateEach'
  BY DEF IInv, MatchingSound, MatchedEdges, OneMateEach, Won

(* A vertex of the second colour starts no search.                         *)
LEMMA PassOverInv == IInv /\ PassOver => IInv'
<1> SUFFICES ASSUME IInv, PassOver PROVE IInv'
  OBVIOUS
<1> USE Types DEF IInv
<1>1. TypeOK'
  BY DEF PassOver, TypeOK, coloring, search
<1>2. Fresh' /\ ColoringInv' /\ Bipartition'
  BY Calm DEF PassOver
<1>3. NothingYet' /\ stack = <<>> /\ stack' = <<>>
  BY DEF PassOver, NothingYet, Searching, search
<1>4. Frames' /\ Chain' /\ Top'
  BY <1>3 DEF Frames, Chain, Top, PassOver, Won
<1>5. Source'
  <2>1. \A y \in V : match[y] # Free => match[y] < u
    BY DEF SearchInv, Source, PassOver, Won
  <2>2. u' = u + 1 /\ u \in Int /\ match' = match /\ pc' = "sources"
    BY DEF PassOver, TypeOK
  <2>3. \A y \in V : match[y] \in Int
    BY DEF TypeOK, Free
  <2>4. \A y \in V : match'[y] # Free => match'[y] < u'
    BY <2>1, <2>2, <2>3
  <2> QED
    BY <1>3, <2>2, <2>4 DEF Source, Searching
<1>6. MatchingSound'
  BY SameMatching DEF PassOver, coloring, Won, MatchingSound
<1>7. CountsMatched'
  BY DEF PassOver, CountsMatched
<1> QED
  BY <1>1, <1>2, <1>3, <1>4, <1>5, <1>6, <1>7 DEF SearchInv

(* A search begins with a vertex that is not matched: only those before it *)
(* are.                                                                    *)
LEMMA SearchActionInv == IInv /\ Search => IInv'
<1> SUFFICES ASSUME IInv, Search PROVE IInv'
  OBVIOUS
<1> USE Types DEF IInv
<1>1. u \in V
  BY DEF Search, TypeOK
<1>2. TypeOK'
  BY <1>1 DEF Search, TypeOK, coloring
<1>3. Fresh' /\ ColoringInv' /\ Bipartition'
  BY Calm DEF Search
<1>4. NothingYet' /\ stack = <<>> /\ stack' = <<>>
  BY DEF Search, NothingYet, Searching
<1>5. Frames' /\ Chain' /\ Top'
  BY <1>1, <1>4 DEF Frames, Chain, Top, Search, Won, coloring
<1>6. Source'
  BY <1>1, <1>4 DEF Search, SearchInv, Source, Won, Searching, coloring
<1>7. MatchingSound'
  BY SameMatching DEF Search, coloring, Won, MatchingSound
<1>8. CountsMatched'
  BY DEF Search, CountsMatched
<1> QED
  BY <1>2, <1>3, <1>4, <1>5, <1>6, <1>7, <1>8 DEF SearchInv

(* A vertex that is turned away ends its call; another gets a frame, whose *)
(* vertex differs from those of all frames, which are visited.             *)
LEMMA EnterInv == IInv /\ Enter => IInv'
<1> SUFFICES ASSUME IInv, Enter PROVE IInv'
  OBVIOUS
<1> USE Types DEF IInv
<1>1. callee \in V /\ color[callee] = 1
  BY DEF Enter, SearchInv, Top
<1>2. Fresh' /\ ColoringInv' /\ Bipartition'
  BY Calm DEF Enter
<1>3. NothingYet'
  BY DEF Enter, NothingYet, Searching
<1>4. MatchingSound'
  BY SameMatching DEF Enter, coloring, Won, MatchingSound
<1>5. CountsMatched'
  BY DEF Enter, CountsMatched
<1>6. CASE visited[callee]
  <2>1. /\ pc = "call" /\ pc' = "return" /\ result' = FALSE
        /\ UNCHANGED <<graph, color, u, match, visited, stack>>
    BY <1>6 DEF Enter, coloring
  <2>2. TypeOK'
    BY <2>1 DEF Enter, TypeOK, coloring
  <2>3. Frames' /\ Chain'
    BY <2>1 DEF SearchInv, Frames, Chain, AtNeighbor
  <2>4. Top' /\ Source'
    BY <2>1 DEF SearchInv, Top, Source, Won, AtNeighbor, Searching
  <2> QED
    BY <1>2, <1>3, <1>4, <1>5, <2>2, <2>3, <2>4 DEF SearchInv
<1>7. CASE ~visited[callee]
  <2>1. /\ pc = "call" /\ pc' = "scan" /\ visited' = [visited EXCEPT ![callee] = TRUE]
        /\ stack' = Append(stack, <<callee, 1>>)
        /\ UNCHANGED <<graph, color, u, match, result>>
    BY <1>7 DEF Enter, coloring
  <2>2. /\ stack' \in Seq(V \X (1..(size + 1))) /\ Len(stack') = Len(stack) + 1 /\ stack' # <<>>
        /\ stack'[Len(stack) + 1] = <<callee, 1>>
        /\ \A i \in 1..Len(stack) : stack'[i] = stack[i]
        /\ Len(stack) \in Nat
    BY <1>1, <2>1 DEF TypeOK
  <2>3. TypeOK'
    BY <1>1, <2>1, <2>2 DEF Enter, TypeOK, coloring
  <2>4. \A i \in 1..Len(stack') : i \in 1..Len(stack) \/ i = Len(stack) + 1
    BY <2>2
  <2>5. Frames'
    <3>1. \A x \in V : visited[x] => visited'[x]
      BY <2>1 DEF TypeOK
    <3>2. visited'[callee]
      BY <1>1, <2>1 DEF TypeOK
    <3>3. \A i \in 1..Len(stack) : stack[i][1] # callee /\ visited[stack[i][1]] /\ color[stack[i][1]] = 1
      BY <1>7 DEF SearchInv, Frames
    <3>4. \A i \in 1..Len(stack') : visited'[stack'[i][1]] /\ color'[stack'[i][1]] = 1
      BY <1>1, <2>1, <2>2, <2>4, <3>1, <3>2, <3>3
    <3>5. ASSUME NEW i \in 1..Len(stack'), NEW j \in 1..Len(stack'), stack'[i][1] = stack'[j][1]
          PROVE  i = j
      <4>1. CASE i \in 1..Len(stack) /\ j \in 1..Len(stack)
        <5>1. stack'[i] = stack[i] /\ stack'[j] = stack[j]
          BY <2>2, <4>1
        <5>2. stack[i][1] = stack[j][1]
          BY <3>5, <5>1, Zenon
        <5>3. \A k, l \in 1..Len(stack) : stack[k][1] = stack[l][1] => k = l
          BY DEF SearchInv, Frames
        <5> QED
          BY <4>1, <5>2, <5>3, Zenon
      <4>2. CASE i \in 1..Len(stack) /\ j = Len(stack) + 1
        <5>1. stack'[i] = stack[i] /\ stack'[j] = <<callee, 1>>
          BY <2>2, <4>2
        <5>2. stack[i][1] = <<callee, 1>>[1]
          BY <3>5, <5>1, Zenon
        <5> QED
          BY <3>3, <4>2, <5>2
      <4>3. CASE i = Len(stack) + 1 /\ j \in 1..Len(stack)
        <5>1. stack'[j] = stack[j] /\ stack'[i] = <<callee, 1>>
          BY <2>2, <4>3
        <5>2. stack[j][1] = <<callee, 1>>[1]
          BY <3>5, <5>1, Zenon
        <5> QED
          BY <3>3, <4>3, <5>2
      <4>4. CASE i = Len(stack) + 1 /\ j = Len(stack) + 1
        BY <4>4
      <4> QED
        BY <2>4, <4>1, <4>2, <4>3, <4>4
    <3> QED
      BY <3>4, <3>5 DEF Frames
  <2>6. Chain'
    <3> SUFFICES ASSUME NEW i \in 1..(Len(stack') - 1)
                 PROVE  (AtNeighbor(i) /\ match[stack[i][2]] = stack[i + 1][1])'
      BY DEF Chain
    <3>1. i \in 1..Len(stack) /\ stack'[i] = stack[i]
      BY <2>2
    <3>2. CASE i = Len(stack)
      <4>1. AtNeighbor(i) /\ match[stack[i][2]] = callee
        BY <2>1, <3>1, <3>2 DEF SearchInv, Top, Frame
      <4> QED
        BY <2>1, <2>2, <3>1, <3>2, <4>1 DEF AtNeighbor
    <3>3. CASE i # Len(stack)
      <4>1. i \in 1..(Len(stack) - 1) /\ i + 1 \in 1..Len(stack) /\ stack'[i + 1] = stack[i + 1]
        <5>1. i \in 1..(Len(stack) - 1) /\ i + 1 \in 1..Len(stack)
          <6>1. \A n \in Nat : \A k \in 1..n : k # n => k \in 1..(n - 1) /\ k + 1 \in 1..n
            OBVIOUS
          <6>2. Len(stack) \in Nat
            BY <2>2
          <6> QED
            BY <3>1, <3>3, <6>1, <6>2, Zenon
        <5> QED
          BY <2>2, <5>1
      <4>2. AtNeighbor(i) /\ match[stack[i][2]] = stack[i + 1][1]
        BY <4>1 DEF SearchInv, Chain
      <4> QED
        BY <2>1, <3>1, <4>1, <4>2 DEF AtNeighbor
    <3> QED
      BY <3>2, <3>3
  <2>7. Top'
    BY <2>1, <2>2 DEF Top, Won
  <2>8. Source'
    <3>1. stack'[1][1] = u
      <4>1. CASE stack = <<>>
        BY <2>1, <2>2, <4>1 DEF SearchInv, Top
      <4>2. CASE stack # <<>>
        <5>1. 1 \in 1..Len(stack)
          BY <2>2, <4>2 DEF TypeOK
        <5> QED
          BY <2>2, <4>2, <5>1 DEF SearchInv, Source
      <4> QED
        BY <4>1, <4>2
    <3> QED
      BY <2>1, <2>2, <3>1 DEF SearchInv, Source, Searching, Won
  <2> QED
    BY <1>2, <1>3, <1>4, <1>5, <2>3, <2>5, <2>6, <2>7, <2>8 DEF SearchInv
<1> QED
  BY <1>6, <1>7

(* The loop of the top frame goes on; the frames below are as they were.   *)
LEMMA LoopGoesOn ==
  ASSUME IInv, stack # <<>>, Frame[2] \in V, stack' = Advanced, pc' = "scan", pc \in {"scan", "return"},
         ~Won, UNCHANGED <<graph, color, u, match, visited>>
  PROVE  Frames' /\ Chain' /\ Top' /\ Source'
<1> USE Types, Advances DEF IInv
<1>1. Frames'
  <2>1. \A i \in 1..Len(stack) : visited[stack[i][1]] /\ color[stack[i][1]] = 1
    BY DEF SearchInv, Frames
  <2>2. \A i, j \in 1..Len(stack) : stack[i][1] = stack[j][1] => i = j
    BY DEF SearchInv, Frames
  <2>3. Len(stack') = Len(stack) /\ \A i \in 1..Len(stack) : stack'[i][1] = stack[i][1]
    OBVIOUS
  <2>4. ASSUME NEW i \in 1..Len(stack)
        PROVE  /\ visited'[stack'[i][1]] /\ color'[stack'[i][1]] = 1
               /\ \A j \in 1..Len(stack) : stack'[i][1] = stack'[j][1] => i = j
    <3>1. stack'[i][1] = stack[i][1] /\ visited' = visited /\ color' = color
      BY <2>3
    <3>2. visited'[stack'[i][1]] /\ color'[stack'[i][1]] = 1
      BY <2>1, <3>1, Zenon
    <3>3. \A j \in 1..Len(stack) : stack'[i][1] = stack'[j][1] => i = j
      BY <2>2, <2>3, Zenon
    <3> QED
      BY <3>2, <3>3
  <2> HIDE Types, Advances DEF IInv
  <2> QED
    BY <2>3, <2>4, Zenon DEF Frames
<1>2. Chain'
  <2> SUFFICES ASSUME NEW i \in 1..(Len(stack') - 1)
               PROVE  (AtNeighbor(i) /\ match[stack[i][2]] = stack[i + 1][1])'
    BY DEF Chain
  <2>1. i \in 1..(Len(stack) - 1) /\ i + 1 \in 1..Len(stack)
    <3>1. Len(stack') = Len(stack) /\ Len(stack) \in Nat
      BY DEF TypeOK
    <3> QED
      BY <3>1
  <2>2. AtNeighbor(i) /\ match[stack[i][2]] = stack[i + 1][1]
    BY <2>1 DEF SearchInv, Chain
  <2>3. stack'[i] = stack[i] /\ stack'[i + 1][1] = stack[i + 1][1]
    BY <2>1
  <2> QED
    BY <2>2, <2>3 DEF AtNeighbor
<1>3. Top'
  BY DEF Top, Won
<1>4. Source'
  <2>1. 1 \in 1..Len(stack)
    BY Frames1
  <2>2. stack[1][1] = u /\ stack'[1][1] = stack[1][1]
    BY <2>1 DEF SearchInv, Source
  <2>3. Searching /\ \A y \in V : match[y] # Free => match[y] < u
    BY DEF SearchInv, Source, Won, Searching
  <2> QED
    BY <2>2, <2>3 DEF SearchInv, Source, Searching
<1> QED
  BY <1>1, <1>2, <1>3, <1>4

(* A column without an edge is passed over.                                *)
LEMMA ScanSkipInv == IInv /\ ScanSkip => IInv'
<1> SUFFICES ASSUME IInv, ScanSkip PROVE IInv'
  OBVIOUS
<1> USE Types DEF IInv
<1>1. stack # <<>> /\ Frame[2] \in V
  <2>1. stack # <<>>
    BY DEF ScanSkip, SearchInv, Top
  <2> QED
    BY <2>1, Frames1 DEF ScanSkip, V
<1>2. TypeOK'
  BY <1>1, Advances DEF ScanSkip, TypeOK, coloring
<1>3. Fresh' /\ ColoringInv' /\ Bipartition'
  BY Calm DEF ScanSkip
<1>4. NothingYet'
  BY DEF ScanSkip, NothingYet, Searching
<1>5. SearchInv'
  BY <1>1, LoopGoesOn DEF ScanSkip, SearchInv, coloring, Won
<1>6. MatchingSound'
  BY SameMatching DEF ScanSkip, coloring, Won, MatchingSound
<1>7. CountsMatched'
  BY DEF ScanSkip, CountsMatched
<1> QED
  BY <1>2, <1>3, <1>4, <1>5, <1>6, <1>7

(* A neighbour that did not change hands: the loop tries the next.         *)
LEMMA NotMovedInv == IInv /\ NotMoved => IInv'
<1> SUFFICES ASSUME IInv, NotMoved PROVE IInv'
  OBVIOUS
<1> USE Types DEF IInv
<1>1. stack # <<>> /\ Frame[2] \in V
  BY DEF NotMoved, SearchInv, Top, AtNeighbor, Frame
<1>2. TypeOK'
  BY <1>1, Advances DEF NotMoved, TypeOK, coloring
<1>3. Fresh' /\ ColoringInv' /\ Bipartition'
  BY Calm DEF NotMoved
<1>4. NothingYet'
  BY DEF NotMoved, NothingYet, Searching
<1>5. SearchInv'
  BY <1>1, LoopGoesOn DEF NotMoved, SearchInv, coloring, Won
<1>6. MatchingSound'
  BY SameMatching DEF NotMoved, coloring, Won, MatchingSound
<1>7. CountsMatched'
  BY DEF NotMoved, CountsMatched
<1> QED
  BY <1>2, <1>3, <1>4, <1>5, <1>6, <1>7

(* A neighbour that is matched has its mate called.                        *)
LEMMA ScanMatchedInv == IInv /\ ScanMatched => IInv'
<1> SUFFICES ASSUME IInv, ScanMatched PROVE IInv'
  OBVIOUS
<1> USE Types DEF IInv
<1>1. stack # <<>> /\ Frame[2] \in V
  <2>1. stack # <<>>
    BY DEF ScanMatched, SearchInv, Top
  <2> QED
    BY <2>1, Frames1 DEF ScanMatched, V
<1>2. callee' = match[Frame[2]] /\ callee' \in V /\ color[callee'] = 1
  BY <1>1 DEF ScanMatched, TypeOK, MatchingSound, MatchedEdges
<1>3. TypeOK'
  BY <1>2 DEF ScanMatched, TypeOK, coloring
<1>4. Fresh' /\ ColoringInv' /\ Bipartition'
  BY Calm DEF ScanMatched
<1>5. NothingYet'
  BY DEF ScanMatched, NothingYet, Searching
<1>6. Frames' /\ Chain'
  BY DEF ScanMatched, SearchInv, Frames, Chain, AtNeighbor, coloring
<1>7. Top'
  BY <1>1, <1>2 DEF ScanMatched, Top, AtNeighbor, Frame, Won, coloring
<1>8. Source'
  BY DEF ScanMatched, SearchInv, Source, Searching, Won, coloring
<1>9. MatchingSound'
  BY SameMatching DEF ScanMatched, coloring, Won, MatchingSound
<1>10. CountsMatched'
  BY DEF ScanMatched, CountsMatched
<1> QED
  BY <1>3, <1>4, <1>5, <1>6, <1>7, <1>8, <1>9, <1>10 DEF SearchInv

(* A return uncovers the frame below, which waits at a neighbour that is   *)
(* matched to the vertex of the frame just gone.                           *)
LEMMA Returns ==
  ASSUME IInv, stack # <<>>, stack' = Caller, UNCHANGED <<graph, color, u, visited>>,
         \A i \in 1..(Len(stack) - 1) : match'[stack[i][2]] = match[stack[i][2]]
  PROVE  /\ Frames' /\ Chain'
         /\ Len(stack) = 1 => stack' = <<>> /\ Frame[1] = u
         /\ stack' # <<>> =>
              /\ Len(stack) - 1 \in 1..(Len(stack) - 1)
              /\ stack'[1][1] = u /\ AtNeighbor(Len(stack))' /\ Frame' = stack[Len(stack) - 1]
              /\ Frame'[2] \in V /\ match[Frame'[2]] = Frame[1]
<1> USE DEF IInv
<1>1. /\ Len(stack) \in Nat /\ Len(stack) >= 1 /\ Len(stack') = Len(stack) - 1
      /\ \A i \in 1..(Len(stack) - 1) : stack'[i] = stack[i]
  <2>1. Len(stack) \in Nat /\ Len(stack) >= 1
    BY DEF TypeOK
  <2>2. Len(stack') = Len(stack) - 1 /\ \A i \in 1..(Len(stack) - 1) : stack'[i] = stack[i]
    BY Frames1
  <2> QED
    BY <2>1, <2>2
<1> USE Types, Frames1
<1>2. Frames'
  <2>1. \A i \in 1..Len(stack') : i \in 1..Len(stack) /\ stack'[i] = stack[i]
    <3>1. \A n \in Nat : \A i \in 1..(n - 1) : i \in 1..n
      OBVIOUS
    <3> QED
      BY <1>1, <3>1, Zenon
  <2>2. \A i \in 1..Len(stack') : visited'[stack'[i][1]] /\ color'[stack'[i][1]] = 1
    <3>1. \A k \in 1..Len(stack) : visited[stack[k][1]] /\ color[stack[k][1]] = 1
      BY DEF SearchInv, Frames
    <3>2. visited' = visited /\ color' = color
      OBVIOUS
    <3>3. ASSUME NEW i \in 1..Len(stack') PROVE visited'[stack'[i][1]] /\ color'[stack'[i][1]] = 1
      <4>1. i \in 1..Len(stack) /\ stack'[i] = stack[i]
        BY <2>1, Zenon
      <4>2. visited[stack[i][1]] /\ color[stack[i][1]] = 1
        BY <3>1, <4>1, Zenon
      <4>3. stack'[i][1] = stack[i][1]
        BY <4>1, Zenon
      <4> QED
        BY <3>2, <4>2, <4>3, Zenon
    <3> QED
      BY <3>3, Zenon
  <2>3. ASSUME NEW i \in 1..Len(stack'), NEW j \in 1..Len(stack'), stack'[i][1] = stack'[j][1]
        PROVE  i = j
    <3>1. \A k, l \in 1..Len(stack) : stack[k][1] = stack[l][1] => k = l
      BY DEF SearchInv, Frames
    <3>2. i \in 1..Len(stack) /\ j \in 1..Len(stack) /\ stack[i][1] = stack[j][1]
      BY <2>1, <2>3, Zenon
    <3> QED
      BY <3>1, <3>2, Zenon
  <2> QED
    BY <2>2, <2>3 DEF Frames
<1>3. Chain'
  <2> SUFFICES ASSUME NEW i \in 1..(Len(stack') - 1)
               PROVE  (AtNeighbor(i) /\ match[stack[i][2]] = stack[i + 1][1])'
    BY DEF Chain
  <2>1. i \in 1..(Len(stack) - 1) /\ i + 1 \in 1..(Len(stack) - 1)
    BY <1>1
  <2>2. AtNeighbor(i) /\ match[stack[i][2]] = stack[i + 1][1]
    BY <2>1 DEF SearchInv, Chain
  <2>3. stack'[i] = stack[i] /\ stack'[i + 1] = stack[i + 1]
    BY <1>1, <2>1
  <2>4. match'[stack[i][2]] = match[stack[i][2]]
    BY <2>1
  <2> QED
    BY <2>2, <2>3, <2>4 DEF AtNeighbor
<1>4. ASSUME Len(stack) = 1 PROVE stack' = <<>> /\ Frame[1] = u
  BY <1>4 DEF SearchInv, Source, Frame
<1>5. ASSUME stack' # <<>>
      PROVE  /\ Len(stack) - 1 \in 1..(Len(stack) - 1)
             /\ stack'[1][1] = u /\ AtNeighbor(Len(stack))' /\ Frame' = stack[Len(stack) - 1]
             /\ Frame'[2] \in V /\ match[Frame'[2]] = Frame[1]
  <2>1. Len(stack) # 1
    BY <1>5
  <2>2. Len(stack) - 1 \in 1..(Len(stack) - 1) /\ 1 \in 1..(Len(stack) - 1)
    BY <1>1, <2>1
  <2>3. (Len(stack) - 1) + 1 = Len(stack)
    BY <1>1
  <2>4. /\ AtNeighbor(Len(stack) - 1)
        /\ match[stack[Len(stack) - 1][2]] = stack[(Len(stack) - 1) + 1][1]
    BY <2>2 DEF SearchInv, Chain
  <2>5. Frame' = stack[Len(stack) - 1]
    BY <1>1, <2>2 DEF Frame
  <2>6. stack'[1][1] = u
    BY <1>1, <2>2 DEF SearchInv, Source
  <2>7. AtNeighbor(Len(stack))'
    BY <1>1, <2>2, <2>4 DEF AtNeighbor
  <2> QED
    BY <2>2, <2>3, <2>4, <2>5, <2>6, <2>7 DEF AtNeighbor, Frame
<1> QED
  BY <1>2, <1>3, <1>4, <1>5

(* The loop is at its end: the search of this frame has failed.            *)
LEMMA ScanEndInv == IInv /\ ScanEnd => IInv'
<1> SUFFICES ASSUME IInv, ScanEnd PROVE IInv'
  OBVIOUS
<1> USE Types DEF IInv
<1>1. stack # <<>>
  BY DEF ScanEnd, SearchInv, Top
<1>2. TypeOK'
  BY <1>1, Frames1 DEF ScanEnd, TypeOK, coloring
<1>3. Fresh' /\ ColoringInv' /\ Bipartition'
  BY Calm DEF ScanEnd
<1>4. NothingYet'
  BY DEF ScanEnd, NothingYet, Searching
<1>5. SearchInv'
  <2>1. /\ pc = "scan" /\ pc' = "return" /\ result' = FALSE /\ stack' = Caller
        /\ UNCHANGED <<graph, color, u, match, visited>>
    BY DEF ScanEnd, coloring
  <2>2. Frames' /\ Chain' /\ (stack' # <<>> => stack'[1][1] = u /\ AtNeighbor(Len(stack))')
    BY <1>1, <2>1, Returns
  <2>3. Top'
    BY <2>1, <2>2 DEF Top, Won
  <2>4. Source'
    BY <2>1, <2>2 DEF SearchInv, Source, Searching, Won
  <2> QED
    BY <2>2, <2>3, <2>4 DEF SearchInv
<1>6. MatchingSound'
  BY SameMatching DEF ScanEnd, coloring, Won, MatchingSound
<1>7. CountsMatched'
  BY DEF ScanEnd, CountsMatched
<1> QED
  BY <1>2, <1>3, <1>4, <1>5, <1>6, <1>7

(* The top frame's vertex takes its neighbour: if every double match       *)
(* involved that neighbour, one is left at most, that of the frame's       *)
(* vertex with the neighbour the frame below waits at.                     *)
LEMMA Takes ==
  ASSUME IInv, stack # <<>>, pc \in {"scan", "return"}, Frame[2] \in V,
         is_edge(graph, Frame[1], Frame[2]),
         match' = [match EXCEPT ![Frame[2]] = Frame[1]], stack' = Caller,
         pc' = "return", result', UNCHANGED <<graph, color, u, visited>>,
         \A i \in 1..(Len(stack) - 1) : stack[i][2] # Frame[2],
         \A y, z \in V : (y # z /\ match[y] = match[z] /\ match[y] # Free) => Frame[2] \in {y, z}
  PROVE  SearchInv' /\ MatchingSound'
<1> USE DEF IInv
<1> DEFINE v == Frame[2]
           f == Frame[1]
<1>1. /\ v \in V /\ f \in V /\ match'[v] = f
      /\ \A y \in V : y # v => match'[y] = match[y]
      /\ \A y \in V : match[y] \in Int
      /\ f # Free /\ f \in Int /\ u \in Int
  <2>1. v \in V /\ f \in V
    BY Frames1
  <2>2. match'[v] = f /\ \A y \in V : y # v => match'[y] = match[y]
    BY <2>1 DEF TypeOK
  <2>3. f # Free /\ f \in Int /\ u \in Int
    BY <2>1, Types DEF TypeOK
  <2>4. \A y \in V : match[y] \in Int
    BY Types DEF TypeOK, Free
  <2> QED
    BY <2>1, <2>2, <2>3, <2>4
<1>2. \A i \in 1..(Len(stack) - 1) : match'[stack[i][2]] = match[stack[i][2]]
  <2>1. \A i \in 1..(Len(stack) - 1) : stack[i][2] \in V
    BY DEF SearchInv, Chain, AtNeighbor
  <2> QED
    BY <1>1, <2>1
<1>3. /\ Frames' /\ Chain'
      /\ Len(stack) = 1 => stack' = <<>> /\ f = u
      /\ stack' # <<>> =>
           /\ Len(stack) - 1 \in 1..(Len(stack) - 1)
           /\ stack'[1][1] = u /\ AtNeighbor(Len(stack))' /\ Frame' = stack[Len(stack) - 1]
           /\ Frame'[2] \in V /\ match[Frame'[2]] = f
  BY <1>2, Returns
<1>4. stack' = <<>> => Len(stack) = 1
  <2>1. Len(stack') = Len(stack) - 1 /\ Len(stack) \in Nat
    BY Frames1 DEF TypeOK
  <2> QED
    BY <2>1
<1>5. stack' # <<>> => Frame'[2] # v
  BY <1>3
<1>6. color[f] = 1 /\ color[v] = 2
  <2>1. Len(stack) \in 1..Len(stack)
    BY Frames1
  <2>2. color[f] = 1
    BY <2>1 DEF SearchInv, Frames, Frame
  <2> QED
    BY <1>1, <2>2 DEF Bipartition
<1>7. \A y \in V : match[y] # Free => match[y] < u
  BY DEF SearchInv, Source
<1>8. Top'
  <2>1. ASSUME stack' # <<>> PROVE \A i \in 1..Len(stack') : f # stack'[i][1]
    <3> SUFFICES ASSUME NEW i \in 1..Len(stack') PROVE f # stack'[i][1]
      OBVIOUS
    <3>1. Len(stack') = Len(stack) - 1 /\ Len(stack) \in Nat
      BY Frames1 DEF TypeOK
    <3>2. i \in 1..(Len(stack) - 1) /\ i \in 1..Len(stack) /\ Len(stack) \in 1..Len(stack) /\ i # Len(stack)
      BY <3>1
    <3>3. stack'[i] = stack[i]
      BY <3>2, Frames1
    <3>4. stack[i][1] # stack[Len(stack)][1]
      BY <3>2 DEF SearchInv, Frames
    <3> QED
      BY <3>3, <3>4 DEF Frame
  <2>2. ASSUME stack' # <<>> PROVE match'[Frame'[2]] = f
    BY <1>1, <1>3, <1>5, <2>2
  <2> QED
    BY <1>1, <1>3, <2>1, <2>2 DEF Top
<1>9. Source'
  <2>1. ASSUME NEW y \in V, match'[y] # Free
        PROVE  match'[y] < u \/ (stack' = <<>> /\ match'[y] = u)
    <3>1. CASE y # v
      BY <1>1, <1>7, <2>1, <3>1
    <3>2. CASE y = v /\ stack' = <<>>
      BY <1>1, <1>3, <1>4, <3>2
    <3>3. CASE y = v /\ stack' # <<>>
      BY <1>1, <1>3, <1>7, <3>3
    <3> QED
      BY <3>1, <3>2, <3>3
  <2>2. u \in V /\ color[u] = 1
    BY DEF SearchInv, Source, Searching
  <2> QED
    BY <1>3, <2>1, <2>2 DEF Source, Searching, Won
<1>10. MatchedEdges'
  BY <1>1, <1>6 DEF MatchingSound, MatchedEdges
<1>11. OneMateEach'
  <2>1. ASSUME NEW z \in V, z # v, match[z] = f
        PROVE  stack' # <<>> /\ z = Frame'[2]
    <3>1. stack' # <<>>
      BY <1>1, <1>3, <1>4, <1>7, <2>1
    <3>2. Frame'[2] \in V /\ match[Frame'[2]] = f /\ Frame'[2] # v
      BY <1>3, <1>5, <3>1
    <3> QED
      BY <1>1, <2>1, <3>1, <3>2
  <2>2. ASSUME NEW y \in V, NEW z \in V, y # z, match'[y] = match'[z], match'[y] # Free
        PROVE  stack' # <<>> /\ Frame'[2] \in {y, z}
    <3>1. CASE y = v
      BY <1>1, <2>1, <2>2, <3>1
    <3>2. CASE z = v
      BY <1>1, <2>1, <2>2, <3>2
    <3>3. CASE y # v /\ z # v
      BY <1>1, <2>2, <3>3
    <3> QED
      BY <3>1, <3>2, <3>3
  <2> QED
    BY <2>2 DEF OneMateEach
<1> QED
  BY <1>3, <1>8, <1>9, <1>10, <1>11 DEF SearchInv, MatchingSound

(* A free neighbour is taken; the neighbours the frames below wait at are  *)
(* matched, so it is none of them.                                         *)
LEMMA ScanFreeInv == IInv /\ ScanFree => IInv'
<1> SUFFICES ASSUME IInv, ScanFree PROVE IInv'
  OBVIOUS
<1> USE DEF IInv
<1>1. stack # <<>> /\ Frame[1] \in V /\ Frame[2] \in V
  <2>1. stack # <<>>
    BY DEF ScanFree, SearchInv, Top
  <2> QED
    BY <2>1, Frames1, Types DEF ScanFree, V
<1>2. /\ pc = "scan" /\ pc' = "return" /\ result' = TRUE /\ stack' = Caller
      /\ is_edge(graph, Frame[1], Frame[2]) /\ match[Frame[2]] = Free
      /\ match' = [match EXCEPT ![Frame[2]] = Frame[1]]
      /\ UNCHANGED <<graph, color, q, current, neighbor, u, visited, callee, maxMatching,
                     matchingPairs>>
  BY DEF ScanFree, coloring
<1>3. TypeOK'
  BY <1>1, <1>2, Frames1 DEF TypeOK
<1>4. Fresh' /\ ColoringInv' /\ Bipartition'
  BY Calm DEF ScanFree
<1>5. NothingYet'
  BY <1>2 DEF NothingYet, Searching
<1>6. SearchInv' /\ MatchingSound'
  <2>1. \A i \in 1..(Len(stack) - 1) : stack[i][2] # Frame[2]
    <3> SUFFICES ASSUME NEW i \in 1..(Len(stack) - 1) PROVE match[stack[i][2]] # Free
      BY <1>2
    <3>1. i + 1 \in 1..Len(stack)
      BY DEF TypeOK
    <3> QED
      BY <3>1, Types DEF SearchInv, Chain
  <2>2. \A y, z \in V : (y # z /\ match[y] = match[z] /\ match[y] # Free) => Frame[2] \in {y, z}
    BY <1>2 DEF MatchingSound, OneMateEach
  <2> QED
    BY <1>1, <1>2, <2>1, <2>2, Takes
<1>7. CountsMatched'
  <2> DEFINE Matched == { y \in V : match[y] # Free }
  <2>1. Matched' = Matched \cup {Frame[2]} /\ Frame[2] \notin Matched
    <3>1. match'[Frame[2]] = Frame[1] /\ \A y \in V : y # Frame[2] => match'[y] = match[y]
      BY <1>1, <1>2 DEF TypeOK
    <3>2. Frame[1] # Free
      BY <1>1, Types
    <3> QED
      BY <1>1, <1>2, <3>1, <3>2
  <2>2. IsFiniteSet(Matched)
    <3>1. 1 \in Int /\ size \in Int
      BY GraphAssumption DEF GraphAssumption
    <3>2. IsFiniteSet(V)
      BY <3>1, FS_Interval, Zenon DEF V
    <3>3. Matched \in SUBSET V
      OBVIOUS
    <3> QED
      BY <3>2, <3>3, FS_Subset, Zenon
  <2>3. Cardinality(Matched') = Cardinality(Matched) + 1
    <3> HIDE DEF Matched
    <3> QED
      BY <2>1, <2>2, FS_AddElement
  <2>4. Cardinality(Matched) = maxMatching
    BY <1>2 DEF CountsMatched, TypeOK
  <2> QED
    BY <1>2, <2>3, <2>4 DEF CountsMatched, TypeOK
<1> QED
  BY <1>3, <1>4, <1>5, <1>6, <1>7

(* The mate of the top frame's neighbour has found another: the frame's    *)
(* vertex takes its place.  That mate is none of the frames' vertices, so  *)
(* the frames below wait at other neighbours.                              *)
LEMMA MovedInv == IInv /\ Moved => IInv'
<1> SUFFICES ASSUME IInv, Moved PROVE IInv'
  OBVIOUS
<1> USE DEF IInv
<1>1. /\ pc = "return" /\ pc' = "return" /\ result /\ result' /\ stack # <<>> /\ stack' = Caller
      /\ result' = result
      /\ match' = [match EXCEPT ![Frame[2]] = Frame[1]]
      /\ UNCHANGED <<graph, color, q, current, neighbor, u, visited, callee, maxMatching,
                     matchingPairs>>
  BY DEF Moved, coloring
<1>2. /\ Frame[1] \in V /\ Frame[2] \in V /\ is_edge(graph, Frame[1], Frame[2])
      /\ match[Frame[2]] # Free
      /\ \A i \in 1..Len(stack) : match[Frame[2]] # stack[i][1]
  BY <1>1, Frames1 DEF SearchInv, Top, AtNeighbor, Frame, Won
<1>3. TypeOK'
  BY <1>1, <1>2, Frames1 DEF TypeOK
<1>4. Fresh' /\ ColoringInv' /\ Bipartition'
  BY Calm DEF Moved
<1>5. NothingYet'
  BY <1>1 DEF NothingYet, Searching
<1>6. SearchInv' /\ MatchingSound'
  <2>1. \A i \in 1..(Len(stack) - 1) : stack[i][2] # Frame[2]
    <3> SUFFICES ASSUME NEW i \in 1..(Len(stack) - 1) PROVE match[stack[i][2]] # match[Frame[2]]
      OBVIOUS
    <3>1. i + 1 \in 1..Len(stack)
      BY DEF TypeOK
    <3> QED
      BY <1>2, <3>1 DEF SearchInv, Chain
  <2>2. \A y, z \in V : (y # z /\ match[y] = match[z] /\ match[y] # Free) => Frame[2] \in {y, z}
    BY DEF MatchingSound, OneMateEach
  <2> QED
    BY <1>1, <1>2, <2>1, <2>2, Takes
<1>7. CountsMatched'
  <2>1. { y \in V : match[y] # Free }' = { y \in V : match[y] # Free }
    BY <1>1, <1>2, Types DEF TypeOK
  <2> QED
    BY <1>1, <2>1 DEF CountsMatched
<1> QED
  BY <1>3, <1>4, <1>5, <1>6, <1>7

(* The search is over: its vertex joins those the loop has passed.         *)
LEMMA SearchedInv == IInv /\ Searched => IInv'
<1> SUFFICES ASSUME IInv, Searched PROVE IInv'
  OBVIOUS
<1> USE DEF IInv
<1>1. /\ pc = "return" /\ pc' = "sources" /\ stack = <<>> /\ stack' = <<>> /\ u' = u + 1
      /\ maxMatching' = IF result THEN maxMatching + 1 ELSE maxMatching
      /\ UNCHANGED <<graph, color, q, current, neighbor, match, visited, callee, result,
                     matchingPairs>>
  BY DEF Searched, coloring, search
<1>2. u \in V
  BY <1>1 DEF SearchInv, Source, Searching
<1>3. TypeOK'
  BY <1>1, <1>2, Types DEF TypeOK
<1>4. Fresh' /\ ColoringInv' /\ Bipartition'
  BY Calm DEF Searched
<1>5. NothingYet'
  BY <1>1 DEF NothingYet, Searching
<1>6. Frames' /\ Chain' /\ Top'
  BY <1>1 DEF Frames, Chain, Top, Won
<1>7. Source'
  <2>1. \A y \in V : match[y] # Free => match[y] < u \/ match[y] = u
    BY DEF SearchInv, Source
  <2>2. u \in Int /\ \A y \in V : match[y] \in Int
    BY Types DEF TypeOK, Free
  <2>3. \A y \in V : match'[y] # Free => match'[y] < u'
    BY <1>1, <2>1, <2>2
  <2> QED
    BY <1>1, <2>3 DEF Source, Searching
<1>8. MatchingSound'
  BY <1>1 DEF MatchingSound, MatchedEdges, OneMateEach
<1>9. CountsMatched'
  BY <1>1 DEF CountsMatched, TypeOK
<1> QED
  BY <1>3, <1>4, <1>5, <1>6, <1>7, <1>8, <1>9 DEF SearchInv

(* Between searches every vertex has one mate at most, which mateU finds.  *)
LEMMA CollectInv == IInv /\ Collect => IInv'
<1> SUFFICES ASSUME IInv, Collect PROVE IInv'
  OBVIOUS
<1> USE DEF IInv
<1>1. /\ pc = "sources" /\ pc' = "done"
      /\ matchingPairs' = { <<x, mateU(x)>> : x \in { x \in V : color[x] = 1 /\ mateU(x) # Free } }
      /\ UNCHANGED <<graph, color, q, current, neighbor, u, match, visited, stack, callee, result,
                     maxMatching>>
  BY DEF Collect, coloring, search
<1>2. ASSUME NEW x \in V, mateU(x) # Free PROVE mateU(x) \in V
  <2> DEFINE Mates == { y \in V : match[y] = x }
  <2>1. Mates # {}
    BY <1>2 DEF mateU
  <2>2. \A y, z \in Mates : y = z
    BY <1>1, Types DEF MatchingSound, OneMateEach
  <2>3. \A y \in Mates : y \in V /\ y <= y
    BY Types
  <2>4. \E y \in Mates : \A z \in Mates : z <= y
    BY <2>1, <2>2, <2>3
  <2>5. mateU(x) = CHOOSE y \in Mates : \A z \in Mates : z <= y
    BY <2>1 DEF mateU
  <2> HIDE DEF Mates
  <2> QED
    BY <2>3, <2>4, <2>5
<1>3. TypeOK'
  BY <1>1, <1>2 DEF TypeOK
<1>4. Fresh' /\ ColoringInv' /\ Bipartition'
  BY Calm DEF Collect
<1>5. NothingYet' /\ Frames' /\ Chain' /\ stack = <<>>
  BY <1>1 DEF NothingYet, Searching, Frames, Chain, SearchInv
<1>6. Top' /\ Source'
  BY <1>1, <1>5 DEF SearchInv, Top, Source, Won, Searching
<1>7. MatchingSound'
  BY <1>1, SameMatching DEF Won, MatchingSound
<1>8. CountsMatched'
  BY <1>1 DEF CountsMatched
<1> QED
  BY <1>3, <1>4, <1>5, <1>6, <1>7, <1>8 DEF SearchInv

(* A step that changes nothing.                                            *)
LEMMA StutterInv == IInv /\ UNCHANGED vars => IInv'
<1> SUFFICES ASSUME IInv, UNCHANGED vars PROVE IInv'
  OBVIOUS
<1> USE DEF vars, coloring, search, IInv
<1>1. TypeOK' /\ Fresh' /\ Bipartition' /\ NothingYet'
  BY DEF TypeOK, Fresh, Bipartition, NothingYet, Searching
<1>2. ColoringInv'
  BY DEF ColoringInv, Coloring, Queued, Settled
<1>3. Frames' /\ Chain' /\ Source'
  BY DEF SearchInv, Frames, Chain, AtNeighbor, Source, Searching, Won
<1>4. Top'
  BY DEF SearchInv, Top, AtNeighbor, Frame, Won
<1>5. MatchingSound' /\ CountsMatched'
  BY DEF MatchingSound, MatchedEdges, OneMateEach, Frame, CountsMatched
<1> QED
  BY <1>1, <1>2, <1>3, <1>4, <1>5 DEF SearchInv

-----------------------------------------------------------------------------
LEMMA InvariantStep == IInv /\ [Next]_vars => IInv'
  BY StartInv, ColorRootInv, ColorNextInv, NeighborSkipInv, NeighborColorInv,
     NeighborClashInv, NeighborsDoneInv, ColoredInv, PassOverInv, SearchActionInv, EnterInv,
     ScanSkipInv, ScanFreeInv, ScanMatchedInv, ScanEndInv, MovedInv, NotMovedInv, SearchedInv,
     CollectInv, StutterInv, Zenon DEF Next, Terminated

(* The inductive invariant.                                                *)
THEOREM Invariance == Spec => []IInv
  BY InitInv, InvariantStep, PTL DEF Spec

(* Colouring and findMaxMatching keep their types: what is called, visited, *)
(* coloured, matched and paired are vertices of the graph, or nothing.     *)
THEOREM TypeCorrect == Spec => []TypeOK
<1>1. IInv => TypeOK
  BY DEF IInv
<1> QED
  BY Invariance, <1>1, PTL

(* match is a matching at every step of the recursion, up to the neighbour *)
(* that is changing hands.                                                 *)
THEOREM MatchingIsSound == Spec => []MatchingSound
<1>1. IInv => MatchingSound
  BY DEF IInv
<1> QED
  BY Invariance, <1>1, PTL

(* The result of dfsKuhn says whether the matching has grown by one.       *)
THEOREM CounterIsRight == Spec => []CountsMatched
<1>1. IInv => CountsMatched
  BY DEF IInv
<1> QED
  BY Invariance, <1>1, PTL

(* Once checkBipartition has accepted a graph, every vertex has one of two *)
(* colours and no edge joins vertices of one colour.                       *)
THEOREM AcceptedIsBipartite == Spec => []Bipartition
<1>1. IInv => Bipartition
  BY DEF IInv
<1> QED
  BY Invariance, <1>1, PTL

-----------------------------------------------------------------------------
(* That a graph is refused rightly.  As long as nothing clashes, any       *)
(* two-colouring of the graph can be made to agree with the colours given  *)
(* so far.  Where a component is begun, this takes the other colouring of  *)
(* all that is not coloured yet, to which no edge leads; where a neighbour *)
(* is coloured, it has no choice.  A clash then says that there was none.  *)

Proper(c) == \A x, y \in V : is_edge(graph, x, y) => c[x] # c[y]

Agree ==
  Coloring =>
    \A c \in [V -> 1..2] : Proper(c) =>
      \E d \in [V -> 1..2] : Proper(d) /\ \A x \in V : color[x] # 0 => d[x] = color[x]

Answered ==
  /\ pc \notin {"start", "error"} => ~CheckDirected(graph)
  /\ pc = "error" => CheckDirected(graph) \/ ~TwoColorable

RInv == IInv /\ Agree /\ Answered

LEMMA ProperColorings ==
  ASSUME graph \in GraphsOn(size, Int)
  PROVE  TwoColorable <=> \E c \in [V -> 1..2] : Proper(c)
<1>1. ASSUME NEW c \in [V -> 1..2]
      PROVE  Proper(c) <=> \A e \in Edges : c[e[1]] # c[e[2]]
  <2>1. ASSUME \A e \in Edges : c[e[1]] # c[e[2]], NEW x \in V, NEW y \in V, is_edge(graph, x, y)
        PROVE  c[x] # c[y]
    <3>1. <<x, y>> \in Edges
      BY <2>1 DEF Edges
    <3> QED
      BY <2>1, <3>1
  <2> QED
    BY <2>1 DEF Proper, Edges
<1> QED
  BY <1>1 DEF TwoColorable

(* In an undirected graph an edge leads both ways.                         *)
LEMMA EdgesLeadBothWays ==
  ASSUME graph \in GraphsOn(size, Int), ~CheckDirected(graph), NEW x \in V, NEW y \in V
  PROVE  is_edge(graph, x, y) <=> is_edge(graph, y, x)
BY DEF GraphsOn, CheckDirected, Vertices, is_edge, weight, V

LEMMA StartAnswer == RInv /\ Start => (Agree /\ Answered)'
<1> SUFFICES ASSUME RInv, Start PROVE (Agree /\ Answered)'
  OBVIOUS
<1>1. /\ graph' = graph /\ color' = color
      /\ \A x \in V : color[x] = 0
  BY DEF RInv, IInv, Fresh, Start, coloring
<1>2. Agree'
  BY <1>1 DEF Agree, Proper
<1>3. Answered'
  BY <1>1 DEF Start, Answered
<1> QED
  BY <1>2, <1>3

(* The uncoloured part of an agreeing colouring can be turned around.      *)
LEMMA ColorRootAnswer == RInv /\ ColorRoot => (Agree /\ Answered)'
<1> SUFFICES ASSUME RInv, ColorRoot PROVE (Agree /\ Answered)'
  OBVIOUS
<1>1. /\ pc = "color" /\ pc' = "color" /\ graph' = graph /\ q = <<>> /\ u \in V
      /\ graph \in GraphsOn(size, Int) /\ ~CheckDirected(graph)
      /\ color \in [V -> 0..2]
  BY Types DEF RInv, Answered, IInv, TypeOK, ColorRoot
<1>2. ASSUME NEW x \in V, NEW y \in V, is_edge(graph, x, y)
      PROVE  color[x] = 0 <=> color[y] = 0
  <2>1. \A z \in V : color[z] # 0 => Settled(z, size + 1)
    BY <1>1 DEF RInv, IInv, ColoringInv, Coloring, Queued
  <2>2. \A z \in V : z < size + 1
    BY Types DEF RInv, IInv
  <2>3. is_edge(graph, y, x)
    BY <1>1, <1>2, EdgesLeadBothWays
  <2> QED
    BY <1>2, <2>1, <2>2, <2>3 DEF Settled
<1>3. ASSUME NEW c \in [V -> 1..2], Proper(c), color[u] = 0
      PROVE  \E d \in [V -> 1..2] : Proper(d) /\ \A x \in V : color'[x] # 0 => d[x] = color'[x]
  <2>1. PICK d \in [V -> 1..2] : Proper(d) /\ \A x \in V : color[x] # 0 => d[x] = color[x]
    BY <1>1, <1>3 DEF RInv, Agree, Coloring
  <2>2. \A x \in V : color'[x] = IF x = u THEN 1 ELSE color[x]
    BY <1>1, <1>3 DEF ColorRoot
  <2>3. CASE d[u] = 1
    BY <2>1, <2>2, <2>3
  <2>4. CASE d[u] = 2
    <3> DEFINE e == [x \in V |-> IF color[x] = 0 THEN 3 - d[x] ELSE d[x]]
    <3>1. \A x \in V : d[x] \in 1..2 /\ 3 - d[x] \in 1..2
      BY <2>1
    <3>2. e \in [V -> 1..2]
      BY <3>1
    <3>3. \A x \in V : e[x] = IF color[x] = 0 THEN 3 - d[x] ELSE d[x]
      OBVIOUS
    <3> HIDE DEF e
    <3>4. \A x \in V : color'[x] # 0 => e[x] = color'[x]
      BY <1>3, <2>1, <2>2, <2>4, <3>3
    <3>5. ASSUME NEW x \in V, NEW y \in V, is_edge(graph, x, y) PROVE e[x] # e[y]
      BY <1>2, <2>1, <3>1, <3>3, <3>5 DEF Proper
    <3> QED
      BY <3>2, <3>4, <3>5 DEF Proper
  <2> QED
    BY <1>1, <2>1, <2>3, <2>4
<1>4. Agree'
  <2>1. CASE color[u] = 0
    BY <1>1, <1>3, <2>1 DEF Agree, Proper
  <2>2. CASE color[u] # 0
    BY <1>1, <2>2 DEF ColorRoot, RInv, Agree, Coloring, Proper
  <2> QED
    BY <2>1, <2>2
<1>5. Answered'
  BY <1>1 DEF Answered
<1> QED
  BY <1>4, <1>5

(* The neighbour of a coloured vertex has one colour left.                 *)
LEMMA NeighborColorAnswer == RInv /\ NeighborColor => (Agree /\ Answered)'
<1> SUFFICES ASSUME RInv, NeighborColor PROVE (Agree /\ Answered)'
  OBVIOUS
<1>1. /\ pc = "neighbors" /\ pc' = "neighbors" /\ graph' = graph
      /\ neighbor \in V /\ current \in V /\ is_edge(graph, current, neighbor)
      /\ color \in [V -> 0..2] /\ color[current] # 0 /\ color[neighbor] = 0
      /\ color' = [color EXCEPT ![neighbor] = IF color[current] = 1 THEN 2 ELSE 1]
  BY Types DEF RInv, IInv, TypeOK, NeighborColor, ColoringInv, Coloring
<1>2. ASSUME NEW c \in [V -> 1..2], Proper(c)
      PROVE  \E d \in [V -> 1..2] : Proper(d) /\ \A x \in V : color'[x] # 0 => d[x] = color'[x]
  <2>1. PICK d \in [V -> 1..2] : Proper(d) /\ \A x \in V : color[x] # 0 => d[x] = color[x]
    BY <1>1, <1>2 DEF RInv, Agree, Coloring
  <2>2. d[neighbor] = color'[neighbor]
    <3>1. d[current] = color[current] /\ d[current] # d[neighbor]
      BY <1>1, <2>1 DEF Proper
    <3>2. d[current] \in {1, 2} /\ d[neighbor] \in {1, 2}
      BY <1>1, <2>1
    <3> QED
      BY <1>1, <3>1, <3>2
  <2>3. \A x \in V : x # neighbor => color'[x] = color[x]
    BY <1>1
  <2> QED
    BY <2>1, <2>2, <2>3
<1>3. Agree'
  <2>1. graph' = graph /\ \A c : Proper(c)' <=> Proper(c)
    BY <1>1 DEF Proper
  <2> QED
    BY <1>2, <2>1 DEF Agree
<1>4. Answered'
  BY <1>1 DEF RInv, Answered
<1> QED
  BY <1>3, <1>4

(* Two ends of an edge with one colour: no two-colouring agrees.           *)
LEMMA NeighborClashAnswer == RInv /\ NeighborClash => (Agree /\ Answered)'
<1> SUFFICES ASSUME RInv, NeighborClash PROVE (Agree /\ Answered)'
  OBVIOUS
<1>1. /\ pc = "neighbors" /\ pc' = "error" /\ graph' = graph
      /\ graph \in GraphsOn(size, Int)
      /\ neighbor \in V /\ current \in V /\ is_edge(graph, current, neighbor)
      /\ color[neighbor] = color[current] /\ color[neighbor] # 0
  BY Types DEF RInv, IInv, TypeOK, NeighborClash, ColoringInv, Coloring
<1>2. \A c \in [V -> 1..2] : ~Proper(c)
  <2> SUFFICES ASSUME NEW c \in [V -> 1..2], Proper(c) PROVE FALSE
    OBVIOUS
  <2>1. PICK d \in [V -> 1..2] : Proper(d) /\ \A x \in V : color[x] # 0 => d[x] = color[x]
    BY <1>1 DEF RInv, Agree, Coloring
  <2> QED
    BY <1>1, <2>1 DEF Proper
<1>3. ~TwoColorable
  BY <1>1, <1>2, ProperColorings
<1>4. Answered'
  BY <1>1, <1>3 DEF Answered, TwoColorable, Edges
<1>5. Agree'
  BY <1>1 DEF Agree, Coloring
<1> QED
  BY <1>4, <1>5

(* The other steps give no colour and refuse nothing.                      *)
LEMMA OtherAnswers ==
  ASSUME RInv, graph' = graph,
         \/ pc' \in {"sources", "call", "scan", "return", "done"} /\ pc \notin {"start", "error"}
         \/ color' = color /\ pc \in {"color", "neighbors"} /\ pc' \in {"color", "neighbors"}
         \/ color' = color /\ pc' = pc
  PROVE  (Agree /\ Answered)'
<1>1. Agree'
  BY DEF RInv, Agree, Coloring, Proper
<1>2. Answered'
  BY DEF RInv, Answered, TwoColorable, Edges
<1> QED
  BY <1>1, <1>2

(* A graph is refused exactly if it is directed or has no two-colouring.   *)
THEOREM RefusesRightly == Spec => []RefusedIffNotBipartite
<1>1. Init => RInv
  <2> SUFFICES ASSUME Init PROVE Agree /\ Answered
    BY InitInv DEF RInv
  <2> QED
    BY DEF Init, Agree, Answered, Coloring
<1>2. RInv /\ [Next]_vars => RInv'
  <2>1. RInv /\ [Next]_vars => IInv'
    BY InvariantStep DEF RInv
  <2>2. ASSUME RInv, ColorNext \/ NeighborSkip \/ NeighborsDone \/ Colored
        PROVE  (Agree /\ Answered)'
    BY <2>2, OtherAnswers DEF ColorNext, NeighborSkip, NeighborsDone, Colored, coloring
  <2>3. ASSUME RInv, PassOver \/ Search \/ Enter \/ ScanSkip \/ ScanFree \/ ScanMatched \/ ScanEnd
        PROVE  (Agree /\ Answered)'
    BY <2>3, OtherAnswers
    DEF PassOver, Search, Enter, ScanSkip, ScanFree, ScanMatched, ScanEnd, coloring
  <2>4. ASSUME RInv, Moved \/ NotMoved \/ Searched \/ Collect PROVE (Agree /\ Answered)'
    BY <2>4, OtherAnswers DEF Moved, NotMoved, Searched, Collect, coloring
  <2>5. ASSUME RInv, Terminated \/ UNCHANGED vars PROVE (Agree /\ Answered)'
    BY <2>5, OtherAnswers DEF Terminated, vars
  <2> QED
    BY <2>1, <2>2, <2>3, <2>4, <2>5, StartAnswer, ColorRootAnswer, NeighborColorAnswer,
       NeighborClashAnswer, Zenon DEF Next, RInv
<1>3. RInv => RefusedIffNotBipartite
  <2> SUFFICES ASSUME RInv, pc = "done" PROVE TwoColorable
    BY DEF RInv, Answered, RefusedIffNotBipartite
  <2>1. graph \in GraphsOn(size, Int) /\ color \in [V -> 0..2]
    BY DEF RInv, IInv, TypeOK
  <2>2. color \in [V -> 1..2] /\ Proper(color)
    BY <2>1 DEF RInv, IInv, Bipartition, Proper
  <2> QED
    BY <2>1, <2>2, ProperColorings
<1> QED
  BY <1>1, <1>2, <1>3, PTL DEF Spec

-----------------------------------------------------------------------------
(* That the matching is a maximum.  A search that fails leaves behind the  *)
(* vertices it has seen: all their neighbours are matched, and to each     *)
(* other.  No later search comes out of such a set D once it has entered   *)
(* it, so that none changes a match of its neighbours, and in the end      *)
(* every vertex of the first colour is matched or in D.  In a matching of  *)
(* the graph, an edge from a vertex in D has its other end among the       *)
(* matched, and one from outside begins at a matched vertex.               *)

Underway == pc \in {"sources", "call", "scan", "return", "done"}

Stranded(D) == \A x \in D : \A y \in V : is_edge(graph, x, y) => match[y] \in D

Mated(x) == \E y \in V : match[y] = x

Kept(D) ==
  /\ Stranded(D)
  /\ \A x \in V : (color[x] = 1 /\ x < u) => x \in D \/ Mated(x)
  /\ (Won /\ stack # <<>>) => match[Frame[2]] \notin D

Leftover == Underway => \E D \in SUBSET V : Kept(D)

Seen == { x \in V : visited[x] }

(* The loop over the neighbours of x has failed for those before k.        *)
Closed(x, k) == \A y \in V : (y < k /\ is_edge(graph, x, y)) => match[y] \in Seen

Pending(x) == \E i \in 1..Len(stack) : stack[i][1] = x

Explored ==
  (Searching /\ ~Won) =>
    /\ \A x \in Seen : Pending(x) \/ Closed(x, size + 1)
    /\ \A i \in 1..Len(stack) : Closed(stack[i][1], stack[i][2])
    /\ pc = "return" => IF stack = <<>> THEN u \in Seen ELSE match[Frame[2]] \in Seen

(* Whoever has moved during the unwinding keeps a neighbour.               *)
Double ==
  Won => IF stack = <<>> THEN Mated(u)
         ELSE \E y \in V \ {Frame[2]} : match[y] = match[Frame[2]]

Pairs == { <<x, mateU(x)>> : x \in { x \in V : color[x] = 1 /\ mateU(x) # Free } }

Collected == pc = "done" => matchingPairs = Pairs /\ u > size

KInv == Leftover /\ Explored /\ Double /\ Collected

MInv == IInv /\ KInv

(* Before the searches there is nothing to say.                            *)
LEMMA NothingLeftOver ==
  ASSUME pc' \in {"start", "color", "neighbors", "error"}
  PROVE  KInv'
BY DEF KInv, Leftover, Underway, Explored, Searching, Double, Won, Collected

LEMMA LeftoverKept ==
  ASSUME MInv, Underway, graph' = graph, match' = match, color' = color,
         \A x \in V : (color[x] = 1 /\ x < u') => x < u,
         ~Won' \/ UNCHANGED <<pc, result, stack>>
  PROVE  Leftover'
<1>1. PICK D \in SUBSET V : Kept(D)
  BY DEF MInv, KInv, Leftover
<1>2. Stranded(D)'
  BY <1>1 DEF Kept, Stranded
<1>3. \A x \in V : (color'[x] = 1 /\ x < u') => x \in D \/ Mated(x)'
  BY <1>1 DEF Kept, Mated
<1>4. (Won' /\ stack' # <<>>) => match'[Frame'[2]] \notin D
  BY <1>1 DEF Kept, Won, Frame
<1>5. Kept(D)'
  BY <1>2, <1>3, <1>4 DEF Kept
<1> QED
  BY <1>5 DEF Leftover

LEMMA ColoredLeft == MInv /\ Colored => KInv'
<1> SUFFICES ASSUME MInv, Colored PROVE KInv'
  OBVIOUS
<1>1. pc' = "sources" /\ u' = 1
  BY DEF Colored
<1>2. \A x \in V : ~(x < 1)
  BY Types DEF MInv, IInv
<1>3. Kept({})'
  BY <1>1, <1>2 DEF Kept, Stranded, Won
<1>4. Leftover'
  BY <1>3 DEF Leftover
<1> QED
  BY <1>1, <1>4 DEF KInv, Explored, Searching, Double, Won, Collected

LEMMA PassOverLeft == MInv /\ PassOver => KInv'
<1> SUFFICES ASSUME MInv, PassOver PROVE KInv'
  OBVIOUS
<1>1. /\ pc = "sources" /\ pc' = "sources" /\ u' = u + 1 /\ color[u] # 1
      /\ graph' = graph /\ match' = match /\ color' = color /\ u \in Int
  BY DEF PassOver, coloring, MInv, IInv, TypeOK
<1>2. \A x \in V : (color[x] = 1 /\ x < u') => x < u
  BY <1>1, Types DEF MInv, IInv
<1>3. Leftover'
  BY <1>1, <1>2, LeftoverKept DEF Underway, Won
<1> QED
  BY <1>1, <1>3 DEF KInv, Explored, Searching, Double, Won, Collected

LEMMA SearchLeft == MInv /\ Search => KInv'
<1> SUFFICES ASSUME MInv, Search PROVE KInv'
  OBVIOUS
<1>1. /\ pc = "sources" /\ pc' = "call" /\ u' = u /\ stack' = <<>>
      /\ graph' = graph /\ match' = match /\ color' = color /\ Seen' = {}
  BY DEF Search, coloring, MInv, IInv, NothingYet, Searching, Seen
<1>2. Leftover'
  BY <1>1, LeftoverKept DEF Underway, Won
<1>3. Explored'
  BY <1>1 DEF Explored
<1> QED
  BY <1>1, <1>2, <1>3 DEF KInv, Double, Won, Collected

LEMMA EnterLeft == MInv /\ Enter => KInv'
<1> SUFFICES ASSUME MInv, Enter PROVE KInv'
  OBVIOUS
<1>1. /\ pc = "call" /\ u' = u /\ callee \in V /\ visited \in [V -> BOOLEAN]
      /\ graph' = graph /\ match' = match /\ color' = color /\ ~Won'
      /\ pc' \in {"scan", "return"} /\ (pc' = "return" => ~result')
  BY DEF Enter, coloring, MInv, IInv, TypeOK, SearchInv, Top, Won
<1>2. Leftover'
  BY <1>1, LeftoverKept DEF Underway
<1>3. /\ \A x \in Seen : Pending(x) \/ Closed(x, size + 1)
      /\ \A i \in 1..Len(stack) : Closed(stack[i][1], stack[i][2])
  BY <1>1 DEF MInv, KInv, Explored, Searching, Won
<1>4. CASE visited[callee]
  <2>1. pc' = "return" /\ stack' = stack /\ Seen' = Seen /\ callee \in Seen
    BY <1>1, <1>4 DEF Enter, Seen
  <2>2. IF stack = <<>> THEN u \in Seen ELSE match[Frame[2]] \in Seen
    BY <1>1, <2>1 DEF MInv, IInv, SearchInv, Top
  <2>3. Explored'
    BY <1>1, <1>3, <2>1, <2>2 DEF Explored, Pending, Closed, Frame
  <2> QED
    BY <1>1, <1>2, <2>3 DEF KInv, Double, Collected
<1>5. CASE ~visited[callee]
  <2>1. /\ pc' = "scan" /\ stack' = Append(stack, <<callee, 1>>)
        /\ visited' = [visited EXCEPT ![callee] = TRUE]
    BY <1>5 DEF Enter
  <2>2. Seen' = Seen \cup {callee}
    BY <1>1, <2>1 DEF Seen
  <2>3. /\ Len(stack) \in Nat /\ Len(stack') = Len(stack) + 1
        /\ stack'[Len(stack) + 1] = <<callee, 1>>
        /\ \A i \in 1..Len(stack) : stack'[i] = stack[i]
    BY <2>1 DEF MInv, IInv, TypeOK
  <2>4. \A x, k : Closed(x, k) => Closed(x, k)'
    BY <1>1, <2>2 DEF Closed
  <2>5. ASSUME NEW x \in Seen' PROVE Pending(x)' \/ Closed(x, size + 1)'
    <3>1. CASE x = callee
      <4>1. Len(stack) + 1 \in 1..Len(stack')
        BY <2>3
      <4> QED
        BY <2>3, <3>1, <4>1 DEF Pending
    <3>2. CASE x \in Seen /\ Pending(x)
      <4>1. PICK i \in 1..Len(stack) : stack[i][1] = x
        BY <3>2 DEF Pending
      <4>2. i \in 1..Len(stack') /\ stack'[i][1] = x
        BY <2>3, <4>1
      <4> QED
        BY <4>2 DEF Pending
    <3>3. CASE x \in Seen /\ Closed(x, size + 1)
      BY <2>4, <3>3
    <3> QED
      BY <1>3, <2>2, <3>1, <3>2, <3>3
  <2>6. ASSUME NEW i \in 1..Len(stack') PROVE Closed(stack[i][1], stack[i][2])'
    <3>1. CASE i = Len(stack) + 1
      <4>1. \A y \in V : ~(y < 1)
        BY Types DEF MInv, IInv
      <4>2. stack'[i][2] = 1
        BY <2>3, <3>1
      <4> QED
        BY <4>1, <4>2 DEF Closed
    <3>2. CASE i \in 1..Len(stack)
      BY <1>3, <2>3, <2>4, <3>2
    <3> QED
      BY <2>3, <3>1, <3>2
  <2>7. Explored'
    BY <2>1, <2>5, <2>6 DEF Explored
  <2> QED
    BY <1>1, <1>2, <2>1, <2>7 DEF KInv, Double, Collected
<1> QED
  BY <1>4, <1>5

(* The loop of the top frame goes on past a neighbour that led nowhere.    *)
LEMMA LoopLeft ==
  ASSUME MInv, pc' = "scan", Searching, ~Won, stack # <<>>, stack' = Advanced, Frame[2] \in V,
         UNCHANGED <<graph, color, match, visited, u>>,
         \/ ~is_edge(graph, Frame[1], Frame[2])
         \/ match[Frame[2]] \in Seen
  PROVE  KInv'
<1> DEFINE n == Len(stack)
<1>1. Leftover'
  BY LeftoverKept DEF Underway, Searching, Won
<1>2. /\ \A x \in Seen : Pending(x) \/ Closed(x, size + 1)
      /\ \A i \in 1..n : Closed(stack[i][1], stack[i][2])
      /\ Seen' = Seen /\ \A x, k : Closed(x, k)' <=> Closed(x, k)
  BY DEF MInv, KInv, Explored, Seen, Closed
<1>3. /\ n \in 1..n /\ Frame[2] \in Int /\ Len(Advanced) = n
      /\ \A i \in 1..n : Advanced[i][1] = stack[i][1]
      /\ \A i \in 1..(n - 1) : Advanced[i] = stack[i]
      /\ Frame = stack[n]
  BY Frames1, Advances, Types DEF MInv, IInv, Frame
<1>4. Advanced[n][2] = Frame[2] + 1
  BY <1>3 DEF Advanced, MInv, IInv, TypeOK
<1>5. Closed(Frame[1], Frame[2] + 1)
  <2>1. Closed(Frame[1], Frame[2])
    BY <1>2, <1>3
  <2>2. \A y \in V : y < Frame[2] + 1 => y < Frame[2] \/ y = Frame[2]
    BY <1>3, Types DEF MInv, IInv
  <2> QED
    BY <2>1, <2>2 DEF Closed
<1>6. ASSUME NEW i \in 1..n PROVE Closed(Advanced[i][1], Advanced[i][2])
  <2>1. i = n \/ i \in 1..(n - 1)
    BY <1>3
  <2> QED
    BY <1>2, <1>3, <1>4, <1>5, <2>1
<1>7. \A x : Pending(x)' <=> Pending(x)
  BY <1>3 DEF Pending
<1>8. Explored'
  BY <1>2, <1>3, <1>6, <1>7 DEF Explored
<1> QED
  BY <1>1, <1>8 DEF KInv, Double, Won, Collected

LEMMA ScanSkipLeft == MInv /\ ScanSkip => KInv'
<1> SUFFICES ASSUME MInv, ScanSkip PROVE KInv'
  OBVIOUS
<1>1. /\ pc = "scan" /\ pc' = "scan" /\ stack' = Advanced /\ stack # <<>>
      /\ ~is_edge(graph, Frame[1], Frame[2])
      /\ UNCHANGED <<graph, color, match, visited, u>>
  BY DEF ScanSkip, coloring, MInv, IInv, SearchInv, Top
<1>2. Frame[2] \in V
  BY <1>1, Frames1, Types DEF ScanSkip, MInv, IInv
<1> QED
  BY <1>1, <1>2, LoopLeft DEF Searching, Won

LEMMA NotMovedLeft == MInv /\ NotMoved => KInv'
<1> SUFFICES ASSUME MInv, NotMoved PROVE KInv'
  OBVIOUS
<1>1. /\ pc = "return" /\ ~result /\ pc' = "scan" /\ stack' = Advanced /\ stack # <<>>
      /\ UNCHANGED <<graph, color, match, visited, u>>
  BY DEF NotMoved, coloring
<1>2. Frame[2] \in V
  BY <1>1 DEF MInv, IInv, SearchInv, Top, AtNeighbor, Frame
<1>3. match[Frame[2]] \in Seen
  BY <1>1 DEF MInv, KInv, Explored, Searching, Won
<1> QED
  BY <1>1, <1>2, <1>3, LoopLeft DEF Searching, Won

LEMMA ScanMatchedLeft == MInv /\ ScanMatched => KInv'
<1> SUFFICES ASSUME MInv, ScanMatched PROVE KInv'
  OBVIOUS
<1>1. /\ pc = "scan" /\ pc' = "call" /\ stack' = stack
      /\ UNCHANGED <<graph, color, match, visited, u>>
  BY DEF ScanMatched, coloring
<1>2. Leftover'
  BY <1>1, LeftoverKept DEF Underway, Won
<1>3. Explored'
  BY <1>1 DEF MInv, KInv, Explored, Searching, Won, Seen, Pending, Closed
<1> QED
  BY <1>1, <1>2, <1>3 DEF KInv, Double, Won, Collected

(* What is on top when the top frame has gone.                             *)
LEMMA Popped ==
  ASSUME IInv, stack # <<>>, stack' = Caller
  PROVE  /\ stack' = <<>> => Frame[1] = u
         /\ stack' # <<>> => Frame'[2] \in V /\ match[Frame'[2]] = Frame[1]
<1> DEFINE n == Len(stack)
<1>1. /\ n \in 1..n /\ Len(stack') = n - 1 /\ \A i \in 1..(n - 1) : stack'[i] = stack[i]
      /\ n \in Nat
  BY Frames1 DEF IInv, TypeOK
<1>2. CASE stack' = <<>>
  <2>1. n = 1
    BY <1>1, <1>2
  <2> QED
    BY <1>2, <2>1 DEF IInv, SearchInv, Source, Frame
<1>3. CASE stack' # <<>>
  <2>1. n - 1 \in 1..(n - 1) /\ (n - 1) + 1 = n
    <3>1. n # 1
      BY <1>3, Frames1 DEF IInv
    <3> QED
      BY <1>1, <3>1
  <2>2. Frame' = stack[n - 1]
    BY <1>1, <2>1 DEF Frame
  <2>3. stack[n - 1][2] \in V /\ match[stack[n - 1][2]] = stack[(n - 1) + 1][1]
    BY <2>1 DEF IInv, SearchInv, Chain, AtNeighbor
  <2> QED
    BY <1>3, <2>1, <2>2, <2>3 DEF Frame
<1> QED
  BY <1>2, <1>3

LEMMA ScanEndLeft == MInv /\ ScanEnd => KInv'
<1> SUFFICES ASSUME MInv, ScanEnd PROVE KInv'
  OBVIOUS
<1> DEFINE n == Len(stack)
<1>1. /\ pc = "scan" /\ pc' = "return" /\ result' = FALSE /\ stack # <<>> /\ stack' = Caller
      /\ UNCHANGED <<graph, color, match, visited, u>>
  BY DEF ScanEnd, coloring, MInv, IInv, SearchInv, Top
<1>2. Leftover'
  BY <1>1, LeftoverKept DEF Underway, Won
<1>3. /\ \A x \in Seen : Pending(x) \/ Closed(x, size + 1)
      /\ \A i \in 1..n : Closed(stack[i][1], stack[i][2])
      /\ Seen' = Seen /\ \A x, k : Closed(x, k)' <=> Closed(x, k)
  BY <1>1 DEF MInv, KInv, Explored, Searching, Won, Seen, Closed
<1>4. /\ n \in 1..n /\ n \in Nat /\ Len(stack') = n - 1
      /\ \A i \in 1..(n - 1) : stack'[i] = stack[i] /\ i \in 1..n
      /\ Frame = stack[n] /\ Frame[1] \in V
  BY <1>1, Frames1 DEF MInv, IInv, TypeOK, Frame
<1>5. Closed(Frame[1], size + 1)
  <2>1. Frame[2] = size + 1
    BY <1>1, Frames1, Types DEF ScanEnd, MInv, IInv
  <2> QED
    BY <1>3, <1>4, <2>1
<1>6. ASSUME NEW x \in Seen PROVE Pending(x)' \/ Closed(x, size + 1)
  <2>1. CASE Pending(x)
    <3>1. PICK i \in 1..n : stack[i][1] = x
      BY <2>1 DEF Pending
    <3>2. CASE i = n
      BY <1>4, <1>5, <3>1, <3>2
    <3>3. CASE i # n
      <4>1. i \in 1..(n - 1)
        BY <1>4, <3>3
      <4>2. i \in 1..Len(stack') /\ stack'[i][1] = x
        BY <1>4, <3>1, <4>1
      <4> QED
        BY <4>2 DEF Pending
    <3> QED
      BY <3>2, <3>3
  <2> QED
    BY <1>3, <2>1
<1>7. Frame[1] \in Seen
  BY <1>4 DEF MInv, IInv, SearchInv, Frames, Seen
<1>8. IF stack' = <<>> THEN u \in Seen ELSE match[Frame'[2]] \in Seen
  BY <1>1, <1>7, Popped DEF MInv
<1>9. Explored'
  <2>1. \A x \in Seen' : Pending(x)' \/ Closed(x, size + 1)'
    BY <1>3, <1>6
  <2>2. \A i \in 1..Len(stack') : Closed(stack[i][1], stack[i][2])'
    BY <1>3, <1>4
  <2>3. IF stack' = <<>> THEN u' \in Seen' ELSE match'[Frame'[2]] \in Seen'
    BY <1>1, <1>3, <1>8
  <2> QED
    BY <2>1, <2>2, <2>3 DEF Explored
<1> QED
  BY <1>1, <1>2, <1>9 DEF KInv, Double, Won, Collected

(* The vertex of the top frame takes its neighbour, which a search for a   *)
(* vertex that was given up could not have reached.                        *)
LEMMA TakesLeft ==
  ASSUME MInv, Searching, pc' = "return", result', stack # <<>>, stack' = Caller,
         Frame[2] \in V, is_edge(graph, Frame[1], Frame[2]),
         match' = [match EXCEPT ![Frame[2]] = Frame[1]],
         UNCHANGED <<graph, color, u>>,
         match[Frame[2]] # Frame[1],
         \A D \in SUBSET V : Kept(D) => match[Frame[2]] \notin D,
         match[Frame[2]] # Free => \E y \in V \ {Frame[2]} : match[y] = match[Frame[2]]
  PROVE  KInv'
<1> DEFINE x == Frame[1]  y == Frame[2]
<1>1. /\ x \in V /\ y \in V /\ match \in [V -> V \cup {Free}] /\ is_edge(graph, x, y)
      /\ match[y] # x
      /\ stack' = <<>> => x = u
      /\ stack' # <<>> => Frame'[2] \in V /\ match[Frame'[2]] = x
  BY Frames1, Popped DEF MInv, IInv, TypeOK
<1>2. PICK D \in SUBSET V : Kept(D)
  BY DEF MInv, KInv, Leftover, Underway, Searching
<1>3. match[y] \notin D
  BY <1>2
<1> HIDE DEF x, y
<1>4. match'[y] = x /\ \A z \in V \ {y} : match'[z] = match[z]
  <2>1. match' = [match EXCEPT ![y] = x]
    BY DEF x, y
  <2> QED
    BY <1>1, <2>1
<1>5. x \notin D
  BY <1>1, <1>2, <1>3 DEF Kept, Stranded
<1>6. Stranded(D)'
  BY <1>2, <1>3, <1>4 DEF Kept, Stranded
<1>7. ASSUME NEW z \in V, Mated(z) PROVE Mated(z)'
  <2>1. PICK w \in V : match[w] = z
    BY <1>7 DEF Mated
  <2>2. CASE w # y
    BY <1>4, <2>1, <2>2 DEF Mated
  <2>3. CASE w = y
    <3>1. PICK o \in V \ {y} : match[o] = match[y]
      <4>1. match[y] # Free
        BY <2>1, <2>3, Types DEF MInv, IInv
      <4> QED
        BY <4>1 DEF y
    <3>2. match'[o] = z
      BY <1>4, <2>1, <2>3, <3>1
    <3> QED
      BY <3>2 DEF Mated
  <2> QED
    BY <2>2, <2>3
<1>8. stack' # <<>> => Frame'[2] # y /\ match'[Frame'[2]] = x
  BY <1>1, <1>4
<1>9. Kept(D)'
  BY <1>2, <1>5, <1>6, <1>7, <1>8 DEF Kept
<1>10. Leftover'
  BY <1>9 DEF Leftover
<1>11. Double'
  <2>1. stack' = <<>> => Mated(u)'
    BY <1>1, <1>4 DEF Mated
  <2>2. stack' # <<>> => \E z \in V \ {Frame'[2]} : match'[z] = match'[Frame'[2]]
    BY <1>1, <1>4, <1>8
  <2> QED
    BY <2>1, <2>2 DEF Double
<1> QED
  BY <1>10, <1>11 DEF KInv, Explored, Won, Collected

LEMMA ScanFreeLeft == MInv /\ ScanFree => KInv'
<1> SUFFICES ASSUME MInv, ScanFree PROVE KInv'
  OBVIOUS
<1>1. /\ pc = "scan" /\ pc' = "return" /\ result' /\ stack # <<>> /\ stack' = Caller
      /\ is_edge(graph, Frame[1], Frame[2]) /\ match[Frame[2]] = Free
      /\ match' = [match EXCEPT ![Frame[2]] = Frame[1]]
      /\ UNCHANGED <<graph, color, u>>
  BY DEF ScanFree, coloring, MInv, IInv, SearchInv, Top
<1>2. Frame[1] \in V /\ Frame[2] \in V /\ Free \notin V
  BY <1>1, Frames1, Types DEF ScanFree, MInv, IInv
<1> QED
  BY <1>1, <1>2, TakesLeft DEF Searching

LEMMA MovedLeft == MInv /\ Moved => KInv'
<1> SUFFICES ASSUME MInv, Moved PROVE KInv'
  OBVIOUS
<1>1. /\ pc = "return" /\ result /\ pc' = "return" /\ result' /\ stack # <<>>
      /\ stack' = Caller
      /\ match' = [match EXCEPT ![Frame[2]] = Frame[1]]
      /\ UNCHANGED <<graph, color, u>>
  BY DEF Moved, coloring
<1>2. /\ Frame[2] \in V /\ is_edge(graph, Frame[1], Frame[2])
      /\ match[Frame[2]] # Frame[1]
  BY <1>1, Frames1 DEF MInv, IInv, SearchInv, Top, AtNeighbor, Frame, Won
<1>3. \E y \in V \ {Frame[2]} : match[y] = match[Frame[2]]
  BY <1>1 DEF MInv, KInv, Double, Won
<1>4. \A D \in SUBSET V : Kept(D) => match[Frame[2]] \notin D
  BY <1>1 DEF Kept, Won
<1> QED
  BY <1>1, <1>2, <1>3, <1>4, TakesLeft DEF Searching

(* What a failed search has seen joins what earlier ones have.             *)
LEMMA SearchedLeft == MInv /\ Searched => KInv'
<1> SUFFICES ASSUME MInv, Searched PROVE KInv'
  OBVIOUS
<1>1. /\ pc = "return" /\ pc' = "sources" /\ stack = <<>> /\ u' = u + 1 /\ u \in V
      /\ UNCHANGED <<graph, color, match>>
  BY DEF Searched, coloring, search, MInv, IInv, SearchInv, Source, Searching
<1>2. PICK D \in SUBSET V : Kept(D)
  BY <1>1 DEF MInv, KInv, Leftover, Underway
<1>3. \A x \in V : x < u' => x < u \/ x = u
  BY <1>1, Types DEF MInv, IInv
<1>4. CASE result
  <2>1. Mated(u)
    BY <1>1, <1>4 DEF MInv, KInv, Double, Won
  <2>2. Kept(D)'
    BY <1>1, <1>2, <1>3, <2>1 DEF Kept, Stranded, Mated, Won
  <2> QED
    BY <1>1, <2>2 DEF KInv, Leftover, Explored, Searching, Double, Won, Collected
<1>5. CASE ~result
  <2>0. PICK E : E = D \cup Seen
    OBVIOUS
  <2>1. u \in Seen /\ \A x \in Seen : Pending(x) \/ Closed(x, size + 1)
    BY <1>1, <1>5 DEF MInv, KInv, Explored, Searching, Won
  <2>2. \A x \in Seen : Closed(x, size + 1)
    BY <1>1, <2>1 DEF Pending
  <2>3. \A y \in V : y < size + 1
    BY Types DEF MInv, IInv
  <2>4. Stranded(E)
    BY <1>2, <2>0, <2>2, <2>3 DEF Kept, Stranded, Closed
  <2>5. E \in SUBSET V
    BY <2>0 DEF Seen
  <2>6. \A x \in V : (color[x] = 1 /\ x < u') => x \in E \/ Mated(x)
    BY <1>2, <1>3, <2>0, <2>1 DEF Kept
  <2>7. Kept(E)'
    BY <1>1, <2>4, <2>6 DEF Kept, Stranded, Mated, Won
  <2> QED
    BY <1>1, <2>5, <2>7 DEF KInv, Leftover, Explored, Searching, Double, Won, Collected
<1> QED
  BY <1>4, <1>5

LEMMA CollectLeft == MInv /\ Collect => KInv'
<1> SUFFICES ASSUME MInv, Collect PROVE KInv'
  OBVIOUS
<1>1. /\ pc = "sources" /\ pc' = "done" /\ u' = u /\ u > size
      /\ UNCHANGED <<graph, color, match>> /\ matchingPairs' = Pairs
  BY DEF Collect, coloring, Pairs
<1>2. Leftover'
  BY <1>1, LeftoverKept DEF Underway, Won
<1>3. Pairs' = Pairs
  BY <1>1 DEF Pairs, mateU
<1> QED
  BY <1>1, <1>2, <1>3 DEF KInv, Explored, Searching, Double, Won, Collected

LEMMA IdleLeft == MInv /\ UNCHANGED vars => KInv'
<1> SUFFICES ASSUME MInv, UNCHANGED vars PROVE KInv'
  OBVIOUS
<1>1. Leftover'
  BY DEF MInv, KInv, vars, Leftover, Underway, Kept, Stranded, Mated, Won, Frame
<1>2. Explored'
  BY DEF MInv, KInv, vars, Explored, Searching, Won, Seen, Closed, Pending, Frame
<1>3. Double'
  BY DEF MInv, KInv, vars, Double, Won, Mated, Frame
<1>4. Collected'
  <2>1. Pairs' = Pairs
    BY DEF vars, Pairs, mateU
  <2> QED
    BY <2>1 DEF MInv, KInv, vars, Collected
<1> QED
  BY <1>1, <1>2, <1>3, <1>4 DEF KInv

LEMMA MInvariance == Spec => []MInv
<1>1. Init => MInv
  BY InitInv DEF Init, MInv, KInv, Leftover, Underway, Explored, Searching, Double, Won, Collected
<1>2. MInv /\ [Next]_vars => MInv'
  <2>1. MInv /\ [Next]_vars => IInv'
    BY InvariantStep DEF MInv
  <2>2. ASSUME MInv, \/ Start \/ ColorRoot \/ ColorNext \/ NeighborSkip
                     \/ NeighborColor \/ NeighborClash \/ NeighborsDone
        PROVE  KInv'
    BY <2>2, NothingLeftOver
    DEF Start, ColorRoot, ColorNext, NeighborSkip, NeighborColor, NeighborClash, NeighborsDone
  <2> QED
    BY <2>1, <2>2, ColoredLeft, PassOverLeft, SearchLeft, EnterLeft, ScanSkipLeft, ScanFreeLeft,
       ScanMatchedLeft, ScanEndLeft, MovedLeft, NotMovedLeft, SearchedLeft, CollectLeft, IdleLeft,
       Zenon DEF Next, Terminated, MInv
<1> QED
  BY <1>1, <1>2, PTL DEF Spec

LEMMA MatchedFinite == IsFiniteSet({ y \in V : match[y] # Free })
<1>1. IsFiniteSet(V)
  BY FS_Interval, GraphAssumption DEF GraphAssumption, V
<1>2. { y \in V : match[y] # Free } \in SUBSET V
  OBVIOUS
<1> QED
  BY <1>1, <1>2, FS_Subset

(* In the end mateU finds the one neighbour a vertex is matched to.        *)
LEMMA MateFound ==
  ASSUME IInv, pc = "done", NEW x \in V
  PROVE  /\ mateU(x) # Free => mateU(x) \in V /\ match[mateU(x)] = x
         /\ \A y \in V : match[y] = x => mateU(x) = y
<1> DEFINE Mates == { y \in V : match[y] = x }
<1>1. \A y, z \in Mates : y = z
  BY Types DEF IInv, MatchingSound, OneMateEach
<1>2. \A y \in Mates : y \in V /\ y <= y /\ y # Free /\ match[y] = x
  BY Types DEF IInv
<1>3. mateU(x) = IF Mates = {} THEN Free ELSE CHOOSE y \in Mates : \A z \in Mates : z <= y
  BY Zenon DEF mateU
<1>4. \A y \in V : match[y] = x => y \in Mates
  OBVIOUS
<1> HIDE DEF Mates
<1>5. Mates # {} => mateU(x) \in Mates
  <2> SUFFICES ASSUME Mates # {} PROVE mateU(x) \in Mates
    OBVIOUS
  <2>1. \E y \in Mates : \A z \in Mates : z <= y
    BY <1>1, <1>2
  <2> QED
    BY <1>3, <2>1
<1> QED
  BY <1>1, <1>2, <1>3, <1>4, <1>5

LEMMA PairsAreMatching ==
  ASSUME IInv, pc = "done"
  PROVE  /\ Pairs \in Matchings
         /\ Cardinality(Pairs) = Cardinality({ y \in V : match[y] # Free })
<1> DEFINE Y == { y \in V : match[y] # Free }
           f == [y \in Y |-> <<match[y], y>>]
<1>1. /\ match \in [V -> V \cup {Free}] /\ Free \notin V
      /\ \A y \in V : match[y] # Free => /\ match[y] \in V /\ color[match[y]] = 1
                                         /\ is_edge(graph, match[y], y)
  BY Types DEF IInv, TypeOK, MatchingSound, MatchedEdges
<1>2. ASSUME NEW e \in Pairs
      PROVE  /\ e[1] \in V /\ e[2] \in Y /\ e = <<e[1], e[2]>> /\ match[e[2]] = e[1]
             /\ e[2] = mateU(e[1])
  <2>1. PICK x \in V : e = <<x, mateU(x)>> /\ mateU(x) # Free
    BY DEF Pairs
  <2>2. mateU(x) \in V /\ match[mateU(x)] = x
    BY <2>1, MateFound
  <2> QED
    BY <1>1, <2>1, <2>2
<1>3. ASSUME NEW y \in Y PROVE <<match[y], y>> \in Pairs
  <2>1. mateU(match[y]) = y /\ y # Free /\ match[y] \in V /\ color[match[y]] = 1
    BY <1>1, MateFound
  <2> QED
    BY <2>1 DEF Pairs
<1>4. Pairs \in Matchings
  <2>1. ASSUME NEW e \in Pairs PROVE e \in { d \in Edges : color[d[1]] = 1 }
    BY <1>1, <1>2 DEF Edges
  <2>2. ASSUME NEW e \in Pairs, NEW d \in Pairs, e # d PROVE e[1] # d[1] /\ e[2] # d[2]
    BY <1>2, <2>2
  <2> QED
    BY <2>1, <2>2 DEF Matchings
<1>5. f \in Bijection(Y, Pairs)
  <2>1. f \in [Y -> Pairs] /\ \A y \in Y : f[y] = <<match[y], y>>
    BY <1>3
  <2> HIDE DEF f
  <2>2. \A y, z \in Y : f[y] = f[z] => y = z
    BY <2>1
  <2>3. \A e \in Pairs : \E y \in Y : f[y] = e
    BY <1>2, <2>1
  <2> QED
    BY <2>1, <2>2, <2>3 DEF Bijection, Injection, Surjection, IsInjective
<1>6. IsFiniteSet(Y)
  BY MatchedFinite
<1> HIDE DEF f, Y
<1>7. Cardinality(Pairs) = Cardinality(Y)
  BY <1>5, <1>6, FS_Bijection DEF ExistsBijection
<1> QED
  BY <1>4, <1>7 DEF Y

(* The edges of a matching can be told apart by matched vertices.          *)
LEMMA NoLargerMatching ==
  ASSUME MInv, pc = "done", NEW M \in Matchings
  PROVE  Cardinality(M) <= Cardinality({ y \in V : match[y] # Free })
<1>1. PICK D \in SUBSET V : Kept(D)
  BY DEF MInv, KInv, Leftover, Underway
<1> DEFINE Y == { y \in V : match[y] # Free }
           f == [e \in M |-> IF e[1] \in D THEN e[2] ELSE mateU(e[1])]
<1>2. ASSUME NEW e \in M
      PROVE  /\ e[1] \in V /\ e[2] \in V /\ is_edge(graph, e[1], e[2]) /\ color[e[1]] = 1
             /\ e = <<e[1], e[2]>>
  BY DEF Matchings, Edges
<1>3. \A e, d \in M : e # d => e[1] # d[1] /\ e[2] # d[2]
  BY DEF Matchings
<1>4. Free \notin V /\ \A x \in V : x < u
  BY Types DEF MInv, IInv, TypeOK, KInv, Collected
<1>5. \A e \in M : f[e] = IF e[1] \in D THEN e[2] ELSE mateU(e[1])
  OBVIOUS
<1> HIDE DEF f
<1>6. ASSUME NEW e \in M PROVE f[e] \in Y /\ (e[1] \in D <=> match[f[e]] \in D)
                               /\ (e[1] \notin D => match[f[e]] = e[1])
  <2>1. CASE e[1] \in D
    <3>1. match[e[2]] \in D
      BY <1>1, <1>2, <2>1 DEF Kept, Stranded
    <3> QED
      BY <1>2, <1>4, <1>5, <2>1, <3>1
  <2>2. CASE e[1] \notin D
    <3>1. PICK y \in V : match[y] = e[1]
      BY <1>1, <1>2, <1>4, <2>2 DEF Kept, Mated
    <3>2. mateU(e[1]) = y
      BY <1>2, <3>1, MateFound DEF MInv
    <3> QED
      BY <1>2, <1>4, <1>5, <2>2, <3>1, <3>2
  <2> QED
    BY <2>1, <2>2
<1>7. ASSUME NEW e \in M, NEW d \in M, f[e] = f[d] PROVE e = d
  <2>1. e[1] \in D <=> d[1] \in D
    BY <1>6, <1>7
  <2>2. CASE e[1] \in D
    BY <1>3, <1>5, <1>7, <2>1, <2>2
  <2>3. CASE e[1] \notin D
    BY <1>3, <1>6, <1>7, <2>1, <2>3
  <2> QED
    BY <2>2, <2>3
<1>8. IsFiniteSet(Y)
  BY MatchedFinite
<1>9. f \in Injection(M, Y)
  <2>1. f \in [M -> Y]
    BY <1>6 DEF f
  <2> QED
    BY <1>7, <2>1 DEF Injection, IsInjective
<1> HIDE DEF Y
<1>10. Cardinality(M) <= Cardinality(Y)
  BY <1>8, <1>9, FS_Injection
<1> QED
  BY <1>10 DEF Y

(* When the program ends, its pairs are a matching of the size it reports, *)
(* and the graph has no larger one.                                        *)
THEOREM MatchingIsMaximum == Spec => []MaximumMatching
<1>1. MInv => MaximumMatching
  <2> SUFFICES ASSUME MInv, pc = "done"
               PROVE  /\ matchingPairs \in Matchings
                      /\ Cardinality(matchingPairs) = maxMatching
                      /\ \A M \in Matchings : Cardinality(M) <= maxMatching
    BY DEF MaximumMatching
  <2>1. matchingPairs = Pairs
    BY DEF MInv, KInv, Collected
  <2>2. maxMatching = Cardinality({ y \in V : match[y] # Free })
    BY DEF MInv, IInv, CountsMatched, TypeOK
  <2> QED
    BY <2>1, <2>2, PairsAreMatching, NoLargerMatching DEF MInv
<1> QED
  BY MInvariance, <1>1, PTL

=============================================================================
