-------------------------- MODULE BipartiteChecker --------------------------
(***************************************************************************)
(* Class BipartiteChecker of graphs/fifth.cpp: the constructor colours     *)
(* every component breadth first and stops at the first edge whose ends    *)
(* have one colour.  A step is an iteration of the while loop of           *)
(* bfs_check, which a clash cuts short.                                    *)
(***************************************************************************)
EXTENDS GraphProgram

VARIABLES colors, partA, partB, is_bipartite, queue

outcome == <<partA, partB, is_bipartite>>
vars == <<graph, pc, colors, partA, partB, is_bipartite, queue>>

NoColor == -1

New ==
  /\ colors = [v \in V |-> NoColor]
  /\ partA = {} /\ partB = {} /\ is_bipartite = TRUE
  /\ queue = <<>>

Init == Loaded /\ New

Start ==
  /\ pc = "start"
  /\ pc' = IF CheckDirected(graph) THEN "error" ELSE "roots"
  /\ UNCHANGED <<graph, colors, outcome, queue>>

Uncolored == { v \in V : colors[v] = NoColor }

Root ==
  /\ pc = "roots" /\ is_bipartite /\ Uncolored # {}
  /\ LET u == Least(Uncolored)
     IN  /\ colors' = [colors EXCEPT ![u] = 0]
         /\ partA' = partA \cup {u}
         /\ queue' = <<u>>
  /\ pc' = "check"
  /\ UNCHANGED <<graph, partB, is_bipartite>>

(* Variant of Clashes: a self-loop is no clash.                            *)
ClashesProper(u) == { v \in Near(u) \ {u} : colors[v] = colors[u] }

Clashes(u) == { v \in Near(u) : colors[v] = colors[u] }

(* Variant of Color: every neighbour gets the second colour.               *)
ColorOne(u, S) == colors' = [v \in V |-> IF v \in S THEN 1 ELSE colors[v]]

Color(u, S) == colors' = [v \in V |-> IF v \in S THEN 1 - colors[u] ELSE colors[v]]

Pop ==
  /\ pc = "check" /\ queue # <<>> /\ Clashes(Head(queue)) = {}
  /\ LET u == Head(queue)
         new == Near(u) \cap Uncolored
     IN  /\ Color(u, new)
         /\ IF colors[u] = 1
            THEN partA' = partA \cup new /\ UNCHANGED partB
            ELSE partB' = partB \cup new /\ UNCHANGED partA
         /\ queue' = Tail(queue) \o Ascending(new)
  /\ UNCHANGED <<graph, pc, is_bipartite>>

(* bfs_check returns false in the middle of its loop, and the constructor  *)
(* forgets the parts; the queue is local.                                  *)
Clash ==
  /\ pc = "check" /\ queue # <<>> /\ Clashes(Head(queue)) # {}
  /\ LET u == Head(queue)
     IN  Color(u, { v \in Near(u) \cap Uncolored : v < Least(Clashes(u)) })
  /\ is_bipartite' = FALSE
  /\ partA' = {} /\ partB' = {} /\ queue' = <<>>
  /\ pc' = "roots"
  /\ UNCHANGED graph

Checked ==
  /\ pc = "check" /\ queue = <<>>
  /\ pc' = "roots"
  /\ UNCHANGED <<graph, colors, outcome, queue>>

Finish ==
  /\ pc = "roots" /\ (~is_bipartite \/ Uncolored = {})
  /\ pc' = "done"
  /\ UNCHANGED <<graph, colors, outcome, queue>>

Next == Start \/ Root \/ Pop \/ Clash \/ Checked \/ Finish

Spec == Init /\ [][Next]_vars

-----------------------------------------------------------------------------

TypeOK ==
  /\ pc \in {"start", "roots", "check", "done", "error"}
  /\ colors \in [V -> {NoColor, 0, 1}] /\ is_bipartite \in BOOLEAN
  /\ is_bipartite => /\ partA = { v \in V : colors[v] = 0 }
                     /\ partB = { v \in V : colors[v] = 1 }
  /\ queue \in Seq(V \ Uncolored)

(* The answer is yes exactly if some set of vertices has one end of every  *)
(* edge (an early stop is never wrong, in whichever component it happens); *)
(* then the parts share the vertices out and no edge stays inside one, and *)
(* otherwise nothing is left of them.                                      *)
TwoColored ==
  pc = "done" =>
    /\ is_bipartite <=>
         \E S \in SUBSET V : \A e \in Edges : (e[1] \in S) # (e[2] \in S)
    /\ is_bipartite =>
         partB = V \ partA /\ \A e \in Edges : (e[1] \in partA) # (e[2] \in partA)
    /\ ~is_bipartite => partA = {} /\ partB = {}

=============================================================================
