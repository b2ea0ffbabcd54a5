# A verification of laba2

The repository is a set of small C++ programs: thirteen graph programs in `src/graphs` around one
class `Graph`, and an HTTP "ping" server in `src/zad1`. This directory holds TLA+ models of them,
TLC configurations that check the models on small instances, and TLAPS proofs about all of them: maximum
flow (the program `CMakeLists.txt` builds), bipartite matching, single-source and all-pairs paths,
components and strong components, spanning trees, minimum spanning trees, bipartiteness, bridges and cut
vertices, the ant colony, the maze, the loaders of `Graph` and the ping server. Every invariant a run
checks is also a theorem. `PROJECT.json` lists the components, the runs, the hazards, and for every
definition the source lines it models.

## 1. The system and its parts

All graph programs have the same shape: `main` builds a `Graph` from a text file and hands it to one
algorithm, which reads it through `size`, `weight`, `is_edge`, `adjacency_list` and `is_directed`
and keeps its state in vectors of its own. Nothing is shared between programs and nothing runs
concurrently; an exception ends the program through the handler in `main`. What is hard in them is
state that several loops read and rewrite, loops whose end is not obvious, inputs that `Graph` does
not check, and integers at their limits. The ping server is the one part with an environment that
acts on its own: clients that send slowly, stop, or leave.

| part | source | state | operations | what makes it correct |
|---|---|---|---|---|
| Graph accessors | `Graph.h` | `size_`, `adjacency_matrix_`, `is_directed_` | `weight`, `is_edge`, `adjacency_list`, ... | directedness is that of the matrix |
| Graph loaders | `Graph.h` | the matrix, the stream, the line | `LoadMatrix`, `LoadEdgesList`, `LoadAdjacencyList`, `CheckDirected` | the matrix is the graph the file denotes; no write outside it |
| Maximum flow | `thirteents.cpp` | `residual_graph`, `parent`, the queue of `bfs`, `max_flow`, `flow_edges` | `ford_fulkerson`, `bfs` | the value is that of a minimum cut and the printed flow is legal; it ends |
| Ping server | `zad1/main.cpp` on Boost.Asio | the accepted socket, its `streambuf` | accept, `read_until`, `write`, close | whoever sends a header is answered; only misbehaviour ends the process |
| Ant colony | `forteentth.cpp` | `pheromones_`, `best_path_`, `best_path_length_`, `paths` | `Run`, `ConstructPath`, `UpdatePheromones` | the remembered route is a best one; the trails are routes; it ends |
| Components | `first.cpp` | `visited_`, `components_` | `find_components_bfs`, `find_components_dfs`, `find_weak_components` | a partition into the classes of (weak) reachability |
| Bridges, cut vertices | `second.cpp` | `entry_time_`, `low_`, `bridges_`, `articulation_points_` | `dfs`, `find` | exactly those whose removal disconnects |
| Spanning tree | `third.cpp` | `visited_`, `tree_edges_` | `bfs`, `dfs` | a tree on all vertices, or the exception |
| Distances, centre | `fourth.cpp` | `dist_matrix_`, `eccentricities_`, ... | the steps of the constructor | shortest distances, or an `int` overflows on the way; the characteristics derived from them |
| Bipartiteness | `fifth.cpp` | `colors_`, `partA_`, `partB_` | `bfs_check` | a proper colouring, or an odd cycle exists |
| Maze | `sixth.cpp`, `map.h` | `parent`, the queue | `Map`, `neighbors`, `find_path` | a shortest path of open cells, if there is one |
| Strong components | `seventh.cpp` | `visited_`, `order_`, `components_` | `dfs_pass1`, `dfs_pass2` | the classes of mutual reachability |
| Minimum spanning tree | `nineth.cpp` | `included_`, `parent_`, `min_weight_` | `prim` | a spanning tree of minimum weight, or the exception |
| All-pairs paths | `tenth.cpp` | `dist_`, `next_` | `computeShortestPaths`, `reconstructPath`, `analyzeComponents` | paths of the stated length, and it ends, where no cycle is negative; components between the strong and the weak ones |
| Single-source paths | `eleventh.cpp` | `distance_`, `queue`, `in_queue` | `relaxEdges` | shortest distances, or a negative cycle is reported, or an `int` overflows on the way |
| Bipartite matching | `twelvth.cpp` | `color`, `match`, `visited` | `checkBipartition`, `dfsKuhn`, `findMaxMatching` | a matching of maximum size |

`zad1/boost` is a vendored copy of Boost.Asio (only `read_until`, `partial_search` and `write` are
modelled, because the server's behaviour is theirs); `cmake-build-debug` and `.idea` are generated;
the `.txt` files are inputs, and the `ans_*.txt` files expected answers, which state properties.

### How the parts interact

- `main` -> `Graph` constructor (file name, format) -> a loader -> `is_directed_ = CheckDirected()`. A
  file that does not open, a token that `std::stoi` refuses, or an algorithm's own check throws; the
  handler in `main` prints the message.
- algorithm -> `Graph` accessors, read only. The matrix never changes once loaded, so the models of
  the algorithms start from a matrix and not from a file; `GraphLoader` covers the way from the file
  to the matrix. Vertices are numbered from 1; row and column 0 exist and are never shown.
- caller -> callee inside one program: `ford_fulkerson` calls `bfs`, `findMaxMatching` calls
  `checkBipartition` and the recursive `dfsKuhn`, `Run` calls `ConstructPath` and `UpdatePheromones`.
  They share the caller's vectors by reference; these are the variables of the models.
- server <-> clients: TCP, with its own buffering, half-closes and resets. The server is one thread
  that serves one connection at a time inside a single handler.

### What is hard

- A matrix or vector is rewritten while values computed from it are in use (the walk along an
  augmenting path; the assignments of `dfsKuhn` during the unwinding; the queue of
  `BellmanFordMoore`, which a relaxation may extend during the phase that consumes it).
- A loop ends only by an argument about the data (augmentations, phases, the search of the ants).
- A failed search, or a pass that finds nothing, is taken for a proof of optimality.
- The loaders trust the numbers in the file; streams at their end behave differently with and without
  a final newline.
- The server may be blocked, left, or reset by a client at any step.

## 2. Plan

Modules, in the order of their importance to the repository.

| # | module | composes / refines | status |
|---|---|---|---|
| 1 | `Graph` | the accessors, used by all algorithms | written |
| 2 | `FlowProblem`; `FordFulkerson` | what a network is; abstract: augment along any path until there is none | written, checked, proved |
| 3 | `MaxFlow`, `MaxFlowProperties` | implements `FordFulkerson` by a refinement mapping | written, checked, proved |
| 4 | `GraphLoader` | the constructor; instantiates `Graph` for `CheckDirected` | written, checked, proved |
| 5 | `PingServer` | server, clients and TCP in one specification | written, checked, proved |
| 6 | `AntColony` | uses `Graph` | written, checked, proved |
| 7 | `Matching` | uses `Graph` | written, checked, proved |
| 8 | `BellmanFordMoore` | uses `Graph` | written, checked, proved |
| 9 | `GraphProgram` | what the programs below share: one graph, `pc`, reference definitions of reachability | written |
| 10 | `BridgeArticulationFinder` | extends `GraphProgram` | written, checked, proved |
| 11 | `TreeGrowth` | abstract: grow a tree along edges to new vertices | written |
| 12 | `SpanningTree`, `MSTFinder` | both implement `TreeGrowth` | written, checked, proved |
| 13 | `ConnectivityFinder`, `BipartiteChecker`, `StronglyConnectedComponents` | extend `GraphProgram` | written, checked, proved |
| 14 | `Searches` | puts the programs of 10, 12 and 13 into one specification, one of which runs | written, checked, proved |
| 15 | `AllPairs`; `GraphAnalyzer`, `FloydWarshallAnalyzer` | the loops both programs have, and what each makes of the distances | written, checked, proved |
| 16 | `Maze` | the loader of maps and the search on cells | written, checked, proved |
| 17 | `Paths` | puts the programs of 15 and 16 into one specification, one of which runs | written, checked, proved |

With 17 every program of the repository is modelled, and every invariant of the runs is proved. What is
left is what the provers cannot do; section 7 lists it.

## 3. Modules and code

Conventions shared by all modules. One action is one iteration of one loop (or one call, or one
return); `pc` says which loop runs next, and the initial value of `pc` is the entry of the function.
Variables keep the names of the code (a trailing underscore is dropped where nothing else has the
name). An index that is out of range is not silently legal: where the code can produce one, `pc`
becomes `"undefined"` and nothing is modelled after it; where it cannot, `TypeOK` says so. `"error"`
or `"failed"` is an exception that reaches `main`. `Terminated` is a stutter in the final states, so
that deadlock checking finds every state from which the program could not go on. Definitions whose
comment begins with "Variant of" are not part of any specification: each is a wrong version of the
definition below it, kept to show that a property would notice.

- **`Graph`**. `weight`, `is_edge` (weight not 0), `adjacency_list` (the neighbours, as a set: its
  users go through it in increasing order by themselves), `CheckDirected` (the matrix is not
  symmetric). A graph is a function from vertices to functions from vertices to weights.
- **`GraphLoader`**. `Open`/`CannotOpen` are the constructor up to the allocation; `ReadEntry` one
  `file >> entry` of `LoadMatrix`; `ReadEdge` one `getline` and extraction of `LoadEdgesList`;
  `ReadRow`, `ReadToken`, `BadToken`, `RowEnd` the loops of `LoadAdjacencyList`; `Finish` is
  `CheckDirected`. `GetLine` is `std::getline` with its rule that a stream at its end leaves the
  string alone. The `int`s that a short line leaves unset are any vertex or none.
- **`FlowProblem`**. What `FordFulkerson` and `MaxFlow` share: the graph, its size, source and sink.
- **`MaxFlow`**. `Start` the directedness check and the copy of the matrix; `BfsCall`, `Pop`,
  `ScanSkip`/`ScanDiscover`/`ScanReachSink`/`ScanEnd`, `BfsFails` are `bfs`; `Push`, `WalkEnd` the
  walk along `parent`; `Collect` the list of flows and its sort (a set carries it). `ScanReachSink`
  includes the caller's `max_flow += new_flow`, which follows the return at once.
  `FordFulkerson` (`FFSpec`) has one action per augmentation; `SettledResidual` maps the walk's half-rewritten
  matrix to the one it will be, by the pushes along the ancestors of `v` that are still to come.
  `MaxFlowProperties` adds what is said of sums and paths: `FlowIsLegal`, `MinimumCut` (the labels of
  the failed search are a cut that carries exactly `max_flow`, and no cut carries less).
- **`Matching`**. `Start` the directedness check; `ColorRoot`, `ColorNext`, `Neighbor...`, `Colored`
  are `checkBipartition`; `PassOver`, `Search`, `Searched`, `Collect` the loop of `findMaxMatching`;
  `Enter`, `Scan...`, `Moved`, `NotMoved` are `dfsKuhn`, whose recursion is a stack of frames (vertex,
  neighbour its loop has reached).
- **`BellmanFordMoore`**. `Refuse`/`Begin` the constructor's check and setup; `PhaseStart`, `Pop`,
  `Relax`, `ScanSkip`, `ScanEnd`, `PhaseEnd`, `PhasesEnd` the phases of `relaxEdges`; `CheckVertex`,
  `FindCycle`, `CheckEnd` its last pass; `Overflow`, `CheckOverflow` a sum that is no `int`.
- **`GraphProgram`**. The state every program below shares, `graph` and `pc`, and reference
  definitions (`Edges`, `Within`, `ReachableBy`) for the properties. Each module has a `New` for its own
  variables and an `Init` that adds the graph, so that one run can hold several programs.
- **`ConnectivityFinder`** (`first.cpp`). `Call(m)` is the entry of a public method, `"weak"` standing
  for `find_weak_components` (on an undirected graph it is `find_components_bfs`, as in the code);
  `Root` the outer loop, `Pop` an iteration of a breadth-first loop, `Down`/`Up` a call and a return of
  `dfs`, `Searched`, `Return` the ends of the loops. `Unvisited` is the order of the neighbours, which
  for the weak components is that in which `undir_adj` was filled. `main` calls the methods in one
  order; the model allows every order and repetition, which the class does, too.
- **`SpanningTree`** (`third.cpp`). `Refuse`, `OutOfRange`, `Start` the constructor up to the search,
  `Pop`, `Down`, `Up` the searches, `Check` the loop over unvisited vertices after them.
- **`BipartiteChecker`** (`fifth.cpp`). `Root`, `Pop`, `Clash`, `Checked` are `bfs_check`; `Clash` is
  its early return, which has coloured the neighbours before the clash, and what the constructor does
  upon it.
- **`StronglyConnectedComponents`** (`seventh.cpp`). `Root1`, `Down`, `Up1` the first pass, `Transpose`
  what is between, `Root2`, `Down`, `Up2` the second, on the transposed graph (`Following`).
- **`MSTFinder`** (`nineth.cpp`). `Include` one iteration of the loop of `prim`, `Disconnected` its
  exception, `Collect` the last loop; the running total leaves the range of an `int` in the order of
  that loop.
- **`TreeGrowth`**. `Plant`, `Grow`, `Finish`: any number of new neighbours of one vertex at a time, so
  that an iteration of `bfs`, a call of `dfs` and a choice of `prim` are all steps of it. For `prim` the
  graph is the one without edges of weight `INT_MAX`, which it does not see.
- **`AllPairs`** (`tenth.cpp`, `fourth.cpp`). `Initialize` the matrix, `Relax` one iteration of the
  innermost loop or a row skipped by `continue`, `Overflow` a sum that is no `int`.
  **`GraphAnalyzer`** adds `Analyze`, the functions after the loops; **`FloydWarshallAnalyzer`** adds
  `next_`, `Reconstruct`, `Walk`, `WalkEnd` (`reconstructPath`, for any pair, also one outside the graph
  as 2 and 50 of `main` may be) and `Component`, `Describe` (`analyzeComponents`). A path that never ends
  is cut by `Memory`, where `push_back` throws.
- **`Maze`** (`map.h`, `sixth.cpp`). `ReadHeader`, `ReadLine`, `MapLoaded` the constructor of `Map`;
  `Expand`, `Found`, `NoPath`, `Back`, `Return` are `find_path`. `AnyInt` are the values an `int` may
  have that no extraction has set. `neighbors` gives the directions in which there is an open neighbour, in
  whose order `Expand` queues them.
- **`BridgeArticulationFinder`** (`second.cpp`). `Construct` the constructor; `FindCall`, `FindSkip`,
  `FindEnd` the loop of `find`; `Enter` (part of two actions) the entry of `dfs`, `ScanSkip`,
  `ScanCall`, `ScanVisited` its loop, `Return` the code after a recursive call, `Leave` what follows the
  loop. A frame holds all locals of a pending call. `is_ap_added_` is membership in
  `articulation_points`.
- **`PingServer`** (`ServerSpec`; its `pc` is called `phase`). `Accept`, `Search`, `Read`, `ReadFails`, `Write`, `WriteFails`, `Close` are one
  pass of the server's loop; `Search` is the resumed `partial_search` of `read_until`, `Close` the
  destructor of the socket. `Connect`, `Send`, `Quit`, `Deliver` are clients and network.
- **`AntColony`**. `PlaceAnt`, `Wander`, `ArriveComplete`, `ArriveStuck` are `ConstructPath` and what
  `Run` does with its result; `AllArrived`, `Deposit` are `UpdatePheromones`; `NextIteration` ends the
  round. A random choice is `\E` over the candidates.
- **`Searches`** puts the programs `first`, `second`, `third`, `fifth`, `seventh` and `nineth`, which share
  nothing but class `Graph`, into one specification: `program` says which one runs, and the others'
  variables keep their first values. Its properties are those of the modules, each asked of its own
  program, and that `third` and `nineth` implement `TreeGrowth`.
- **`Paths`** puts the remaining three, `fourth`, `tenth` and `sixth`, together in the same way. The first
  two share the variables of `AllPairs`.
- **`FlowNetworks`** and the `MC...` modules hold the instances.

## 4. Runs

| run | states | instance | what it shows |
|---|---|---|---|
| `max_flow` | 30,254 | 513 networks of 6 vertices, `IntMax` 3 | `MaxFlow`: the flow balances outside the ends and the residual capacities fit an `int` at every push, the printed flow is legal, the value is the capacity of the cut the last search leaves and of no smaller one, each path is a shortest, termination, and that it implements `FordFulkerson` |
| `ford_fulkerson` | 2,770 | the same networks | the method gives a minimum cut whichever paths are chosen, so the order of the search matters to speed only |
| `matching` | 52,199 | 6 vertices: the 512 bipartite graphs between {1,4,5} and {2,3,6}; all 512 graphs on {1,2,3} | `Matching`: sound at every step, maximum at the end, refusal exactly of what has no two-colouring, termination |
| `bellman_ford_moore` | 46,856 | 649 graphs of 4 vertices, starts 0, 1, 4, 5, `INT_MAX` 7 | distances, phases, and the flag exactly for negative cycles in reach |
| `searches` | 99,035 | 6 programs on up to 5 vertices, see below | components in any order of calls; bridges and cut vertices; search trees; colourings; strong components; least trees; that third and nineth implement `TreeGrowth` |
| `paths` | 214,362 | 3 programs, see below; `INT_MAX` 9 | distances in every pass, overflow only where the weights of two walks overflow, paths, components, characteristics; shortest ways through mazes |
| `graph_loader` | 26,090 | sizes 0 to 3, at most 2 lines (4 numbers for a matrix), vertices from -1 | what the loaders make of every such file, well formed or not |
| `ping_server` | 110,471 | 2 clients (one polite), 4 requests, reads of at most 2 bytes | headers in pieces, clients that stop or leave at every step, resets, starvation |
| `ant_colony` | 16,553 | 5 graphs of 3 vertices, 2 ants, 2 iterations | the best route over all iterations, the trails, the end of `Run` |
| `ping_content_length`, `ant_stuck`, `ant_tour` | - | see section 8 | violations |

Why the bounds are enough to be interesting:

- The nine candidate arcs of the flow networks form a pattern in which breadth-first search
  first commits flow to 2-3 that a later path must take back, with an antiparallel pair (which makes
  a residual exceed its capacity and the printed flow negative before it is filtered) and a short cut.
  `IntMax` 3 is the least that no `max_flow` of the instance exceeds; an arc and its reverse never have more than 2 together. The network without arcs is symmetric and therefore refused.
- Three vertices a side let an alternating path have two moved mates, and with components that begin
  on either side the colours of the sides differ from component to component. Graphs on {1,2,3}
  include directed ones, loops and triangles; the other vertices are then isolated.
- The path 1, 3, 2, 4 of the shortest-path graphs goes against the numbering, so that all n - 1 phases
  are needed, a vertex re-enters the queue after it was taken, and back edges and a loop give negative
  cycles in and out of reach of a start.
- `INT_MAX` 7 with weights of up to 6 lets a path exceed it, be exactly as long, and be shortened by a
  negative edge afterwards.
- `searches`: `first.cpp` all digraphs of 3 vertices and all undirected graphs of 4, methods in every
  order; `second.cpp` and `fifth.cpp` all undirected graphs of 5; `third.cpp` all of 4, from every
  vertex, with loops up to 3; `seventh.cpp` all digraphs of 3 and 512 of 5 vertices with cycles that
  share vertices and arcs from cycle to cycle, with and against the numbering; `nineth.cpp` four
  vertices with five edges of weight -1, 2, `INT_MAX` = 5 or none, so that a choice can be wrong, an
  edge unseen, a graph disconnected, a total out of range. Sizes 0, 1 and 2 go to every program.
- `paths`: `fourth.cpp` all undirected graphs of 4 vertices with weights 1, 3 or none, and 3 vertices
  with a loop; `tenth.cpp` all digraphs of 3 vertices with weights -1, 2 or none (negative cycles
  among them), lines with weights 1 and `INT_MAX`, and a cycle of 4 against the numbering, whose
  paths need the last pass, and nine graphs on which a path or a loop is as long as `INT_MAX` or nearly so
  (`AtTheEnd`); the maze program all mazes of 3 times 3 cells between four cells, one of
  which is outside, and 49 files whose header and lines do not match or are missing. `Memory` 6
  exceeds every path without a repeated vertex.
- Five vertices are enough for two blocks that share a cut vertex (two triangles), for a bridge between
  a triangle and the rest, for roots that are and are not cut vertices, and for several components.
- Files of two lines have blank, short, repeated, out-of-range and zero-weight entries in every
  combination with and without a final newline; no loader relates more than two lines to each other.
- Reads of one or two bytes cut the four-byte delimiter anywhere; one request contains a partial match
  that fails at its last byte. The second client stands for all clients that are not polite.
- Three vertices have routes and dead ends; the second iteration is the one that sees paths rebuilt.

Deadlock checking is off where the system may stop: `FordFulkerson` when it has finished, the server
when it waits in `accept` or has ended.

## 5. Fairness

The graph programs are sequential: `WF_vars(Next)` says that the process keeps running. The programs
of `searches` and `paths` state no fairness: nothing is asked of them but safety and a refinement
without liveness (the end of the walk of `tenth.cpp` is a safety property, `WalkKeepsLength`, since a
path without a repeated vertex is bounded by the size). In `AntColony` this does not constrain the random choices. `PingServer` assumes `WF_vars(Serve)` (the
server's thread runs unless it is blocked), `WF_vars(Deliver(c))` (the network delivers), and that
polite clients, and only they, eventually connect and send all they have to send. Nothing is assumed of
other clients: `AnsweredUnlessBlocked` states their blocking the server as one of its outcomes.

## 6. Proofs

All theorems hold for every value of the constants that satisfies the module's assumption, and rest
on nothing else.

**Assumptions.** `NetworkAssumption`: capacities are naturals, source and sink are vertices;
`IntMaxAssumption`: an arc and its reverse fit an `int` together. The code checks none of this; it is what its
caller owes. `GraphAssumption` and `GraphsAssumption`: graphs are matrices over the integers. `InputsAssumption` of `Searches`:
every program is run on such graphs, and prim, which computes with weights, on weights that are `int`s. `InputsAssumption` of
`Paths`: the same of its programs, a path of all vertices fits into memory (the matrices did), and the constants of the
maze have members for it to stand still with. `IntAssumption`: `INT_MAX` is odd, of all that a power of two less one is: twice a
length is never `INT_MAX`. `MazeAssumption`: a file is lines of numbers, of any number and length; start and end are any pairs of naturals.
`PathsAssumption`: graphs as before, starts and
`INT_MAX` are integers (a start that is not a vertex is refused), potentials are integer functions.
`ColonyAssumption`: weights are naturals, and there are a vertex, an ant and an iteration (the literals of
`main`). `FilesAssumption`: only what a file is, a format and lines of integers; vertices, sizes of lines
and the final newline are free. `ServerAssumption`: requests are byte sequences and a read takes at least
one byte; the clients are any set, of which any part is polite.

**Maximum flow** (`MaxFlowProofs`, on the sums of `SumTheorems`). `ResidualCapacities` is not inductive:
the walk subtracts `new_flow`, and nothing in the state says that this much is there. `IInv` therefore
says of every entry of the queue, and of the rest of the walk, that there is a simple path from the
source, linked by `parent`, with room for the flow at hand. `Discovery` extends such a path by one
vertex, `PathKept` shows that labelling a new vertex disturbs no other, `PathShortened` that pushing
one arc leaves the rest of the path alone: arcs of a simple path are not each other's reverses.
`SearchComplete` says what the search has looked at so far; at its end no residual arc leaves the
labelled vertices (`SaturatedCut`).

Conservation holds only between walks. `Balance` is what holds at every push: the vertex the walk has
reached, `v`, owes `new_flow`, and the source has not yet sent it. The sums are those of the community modules,
folds over a finite set in an order that is chosen; `SumTheorems` derives what the proofs need of
them (an element taken out, two sums added, the order of a double sum exchanged). It does so without
induction: if a law failed for some set, it would fail for a smallest one (`SmallestSet`, by the
well-foundedness of the naturals), and taking one element out of that gives the contradiction.
That the residual capacities fit an `int` follows from what an arc and its reverse share (`PushesNeverOverflow`). With `FlowAcross`, the flow out of the source is what crosses any cut, less what comes
back; so no cut can carry less than `max_flow`, and the labelled vertices carry exactly that much
(`MinimumCut`). For the same reason no flow at all has a greater value (`FlowIsMaximal`). The printed lines are
the positive differences between capacity and residual, a flow of the same value since what they leave
out are reverse arcs (`ReportedFlowIsLegal`).

`Implementation` is the refinement. Every action but three is a stutter of the method. `ScanReachSink`
is `Augment` with the path that `IInv` provides for the sink: it is a path of the method's set, which that
module builds arc by arc (`PathsFrom`; `PathsAreSimple` gives it in closed form, by a
least counterexample on the length), and its bottleneck is `new_flow` (`Tight`). What the method
then sees is the residual network with the whole path pushed, because the ancestors of the sink are
the vertices of the path (`PathAncestors`). `Push` is a stutter: it does what was pending and shortens the
path by that arc (`PushIsInvisible`). `BfsFails` is `Finish`: an augmenting path would have to leave the
labelled vertices.

`MethodIsMaximal` states `MaxFlowMinCut` of the method alone, `FFSpec`, whose variables are its own but for the network: its result does not depend on the search, nor on the order of the paths.
`MethodInv` says of its residual network what `IInv` says between walks. A path is pushed in one step: it enters and leaves every vertex but its ends once, so that only
the source sends out more than before (`PassesThrough`). When no path is left, what simple paths of positive
residual capacity lead to (`ReachedIn`) is a saturated cut, without a search that would have labelled it;
that a simple path has fewer arcs than the network vertices (`SinkUnreached`) is where the bound of
`AugmentingPaths` is used. `MethodCapacity` reconciles the two definitions of the capacity of a cut.

That a path is shortest (`ShortestAugmentingPath`) is about the rings around the source: ring `c` has the
vertices that `c` arcs of the residual network reach and no fewer. The queue holds what is left of one ring and
then the part of the next that was found (`Leveled`), and every parent lies one ring further inwards
(`ParentsInward`), so a vertex is found from the ring before its own. No ring up to that of a vertex is
empty, so there are fewer rings than vertices (`RingsAreFew`), which is the bound of the reference
definition. The balls, like every recursion here, are handled by a least counterexample (`BallLaw`).
Theorems: `Invariance`, `TypeCorrect`, `ResidualSound`, `CutCertificate`, `ReportedFlowsFit`,
`PushesNeverOverflow`, `FlowLegal`, `MaxFlowIsMinCut`, `FlowIsMaximal`, `Implementation`, `MethodIsMaximal`,
`PathsAreShortest`.

**Matching** (`MatchingProofs`). That nobody is matched twice is false during the unwinding of a
successful search, so `MatchingSound` names the one exception, and `IInv` adds why it is the only
one: the vertices of the frames are distinct (`Frames`, by `visited`), every frame below the top
waits at a neighbour matched to the next frame's vertex (`Chain`), what the top holds when the search
has won is matched to nobody on the stack (`Top`), and only vertices before the one searched for are
matched (`Source`). Each assignment of the unwinding then undoes the double match its predecessor
made, and the number of matched vertices changes exactly once, at the free vertex.
That the matching is a maximum needs no augmenting paths. The vertices a failed search has visited
(`Explored`) form a set `D` whose neighbours are all matched, and into `D`; no later search that enters
`D` comes out of it (`Leftover`: `Kept(D)`), so this stays true, and in the end every vertex of the first
colour is matched or in `D`. The edges of any other matching are then sent one to one to matched vertices: an
edge from a vertex of `D` to whom its other end is matched, any other to where it begins (`NoLargerMatching`).
That a refusal is right is shown as for `BipartiteChecker` below: until the refusal, some two-colouring
of the graph, if it has one, agrees with the colours given so far (`Agree`).
Theorems: `Invariance`, `TypeCorrect`, `MatchingIsSound`, `CounterIsRight`, `AcceptedIsBipartite`,
`RefusesRightly`, `MatchingIsMaximum`.

**Single-source paths** (`BellmanFordMooreProofs`). The length of a shortest path is a minimum over an
unbounded set of walks. Duality avoids it: a
potential that is at most 0 at the start and grows by at most the weight along each edge is a lower
bound of every distance (`NeverTooShort`, kept by every relaxation), and when the last pass finds no
edge that improves anything, the distances themselves are such a potential (`NothingImproves`): the
greatest one. `Potentials` is a constant because TLC has to enumerate it; the theorem holds for every
set of them. Sums that are no `int` end the modelled behaviour (`Overflow`), so that the proofs hold for
every `INT_MAX`. The invariant adds the phase counter, `distance[start] <= 0`, and what the last pass has
looked at.

The phases and the flag are about walks of bounded length, whose least weights are the recursive function
`Lightest`. That this function exists and does what it should (`LightestLaw`, `LightestFalls`) is derived without
induction, from the least number of edges at which it would not (`Stepwise`, `NoFaster` of `SumTheorems`).
`WInv` then says of a phase under way: no distance exceeds `Lightest[i]`; who is not at the front of the queue
has neighbours as near as `Lightest[i + 1]` asks (`Spreading`); an edge that improves something begins at a queued
vertex or is still to be looked at (`Requeued`); and if `n` edges are no better than `n - 1`, no distance falls below
them (`Bounded`). A vertex for which `n` edges are better is at the end of a walk all of whose edges were
needed (`LongWalk`); it meets a vertex twice, and the shortest part between two meetings is a negative
cycle (`CycleOfWalk`). Without such a vertex the last pass finds nothing (`NoFalseAlarm`); around a negative
cycle it does (`NoCycleUnnoticed`). The proof asked for one correction: all vertices of the cycle have to be in reach,
not one of them, because an edge to a vertex exactly `INT_MAX` away ends the reach of the code in the
middle of a cycle; a graph of the run now shows the case.
Theorems: `Invariance`, `TypeCorrect`, `QueueIsSound`, `DistancesAreShortest`, `PhasesAreEnough`, `FlagIsRight`.

**The searches** (`SearchesProofs`). One module proves the six programs of `Searches`, each with an inductive
invariant of its own, a lemma for each of its actions, and a lemma that its property follows; `SearchesInv`
puts the invariants together. The module begins with what `Least`, `Ascending`, `Within` and
`ReachableBy` of `GraphProgram` return. That there is a list of a set in increasing order is the pigeonhole
principle; that `Len(graph)` rounds reach all there is to reach is, too: a round that adds nothing ends it
(`WithinSettles`). From then on only `ReachLaw` is used: what can be reached is the least set with x that
no pair leaves.

- *Components* (`FirstInv`). A component begins with its least vertex, is within reach of it, and is
  left by arcs into earlier components or from the frontier only. With an empty frontier these two
  inclusions make it reach apart from the earlier ones.
- *Bridges and cut vertices* (`SecondInv`). Everything is said of the trail, the vertices of the pending
  calls (while `pc` is `"return"` with the one whose call has just ended): their numbers grow along it, and each is a
  neighbour of the one before (`Trailed`). What was entered since a vertex of the trail hangs together and has edges to
  nothing older but the trail (`Hanging`). `LowRight` says what `low` of a pending vertex is: the least
  number met by what was entered from it and is over, and by itself as far as its loop has come, not
  counting its parent. When a call returns this is `LowWhenRead`. The verdicts rest on it: the edge to the vertex that returns
  is a bridge exactly if its `low` is greater than the caller's number (`OverBridge`), because otherwise an edge
  leads back to the trail at or above the caller, and the trail is a way around; the same way round the caller, if
  `low` is less than its number, makes its subtree part of what its own caller reaches without it
  (`OverCut`), and if not, nothing does. A frame therefore knows whether its vertex separates what is over
  below it (`InnerAt`), and the root, which has no caller, that its children are in as many parts (`RootAt`). An
  edge on the trail has no verdict yet (`BridgesRight`), nor has a vertex whose call is pending (`CutsRight`).
- *Spanning tree* (`ThirdInv`). The tree has one edge less than there are vertices found, and only vertices waiting have
  neighbours not found. Breadth first (`Nearest`), what is found is as near to the start in the tree as in
  the graph, and the queue takes the vertices as they are near, with a difference of one at most. Depth
  first (`NoCross`), the pending calls are a path in the tree, and of two neighbours found one is below the
  other.
- *Bipartiteness* (`FifthInv`). That a yes is right is what the search keeps of every coloured vertex that
  has left the queue. That a no is right would take an odd cycle, an induction over paths; `Agree` avoids
  it: whatever two-colouring the graph has, there is one that agrees with the colours given so far. A new
  root keeps this because no edge joins what is settled to the rest, whose colouring can be turned around;
  a vertex taken from the queue because its neighbours have no choice. At a clash no colouring can agree.
- *Strong components* (`SeventhInv`). The first pass keeps (`FirstPass`) that a vertex whose call is
  over leads to visited vertices only, and if it leads to a pending call, then one of its class is pending.
  Hence `Late`: whatever leads to a vertex of `order_` has one of its class that is not before that vertex. The second pass, which
  goes against the arcs and takes `order_` from its end, therefore finds from a root nothing but its class and
  classes already collected (`SecondPass`).
- *Minimum spanning tree* (`NinethInv`). The cut property (`Exchange`): the edges chosen so far are part of a
  lightest spanning tree, and stay so with the lightest edge that leads out of the included vertices, because the lightest
  tree crosses there, too, and its edge can be replaced. That there is a spanning tree (`SpanningExists`), that every one has one
  edge less than vertices, and that one is lightest, are again arguments about a smallest set.
- *Trees grow* (`GrowthStep`). Every iteration of `bfs`, call of `dfs` and choice of `prim` is a `Grow` of
  `TreeGrowth` or a stutter, and both programs end only where no edge leads out.

The proofs asked for two changes of the model. `GrowsATree` said of `prim` that it refuses what it sees as
disconnected; the check for directed edges does see an edge of weight `INT_MAX`, though, so the graph
under the mapping (`Spanned`) is the one without those edges only if it is not directed. And the total of
`MSTFinder` is a sum of the community modules instead of a function of its own, for the sake of their laws.
Theorems: `SearchesTyped`, `Components`, `LowPoints`, `BridgesAndCuts`, `Trees`, `Colourings`,
`StrongClasses`, `MinimumTrees`, `TreesGrow`.

**All-pairs paths, characteristics, components** (`PathsProofs`, for every graph). `Lengths(S, x, t)` is a
recursive function; `Through` names its parts, and `WaysExist` shows, by a smallest set at which it would
not, that it is what it should be. Two lemmas about it carry the rest: a walk through `z` is a walk to `z`
and one from `z` (`Parted`), and two such walks make one, unless it repeats a vertex, and then there is one
no longer, since no cycle is negative (`Joined`; without that hypothesis the matrix means nothing). So a
pass does for shortest paths what the code does with two entries (`PassLaw`). The pass for `k` reads a row
and a column that it rewrites; `RowAndColumn` is why that does not matter, and `Settled` says which entries
belong to which pass while it runs. What it leaves out is the meaning of `INT_MAX`: an entry that is
`INT_MAX` because a path has this length is read as none, and `Attained(S)` says that no path hides there.
It is kept on an undirected graph because every way can be walked back (`ThroughBack`): of a path by `z` as
long as `INT_MAX`, one half, out and back, is longer still, since `INT_MAX` is odd, and is one of the sums
of the same pass, which would be no `int` (`AttainedStep`). On a digraph no such sum is formed, and the
property is false: this is what `Counted` is for, see below. A sum that is formed is therefore one of the lengths
of two walks that meet (`EntryIsWalk`), and overflows only if these do (`SumsAreLengths`).

- *Characteristics* (`FourthInv`). The eccentricities are greatest entries (`EccentricityLaw`); on an
  undirected graph the entries are symmetric and obey the triangle inequality (`UndirectedDistances`), from
  which follow that all are infinite or none, and the factor of two.
- *The walk* (`WalkInv`). That the walk along `next_` ends is not obvious where cycles have length 0.
  `Routes` gives every pass ranks that fall from a vertex to the next one towards the same target; a pass
  that takes over the entry of `z` ranks all that now go by `z` above those that do not (`PassRoutes`), and
  while the pass runs the table is that of one pass in some entries and of the other in the rest (`Routed`).
  After the last pass a vertex that leads to another has a rank above it and an entry longer by the edge
  between them (`Slope`), so that ranks fall along what was walked (`Descends`), no vertex comes twice, and
  what was walked and what is left add up (`Promised`).
- *Components* (`ComponentsInv`). Each is what its least vertex is linked with of what is left (`Chosen`).
  The entries that are not `INT_MAX` are exactly the pairs of which one reaches the other (`EntriesReach`,
  which relates `Lengths` to `ReachableBy`), and what strong and weak components have to do with that is
  `CollectedApart` and `CollectedWhole`.

Three properties of the run were false as they stood, and the proofs found it, not the run. A digraph may
have a path of length exactly `INT_MAX` that a negative edge continues: the path with more edges, which is
shorter, is missed (`ShortestSoFar`), or found in parts for one pair and not for another
(`WalkKeepsLength`); and a loop of weight `INT_MAX` puts a vertex out of reach of itself, whose component is
then empty (`ComponentsBetween`). The code is as it is; the properties now say for which graphs they are
meant (`Counted`, `Home`), and the instance has graphs of this kind (`AtTheEnd`), on which TLC refutes the
former versions.
Theorems: `PathsTypesOK`, `PathsShortestInEachPass`, `PathsWalkKeepsLength`, `PathsComponentsBetween`,
`PathsCharacteristics`.

**Maze** (`PathsProofs`, for every map). The rings around the start are the differences of its balls. `Tree`
says that `parent` leads from a cell to one a ring further in, `Frontier` that the queue holds what is left
of one ring and then the part of the next that was found, and `Search` that the cells that were passed have
no open neighbour outside the tree. When the end is taken from the queue its ring is its distance; when the
queue runs dry the tree is a ball that grows no more (`BallWithin`), so that the end is in none. On the way
back (`WayBack`) what is on the path climbs the tree ring by ring, and its length is the number of the
rings.
Theorem: `PathsMazePathIsShortest`.

**Ping server** (`InputProofs`, with the loaders). The server searches a buffer that grows, and resumes where the
last search has stopped. Two facts carry this: the buffer is the part of the request that was read
(`BufferIsPrefix`), and no offset before the resumed position agrees with the delimiter as far as the
buffer goes (`NothingBefore`), which more bytes cannot change. So the header is found by the first search after
its last byte has come. The other two theorems follow the evidence: the process ends, or a reset is
sent, only after something a client has done, and it stays done.
Theorems: `ServerInvariance`, `ServerTypesOK`, `HeaderIsFoundAtOnce`, `PoliteClientsDoNoHarm`,
`BareHeadersAreNotReset`.

**Loaders** (`InputProofs`). The invariant says of each format what the cells passed so far
hold: `CellsRead` the numbers of the file in their order; `ArcsRead` the last line that names the arc;
`RowsRead` the last token for the column on the line the row was made from. Which line that is, is the difficulty:
after the end of the file `getline` leaves the string alone or empty, depending on the final newline.
`StreamPosition` relates the row, the position and the end-of-file state, and `RowLine` says the outcome.
Theorems: `Invariance`, `TypeCorrect`, `StaysInsideTheMatrix`, `LoadsAsDenoted`.

**Ant colony** (`AntColonyProofs`). The path of an ant at work repeats no vertex (`Wandering`), so that
a path of full length is a route, by the pigeonhole principle. What earlier ants walked is gone with `paths`, but
the pheromone remembers it: that the best route is a best one of all iterations is `Unbeaten`, about every
route that is marked, and needs that `path_lengths` holds the lengths of `paths` until they are (`Arrived`). That all deposits with one name lie along one
route needs that no ant has deposited before its turn (`Unmarked`). On a complete graph an ant with
a vertex left to visit has a candidate (`NobodyStuck`), so that there are as many paths as ants.
Theorems: `Invariance`, `TypeCorrect`, `BestPathIsRight`, `TrailsLieOnRoutes`, `CompleteGraphsAreSafe`.

## 7. Checked by TLC only

- Liveness under fairness, which is out of reach of the provers: `Terminates` (maximum flow,
  matching), `AnsweredUnlessBlocked`, `CompleteGraphsAreSolved` (of which the safety part is
  `CompleteGraphsAreSafe`).
- The loops of the loaders end because each reads a bounded part of the file; no property says so.

Proved only, and not in any run: the types of `MaxFlow`, `Matching` and `BellmanFordMoore`,
`ResidualCapacities`, `SaturatedCut`, `FlowIsMaximal`, `CountsMatched` and `InQueueIsQueue`; the theorems
say them for every instance.

## 8. Disagreements the runs show

- `ping_content_length`: the response announces five bytes (`zad1/main.cpp:9`) and its body has four
  (`:12`). A client waits for a fifth until the connection is closed.
- `ant_stuck`: `UpdatePheromones` (`forteentth.cpp:82`) indexes `paths` by ant, `Run` fills it by
  arrival. One stuck ant makes the loop read past the end. `main` provides for the case that no
  route is found. The graph of the run is a path of three vertices: an ant that starts in the middle is stuck at either end.
- `ant_tour`: the length of a route (`forteentth.cpp:98`) leaves out the way back; the expected answer
  `ans_t15_001.txt` gives the length, 57, of a closed tour. On its graph the colony prints less.

## 9. Not modelled

- What the shortest-path programs do on graphs on which a path or a loop is exactly as long as `INT_MAX` is
  modelled, but not promised: to the code this length is none. The properties of `tenth.cpp` except the types
  leave graphs with such paths out, and a loop of that weight makes its vertex unreachable from itself
  (`Describe` is then undefined). Edges of that weight are allowed; they are no edges.
- The maze program announces steps and prints the number of cells, one more (`sixth.cpp:51`; the
  expected answer `ans_maze_t6_007_ans_2.txt:1` counts steps). This is wording; no property is about it.
- Random numbers: `ConstructPath` chooses by probability, the model by `\E`; that a probability is
  positive is argued in `AntColony`, its size does not matter to any property. Pheromone levels are
  replaced by the set of deposits, so underflow of a level to 0 after many iterations is out of scope.
- `int` arithmetic: the residual capacities of `MaxFlow` are proved to fit an `int` (`PushesNeverOverflow`) if
  an arc and its reverse do together. `max_flow` (`thirteents.cpp:56`) is not bounded: it is a mathematical integer, the
  value of a flow within the capacities (`FlowIsLegal`), so it overflows only if the capacities of
  the arcs out of the source do not fit an `int` together. In the other programs an overflow is
  `"undefined"`, after which nothing is modelled; when this happens is a property of the all-pairs programs
  (`OverflowNeedsHeavyWalks`, part of `ShortestInEachPass`), not of `eleventh.cpp`. Path lengths of `forteentth.cpp` and sums
  within a reference definition are mathematical integers.
- Negative sizes (`FilesAssumption`) and capacities (`NetworkAssumption`). Files with CR LF line ends.
- The size limit and the 512-byte growth of the `streambuf`; `ReadSize` stands for how much one read
  takes. The content of a request apart from its delimiter. Errors of `bind` and `listen` at start.
- Formatting and the exact wording of outputs and exceptions.
- A data file that exceeds the stack of a recursive search. The `list_of_edges` accessors of `Graph`,
  which no program calls. `zad1/boost` beyond the functions the server calls,
  generated files.
