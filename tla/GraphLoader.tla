---------------------------- MODULE GraphLoader ----------------------------
(***************************************************************************)
(* The constructor of class Graph (graphs/Graph.h): a text file in one of  *)
(* three formats becomes an adjacency matrix.                              *)
(*                                                                         *)
(* A file is a record: the format the caller names, whether it opens, the  *)
(* number in its first line, the rest, and whether the last line ends in a *)
(* newline.  The rest is, for a matrix, the numbers in reading order, and  *)
(* otherwise a sequence of lines: the numbers of an edge (any of which may *)
(* be missing), or the tokens of a row, <<v>> or <<v, weight>>; a token    *)
(* that std::stoi refuses is <<>>.                                         *)
(*                                                                         *)
(* pc "failed" is an exception.  pc "undefined" is a write outside the     *)
(* matrix, after which anything may happen and nothing is modelled.        *)
(***************************************************************************)
EXTENDS Integers, Sequences

CONSTANT Files

ASSUME FilesAssumption ==
  \A f \in Files : /\ f.type \in {"MATRIX", "EDGES_LIST", "ADJACENCY_LIST"}
                   /\ f.size \in Nat
                   /\ f.lines \in CASE f.type = "MATRIX" -> Seq(Int)
                                   [] f.type = "EDGES_LIST" -> Seq(Seq(Int))
                                   [] f.type = "ADJACENCY_LIST" -> Seq(Seq(Seq(Int)))
                   /\ {f.opens, f.newline} \subseteq BOOLEAN

VARIABLES
  file,                \* the input; never assigned
  size_, adjacency_matrix_, is_directed_,
  u, v,                \* loop counters, or the edge read last
  line,                \* the std::string that getline fills
  tokens,              \* what is left of it in the stringstream
  next,                \* position in the file
  eof,                 \* the stream has hit the end of the file
  pc

vars == <<file, size_, adjacency_matrix_, is_directed_, u, v, line, tokens,
          next, eof, pc>>

Text == file.lines

Init ==
  /\ file \in Files
  /\ size_ = 0 /\ adjacency_matrix_ = <<>> /\ is_directed_ = FALSE
  /\ u = 1 /\ v = 1
  /\ line = <<>> /\ tokens = <<>>
  /\ next = 1 /\ eof = FALSE
  /\ pc = "open"

Zeros(n) == [a \in 0..n |-> [b \in 0..n |-> 0]]

(* The number is read, the matrix is made and the rest of the first line   *)
(* is skipped; a file that is nothing but a number ends right there.       *)
Open ==
  /\ pc = "open" /\ file.opens
  /\ size_' = file.size
  /\ adjacency_matrix_' = Zeros(file.size)
  /\ eof' = (Text = <<>> /\ ~file.newline)
  /\ pc' = file.type
  /\ UNCHANGED <<file, is_directed_, u, v, line, tokens, next>>

CannotOpen ==
  /\ pc = "open" /\ ~file.opens
  /\ pc' = "failed"
  /\ UNCHANGED <<file, size_, adjacency_matrix_, is_directed_, u, v, line, tokens,
                 next, eof>>

(* Variant of Allocated: the padding is forgotten.                         *)
AllocatedTight(a) == a \in 0..(size_ - 1)

(* The matrix has a row and a column 0 that no accessor shows.             *)
Allocated(a) == a \in 0..size_

Stored(a, b, w) == [adjacency_matrix_ EXCEPT ![a][b] = w]

(* file >> adjacency_matrix_[u][v]: past the end the entry keeps its 0.    *)
ReadEntry ==
  /\ pc = "MATRIX" /\ u <= size_
  /\ IF next <= Len(Text)
     THEN adjacency_matrix_' = Stored(u, v, Text[next]) /\ next' = next + 1
     ELSE UNCHANGED <<adjacency_matrix_, next>>
  /\ IF v < size_ THEN v' = v + 1 /\ UNCHANGED u
                  ELSE v' = 1 /\ u' = u + 1
  /\ UNCHANGED <<file, size_, is_directed_, line, tokens, eof, pc>>

(* Variant of GetLine: the string is emptied whenever nothing is read.     *)
GetLineClearing ==
  IF ~eof /\ next <= Len(Text)
  THEN /\ line' = Text[next]
       /\ next' = next + 1
       /\ eof' = (next = Len(Text) /\ ~file.newline)
  ELSE line' = <<>> /\ eof' = TRUE /\ UNCHANGED next

MoreLines == ~eof /\ next <= Len(Text)

(* std::getline: a stream that has hit the end leaves the string as it is; *)
(* one that hits it now has emptied the string first.                      *)
GetLine ==
  CASE MoreLines -> /\ line' = Text[next]
                    /\ next' = next + 1
                    /\ eof' = (next = Len(Text) /\ ~file.newline)
    [] ~MoreLines /\ ~eof -> line' = <<>> /\ eof' = TRUE /\ UNCHANGED next
    [] OTHER -> UNCHANGED <<line, eof, next>>

(* The ints of the loop body are not initialised: what an end that is not  *)
(* in the line holds is any vertex, or none.                               *)
Ends(k) == IF k <= Len(Text[next]) THEN {Text[next][k]} ELSE 0..(size_ + 1)

(* Variant of EdgeWeight: no default.                                      *)
EdgeWeightOrZero(l) == IF Len(l) >= 3 THEN l[3] ELSE 0

EdgeWeight(l) == IF Len(l) >= 3 THEN l[3] ELSE 1

ReadEdge ==
  /\ pc = "EDGES_LIST" /\ MoreLines
  /\ GetLine
  /\ u' \in Ends(1) /\ v' \in Ends(2)
  /\ IF Allocated(u') /\ Allocated(v')
     THEN adjacency_matrix_' = Stored(u', v', EdgeWeight(line')) /\ UNCHANGED pc
     ELSE pc' = "undefined" /\ UNCHANGED adjacency_matrix_
  /\ UNCHANGED <<file, size_, is_directed_, tokens>>

(* Variant of ReadRow: u <= size_ + 1.                                     *)
ReadRowTooMany ==
  /\ pc = "ADJACENCY_LIST" /\ u <= size_ + 1
  /\ GetLine
  /\ tokens' = line'
  /\ pc' = "tokens"
  /\ UNCHANGED <<file, size_, adjacency_matrix_, is_directed_, u, v>>

(* The result of getline is not looked at.                                 *)
ReadRow ==
  /\ pc = "ADJACENCY_LIST" /\ u <= size_
  /\ GetLine
  /\ tokens' = line'
  /\ pc' = "tokens"
  /\ UNCHANGED <<file, size_, adjacency_matrix_, is_directed_, u, v>>

ReadToken ==
  /\ pc = "tokens" /\ tokens # <<>> /\ Head(tokens) # <<>>
  /\ LET t == Head(tokens)
     IN  IF Allocated(t[1])
         THEN /\ adjacency_matrix_' = Stored(u, t[1], IF Len(t) = 2 THEN t[2] ELSE 1)
              /\ UNCHANGED pc
         ELSE pc' = "undefined" /\ UNCHANGED adjacency_matrix_
  /\ tokens' = Tail(tokens)
  /\ UNCHANGED <<file, size_, is_directed_, u, v, line, next, eof>>

BadToken ==
  /\ pc = "tokens" /\ tokens # <<>> /\ Head(tokens) = <<>>
  /\ pc' = "failed"
  /\ UNCHANGED <<file, size_, adjacency_matrix_, is_directed_, u, v, line, tokens,
                 next, eof>>

RowEnd ==
  /\ pc = "tokens" /\ tokens = <<>>
  /\ u' = u + 1
  /\ pc' = "ADJACENCY_LIST"
  /\ UNCHANGED <<file, size_, adjacency_matrix_, is_directed_, v, line, tokens,
                 next, eof>>

EndOfInput ==
  \/ pc \in {"MATRIX", "ADJACENCY_LIST"} /\ u > size_
  \/ pc = "EDGES_LIST" /\ ~MoreLines

(* What the accessors show. *)
Visible == [a \in 1..size_ |-> [b \in 1..size_ |-> adjacency_matrix_[a][b]]]

G == INSTANCE Graph

Finish ==
  /\ EndOfInput
  /\ is_directed_' = G!CheckDirected(Visible)
  /\ pc' = "loaded"
  /\ UNCHANGED <<file, size_, adjacency_matrix_, u, v, line, tokens, next, eof>>

Terminated == pc \in {"loaded", "failed", "undefined"} /\ UNCHANGED vars

Next ==
  \/ Open \/ CannotOpen \/ ReadEntry \/ ReadEdge
  \/ ReadRow \/ ReadToken \/ BadToken \/ RowEnd
  \/ Finish \/ Terminated

Spec == Init /\ [][Next]_vars

-----------------------------------------------------------------------------

TypeOK ==
  /\ size_ \in Nat
  /\ pc \notin {"open", "failed"} =>
       adjacency_matrix_ \in [0..size_ -> [0..size_ -> Int]]
  /\ is_directed_ \in BOOLEAN
  /\ u \in Int /\ v \in Int
  /\ file.type # "EDGES_LIST" => u \in 1..(file.size + 1)
  /\ line = <<>> \/ \E i \in DOMAIN Text : line = Text[i]
  /\ tokens \in Seq(Seq(Int))
  /\ next \in 1..(Len(Text) + 1)
  /\ eof \in BOOLEAN

(* A file that keeps to its format. *)
WellFormed ==
  /\ file.opens
  /\ CASE file.type = "MATRIX" -> Len(Text) = file.size * file.size
       [] file.type = "EDGES_LIST" ->
            \A i \in DOMAIN Text : /\ Len(Text[i]) \in {2, 3}
                                   /\ {Text[i][1], Text[i][2]} \subseteq 1..file.size
       [] file.type = "ADJACENCY_LIST" ->
            /\ Len(Text) = file.size
            /\ \A i \in DOMAIN Text : \A j \in DOMAIN Text[i] :
                 Len(Text[i][j]) \in {1, 2} /\ Text[i][j][1] \in 1..file.size

(* What such a file says the weight of the arc (a, b) is: the last of the  *)
(* entries W that name it.                                                 *)
LastOf(W, default) ==
  IF W = {} THEN default
  ELSE (CHOOSE x \in W : \A y \in W : y[1] <= x[1])[2]

Row(i, b) ==
  LastOf({ <<j, IF Len(Text[i][j]) = 2 THEN Text[i][j][2] ELSE 1>> :
             j \in { j \in DOMAIN Text[i] : Text[i][j][1] = b } }, 0)

Denoted(a, b) ==
  CASE file.type = "MATRIX" -> Text[(a - 1) * file.size + b]
    [] file.type = "EDGES_LIST" ->
         LastOf({ <<i, IF Len(Text[i]) = 3 THEN Text[i][3] ELSE 1>> :
                    i \in { i \in DOMAIN Text : SubSeq(Text[i], 1, 2) = <<a, b>> } }, 0)
    [] file.type = "ADJACENCY_LIST" -> Row(a, b)

(* All three loaders read a well-formed file, whether or not its last line *)
(* ends in a newline, into the graph it denotes: omitted weights are 1, of *)
(* two entries for one arc the later counts, and the directedness is that  *)
(* of the matrix, so that a list which names every edge once is directed.  *)
WellFormedIsDenoted ==
  (WellFormed /\ pc \in {"loaded", "failed", "undefined"}) =>
    /\ pc = "loaded"
    /\ \A a, b \in 1..size_ : adjacency_matrix_[a][b] = Denoted(a, b)
    /\ is_directed_ = (\E a, b \in 1..size_ : Denoted(a, b) # Denoted(b, a))

(* An adjacency list with fewer rows than its first line announces loads   *)
(* without complaint.  What the missing rows hold depends on the very last *)
(* character of the file: without the final newline each of them is a copy *)
(* of the last row, because getline leaves the string alone.               *)
MissingRows ==
  (pc = "loaded" /\ file.type = "ADJACENCY_LIST" /\ Text # <<>>) =>
    \A a \in (Len(Text) + 1)..size_ : \A b \in 1..size_ :
      adjacency_matrix_[a][b] = IF file.newline THEN 0 ELSE Row(Len(Text), b)

(* What is loaded is what the file says, as far as it says anything.       *)
LoadsWhatTheFileSays == WellFormedIsDenoted /\ MissingRows

(* A loader writes outside its matrix only for a vertex that is negative   *)
(* or beyond the number in the first line, or for a line that names fewer  *)
(* than two vertices.                                                      *)
UndefinedOnlyIfMalformed ==
  pc = "undefined" =>
    \/ /\ file.type = "EDGES_LIST"
       /\ \E i \in DOMAIN Text :
            Len(Text[i]) < 2 \/ \E k \in 1..2 : Text[i][k] \notin 0..file.size
    \/ /\ file.type = "ADJACENCY_LIST"
       /\ \E i \in DOMAIN Text : \E j \in DOMAIN Text[i] :
            Text[i][j] # <<>> /\ Text[i][j][1] \notin 0..file.size

=============================================================================
