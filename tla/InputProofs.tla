---------------------------- MODULE InputProofs ----------------------------
(***************************************************************************)
(* The two components that read what others wrote, for every such input:   *)
(* the loaders of graphs/Graph.h and the ping server of zad1/main.cpp.     *)
(*                                                                         *)
(* The invariant says of each loader what the cells it has passed hold:    *)
(* CellsRead for a matrix, ArcsRead for a list of edges, RowsRead for an   *)
(* adjacency list.  A row of the latter comes from a line of the file, or, *)
(* when the file has ended, from what getline leaves in the string         *)
(* (RowLine); StreamPosition relates the row, the position in the file and *)
(* the end-of-file state, on which that depends.                           *)
(*                                                                         *)
(* The server is safe for any clients, any requests and any way their      *)
(* bytes are cut into reads, by two facts.  The buffer is the part of the  *)
(* request that has been read (BufferIsPrefix).  And no offset before      *)
(* search_position agrees with the delimiter, not even as far as the       *)
(* buffer goes (NothingBefore): a mismatch of bytes stays one when more    *)
(* bytes come, so that no resumed search has to look there again.          *)
(***************************************************************************)
EXTENDS GraphLoader, PingServer, SumTheorems, SequenceTheorems

-----------------------------------------------------------------------------
(* The loaders.                                                            *)

Size == file.size

Last == Len(Text)

(* The entries of a line up to its k-th, and of a file up to its k-th line.*)
Weight(t) == IF Len(t) = 2 THEN t[2] ELSE 1

TokenEntries(l, k, b) == { <<j, Weight(l[j])>> : j \in { j \in 1..k : l[j][1] = b } }

ArcEntries(s, k, a, b) ==
  { <<i, IF Len(s[i]) = 3 THEN s[i][3] ELSE 1>> :
      i \in { i \in 1..k : SubSeq(s[i], 1, 2) = <<a, b>> } }

(* The line that row a is made from. *)
RowLine(f, a) ==
  IF a \in 1..Len(f.lines) THEN f.lines[a]
  ELSE IF a = 0 \/ f.newline \/ Len(f.lines) = 0 THEN <<>> ELSE f.lines[Len(f.lines)]

(* Rows begun. *)
Begun == IF pc = "tokens" THEN u + 1 ELSE u

Taken == Len(line) - Len(tokens)

Phases ==
  /\ file \in Files
  /\ pc \in {"open", "MATRIX", "EDGES_LIST", "ADJACENCY_LIST", "tokens", "loaded", "failed",
             "undefined"}
  /\ pc = "open" => u = 1 /\ v = 1 /\ line = <<>> /\ next = 1
  /\ pc \in {"MATRIX", "EDGES_LIST", "ADJACENCY_LIST"} => pc = file.type
  /\ pc = "MATRIX" => v \in Nat \ {0} /\ (Size > 0 => v <= Size)
  /\ pc = "tokens" => file.type = "ADJACENCY_LIST" /\ u \in 1..Size
  /\ pc = "undefined" => file.type # "MATRIX"
  /\ pc = "failed" => ~file.opens \/ file.type = "ADJACENCY_LIST"
  /\ pc \notin {"open", "failed"} => size_ = Size
  /\ pc = "loaded" /\ file.type # "EDGES_LIST" => u = Size + 1

Matrix ==
  pc \notin {"open", "failed"} => adjacency_matrix_ \in [0..Size -> [0..Size -> Int]]

CellsRead ==
  (file.type = "MATRIX" /\ WellFormed /\ pc \in {"MATRIX", "loaded"}) =>
    /\ next = (u - 1) * Size + v
    /\ \A a, b \in 1..Size :
         (a < u \/ (a = u /\ b < v)) => adjacency_matrix_[a][b] = Text[(a - 1) * Size + b]

ArcsRead ==
  (file.type = "EDGES_LIST" /\ WellFormed /\ pc # "open") =>
    /\ pc \in {"EDGES_LIST", "loaded"}
    /\ eof \/ pc = "loaded" => next = Last + 1
    /\ \A a, b \in 1..Size : adjacency_matrix_[a][b] = LastOf(ArcEntries(Text, next - 1, a, b), 0)

StreamPosition ==
  (file.type = "ADJACENCY_LIST" /\ pc \in {"ADJACENCY_LIST", "tokens", "loaded"}) =>
    /\ next = IF Begun <= Last THEN Begun ELSE Last + 1
    /\ eof <=> IF file.newline THEN Begun > Last + 1 ELSE Begun > Last
    /\ line = RowLine(file, Begun - 1)

RowsRead ==
  (file.type = "ADJACENCY_LIST" /\ pc \in {"ADJACENCY_LIST", "tokens", "loaded"}) =>
    \A a, b \in 1..Size :
      adjacency_matrix_[a][b] =
        IF a < u THEN LastOf(TokenEntries(RowLine(file, a), Len(RowLine(file, a)), b), 0)
        ELSE IF a = u /\ pc = "tokens" THEN LastOf(TokenEntries(line, Taken, b), 0)
        ELSE 0

TokensLeft ==
  pc = "tokens" =>
    /\ Taken \in 0..Len(line)
    /\ tokens = SubSeq(line, Taken + 1, Len(line))

(* An adjacency list that keeps to its format is neither refused nor does  *)
(* it lead outside the matrix.                                             *)
RowsAccepted ==
  (file.type = "ADJACENCY_LIST" /\ WellFormed) => pc \notin {"failed", "undefined"}

Directed ==
  pc = "loaded" =>
    is_directed_ = (\E a, b \in 1..Size : adjacency_matrix_[a][b] # adjacency_matrix_[b][a])

IInv ==
  /\ TypeOK /\ Phases /\ Matrix /\ CellsRead /\ ArcsRead
  /\ StreamPosition /\ TokensLeft /\ RowsRead /\ RowsAccepted
  /\ Directed /\ UndefinedOnlyIfMalformed

-----------------------------------------------------------------------------
(* Matrices, indices, and the last of a set of entries.                    *)

LEMMA StoredEntry ==
  ASSUME NEW N \in Nat, NEW M \in [0..N -> [0..N -> Int]],
         NEW i \in 0..N, NEW j \in 0..N, NEW w \in Int,
         NEW M2, M2 = [M EXCEPT ![i][j] = w]
  PROVE  /\ M2 \in [0..N -> [0..N -> Int]]
         /\ \A a, b \in 0..N : M2[a][b] = IF a = i /\ b = j THEN w ELSE M[a][b]
  OBVIOUS

(* The cells of a square in reading order.                                 *)
LEMMA ReadingOrder ==
  ASSUME NEW N \in Nat, NEW a \in 1..N, NEW b \in 1..N
  PROVE  (a - 1) * N + b \in 1..(N * N)
<1>1. (a - 1) * N >= 0
  OBVIOUS
<1>2. (N - a) * N >= 0
  OBVIOUS
<1>3. (N - a) * N = N * N - a * N /\ (a - 1) * N = a * N - N
  OBVIOUS
<1>4. a * N \in Int /\ N * N \in Int
  OBVIOUS
<1> QED
  BY <1>1, <1>2, <1>3, <1>4

LEMMA LastOfExtended ==
  ASSUME NEW W, NEW k \in Nat, NEW w, \A y \in W : y[1] \in 1..k
  PROVE  LastOf(W \cup {<<k + 1, w>>}, 0) = w
<1> DEFINE V == W \cup {<<k + 1, w>>}
           IsLast(x) == x \in V /\ \A y \in V : y[1] <= x[1]
<1>1. IsLast(<<k + 1, w>>)
  OBVIOUS
<1>2. ASSUME NEW x, IsLast(x) PROVE x = <<k + 1, w>>
  <2>1. <<k + 1, w>>[1] <= x[1]
    BY <1>1, <1>2, Zenon
  <2>2. x \notin W
    BY <2>1
  <2> QED
    BY <1>2, <2>2, Zenon
<1>3. (CHOOSE x \in V : \A y \in V : y[1] <= x[1]) = <<k + 1, w>>
  BY <1>1, <1>2
<1> QED
  BY <1>3 DEF LastOf

LEMMA NoEntries == LastOf({}, 0) = 0
  BY DEF LastOf

(* One more token of a line. *)
LEMMA OneMoreToken ==
  ASSUME NEW l, NEW k \in Nat, NEW b
  PROVE  LastOf(TokenEntries(l, k + 1, b), 0) =
           IF l[k + 1][1] = b THEN Weight(l[k + 1]) ELSE LastOf(TokenEntries(l, k, b), 0)
<1>1. 1..(k + 1) = 1..k \cup {k + 1}
  OBVIOUS
<1>2. CASE l[k + 1][1] = b
  <2>1. TokenEntries(l, k + 1, b) = TokenEntries(l, k, b) \cup {<<k + 1, Weight(l[k + 1])>>}
    BY <1>1, <1>2, Zenon DEF TokenEntries
  <2>2. \A y \in TokenEntries(l, k, b) : y[1] \in 1..k
    BY DEF TokenEntries
  <2> QED
    BY <1>2, <2>1, <2>2, LastOfExtended
<1>3. CASE l[k + 1][1] # b
  <2>1. TokenEntries(l, k + 1, b) = TokenEntries(l, k, b)
    BY <1>1, <1>3, Zenon DEF TokenEntries
  <2> QED
    BY <1>3, <2>1
<1> QED
  BY <1>2, <1>3

(* One more line of a list of edges. *)
LEMMA OneMoreEdge ==
  ASSUME NEW s, NEW k \in Nat, NEW a, NEW b
  PROVE  LastOf(ArcEntries(s, k + 1, a, b), 0) =
           IF SubSeq(s[k + 1], 1, 2) = <<a, b>>
           THEN IF Len(s[k + 1]) = 3 THEN s[k + 1][3] ELSE 1
           ELSE LastOf(ArcEntries(s, k, a, b), 0)
<1> DEFINE w(i) == IF Len(s[i]) = 3 THEN s[i][3] ELSE 1
<1>1. 1..(k + 1) = 1..k \cup {k + 1}
  OBVIOUS
<1>2. CASE SubSeq(s[k + 1], 1, 2) = <<a, b>>
  <2>1. ArcEntries(s, k + 1, a, b) = ArcEntries(s, k, a, b) \cup {<<k + 1, w(k + 1)>>}
    BY <1>1, <1>2, Zenon DEF ArcEntries
  <2>2. \A y \in ArcEntries(s, k, a, b) : y[1] \in 1..k
    BY DEF ArcEntries
  <2> QED
    BY <1>2, <2>1, <2>2, LastOfExtended
<1>3. CASE SubSeq(s[k + 1], 1, 2) # <<a, b>>
  <2>1. ArcEntries(s, k + 1, a, b) = ArcEntries(s, k, a, b)
    BY <1>1, <1>3, Zenon DEF ArcEntries
  <2> QED
    BY <1>3, <2>1
<1> QED
  BY <1>2, <1>3

LEMMA FirstTwo ==
  ASSUME NEW l \in Seq(Int), Len(l) >= 2
  PROVE  SubSeq(l, 1, 2) = <<l[1], l[2]>>
<1>1. Len(l) \in Nat
  OBVIOUS
<1>2. \A i \in 1..2 : l[i] \in Int
  BY <1>1
<1>3. /\ SubSeq(l, 1, 2) \in Seq(Int) /\ Len(SubSeq(l, 1, 2)) = 2
      /\ SubSeq(l, 1, 2)[1] = l[1] /\ SubSeq(l, 1, 2)[2] = l[2]
  BY <1>2, SubSeqProperties
<1>4. <<l[1], l[2]>> \in Seq(Int) /\ Len(<<l[1], l[2]>>) = 2
  BY <1>2
<1> DEFINE p == SubSeq(l, 1, 2)  t == <<l[1], l[2]>>
<1>5. p[1] = t[1] /\ p[2] = t[2]
  <2>1. t[1] = l[1] /\ t[2] = l[2]
    OBVIOUS
  <2> HIDE DEF t
  <2> QED
    BY <1>3, <2>1
<1>6. p \in Seq(Int) /\ Len(p) = 2 /\ t \in Seq(Int) /\ Len(t) = 2
  BY <1>3, <1>4
<1> HIDE DEF p, t
<1>7. \A i \in 1..2 : p[i] = t[i]
  <2>1. \A i \in 1..2 : i = 1 \/ i = 2
    OBVIOUS
  <2> QED
    BY <1>5, <2>1, Zenon
<1>8. p = t
  BY <1>6, <1>7, SeqEqual
<1> QED
  BY <1>8, Zenon DEF p, t

LEMMA FileTypes ==
  ASSUME NEW f \in Files
  PROVE  /\ f.type \in {"MATRIX", "EDGES_LIST", "ADJACENCY_LIST"}
         /\ f.size \in Nat /\ f.newline \in BOOLEAN
         /\ f.type = "MATRIX" => f.lines \in Seq(Int)
         /\ f.type = "EDGES_LIST" => f.lines \in Seq(Seq(Int))
         /\ f.type = "ADJACENCY_LIST" => f.lines \in Seq(Seq(Seq(Int)))
         /\ Len(f.lines) \in Nat /\ DOMAIN f.lines = 1..Len(f.lines)
  BY FilesAssumption DEF FilesAssumption

LEMMA Types ==
  ASSUME IInv
  PROVE  /\ file \in Files /\ Size \in Nat /\ Last \in Nat
         /\ file.type \in {"MATRIX", "EDGES_LIST", "ADJACENCY_LIST"}
         /\ file.newline \in BOOLEAN
         /\ file.type = "MATRIX" => Text \in Seq(Int)
         /\ file.type = "EDGES_LIST" => Text \in Seq(Seq(Int))
         /\ file.type = "ADJACENCY_LIST" => Text \in Seq(Seq(Seq(Int)))
         /\ DOMAIN Text = 1..Last
         /\ u \in Int /\ v \in Int /\ next \in 1..(Last + 1)
         /\ tokens \in Seq(Seq(Int)) /\ eof \in BOOLEAN
  BY FileTypes DEF IInv, Phases, TypeOK, Size, Last, Text

LEMMA Sizes ==
  ASSUME IInv
  PROVE  /\ Size \in Nat /\ Last \in Nat
         /\ u \in Int /\ v \in Int /\ next \in 1..(Last + 1)
  BY Types

LEMMA InitInv == Init => IInv
<1> SUFFICES ASSUME Init PROVE IInv
  OBVIOUS
<1> USE DEF Init
<1>1. /\ Size \in Nat /\ Last \in Nat /\ DOMAIN Text = 1..Last
  BY FileTypes DEF Size, Last, Text
<1>2. TypeOK
  <2>1. tokens \in Seq(Seq(Int))
    OBVIOUS
  <2>2. is_directed_ \in BOOLEAN /\ eof \in BOOLEAN
    BY Zenon
  <2> QED
    BY <1>1, <2>1, <2>2 DEF TypeOK, Size, Last
<1>3. Phases /\ Matrix
  BY DEF Phases, Matrix
<1>4. CellsRead /\ ArcsRead /\ StreamPosition /\ TokensLeft /\ RowsRead /\ RowsAccepted
  BY DEF CellsRead, ArcsRead, StreamPosition, TokensLeft, RowsRead, RowsAccepted
<1>5. Directed /\ UndefinedOnlyIfMalformed
  BY DEF Directed, UndefinedOnlyIfMalformed
<1> QED
  BY <1>2, <1>3, <1>4, <1>5 DEF IInv

-----------------------------------------------------------------------------
(* The actions.                                                            *)

LEMMA SameFile ==
  ASSUME file' = file
  PROVE  /\ Size' = Size /\ Last' = Last /\ Text' = Text
         /\ WellFormed' <=> WellFormed
<1>1. Size' = Size /\ Last' = Last /\ Text' = Text
  BY DEF Size, Last, Text
<1>2. WellFormed' <=> WellFormed
  BY <1>1 DEF WellFormed
<1> QED
  BY <1>1, <1>2

(* While pc stays below "loaded", two parts say nothing of the next state. *)
LEMMA NotLoaded ==
  ASSUME pc' \notin {"loaded", "undefined"}
  PROVE  Directed' /\ UndefinedOnlyIfMalformed'
  BY DEF Directed, UndefinedOnlyIfMalformed

LEMMA OpenInv == IInv /\ Open => IInv'
<1> SUFFICES ASSUME IInv, Open PROVE IInv'
  OBVIOUS
<1>1. /\ pc = "open" /\ file.opens /\ file' = file /\ pc' = file.type
      /\ size_' = Size /\ adjacency_matrix_' = [a \in 0..Size |-> [b \in 0..Size |-> 0]]
      /\ eof' = (Last = 0 /\ ~file.newline)
      /\ u' = 1 /\ v' = 1 /\ line' = <<>> /\ next' = 1
      /\ UNCHANGED <<is_directed_, u, v, line, tokens, next>>
  <2>1. (Text = <<>>) <=> (Last = 0)
    BY Types, EmptySeq DEF Last
  <2> QED
    BY <2>1, Types DEF IInv, Phases, Open, Zeros, Size
<1>2. /\ Size' = Size /\ Last' = Last /\ Text' = Text
      /\ WellFormed' <=> WellFormed
  BY <1>1, SameFile
<1>3. adjacency_matrix_' \in [0..Size -> [0..Size -> Int]]
  BY <1>1, Types
<1>4. \A a, b \in 1..Size : adjacency_matrix_'[a][b] = 0
  BY <1>1, Types
<1>5. TypeOK'
  <2>1. eof' \in BOOLEAN
    BY <1>1, Zenon
  <2> QED
    BY <1>1, <1>2, <1>3, <2>1, Types DEF IInv, TypeOK, Size, Last
<1>6. Phases' /\ Matrix'
  BY <1>1, <1>2, <1>3, Types DEF Phases, Matrix, Size
<1>7. CellsRead'
  BY <1>1, <1>2, Types DEF CellsRead
<1>8. ArcsRead'
  <2>1. \A a, b : ArcEntries(Text, 0, a, b) = {}
    BY DEF ArcEntries
  <2> QED
    <3>1. next' - 1 = 0
      BY <1>1
    <3>2. \A a, b \in 1..Size : LastOf(ArcEntries(Text, next' - 1, a, b), 0) = 0
      BY <2>1, <3>1, NoEntries
    <3> QED
      <4>1. ASSUME file.type = "EDGES_LIST", eof' PROVE next' = Last + 1
        BY <1>1, Sizes
      <4>2. ASSUME file.type = "EDGES_LIST" PROVE pc' = "EDGES_LIST"
        BY <1>1, <4>2
      <4> QED
        BY <1>1, <1>2, <1>4, <3>2, <4>1, <4>2 DEF ArcsRead
<1>9. pc' # "tokens" /\ pc' \notin {"loaded", "failed", "undefined", "open"}
  BY <1>1, Types
<1>10. StreamPosition'
  <2>1. Begun' = 1
    BY <1>1, <1>9 DEF Begun
  <2>2. RowLine(file, 0) = <<>>
    BY Types DEF RowLine
  <2> QED
    BY SMTT(30), <1>1, <1>2, <2>1, <2>2, Sizes DEF StreamPosition
<1>11. TokensLeft' /\ RowsRead' /\ RowsAccepted'
  BY <1>1, <1>2, <1>4, <1>9, Types DEF TokensLeft, RowsRead, RowsAccepted
<1> QED
  BY <1>5, <1>6, <1>7, <1>8, <1>9, <1>10, <1>11, NotLoaded DEF IInv

LEMMA CannotOpenInv == IInv /\ CannotOpen => IInv'
<1> SUFFICES ASSUME IInv, CannotOpen PROVE IInv'
  OBVIOUS
<1>1. /\ pc = "open" /\ ~file.opens /\ file' = file /\ pc' = "failed"
      /\ UNCHANGED <<size_, adjacency_matrix_, is_directed_, u, v, line, tokens, next, eof>>
  BY DEF CannotOpen
<1>2. /\ Size' = Size /\ Last' = Last /\ Text' = Text
      /\ WellFormed' <=> WellFormed
  BY <1>1, SameFile
<1>3. ~WellFormed
  BY <1>1 DEF WellFormed
<1>4. TypeOK'
  BY <1>1, <1>2 DEF IInv, TypeOK, Size, Last
<1>5. Phases' /\ Matrix'
  BY <1>1, <1>2 DEF IInv, Phases, Matrix, Size
<1>6. CellsRead' /\ ArcsRead' /\ StreamPosition' /\ TokensLeft' /\ RowsRead' /\ RowsAccepted'
  BY <1>1, <1>2, <1>3 DEF CellsRead, ArcsRead, StreamPosition, TokensLeft, RowsRead, RowsAccepted
<1> QED
  BY <1>1, <1>4, <1>5, <1>6, NotLoaded DEF IInv

LEMMA ReadEntryInv == IInv /\ ReadEntry => IInv'
<1> SUFFICES ASSUME IInv, ReadEntry PROVE IInv'
  OBVIOUS
<1>1. /\ pc = "MATRIX" /\ file.type = "MATRIX" /\ u <= Size /\ size_ = Size
      /\ file' = file /\ pc' = pc
      /\ UNCHANGED <<size_, is_directed_, line, tokens, eof>>
  BY DEF IInv, Phases, ReadEntry
<1>2. u \in 1..Size /\ v \in 1..Size /\ Size > 0 /\ adjacency_matrix_ \in [0..Size -> [0..Size -> Int]]
  BY SMTT(30), <1>1, Types DEF IInv, TypeOK, Phases, Matrix, Size
<1>3. /\ Size' = Size /\ Last' = Last /\ Text' = Text
      /\ WellFormed' <=> WellFormed
  BY <1>1, SameFile
<1>4. /\ next <= Last =>
            adjacency_matrix_' = [adjacency_matrix_ EXCEPT ![u][v] = Text[next]] /\ next' = next + 1
      /\ ~(next <= Last) => UNCHANGED <<adjacency_matrix_, next>>
      /\ v < Size => v' = v + 1 /\ u' = u
      /\ ~(v < Size) => v' = 1 /\ u' = u + 1
  BY <1>1 DEF ReadEntry, Stored, Last
<1>5. next <= Last => Text[next] \in Int
  BY <1>1, Types DEF Last
<1>6. /\ adjacency_matrix_' \in [0..Size -> [0..Size -> Int]]
      /\ next <= Last =>
           \A a, b \in 0..Size : adjacency_matrix_'[a][b] =
             IF a = u /\ b = v THEN Text[next] ELSE adjacency_matrix_[a][b]
  <2>1. CASE next <= Last
    <3>1. u \in 0..Size /\ v \in 0..Size /\ Size \in Nat
      BY <1>2, Sizes
    <3>2. /\ Text[next] \in Int /\ adjacency_matrix_ \in [0..Size -> [0..Size -> Int]]
          /\ adjacency_matrix_' = [adjacency_matrix_ EXCEPT ![u][v] = Text[next]]
      BY <1>2, <1>4, <1>5, <2>1
    <3> QED
      BY <3>1, <3>2, StoredEntry, ZenonT(40)
  <2>2. CASE ~(next <= Last)
    BY <1>2, <1>4, <2>2
  <2> QED
    BY <2>1, <2>2
<1>7. u' \in 1..(Size + 1) /\ v' \in Int /\ next' \in 1..(Last + 1)
  BY SMTT(30), <1>1, <1>2, <1>4, Sizes
<1>8. TypeOK'
  BY <1>1, <1>3, <1>6, <1>7 DEF IInv, TypeOK, Size, Last
<1>9. Phases' /\ Matrix'
  BY <1>1, <1>2, <1>3, <1>4, <1>6, Sizes DEF IInv, Phases, Matrix, Size
<1>10. CellsRead'
  <2> SUFFICES ASSUME WellFormed PROVE CellsRead'
    BY <1>3 DEF CellsRead
  <2>1. /\ v \in 1..Size /\ next = (u - 1) * Size + v
        /\ \A a, b \in 1..Size : (a < u \/ (a = u /\ b < v)) =>
             adjacency_matrix_[a][b] = Text[(a - 1) * Size + b]
    BY <1>1, <1>2, Types DEF IInv, CellsRead
  <2>2. Last = Size * Size
    BY <1>1 DEF WellFormed, Size, Last
  <2>3. next <= Last
    <3>1. (u - 1) * Size + v \in 1..(Size * Size)
      BY <1>2, <2>1, ReadingOrder, Sizes
    <3> QED
      BY <2>1, <2>2, <3>1, Sizes
  <2>4. Text[next] \in Int
    BY <1>5, <2>3
  <2>5. \A a, b \in 0..Size :
          adjacency_matrix_'[a][b] = IF a = u /\ b = v THEN Text[next] ELSE adjacency_matrix_[a][b]
    BY <1>6, <2>3
  <2>6. next' = (u' - 1) * Size + v'
    <3>1. (u - 1) * Size + Size = ((u + 1) - 1) * Size
      BY <1>2, Sizes
    <3> QED
      BY SMTT(30), <1>2, <1>4, <2>1, <2>3, <3>1, Sizes
  <2>7. ASSUME NEW a \in 1..Size, NEW b \in 1..Size, a < u' \/ (a = u' /\ b < v')
        PROVE  adjacency_matrix_'[a][b] = Text[(a - 1) * Size + b]
    <3>1. (a = u /\ b = v) \/ a < u \/ (a = u /\ b < v)
      BY <1>2, <1>4, <2>1, <2>7, Sizes
    <3> QED
      BY <2>1, <2>5, <3>1, Sizes
  <2>8. v' \in Nat \ {0} /\ v' <= Size
    BY <1>2, <1>4, <2>1, Sizes, SMTT(40)
  <2> QED
    BY <1>3, <2>6, <2>7, <2>8 DEF CellsRead
<1>11. ArcsRead' /\ StreamPosition' /\ TokensLeft' /\ RowsRead' /\ RowsAccepted'
  BY <1>1 DEF ArcsRead, StreamPosition, TokensLeft, RowsRead, RowsAccepted
<1> QED
  BY <1>1, <1>8, <1>9, <1>10, <1>11, NotLoaded DEF IInv

LEMMA ReadEdgeInv == IInv /\ ReadEdge => IInv'
<1> SUFFICES ASSUME IInv, ReadEdge PROVE IInv'
  OBVIOUS
<1>1. /\ pc = "EDGES_LIST" /\ file.type = "EDGES_LIST" /\ size_ = Size
      /\ ~eof /\ next <= Last
      /\ file' = file /\ UNCHANGED <<size_, is_directed_, tokens>>
      /\ adjacency_matrix_ \in [0..Size -> [0..Size -> Int]]
  BY DEF IInv, Phases, Matrix, ReadEdge, MoreLines, Last
<1>2. /\ Size' = Size /\ Last' = Last /\ Text' = Text
      /\ WellFormed' <=> WellFormed
  BY <1>1, SameFile
<1>3. /\ line' = Text[next] /\ next' = next + 1
      /\ eof' = (next = Last /\ ~file.newline)
      /\ u' \in Ends(1) /\ v' \in Ends(2)
      /\ \/ /\ u' \in 0..Size /\ v' \in 0..Size /\ pc' = pc
            /\ adjacency_matrix_' = [adjacency_matrix_ EXCEPT ![u'][v'] = EdgeWeight(line')]
         \/ /\ ~(u' \in 0..Size /\ v' \in 0..Size) /\ pc' = "undefined"
            /\ adjacency_matrix_' = adjacency_matrix_
  BY <1>1 DEF ReadEdge, GetLine, MoreLines, Allocated, Stored, Last
<1>4. line' \in Seq(Int) /\ Text[next] \in Seq(Int) /\ Len(line') \in Nat
  BY <1>1, <1>3, Types
<1>5. /\ u' \in Int /\ v' \in Int
      /\ Len(line') >= 1 => u' = line'[1]
      /\ Len(line') >= 2 => v' = line'[2]
  <2>1. Len(line') >= 1 => line'[1] \in Int
    BY <1>4
  <2>2. Len(line') >= 2 => line'[2] \in Int
    BY <1>4
  <2> QED
    BY <1>1, <1>3, <1>4, <2>1, <2>2, Sizes, SMTT(40) DEF Ends
<1>6. EdgeWeight(line') \in Int
  <2>1. Len(line') >= 3 => line'[3] \in Int
    BY <1>4
  <2> QED
    BY <1>4, <2>1 DEF EdgeWeight
<1>7. u' \in 0..Size /\ v' \in 0..Size =>
        /\ adjacency_matrix_' \in [0..Size -> [0..Size -> Int]]
        /\ \A a, b \in 0..Size : adjacency_matrix_'[a][b] =
             IF a = u' /\ b = v' THEN EdgeWeight(line') ELSE adjacency_matrix_[a][b]
  <2> SUFFICES ASSUME u' \in 0..Size, v' \in 0..Size
               PROVE  /\ adjacency_matrix_' \in [0..Size -> [0..Size -> Int]]
                      /\ \A a, b \in 0..Size : adjacency_matrix_'[a][b] =
                           IF a = u' /\ b = v' THEN EdgeWeight(line') ELSE adjacency_matrix_[a][b]
    OBVIOUS
  <2>1. adjacency_matrix_' = [adjacency_matrix_ EXCEPT ![u'][v'] = EdgeWeight(line')]
    BY <1>3
  <2> QED
    BY <1>1, <1>6, <2>1, Sizes, StoredEntry, ZenonT(40)
<1>8. adjacency_matrix_' \in [0..Size -> [0..Size -> Int]]
  BY <1>1, <1>3, <1>7
<1>9. TypeOK'
  <2>1. eof' \in BOOLEAN
    BY <1>3, Zenon
  <2>2. line' = <<>> \/ \E i \in DOMAIN Text' : line' = Text'[i]
    BY <1>1, <1>2, <1>3, Types
  <2>3. next' \in 1..(Last + 1)
    BY <1>1, <1>3, Sizes
  <2>4. /\ size_' \in Nat /\ is_directed_' \in BOOLEAN /\ tokens' \in Seq(Seq(Int))
        /\ file'.type = "EDGES_LIST"
    BY <1>1 DEF IInv, TypeOK
  <2> QED
    BY <1>1, <1>2, <1>5, <1>8, <2>1, <2>2, <2>3, <2>4 DEF TypeOK, Last
<1>10. Phases' /\ Matrix'
  BY <1>1, <1>2, <1>3, <1>8 DEF IInv, Phases, Matrix, Size
<1>11. UndefinedOnlyIfMalformed'
  <2> SUFFICES ASSUME ~(u' \in 0..Size /\ v' \in 0..Size)
               PROVE  \E i \in DOMAIN Text :
                        Len(Text[i]) < 2 \/ \E k \in 1..2 : Text[i][k] \notin 0..file.size
    BY <1>1, <1>2, <1>3 DEF UndefinedOnlyIfMalformed
  <2>1. Len(line') < 2 \/ \E k \in 1..2 : line'[k] \notin 0..file.size
    <3>1. CASE Len(line') >= 2 /\ u' \notin 0..Size
      BY <1>4, <1>5, <3>1 DEF Size
    <3>2. CASE Len(line') >= 2 /\ v' \notin 0..Size
      BY <1>4, <1>5, <3>2 DEF Size
    <3> QED
      BY <1>4, <3>1, <3>2
  <2>2. next \in DOMAIN Text
    BY <1>1, Types
  <2> QED
    BY <1>3, <2>1, <2>2
<1>12. ArcsRead'
  <2> SUFFICES ASSUME WellFormed PROVE ArcsRead'
    BY <1>2 DEF ArcsRead
  <2>1. /\ Len(line') \in {2, 3} /\ line'[1] \in 1..Size /\ line'[2] \in 1..Size
    BY <1>1, <1>3, Types, SMTT(40) DEF WellFormed, Size
  <2>2. /\ u' = line'[1] /\ v' = line'[2] /\ pc' = pc
        /\ u' \in 0..Size /\ v' \in 0..Size
    <3>1. u' = line'[1] /\ v' = line'[2]
      BY <1>5, <2>1
    <3>2. u' \in 0..Size /\ v' \in 0..Size
      BY <2>1, <3>1, Sizes
    <3> QED
      BY <1>3, <3>1, <3>2
  <2>3. SubSeq(Text[next], 1, 2) = <<u', v'>>
    BY <1>3, <1>4, <2>1, <2>2, FirstTwo
  <2>4. EdgeWeight(line') = IF Len(Text[next]) = 3 THEN Text[next][3] ELSE 1
    BY <1>3, <2>1 DEF EdgeWeight
  <2>5. ASSUME NEW a \in 1..Size, NEW b \in 1..Size
        PROVE  adjacency_matrix_'[a][b] = LastOf(ArcEntries(Text, next' - 1, a, b), 0)
    <3> DEFINE k == next - 1
    <3>1. k \in Nat /\ k + 1 = next /\ next' - 1 = next
      BY SMTT(30), <1>1, <1>3, Sizes
    <3>2. adjacency_matrix_[a][b] = LastOf(ArcEntries(Text, k, a, b), 0)
      BY <1>1 DEF IInv, ArcsRead
    <3> HIDE DEF k
    <3>3. LastOf(ArcEntries(Text, k + 1, a, b), 0) =
            IF SubSeq(Text[k + 1], 1, 2) = <<a, b>>
            THEN IF Len(Text[k + 1]) = 3 THEN Text[k + 1][3] ELSE 1
            ELSE LastOf(ArcEntries(Text, k, a, b), 0)
      BY <3>1, OneMoreEdge
    <3>4. adjacency_matrix_'[a][b] =
            IF a = u' /\ b = v' THEN EdgeWeight(line') ELSE adjacency_matrix_[a][b]
      BY <1>7, <2>2, Sizes, SMTT(40)
    <3>5. SubSeq(Text[next], 1, 2) = <<a, b>> <=> a = u' /\ b = v'
      BY <2>3
    <3> QED
      BY <2>4, <3>1, <3>2, <3>3, <3>4, <3>5, Zenon
  <2>6. eof' => next' = Last + 1
    BY <1>3
  <2> QED
    BY <1>1, <1>2, <2>2, <2>5, <2>6 DEF ArcsRead
<1>13. CellsRead' /\ StreamPosition' /\ TokensLeft' /\ RowsRead' /\ RowsAccepted' /\ Directed'
  BY <1>1, <1>3 DEF CellsRead, StreamPosition, TokensLeft, RowsRead, RowsAccepted, Directed
<1> QED
  BY <1>9, <1>10, <1>11, <1>12, <1>13 DEF IInv

LEMMA ReadRowInv == IInv /\ ReadRow => IInv'
<1> SUFFICES ASSUME IInv, ReadRow PROVE IInv'
  OBVIOUS
<1>1. /\ pc = "ADJACENCY_LIST" /\ file.type = "ADJACENCY_LIST" /\ size_ = Size
      /\ u <= Size /\ file' = file /\ pc' = "tokens" /\ tokens' = line'
      /\ UNCHANGED <<size_, adjacency_matrix_, is_directed_, u, v>>
      /\ adjacency_matrix_ \in [0..Size -> [0..Size -> Int]]
  BY DEF IInv, Phases, Matrix, ReadRow
<1>2. /\ Size' = Size /\ Last' = Last /\ Text' = Text
      /\ WellFormed' <=> WellFormed
  BY <1>1, SameFile
<1>3. u \in 1..Size
  BY <1>1, Sizes DEF IInv, TypeOK, Size
<1>4. /\ next = IF u <= Last THEN u ELSE Last + 1
      /\ eof <=> IF file.newline THEN u > Last + 1 ELSE u > Last
      /\ line = RowLine(file, u - 1)
  BY <1>1 DEF IInv, StreamPosition, Begun
<1>5. /\ line' = RowLine(file, u)
      /\ next' = IF u + 1 <= Last THEN u + 1 ELSE Last + 1
      /\ eof' \in BOOLEAN
      /\ eof' <=> IF file.newline THEN u + 1 > Last + 1 ELSE u + 1 > Last
  <2>1. CASE MoreLines
    <3>1. /\ line' = Text[next] /\ next' = next + 1 /\ u <= Last /\ next = u
          /\ eof' = (next = Last /\ ~file.newline)
      BY <1>3, <1>4, <2>1, Sizes DEF ReadRow, GetLine, MoreLines, Last
    <3>2. eof' \in BOOLEAN
      BY <3>1, Zenon
    <3>3. RowLine(file, u) = Text[next]
      BY <1>3, <3>1, Sizes DEF RowLine, Text, Last
    <3>4. eof' <=> (u = Last /\ ~file.newline)
      BY <3>1
    <3> QED
      BY <1>3, <3>1, <3>2, <3>3, <3>4, Sizes, Types
  <2>2. CASE ~MoreLines /\ ~eof
    <3>1. line' = <<>> /\ eof' = TRUE /\ next' = next
      BY <2>2 DEF ReadRow, GetLine
    <3>2. u = Last + 1 /\ file.newline
      BY <1>3, <1>4, <2>2, Types DEF MoreLines, Last
    <3>3. RowLine(file, u) = <<>>
      BY <1>3, <3>2, Sizes DEF RowLine, Text, Last
    <3> QED
      BY <1>3, <1>4, <3>1, <3>2, <3>3, Sizes
  <2>3. CASE ~MoreLines /\ eof
    <3>1. line' = line /\ eof' = eof /\ next' = next
      BY <2>3 DEF ReadRow, GetLine
    <3>2. u > Last /\ (file.newline => u > Last + 1)
      BY <1>3, <1>4, <2>3, Types
    <3>3. RowLine(file, u) = RowLine(file, u - 1)
      <4>1. CASE file.newline
        BY <1>3, <3>2, <4>1, Sizes DEF RowLine, Text, Last
      <4>2. CASE ~file.newline /\ u - 1 = Last
        BY <1>3, <3>2, <4>2, Sizes DEF RowLine, Text, Last
      <4>3. CASE ~file.newline /\ u - 1 > Last
        BY <1>3, <3>2, <4>3, Sizes DEF RowLine, Text, Last
      <4> QED
        BY <1>3, <3>2, <4>1, <4>2, <4>3, Sizes
    <3> QED
      BY <1>3, <1>4, <2>3, <3>1, <3>2, <3>3, Sizes, Types
  <2> QED
    BY <2>1, <2>2, <2>3 DEF MoreLines
<1>6. line' = <<>> \/ \E i \in DOMAIN Text : line' = Text[i]
  BY <1>3, <1>5, Types DEF RowLine, Text, Last
<1>7. line' \in Seq(Seq(Int)) /\ Len(line') \in Nat
  <2>1. CASE line' = <<>>
    BY <2>1
  <2>2. ASSUME NEW i \in DOMAIN Text, line' = Text[i] PROVE line' \in Seq(Seq(Int))
    BY <1>1, <2>2, Types
  <2> QED
    BY <1>6, <2>1, <2>2
<1>8. TypeOK'
  <2>1. next' \in 1..(Last + 1)
    BY <1>3, <1>5, Sizes
  <2> QED
    BY <1>1, <1>2, <1>3, <1>5, <1>6, <1>7, <2>1 DEF IInv, TypeOK, Size, Last
<1>9. Phases' /\ Matrix'
  BY <1>1, <1>2, <1>3 DEF IInv, Phases, Matrix, Size
<1>10. Begun = u /\ Begun' = u + 1 /\ Taken' = 0
  BY <1>1, <1>7 DEF Begun, Taken
<1>11. StreamPosition'
  BY <1>1, <1>2, <1>3, <1>5, <1>10, Sizes DEF StreamPosition
<1>12. TokensLeft'
  <2>1. SubSeq(line', 1, Len(line')) = line'
    BY <1>7
  <2> QED
    BY <1>1, <1>7, <1>10, <2>1 DEF TokensLeft
<1>13. RowsRead'
  <2>1. \A l, b : LastOf(TokenEntries(l, 0, b), 0) = 0
    BY NoEntries DEF TokenEntries
  <2> QED
    BY <1>1, <1>2, <1>3, <1>10, <2>1, Sizes DEF IInv, RowsRead
<1>14. CellsRead' /\ ArcsRead' /\ RowsAccepted' /\ Directed' /\ UndefinedOnlyIfMalformed'
  BY <1>1 DEF CellsRead, ArcsRead, RowsAccepted, Directed, UndefinedOnlyIfMalformed
<1> QED
  BY <1>8, <1>9, <1>11, <1>12, <1>13, <1>14 DEF IInv

LEMMA SuffixTail ==
  ASSUME NEW S, NEW s \in Seq(S), NEW k \in Nat, k < Len(s),
         NEW t, t = SubSeq(s, k + 1, Len(s))
  PROVE  /\ Head(t) = s[k + 1]
         /\ Tail(t) \in Seq(S) /\ Len(Tail(t)) = Len(s) - (k + 1)
         /\ Tail(t) = SubSeq(s, k + 2, Len(s))
<1>1. Len(s) \in Nat
  BY LenProperties
<1>2. \A i \in (k + 2)..Len(s) : s[i] \in S
  BY ElementOfSeq
<1>3. /\ SubSeq(s, k + 2, Len(s)) \in Seq(S)
      /\ Len(SubSeq(s, k + 2, Len(s))) = IF k + 2 <= Len(s) THEN Len(s) - (k + 2) + 1 ELSE 0
  BY <1>1, <1>2, SubSeqProperties
<1>4. k + 1 \in 1..Len(s) /\ Len(s) \in (k + 1)..Len(s) /\ k + 1 + 1 = k + 2
  BY <1>1
<1>5. Head(t) = s[k + 1] /\ Tail(t) = SubSeq(s, k + 2, Len(s))
  BY <1>4, HeadTailOfSubSeq
<1>6. Len(SubSeq(s, k + 2, Len(s))) = Len(s) - (k + 1)
  BY <1>1, <1>3
<1> QED
  BY <1>3, <1>5, <1>6, Zenon

LEMMA NextToken ==
  ASSUME IInv, pc = "tokens", tokens # <<>>
  PROVE  /\ file.type = "ADJACENCY_LIST" /\ u \in 1..Size
         /\ line \in Seq(Seq(Int)) /\ Taken \in Nat /\ Taken + 1 \in 1..Len(line)
         /\ \E i \in DOMAIN Text : line = Text[i]
         /\ Head(tokens) = line[Taken + 1]
         /\ Tail(tokens) = SubSeq(line, Taken + 2, Len(line))
         /\ Len(Tail(tokens)) = Len(line) - (Taken + 1)
         /\ Tail(tokens) \in Seq(Seq(Int))
<1>1. file.type = "ADJACENCY_LIST" /\ u \in 1..Size
  BY DEF IInv, Phases
<1>2. line \in Seq(Seq(Int)) /\ Len(line) \in Nat
  <2>1. CASE line = <<>>
    BY <2>1
  <2>2. ASSUME NEW i \in DOMAIN Text, line = Text[i]
        PROVE  line \in Seq(Seq(Int)) /\ Len(line) \in Nat
    BY <1>1, <2>2, Types
  <2> QED
    BY <2>1, <2>2 DEF IInv, TypeOK
<1>3. Len(tokens) \in Nat /\ Len(tokens) # 0
  BY Types, EmptySeq
<1>4. Taken \in Nat /\ Taken < Len(line) /\ tokens = SubSeq(line, Taken + 1, Len(line))
  <2>1. Taken \in 0..Len(line) /\ tokens = SubSeq(line, Taken + 1, Len(line))
    BY DEF IInv, TokensLeft
  <2>2. Taken < Len(line)
    BY <1>2, <1>3 DEF Taken
  <2> QED
    BY <1>2, <2>1, <2>2
<1>5. \E i \in DOMAIN Text : line = Text[i]
  <2>1. line # <<>>
    BY <1>2, <1>4
  <2> QED
    BY <2>1 DEF IInv, TypeOK
<1> DEFINE k == Taken
<1> HIDE DEF k
<1>6. k \in Nat /\ k < Len(line) /\ tokens = SubSeq(line, k + 1, Len(line))
  BY <1>4 DEF k
<1>7. /\ Head(tokens) = line[k + 1]
      /\ Tail(tokens) \in Seq(Seq(Int)) /\ Len(Tail(tokens)) = Len(line) - (k + 1)
      /\ Tail(tokens) = SubSeq(line, k + 2, Len(line))
  BY <1>2, <1>6, SuffixTail, Zenon
<1>8. Taken + 1 \in 1..Len(line)
  BY <1>2, <1>4
<1> QED
  BY <1>1, <1>2, <1>4, <1>5, <1>7, <1>8 DEF k

LEMMA ReadTokenInv == IInv /\ ReadToken => IInv'
<1> SUFFICES ASSUME IInv, ReadToken PROVE IInv'
  OBVIOUS
<1> DEFINE k == Taken  t == line[k + 1]
<1>1. /\ pc = "tokens" /\ tokens # <<>> /\ file' = file
      /\ Head(tokens) # <<>> /\ tokens' = Tail(tokens)
      /\ size_ = Size /\ UNCHANGED <<size_, is_directed_, u, v, line, next, eof>>
      /\ adjacency_matrix_ \in [0..Size -> [0..Size -> Int]]
  BY DEF ReadToken, IInv, Phases, Matrix
<1>2. /\ Size' = Size /\ Last' = Last /\ Text' = Text
      /\ WellFormed' <=> WellFormed
  BY <1>1, SameFile
<1>3. /\ file.type = "ADJACENCY_LIST" /\ u \in 1..Size
      /\ line \in Seq(Seq(Int)) /\ Len(line) \in Nat /\ k \in Nat /\ k + 1 \in 1..Len(line)
      /\ \E i \in DOMAIN Text : line = Text[i]
      /\ Head(tokens) = t
      /\ tokens' = SubSeq(line, k + 2, Len(line)) /\ tokens' \in Seq(Seq(Int))
      /\ Len(tokens') = Len(line) - (k + 1)
  <2>1. Len(line) \in Nat
    BY <1>1, NextToken
  <2> QED
    BY <1>1, <2>1, NextToken, Zenon
<1>4. Taken' = k + 1
  BY <1>1, <1>3 DEF Taken
<1> HIDE DEF k
<1>5. t \in Seq(Int) /\ t # <<>> /\ t[1] \in Int /\ Weight(t) \in Int
  <2>1. t \in Seq(Int) /\ t # <<>> /\ Len(t) \in Nat
    <3>1. t \in Seq(Int)
      BY <1>3, ElementOfSeq
    <3> QED
      BY <1>1, <1>3, <3>1, LenProperties
  <2>2. t[1] \in Int /\ (Len(t) = 2 => t[2] \in Int)
    BY <2>1
  <2> QED
    BY <2>1, <2>2 DEF Weight
<1> HIDE DEF t
<1>6. \/ /\ t[1] \in 0..Size /\ pc' = pc
         /\ adjacency_matrix_' = [adjacency_matrix_ EXCEPT ![u][t[1]] = Weight(t)]
      \/ /\ t[1] \notin 0..Size /\ pc' = "undefined"
         /\ adjacency_matrix_' = adjacency_matrix_
  BY <1>1, <1>3 DEF ReadToken, Allocated, Stored, Weight
<1>7. t[1] \in 0..Size =>
        /\ adjacency_matrix_' \in [0..Size -> [0..Size -> Int]]
        /\ \A a, b \in 0..Size : adjacency_matrix_'[a][b] =
             IF a = u /\ b = t[1] THEN Weight(t) ELSE adjacency_matrix_[a][b]
  <2> SUFFICES ASSUME t[1] \in 0..Size
               PROVE  /\ adjacency_matrix_' \in [0..Size -> [0..Size -> Int]]
                      /\ \A a, b \in 0..Size : adjacency_matrix_'[a][b] =
                           IF a = u /\ b = t[1] THEN Weight(t) ELSE adjacency_matrix_[a][b]
    OBVIOUS
  <2>1. adjacency_matrix_' = [adjacency_matrix_ EXCEPT ![u][t[1]] = Weight(t)]
    BY <1>6
  <2>2. u \in 0..Size /\ Size \in Nat
    BY <1>3, Sizes
  <2> QED
    BY <1>1, <1>5, <2>1, <2>2, StoredEntry, ZenonT(40)
<1>8. adjacency_matrix_' \in [0..Size -> [0..Size -> Int]]
  BY <1>1, <1>6, <1>7
<1>9. TypeOK'
  BY <1>1, <1>2, <1>3, <1>8 DEF IInv, TypeOK, Size, Last
<1>10. Phases' /\ Matrix'
  BY <1>1, <1>2, <1>3, <1>6, <1>8 DEF IInv, Phases, Matrix, Size
<1>11. PICK i \in DOMAIN Text : line = Text[i]
  BY <1>3
<1>12. UndefinedOnlyIfMalformed'
  <2> SUFFICES ASSUME t[1] \notin 0..Size
               PROVE  \E j \in DOMAIN Text[i] :
                        Text[i][j] # <<>> /\ Text[i][j][1] \notin 0..file.size
    BY <1>1, <1>2, <1>3, <1>6 DEF UndefinedOnlyIfMalformed
  <2>1. k + 1 \in DOMAIN line
    BY <1>3
  <2> QED
    BY <1>5, <1>11, <2>1 DEF t, Size
<1>13. RowsAccepted'
  <2> SUFFICES ASSUME WellFormed PROVE t[1] \in 0..Size
    BY <1>1, <1>2, <1>3, <1>6 DEF RowsAccepted
  <2>1. k + 1 \in DOMAIN line
    BY <1>3
  <2>2. line[k + 1][1] \in 1..Size
    BY <1>3, <1>11, <2>1 DEF WellFormed, Size
  <2> QED
    BY <2>2, Sizes DEF t
<1>14. StreamPosition'
  BY <1>1, <1>2, <1>3, <1>6 DEF IInv, StreamPosition, Begun
<1>15. TokensLeft'
  <2>1. k + 1 + 1 = k + 2 /\ k + 1 \in 0..Len(line)
    BY <1>3
  <2> QED
    BY <1>1, <1>3, <1>4, <2>1 DEF TokensLeft
<1>16. RowsRead'
  <2> SUFFICES ASSUME t[1] \in 0..Size, pc' = pc,
                      NEW a \in 1..Size, NEW b \in 1..Size
               PROVE  adjacency_matrix_'[a][b] =
                        IF a < u THEN LastOf(TokenEntries(RowLine(file, a), Len(RowLine(file, a)), b), 0)
                        ELSE IF a = u THEN LastOf(TokenEntries(line, k + 1, b), 0)
                        ELSE 0
    BY <1>1, <1>2, <1>4, <1>6 DEF RowsRead
  <2>1. adjacency_matrix_[a][b] =
          IF a < u THEN LastOf(TokenEntries(RowLine(file, a), Len(RowLine(file, a)), b), 0)
          ELSE IF a = u THEN LastOf(TokenEntries(line, k, b), 0)
          ELSE 0
    BY <1>1, <1>3 DEF IInv, RowsRead, k
  <2>2. adjacency_matrix_'[a][b] =
          IF a = u /\ b = t[1] THEN Weight(t) ELSE adjacency_matrix_[a][b]
    <3>1. a \in 0..Size /\ b \in 0..Size
      BY Sizes
    <3> HIDE DEF t
    <3> QED BY <1>7, <3>1
  <2>3. LastOf(TokenEntries(line, k + 1, b), 0) =
          IF t[1] = b THEN Weight(t) ELSE LastOf(TokenEntries(line, k, b), 0)
    <3>1. k \in Nat /\ t = line[k + 1]
      BY <1>3 DEF t
    <3> HIDE DEF k, t
    <3> QED BY <3>1, OneMoreToken, Zenon
  <2>4. CASE a < u
    BY <1>3, <2>1, <2>2, <2>4
  <2>5. CASE a = u
    <3>1. ~(a < u)
      BY <1>3, <2>5
    <3> QED
      BY <2>1, <2>2, <2>3, <2>5, <3>1, Zenon
  <2>6. CASE a > u
    BY <1>3, <2>1, <2>2, <2>6
  <2> QED
    BY <1>3, <2>4, <2>5, <2>6
<1>17. CellsRead' /\ ArcsRead' /\ Directed'
  BY <1>1, <1>3, <1>6 DEF CellsRead, ArcsRead, Directed
<1> QED
  BY <1>9, <1>10, <1>12, <1>13, <1>14, <1>15, <1>16, <1>17 DEF IInv

LEMMA BadTokenInv == IInv /\ BadToken => IInv'
<1> SUFFICES ASSUME IInv, BadToken PROVE IInv'
  OBVIOUS
<1>1. /\ pc = "tokens" /\ tokens # <<>> /\ Head(tokens) = <<>> /\ pc' = "failed"
      /\ UNCHANGED <<file, size_, adjacency_matrix_, is_directed_, u, v, line, tokens, next, eof>>
  BY DEF BadToken
<1>2. /\ Size' = Size /\ Last' = Last /\ Text' = Text
      /\ WellFormed' <=> WellFormed
  BY <1>1, SameFile
<1>3. ~WellFormed
  <2>1. /\ file.type = "ADJACENCY_LIST" /\ Taken + 1 \in 1..Len(line)
        /\ \E i \in DOMAIN Text : line = Text[i]
        /\ line[Taken + 1] = <<>> /\ line \in Seq(Seq(Int))
    BY <1>1, NextToken
  <2>2. PICK i \in DOMAIN Text : line = Text[i]
    BY <2>1
  <2>3. Taken + 1 \in DOMAIN Text[i] /\ Len(Text[i][Taken + 1]) = 0
    BY <2>1, <2>2
  <2>4. WellFormed => Len(Text[i][Taken + 1]) \in {1, 2}
    BY <2>1, <2>3 DEF WellFormed
  <2> QED
    BY <2>3, <2>4
<1>4. file.type = "ADJACENCY_LIST"
  BY <1>1, NextToken
<1>5. TypeOK'
  BY <1>1, <1>2 DEF IInv, TypeOK, Size, Last
<1>6. Phases' /\ Matrix'
  BY <1>1, <1>2, <1>4 DEF IInv, Phases, Matrix, Size
<1>7. CellsRead' /\ ArcsRead' /\ StreamPosition' /\ TokensLeft' /\ RowsRead' /\ RowsAccepted'
  BY <1>1, <1>2, <1>3, <1>4 DEF CellsRead, ArcsRead, StreamPosition, TokensLeft, RowsRead, RowsAccepted
<1> QED
  BY <1>1, <1>5, <1>6, <1>7, NotLoaded DEF IInv

LEMMA RowEndInv == IInv /\ RowEnd => IInv'
<1> SUFFICES ASSUME IInv, RowEnd PROVE IInv'
  OBVIOUS
<1>1. /\ pc = "tokens" /\ tokens = <<>> /\ u' = u + 1 /\ pc' = "ADJACENCY_LIST"
      /\ UNCHANGED <<file, size_, adjacency_matrix_, is_directed_, v, line, tokens, next, eof>>
      /\ file.type = "ADJACENCY_LIST" /\ u \in 1..Size /\ size_ = Size
  BY DEF RowEnd, IInv, Phases
<1>2. /\ Size' = Size /\ Last' = Last /\ Text' = Text
      /\ WellFormed' <=> WellFormed
  BY <1>1, SameFile
<1>3. Begun' = u + 1 /\ Begun = u + 1
  BY <1>1 DEF Begun
<1>4. Taken = Len(line)
  <2>1. line = <<>> \/ \E i \in DOMAIN Text : line = Text[i]
    BY DEF IInv, TypeOK
  <2>2. Len(line) \in Nat
    <3>1. CASE line = <<>>
      BY <3>1
    <3>2. ASSUME NEW i \in DOMAIN Text, line = Text[i] PROVE Len(line) \in Nat
      BY <1>1, <3>2, Types
    <3> QED
      BY <2>1, <3>1, <3>2
  <2> QED
    BY <1>1, <2>2 DEF Taken
<1>5. TypeOK'
  BY <1>1, <1>2, Sizes DEF IInv, TypeOK, Size, Last
<1>6. Phases' /\ Matrix'
  BY <1>1, <1>2 DEF IInv, Phases, Matrix, Size
<1>7. StreamPosition'
  BY <1>1, <1>2, <1>3 DEF IInv, StreamPosition
<1>8. RowsRead'
  <2> SUFFICES ASSUME NEW a \in 1..Size, NEW b \in 1..Size
               PROVE  adjacency_matrix_[a][b] =
                        IF a < u + 1
                        THEN LastOf(TokenEntries(RowLine(file, a), Len(RowLine(file, a)), b), 0)
                        ELSE 0
    BY <1>1, <1>2 DEF RowsRead
  <2>1. adjacency_matrix_[a][b] =
          IF a < u THEN LastOf(TokenEntries(RowLine(file, a), Len(RowLine(file, a)), b), 0)
          ELSE IF a = u THEN LastOf(TokenEntries(line, Len(line), b), 0)
          ELSE 0
    BY <1>1, <1>4 DEF IInv, RowsRead
  <2>2. line = RowLine(file, u)
    <3>1. line = RowLine(file, Begun - 1)
      BY <1>1 DEF IInv, StreamPosition
    <3>2. Begun - 1 = u
      BY <1>1, <1>3
    <3> QED
      BY <3>1, <3>2
  <2> QED
    BY <1>1, <2>1, <2>2, Sizes
<1>9. CellsRead' /\ ArcsRead' /\ TokensLeft' /\ RowsAccepted'
  BY <1>1 DEF CellsRead, ArcsRead, TokensLeft, RowsAccepted
<1> QED
  BY <1>1, <1>5, <1>6, <1>7, <1>8, <1>9, NotLoaded DEF IInv

LEMMA FinishInv == IInv /\ Finish => IInv'
<1> SUFFICES ASSUME IInv, Finish PROVE IInv'
  OBVIOUS
<1>1. /\ pc' = "loaded" /\ EndOfInput
      /\ pc \in {"MATRIX", "EDGES_LIST", "ADJACENCY_LIST"} /\ pc = file.type /\ size_ = Size
      /\ UNCHANGED <<file, size_, adjacency_matrix_, u, v, line, tokens, next, eof>>
      /\ adjacency_matrix_ \in [0..Size -> [0..Size -> Int]]
      /\ file.type # "EDGES_LIST" => u = Size + 1
  <2>1. /\ pc' = "loaded" /\ EndOfInput
        /\ UNCHANGED <<file, size_, adjacency_matrix_, u, v, line, tokens, next, eof>>
    BY DEF Finish
  <2>2. pc \in {"MATRIX", "EDGES_LIST", "ADJACENCY_LIST"}
    BY <2>1 DEF EndOfInput
  <2>3. pc = file.type /\ size_ = Size /\ adjacency_matrix_ \in [0..Size -> [0..Size -> Int]]
    BY <2>2 DEF IInv, Phases, Matrix
  <2>4. file.type # "EDGES_LIST" => u \in 1..(Size + 1) /\ u > Size
    BY <2>1, <2>3 DEF IInv, TypeOK, EndOfInput, Size
  <2> QED
    BY <2>1, <2>2, <2>3, <2>4, Sizes
<1>2. /\ Size' = Size /\ Last' = Last /\ Text' = Text
      /\ WellFormed' <=> WellFormed
  BY <1>1, SameFile
<1>3. is_directed_' = (\E a, b \in 1..Size : adjacency_matrix_[a][b] # adjacency_matrix_[b][a])
  <2>1. is_directed_' = G!CheckDirected(Visible)
    BY DEF Finish
  <2>2. /\ DOMAIN Visible = 1..Size
        /\ \A a, b \in 1..Size : Visible[a][b] = adjacency_matrix_[a][b]
    BY <1>1 DEF Visible
  <2>3. G!CheckDirected(Visible) =
          (\E a, b \in 1..Size : Visible[a][b] # Visible[b][a])
    BY <2>2 DEF G!CheckDirected, G!Vertices, G!weight
  <2>4. (\E a, b \in 1..Size : Visible[a][b] # Visible[b][a]) <=>
        (\E a, b \in 1..Size : adjacency_matrix_[a][b] # adjacency_matrix_[b][a])
    BY <2>2
  <2> QED
    BY <2>1, <2>3, <2>4
<1>4. is_directed_' \in BOOLEAN
  BY <1>3, Zenon
<1>5. TypeOK'
  BY <1>1, <1>2, <1>4 DEF IInv, TypeOK, Size, Last
<1>6. Phases' /\ Matrix'
  BY <1>1, <1>2 DEF IInv, Phases, Matrix, Size
<1>7. CellsRead'
  BY <1>1, <1>2 DEF IInv, CellsRead
<1>8. ArcsRead'
  <2>1. file.type = "EDGES_LIST" /\ WellFormed => next = Last + 1
    <3>1. file.type = "EDGES_LIST" => eof \/ next > Last
      BY <1>1, Sizes DEF EndOfInput, MoreLines, Last
    <3> QED
      BY <1>1, <3>1, Sizes DEF IInv, ArcsRead
  <2> QED
    BY <1>1, <1>2, <2>1 DEF IInv, ArcsRead
<1>9. StreamPosition'
  <2>1. Begun' = Begun
    BY <1>1 DEF Begun
  <2> QED
    BY <1>1, <1>2, <2>1 DEF IInv, StreamPosition
<1>10. RowsRead' /\ TokensLeft' /\ RowsAccepted'
  BY <1>1, <1>2 DEF IInv, RowsRead, TokensLeft, RowsAccepted
<1>11. Directed' /\ UndefinedOnlyIfMalformed'
  BY <1>1, <1>2, <1>3 DEF Directed, UndefinedOnlyIfMalformed
<1> QED
  BY <1>5, <1>6, <1>7, <1>8, <1>9, <1>10, <1>11 DEF IInv

LEMMA StutterInv == IInv /\ UNCHANGED vars => IInv'
<1> SUFFICES ASSUME IInv, UNCHANGED vars PROVE IInv'
  OBVIOUS
<1>1. UNCHANGED <<file, size_, adjacency_matrix_, is_directed_, u, v, line, tokens, next, eof, pc>>
  BY DEF vars
<1>2. /\ Size' = Size /\ Last' = Last /\ Text' = Text
      /\ WellFormed' <=> WellFormed
  BY <1>1, SameFile
<1>3. Begun' = Begun /\ Taken' = Taken
  BY <1>1 DEF Begun, Taken
<1>4. TypeOK' /\ Phases' /\ Matrix'
  BY <1>1, <1>2 DEF IInv, TypeOK, Phases, Matrix, Size, Last
<1>5. CellsRead' /\ ArcsRead' /\ StreamPosition' /\ TokensLeft' /\ RowsRead' /\ RowsAccepted'
  BY <1>1, <1>2, <1>3
  DEF IInv, CellsRead, ArcsRead, StreamPosition, TokensLeft, RowsRead, RowsAccepted
<1>6. Directed' /\ UndefinedOnlyIfMalformed'
  BY <1>1, <1>2 DEF IInv, Directed, UndefinedOnlyIfMalformed
<1> QED
  BY <1>4, <1>5, <1>6 DEF IInv

-----------------------------------------------------------------------------
(* The inductive invariant: what each loader has made of the file so far.  *)
THEOREM Invariance == Spec => []IInv
<1>1. IInv /\ [Next]_vars => IInv'
  BY OpenInv, CannotOpenInv, ReadEntryInv, ReadEdgeInv, ReadRowInv, ReadTokenInv, BadTokenInv,
     RowEndInv, FinishInv, StutterInv, Zenon
  DEF Next, Terminated
<1> QED
  BY InitInv, <1>1, PTL DEF Spec

(* The state keeps its types: the matrix has one row and one column more   *)
(* than the file announces, and no loader reads beyond the file.           *)
THEOREM TypeCorrect == Spec => []TypeOK
<1>1. IInv => TypeOK
  BY DEF IInv
<1> QED
  BY Invariance, <1>1, PTL

(* A loader leaves its matrix only for a vertex that the first line does   *)
(* not announce, or for a line without two ends, whatever the file holds.  *)
THEOREM StaysInsideTheMatrix == Spec => []UndefinedOnlyIfMalformed
<1>1. IInv => UndefinedOnlyIfMalformed
  BY DEF IInv
<1> QED
  BY Invariance, <1>1, PTL

(* What a file denotes is what all of its entries say. *)
LEMMA DenotedEntries ==
  ASSUME IInv
  PROVE  /\ file.type = "MATRIX" =>
              \A a, b : Denoted(a, b) = Text[(a - 1) * Size + b]
         /\ file.type = "EDGES_LIST" =>
              \A a, b : Denoted(a, b) = LastOf(ArcEntries(Text, Last, a, b), 0)
         /\ file.type = "ADJACENCY_LIST" => \A a, b : Denoted(a, b) = Row(a, b)
         /\ file.type = "ADJACENCY_LIST" =>
              \A a \in 1..Last : \A b : Row(a, b) =
                LastOf(TokenEntries(Text[a], Len(Text[a]), b), 0)
<1>1. ASSUME file.type = "EDGES_LIST", NEW a, NEW b
      PROVE  Denoted(a, b) = LastOf(ArcEntries(Text, Last, a, b), 0)
  BY <1>1, Types DEF Denoted, ArcEntries
<1>2. ASSUME file.type = "ADJACENCY_LIST", NEW a \in 1..Last, NEW b
      PROVE  Row(a, b) = LastOf(TokenEntries(Text[a], Len(Text[a]), b), 0)
  <2>1. DOMAIN Text[a] = 1..Len(Text[a])
    BY <1>2, Types
  <2> QED
    BY <2>1, Zenon DEF Row, TokenEntries, Weight
<1>3. file.type = "MATRIX" => \A a, b : Denoted(a, b) = Text[(a - 1) * Size + b]
  BY DEF Denoted, Size
<1>4. file.type = "ADJACENCY_LIST" => \A a, b : Denoted(a, b) = Row(a, b)
  BY DEF Denoted
<1> QED
  BY <1>1, <1>2, <1>3, <1>4

(* Every file that keeps to its format is loaded into the graph it         *)
(* denotes, with the directedness of its matrix; and the rows that an      *)
(* adjacency list lacks depend on the newline at its end.                  *)
THEOREM LoadsAsDenoted == Spec => []LoadsWhatTheFileSays
<1>1. ASSUME IInv, WellFormed, pc \in {"loaded", "failed", "undefined"}
      PROVE  /\ pc = "loaded" /\ size_ = Size
             /\ \A a, b \in 1..Size : adjacency_matrix_[a][b] = Denoted(a, b)
  <2>1. CASE file.type = "MATRIX"
    <3>1. pc = "loaded" /\ size_ = Size /\ u = Size + 1
      BY <1>1, <2>1 DEF IInv, Phases, WellFormed
    <3>2. \A a \in 1..Size : a < u
      BY <1>1, <3>1, Sizes
    <3>3. \A a, b \in 1..Size : adjacency_matrix_[a][b] = Text[(a - 1) * Size + b]
      BY <1>1, <2>1, <3>1, <3>2 DEF IInv, CellsRead
    <3> QED
      BY <1>1, <2>1, <3>1, <3>3, DenotedEntries
  <2>2. CASE file.type = "EDGES_LIST"
    <3>1. pc = "loaded" /\ next = Last + 1 /\ size_ = Size
      BY <1>1, <2>2 DEF IInv, ArcsRead, Phases
    <3>2. next - 1 = Last
      BY <1>1, <3>1, Sizes
    <3>3. \A a, b \in 1..Size : adjacency_matrix_[a][b] = LastOf(ArcEntries(Text, next - 1, a, b), 0)
      BY <1>1, <2>2, <3>1 DEF IInv, ArcsRead
    <3> QED
      BY <1>1, <2>2, <3>1, <3>2, <3>3, DenotedEntries
  <2>3. CASE file.type = "ADJACENCY_LIST"
    <3>1. pc = "loaded" /\ size_ = Size /\ u = Size + 1
      BY <1>1, <2>3 DEF IInv, RowsAccepted, Phases
    <3>2. Last = Size
      BY <1>1, <2>3 DEF WellFormed, Last, Size
    <3>3. ASSUME NEW a \in 1..Size, NEW b \in 1..Size
          PROVE  adjacency_matrix_[a][b] = Denoted(a, b)
      <4>1. a < u
        BY <1>1, <3>1, Sizes
      <4>2. RowLine(file, a) = Text[a]
        BY <3>2 DEF RowLine, Text, Last
      <4>3. adjacency_matrix_[a][b] =
              LastOf(TokenEntries(RowLine(file, a), Len(RowLine(file, a)), b), 0)
        BY <1>1, <2>3, <3>1, <4>1 DEF IInv, RowsRead
      <4> QED
        BY <1>1, <2>3, <3>2, <4>2, <4>3, DenotedEntries
    <3> QED
      BY <3>1, <3>3
  <2> QED
    BY <1>1, <2>1, <2>2, <2>3, Types
<1>2. ASSUME IInv PROVE WellFormedIsDenoted
  <2> SUFFICES ASSUME WellFormed, pc \in {"loaded", "failed", "undefined"}
               PROVE  /\ pc = "loaded"
                      /\ \A a, b \in 1..size_ : adjacency_matrix_[a][b] = Denoted(a, b)
                      /\ is_directed_ = (\E a, b \in 1..size_ : Denoted(a, b) # Denoted(b, a))
    BY DEF WellFormedIsDenoted
  <2>1. /\ pc = "loaded" /\ size_ = Size
        /\ \A a, b \in 1..Size : adjacency_matrix_[a][b] = Denoted(a, b)
    BY <1>1, <1>2
  <2>2. (\E a, b \in 1..Size : adjacency_matrix_[a][b] # adjacency_matrix_[b][a]) <=>
        (\E a, b \in 1..Size : Denoted(a, b) # Denoted(b, a))
    BY <2>1
  <2>3. is_directed_ = (\E a, b \in 1..Size : adjacency_matrix_[a][b] # adjacency_matrix_[b][a])
    BY <1>2, <2>1 DEF IInv, Directed
  <2> QED
    BY <2>1, <2>2, <2>3
<1>3. ASSUME IInv PROVE MissingRows
  <2> SUFFICES ASSUME pc = "loaded", file.type = "ADJACENCY_LIST", Text # <<>>,
                      NEW a \in (Last + 1)..size_, NEW b \in 1..size_
               PROVE  adjacency_matrix_[a][b] = IF file.newline THEN 0 ELSE Row(Last, b)
    BY DEF MissingRows, Last
  <2>1. size_ = Size /\ u = Size + 1
    BY <1>3 DEF IInv, Phases
  <2>2. Last >= 1
    BY <1>3, Types, EmptySeq DEF Last
  <2>3. a \in 1..Size /\ b \in 1..Size /\ a < u /\ a > Last
    BY <1>3, <2>1, <2>2, Sizes
  <2>4. adjacency_matrix_[a][b] =
          LastOf(TokenEntries(RowLine(file, a), Len(RowLine(file, a)), b), 0)
    BY <1>3, <2>1, <2>3 DEF IInv, RowsRead
  <2>5. CASE file.newline
    <3>1. RowLine(file, a) = <<>>
      BY <1>3, <2>3, <2>5, Sizes DEF RowLine, Last, Text
    <3>2. TokenEntries(<<>>, 0, b) = {}
      BY DEF TokenEntries
    <3> QED
      BY <2>4, <2>5, <3>1, <3>2, NoEntries
  <2>6. CASE ~file.newline
    <3>1. RowLine(file, a) = Text[Last]
      BY <1>3, <2>2, <2>3, <2>6, Sizes DEF RowLine, Last, Text
    <3>2. Last \in 1..Last
      BY <1>3, <2>2, Sizes
    <3> QED
      BY <1>3, <2>4, <2>6, <3>1, <3>2, DenotedEntries
  <2> QED
    BY <2>5, <2>6
<1> QED
  BY Invariance, <1>2, <1>3, PTL DEF LoadsWhatTheFileSays

-----------------------------------------------------------------------------
(* The ping server.                                                        *)

Byte == {"CR", "LF", "other"}

(* The delimiter lies in s behind offset i.                                *)
Found(s, i) ==
  /\ i + 4 <= Len(s)
  /\ s[i + 1] = "CR" /\ s[i + 2] = "LF" /\ s[i + 3] = "CR" /\ s[i + 4] = "LF"

Prefix(s, n) == SubSeq(s, 1, n)

Functions ==
  /\ sent \in [Clients -> Nat] /\ written \in [Clients -> Nat]
  /\ received \in [Clients -> Nat]
  /\ socket \in Clients \cup {Nobody}
  /\ buffer \in Seq(Byte)

BufferIsPrefix ==
  socket # Nobody =>
    /\ Len(buffer) <= sent[socket]
    /\ \A i \in 1..Len(buffer) : buffer[i] = request[socket][i]

NothingBefore == \A i \in 0..(search_position - 1) : ~MatchesAt(i, Delimiter)

PoliteStay == \A c \in Polite : end[c] = "open"

(* Only who has sent a header is answered, and the connection is closed    *)
(* only then.                                                              *)
ClosedAfterHeader ==
  \A c \in Clients : conn[c] = "closed" => HasHeader(Prefix(request[c], sent[c]))

ServerInv ==
  /\ ServerTypeOK /\ Functions
  /\ BufferIsPrefix /\ NothingBefore /\ HeaderFoundAtOnce
  /\ PoliteStay /\ EndedOnlyByAQuitter
  /\ ClosedAfterHeader /\ ResetOnlyWithABody

-----------------------------------------------------------------------------
(* Sequences of bytes.                                                     *)

LEMMA HeaderIsFound ==
  ASSUME NEW s \in Seq(Byte)
  PROVE  HasHeader(s) <=> \E i \in Nat : Found(s, i)
<1>1. Len(s) \in Nat /\ Len(Delimiter) = 4
  BY DEF Delimiter
<1>2. ASSUME NEW i \in 0..(Len(s) - 4)
      PROVE  SubSeq(s, i + 1, i + 4) = Delimiter <=> Found(s, i)
  <2> DEFINE t == SubSeq(s, i + 1, i + 4)
  <2>1. \A k \in (i + 1)..(i + 4) : s[k] \in Byte
    BY <1>1
  <2>2. /\ t \in Seq(Byte) /\ Len(t) = 4
        /\ t[1] = s[i + 1] /\ t[2] = s[i + 2] /\ t[3] = s[i + 3] /\ t[4] = s[i + 4]
    <3>1. /\ t \in Seq(Byte)
          /\ Len(t) = IF i + 1 <= i + 4 THEN i + 4 - (i + 1) + 1 ELSE 0
          /\ \A k \in 1..(i + 4 - (i + 1) + 1) : t[k] = s[i + 1 + k - 1]
      BY <1>1, <2>1, SubSeqProperties
    <3> QED
      BY <3>1
  <2> HIDE DEF t
  <2>3. Delimiter \in Seq(Byte) /\ Delimiter[1] = "CR" /\ Delimiter[2] = "LF"
        /\ Delimiter[3] = "CR" /\ Delimiter[4] = "LF"
    BY DEF Delimiter, Byte
  <2>4. t = Delimiter <=> \A k \in 1..4 : t[k] = Delimiter[k]
    BY <1>1, <2>2, <2>3, SeqEqual
  <2>5. t = Delimiter <=> t[1] = "CR" /\ t[2] = "LF" /\ t[3] = "CR" /\ t[4] = "LF"
    BY <2>3, <2>4
  <2> QED
    BY <1>1, <2>2, <2>5 DEF Found, t
<1>3. \A i \in Nat : Found(s, i) => i \in 0..(Len(s) - 4)
  BY <1>1 DEF Found
<1>4. HasHeader(s) <=> \E i \in 0..(Len(s) - 4) : SubSeq(s, i + 1, i + 4) = Delimiter
  BY <1>1, Zenon DEF HasHeader
<1>5. \A i \in 0..(Len(s) - 4) : SubSeq(s, i + 1, i + 4) = Delimiter <=> Found(s, i)
  BY <1>2
<1>6. \A i \in 0..(Len(s) - 4) : i \in Nat
  BY <1>1
<1> QED
  BY <1>3, <1>4, <1>5, <1>6, Zenon

LEMMA PrefixType ==
  ASSUME NEW s \in Seq(Byte), NEW n \in -1..Len(s)
  PROVE  /\ Prefix(s, n) \in Seq(Byte)
         /\ Len(Prefix(s, n)) = IF n = -1 THEN 0 ELSE n
         /\ \A k \in 1..n : Prefix(s, n)[k] = s[k]
<1>1. \A k \in 1..n : s[k] \in Byte
  OBVIOUS
<1>2. /\ Prefix(s, n) \in Seq(Byte)
      /\ Len(Prefix(s, n)) = IF 1 <= n THEN n - 1 + 1 ELSE 0
      /\ \A k \in 1..(n - 1 + 1) : Prefix(s, n)[k] = s[1 + k - 1]
  BY <1>1, SubSeqProperties DEF Prefix
<1> QED
  BY <1>2

LEMMA HeaderInPrefix ==
  ASSUME NEW s \in Seq(Byte), NEW n \in -1..Len(s)
  PROVE  HasHeader(Prefix(s, n)) <=> \E i \in Nat : Found(s, i) /\ i + 4 <= n
<1> DEFINE p == Prefix(s, n)
<1>1. /\ p \in Seq(Byte) /\ Len(p) = IF n = -1 THEN 0 ELSE n
      /\ \A k \in 1..n : p[k] = s[k]
  BY PrefixType
<1>2. HasHeader(p) <=> \E i \in Nat : Found(p, i)
  BY <1>1, HeaderIsFound
<1> HIDE DEF p
<1>3. ASSUME NEW i \in Nat
      PROVE  Found(p, i) <=> Found(s, i) /\ i + 4 <= n
  <2>1. CASE i + 4 <= n
    <3>1. {i + 1, i + 2, i + 3, i + 4} \subseteq 1..n
      BY <2>1
    <3> QED
      BY <1>1, <2>1, <3>1 DEF Found
  <2>2. CASE ~(i + 4 <= n)
    BY <1>1, <2>2 DEF Found
  <2> QED
    BY <2>1, <2>2
<1> QED
  BY <1>2, <1>3 DEF p

(* A header that has been found stays one, and ends where Header says or   *)
(* behind it.                                                              *)
LEMMA HeaderStays ==
  ASSUME NEW s \in Seq(Byte), NEW m \in -1..Len(s), NEW n \in m..Len(s),
         HasHeader(Prefix(s, m))
  PROVE  HasHeader(Prefix(s, n)) /\ HasHeader(s)
<1>1. PICK i \in Nat : Found(s, i) /\ i + 4 <= m
  BY HeaderInPrefix
<1>2. n \in -1..Len(s) /\ i + 4 <= n
  BY <1>1
<1> QED
  BY <1>1, <1>2, HeaderInPrefix, HeaderIsFound

LEMMA HeaderEnds ==
  ASSUME NEW c \in Clients, request[c] \in Seq(Byte), HasHeader(request[c])
  PROVE  /\ Header(c) \in 0..Len(request[c])
         /\ ~HasHeader(Prefix(request[c], Header(c) - 1))
<1> DEFINE r == request[c]
           T == { n \in 0..Len(r) : HasHeader(Prefix(r, n)) }
<1>1. Len(r) \in Nat
  OBVIOUS
<1>2. Len(r) \in T
  <2>1. Prefix(r, Len(r)) = r
    BY SubSeqFull DEF Prefix
  <2> QED
    BY <1>1, <2>1
<1>3. PICK m \in T : \A n \in T : m <= n
  <2>1. T \in SUBSET Nat /\ T # {}
    BY <1>1, <1>2
  <2> HIDE DEF T
  <2> QED
    BY <2>1, LeastNatural
<1>4. ~HasHeader(Prefix(r, m - 1))
  <2>1. CASE m = 0
    <3>1. \A i \in Nat : ~(i + 4 <= m - 1) /\ m - 1 \in -1..Len(r)
      BY <1>1, <2>1
    <3> QED
      BY <3>1, HeaderInPrefix
  <2>2. CASE m # 0
    BY <1>1, <1>3, <2>2
  <2> QED
    BY <2>1, <2>2
<1>5. \E n \in 0..Len(r) : HasHeader(SubSeq(r, 1, n)) /\ ~HasHeader(SubSeq(r, 1, n - 1))
  BY <1>3, <1>4 DEF Prefix
<1> QED
  BY <1>5 DEF Header, Prefix

-----------------------------------------------------------------------------
(* The search of read_until.                                               *)

LEMMA Facts ==
  ASSUME ServerInv
  PROVE  /\ buffer \in Seq(Byte) /\ Len(buffer) \in Nat
         /\ search_position \in 0..Len(buffer)
         /\ \A c \in Clients : /\ request[c] \in Seq(Byte) /\ Len(request[c]) \in Nat
                               /\ sent[c] \in Nat /\ sent[c] <= Len(request[c])
                               /\ written[c] \in 0..5 /\ received[c] \in 0..written[c]
         /\ Len(RESPONSE) = 5
         /\ phase # "accept" => socket \in Clients
<1>1. \A c \in Clients : request[c] \in Seq(Byte)
  BY ServerAssumption DEF ServerInv, ServerTypeOK, Byte, ServerAssumption
<1>2. Len(RESPONSE) = 5
  BY DEF RESPONSE
<1>3. phase # "accept" => socket \in Clients
  BY DEF ServerInv, ServerTypeOK, Functions
<1> QED
  BY <1>1, <1>2, <1>3 DEF ServerInv, ServerTypeOK, Functions

LEMMA MatchIsFound ==
  ASSUME buffer \in Seq(Byte), NEW i \in Nat
  PROVE  /\ FullMatch(i) <=> Found(buffer, i)
         /\ ~MatchesAt(i, Delimiter) => ~Found(buffer, i)
<1>1. /\ Len(Delimiter) = 4 /\ Delimiter[1] = "CR" /\ Delimiter[2] = "LF"
      /\ Delimiter[3] = "CR" /\ Delimiter[4] = "LF"
  BY DEF Delimiter
<1>2. Len(buffer) \in Nat
  OBVIOUS
<1>3. MatchesAt(i, Delimiter) <=> \A k \in 1..4 : i + k <= Len(buffer) => buffer[i + k] = Delimiter[k]
  BY <1>1, Zenon DEF MatchesAt
<1>4. i + 4 <= Len(buffer) => \A k \in 1..4 : i + k <= Len(buffer)
  BY <1>2
<1>5. i + 4 <= Len(buffer) =>
        (MatchesAt(i, Delimiter) <=> /\ buffer[i + 1] = "CR" /\ buffer[i + 2] = "LF"
                                     /\ buffer[i + 3] = "CR" /\ buffer[i + 4] = "LF")
  BY <1>1, <1>3, <1>4
<1> QED
  BY <1>1, <1>5, Zenon DEF FullMatch, Found

(* A search that fails has looked everywhere.                              *)
LEMMA SearchIsComplete ==
  ASSUME ServerInv, phase = "search"
  PROVE  /\ Candidate \in search_position..Len(buffer)
         /\ \A i \in 0..(Candidate - 1) : ~MatchesAt(i, Delimiter)
         /\ FullMatch(Candidate) <=> HasHeader(buffer)
<1> DEFINE I == { i \in search_position..(Len(buffer) - 1) : MatchesAt(i, Delimiter) }
<1>1. /\ buffer \in Seq(Byte) /\ Len(buffer) \in Nat
      /\ search_position \in Nat /\ search_position <= Len(buffer)
  BY Facts
<1>2. /\ \A i \in search_position..(Candidate - 1) : ~MatchesAt(i, Delimiter)
      /\ Candidate = Len(buffer) \/ Candidate \in I
  <2>1. CASE I = {}
    BY <1>1, <2>1 DEF Candidate
  <2>2. CASE I # {}
    <3>1. I \in SUBSET Nat
      BY <1>1
    <3>2. Candidate = CHOOSE i \in I : \A j \in I : i <= j
      BY <2>2 DEF Candidate
    <3> HIDE DEF I
    <3>3. Candidate \in I /\ \A j \in I : Candidate <= j
      BY <2>2, <3>1, <3>2, LeastNatural
    <3> USE DEF I
    <3> QED
      BY <1>1, <3>3
  <2> QED
    BY <2>1, <2>2
<1>0. Candidate \in search_position..Len(buffer)
  BY <1>1, <1>2
<1>3. \A i \in 0..(Candidate - 1) : ~MatchesAt(i, Delimiter)
  BY <1>0, <1>1, <1>2 DEF ServerInv, NothingBefore
<1>4. Candidate \in Nat
  BY <1>0, <1>1
<1>5. FullMatch(Candidate) => HasHeader(buffer)
  BY <1>1, <1>4, MatchIsFound, HeaderIsFound
<1>6. ASSUME HasHeader(buffer) PROVE FullMatch(Candidate)
  <2>1. PICK i \in Nat : Found(buffer, i)
    BY <1>1, <1>6, HeaderIsFound
  <2>2. MatchesAt(i, Delimiter) /\ i + 4 <= Len(buffer)
    BY <1>1, <2>1, MatchIsFound DEF Found
  <2>3. Candidate <= i
    BY <1>3, <1>4, <2>2
  <2>4. Candidate < Len(buffer) /\ Candidate + 4 <= Len(buffer)
    BY <1>1, <1>4, <2>2, <2>3
  <2>5. MatchesAt(Candidate, Delimiter)
    BY <1>1, <1>2, <1>4, <2>4
  <2> QED
    BY <2>4, <2>5 DEF FullMatch, Delimiter
<1> QED
  BY <1>0, <1>3, <1>5, <1>6

-----------------------------------------------------------------------------
(* The inductive invariant.                                                *)

LEMMA ServerInitInv == ServerInit => ServerInv
<1> SUFFICES ASSUME ServerInit PROVE ServerInv
  OBVIOUS
<1> USE DEF ServerInit
<1>1. ServerTypeOK /\ Functions
  <2>0. \A c \in Clients : request[c] \in Seq({"CR", "LF", "other"})
    BY ServerAssumption DEF ServerAssumption
  <2>1. \A c \in Clients : Len(request[c]) \in Nat
    BY <2>0, LenProperties
  <2>2. Len(RESPONSE) = 5 /\ Len(buffer) = 0
    BY DEF RESPONSE
  <2> QED
    BY <2>1, <2>2, ServerAssumption DEF ServerTypeOK, Functions, ServerAssumption
<1>2. BufferIsPrefix /\ NothingBefore /\ HeaderFoundAtOnce
  BY DEF BufferIsPrefix, NothingBefore, HeaderFoundAtOnce
<1>3. PoliteStay /\ EndedOnlyByAQuitter /\ ClosedAfterHeader /\ ResetOnlyWithABody
  BY ServerAssumption
  DEF PoliteStay, EndedOnlyByAQuitter, ClosedAfterHeader, ResetOnlyWithABody, ServerAssumption
<1> QED
  BY <1>1, <1>2, <1>3 DEF ServerInv

(* Nothing the clients do reaches the buffer before the server reads.      *)
LEMMA BufferKept ==
  ASSUME ServerInv, UNCHANGED <<request, phase, socket, buffer, search_position>>,
         \A c \in Clients : sent'[c] \in Nat /\ sent[c] <= sent'[c]
  PROVE  BufferIsPrefix' /\ NothingBefore' /\ HeaderFoundAtOnce'
<1>1. BufferIsPrefix'
  BY Facts DEF ServerInv, BufferIsPrefix, Functions
<1>2. NothingBefore' /\ HeaderFoundAtOnce'
  BY DEF ServerInv, NothingBefore, HeaderFoundAtOnce, MatchesAt, HasHeader
<1> QED
  BY <1>1, <1>2

LEMMA ConnectInv ==
  ASSUME ServerInv, NEW c \in Clients, Connect(c)
  PROVE  ServerInv'
<1>1. ServerTypeOK' /\ Functions'
  <2>1. backlog' \in Seq(Clients)
    BY DEF ServerInv, ServerTypeOK, Connect
  <2> QED
    BY <2>1 DEF ServerInv, ServerTypeOK, Functions, Connect
<1>2. BufferIsPrefix' /\ NothingBefore' /\ HeaderFoundAtOnce'
  BY Facts, BufferKept DEF Connect
<1>3. PoliteStay' /\ EndedOnlyByAQuitter' /\ ResetOnlyWithABody'
  BY DEF ServerInv, PoliteStay, EndedOnlyByAQuitter, ResetOnlyWithABody, Connect, HasHeader, Header
<1>4. ClosedAfterHeader'
  BY DEF ServerInv, ServerTypeOK, ClosedAfterHeader, Connect
<1> QED
  BY <1>1, <1>2, <1>3, <1>4 DEF ServerInv

LEMMA SendInv ==
  ASSUME ServerInv, NEW c \in Clients, Send(c)
  PROVE  ServerInv'
<1>1. /\ end[c] = "open" /\ sent[c] < Len(request[c])
      /\ \A d \in Clients : sent'[d] = IF d = c THEN sent[d] + 1 ELSE sent[d]
      /\ \A d \in Clients : reset'[d] = IF d = c THEN conn[d] = "closed" ELSE reset[d]
      /\ sent' \in [Clients -> Nat] /\ reset' \in [Clients -> BOOLEAN]
      /\ UNCHANGED <<request, conn, end, written, received, backlog, phase, socket, buffer,
                     search_position>>
  BY DEF ServerInv, ServerTypeOK, Functions, Send
<1>2. \A d \in Clients : /\ sent[d] \in Nat /\ sent'[d] \in Nat /\ sent[d] <= sent'[d]
                         /\ sent'[d] <= Len(request[d]) /\ Len(request[d]) \in Nat
                         /\ request[d] \in Seq(Byte)
  BY <1>1, Facts
<1>3. ServerTypeOK' /\ Functions'
  BY SMTT(30), <1>1, <1>2 DEF ServerInv, ServerTypeOK, Functions
<1>4. BufferIsPrefix' /\ NothingBefore' /\ HeaderFoundAtOnce'
  BY <1>1, <1>2, BufferKept
<1>5. PoliteStay'
  BY <1>1 DEF ServerInv, PoliteStay
<1>6. EndedOnlyByAQuitter'
  <2> SUFFICES ASSUME phase = "exit"
               PROVE  /\ socket \notin Polite
                      /\ \/ end[socket] = "gone"
                         \/ /\ end[socket] = "half"
                            /\ ~HasHeader(SubSeq(request[socket], 1, sent'[socket]))
    BY <1>1 DEF EndedOnlyByAQuitter, HasHeader
  <2>1. socket \in Clients
    BY Facts
  <2>2. end[socket] # "open"
    BY DEF ServerInv, EndedOnlyByAQuitter
  <2>3. sent'[socket] = sent[socket]
    BY <1>1, <2>1, <2>2
  <2> QED
    BY <2>3 DEF ServerInv, EndedOnlyByAQuitter
<1>7. ASSUME NEW d \in Clients, HasHeader(Prefix(request[d], sent[d]))
      PROVE  HasHeader(Prefix(request[d], sent'[d])) /\ HasHeader(request[d])
  <2>1. sent[d] \in -1..Len(request[d]) /\ sent'[d] \in sent[d]..Len(request[d])
    BY <1>2
  <2> QED
    BY <1>2, <1>7, <2>1, HeaderStays
<1>8. ClosedAfterHeader'
  BY <1>1, <1>7 DEF ServerInv, ClosedAfterHeader, Prefix, HasHeader
<1>9. ASSUME NEW d \in Clients, reset'[d]
      PROVE  HasHeader(request[d]) /\ sent'[d] > Header(d)
  <2>1. CASE d # c
    BY <1>1, <1>9, <2>1 DEF ServerInv, ResetOnlyWithABody
  <2>2. CASE d = c
    <3>1. HasHeader(Prefix(request[d], sent[d]))
      BY <1>1, <1>9, <2>2 DEF ServerInv, ClosedAfterHeader
    <3>2. HasHeader(request[d])
      BY <1>7, <3>1
    <3>3. Header(d) <= sent[d]
      <4>1. /\ Header(d) \in 0..Len(request[d])
            /\ ~HasHeader(Prefix(request[d], Header(d) - 1))
        BY <1>2, <3>2, HeaderEnds
      <4>2. CASE sent[d] <= Header(d) - 1
        <5>1. sent[d] \in -1..Len(request[d]) /\ Header(d) - 1 \in sent[d]..Len(request[d])
          BY <1>2, <4>1, <4>2
        <5> QED
          BY <1>2, <3>1, <4>1, <5>1, HeaderStays
      <4> QED
        BY <1>2, <4>1, <4>2
    <3>4. Header(d) \in Nat
      BY <1>2, <3>2, HeaderEnds
    <3> QED
      BY <1>1, <1>2, <2>2, <3>2, <3>3, <3>4
  <2> QED
    BY <2>1, <2>2
<1>10. ResetOnlyWithABody'
  BY <1>1, <1>9 DEF ResetOnlyWithABody, Header, HasHeader
<1> QED
  BY <1>3, <1>4, <1>5, <1>6, <1>8, <1>10 DEF ServerInv

LEMMA QuitInv ==
  ASSUME ServerInv, NEW c \in Clients, Quit(c)
  PROVE  ServerInv'
<1>1. /\ c \notin Polite /\ end[c] # "gone"
      /\ UNCHANGED <<request, sent, conn, written, received, reset, backlog, phase, socket, buffer,
                     search_position>>
  BY DEF Quit
<1>2. PICK e \in {"half", "gone"} \ {end[c]} : end' = [end EXCEPT ![c] = e]
  BY DEF Quit
<1>3. /\ \A d \in Clients : end'[d] = IF d = c THEN e ELSE end[d]
      /\ end' \in [Clients -> {"open", "half", "gone"}]
  BY <1>2 DEF ServerInv, ServerTypeOK
<1>4. ServerTypeOK' /\ Functions'
  BY <1>1, <1>3 DEF ServerInv, ServerTypeOK, Functions
<1>5. BufferIsPrefix' /\ NothingBefore' /\ HeaderFoundAtOnce'
  BY <1>1, Facts, BufferKept
<1>6. PoliteStay'
  BY <1>1, <1>3, ServerAssumption DEF ServerInv, PoliteStay, ServerAssumption
<1>7. EndedOnlyByAQuitter'
  <2> SUFFICES ASSUME phase = "exit"
               PROVE  /\ socket \notin Polite
                      /\ \/ end'[socket] = "gone"
                         \/ /\ end'[socket] = "half"
                            /\ ~HasHeader(SubSeq(request[socket], 1, sent[socket]))
    BY <1>1 DEF EndedOnlyByAQuitter, HasHeader
  <2>1. socket \in Clients
    BY Facts
  <2>2. /\ socket \notin Polite
        /\ \/ end[socket] = "gone"
           \/ end[socket] = "half" /\ ~HasHeader(SubSeq(request[socket], 1, sent[socket]))
    BY DEF ServerInv, EndedOnlyByAQuitter
  <2> QED
    BY <1>1, <1>3, <2>1, <2>2
<1>8. ClosedAfterHeader' /\ ResetOnlyWithABody'
  BY <1>1 DEF ServerInv, ClosedAfterHeader, ResetOnlyWithABody, Prefix, HasHeader, Header
<1> QED
  BY <1>4, <1>5, <1>6, <1>7, <1>8 DEF ServerInv

LEMMA DeliverInv ==
  ASSUME ServerInv, NEW c \in Clients, Deliver(c)
  PROVE  ServerInv'
<1>1. /\ received[c] < written[c]
      /\ \A d \in Clients : received'[d] = IF d = c THEN received[d] + 1 ELSE received[d]
      /\ received' \in [Clients -> Nat]
      /\ UNCHANGED <<request, sent, conn, end, written, reset, backlog, phase, socket, buffer,
                     search_position>>
  BY DEF ServerInv, Functions, Deliver
<1>2. ServerTypeOK' /\ Functions'
  <2>1. \A d \in Clients : received'[d] \in 0..written[d]
    <3> SUFFICES ASSUME NEW d \in Clients PROVE received'[d] \in 0..written[d]
      OBVIOUS
    <3>1. written[d] \in Nat /\ received[d] \in 0..written[d]
      BY DEF ServerInv, ServerTypeOK, Functions
    <3> QED
      BY <1>1, <3>1
  <2> QED
    BY <1>1, <2>1 DEF ServerInv, ServerTypeOK, Functions
<1>3. BufferIsPrefix' /\ NothingBefore' /\ HeaderFoundAtOnce'
  BY <1>1, Facts, BufferKept
<1>4. PoliteStay' /\ EndedOnlyByAQuitter' /\ ClosedAfterHeader' /\ ResetOnlyWithABody'
  BY <1>1 DEF ServerInv, PoliteStay, EndedOnlyByAQuitter, ClosedAfterHeader, ResetOnlyWithABody,
              Prefix, HasHeader, Header
<1> QED
  BY <1>2, <1>3, <1>4 DEF ServerInv

-----------------------------------------------------------------------------
(* The server's own steps.                                                 *)

LEMMA AcceptInv ==
  ASSUME ServerInv, Accept
  PROVE  ServerInv'
<1>1. /\ phase = "accept" /\ backlog # <<>>
      /\ socket' = Head(backlog) /\ backlog' = Tail(backlog)
      /\ buffer' = <<>> /\ search_position' = 0 /\ phase' = "search"
      /\ UNCHANGED <<request, sent, conn, end, received, written, reset>>
  BY DEF Accept, clientVars
<1>2. socket' \in Clients /\ backlog' \in Seq(Clients)
  <2>1. backlog \in Seq(Clients)
    BY DEF ServerInv, ServerTypeOK
  <2> QED
    BY <1>1, <2>1, HeadTailProperties
<1>3. buffer' \in Seq(Byte) /\ Len(buffer') = 0
  BY <1>1
<1>4. ServerTypeOK' /\ Functions'
  <2>1. socket' # Nobody /\ search_position' \in 0..Len(buffer')
    BY <1>1, <1>2, <1>3, ServerAssumption DEF ServerAssumption
  <2> QED
    BY <1>1, <1>2, <1>3, <2>1 DEF ServerInv, ServerTypeOK, Functions
<1>5. BufferIsPrefix' /\ NothingBefore' /\ HeaderFoundAtOnce'
  BY <1>1, <1>2, <1>3, Facts DEF BufferIsPrefix, NothingBefore, HeaderFoundAtOnce
<1>6. PoliteStay' /\ EndedOnlyByAQuitter' /\ ClosedAfterHeader' /\ ResetOnlyWithABody'
  BY <1>1 DEF ServerInv, PoliteStay, EndedOnlyByAQuitter, ClosedAfterHeader, ResetOnlyWithABody,
              Prefix, HasHeader, Header
<1> QED
  BY <1>4, <1>5, <1>6 DEF ServerInv

LEMMA SearchInv ==
  ASSUME ServerInv, Search
  PROVE  ServerInv'
<1>1. /\ phase = "search"
      /\ \/ FullMatch(Candidate) /\ phase' = "write" /\ search_position' = search_position
         \/ ~FullMatch(Candidate) /\ phase' = "read" /\ search_position' = Candidate
      /\ UNCHANGED <<request, sent, conn, end, received, written, reset, backlog, socket, buffer>>
  BY DEF Search, clientVars
<1>2. /\ Candidate \in search_position..Len(buffer)
      /\ \A i \in 0..(Candidate - 1) : ~MatchesAt(i, Delimiter)
      /\ FullMatch(Candidate) <=> HasHeader(buffer)
  BY <1>1, SearchIsComplete
<1>3. ServerTypeOK' /\ Functions'
  <2>1. search_position' \in 0..Len(buffer)
    BY <1>1, <1>2, Facts
  <2> QED
    BY <1>1, <2>1 DEF ServerInv, ServerTypeOK, Functions
<1>4. BufferIsPrefix'
  BY <1>1 DEF ServerInv, BufferIsPrefix
<1>5. NothingBefore'
  <2>1. \A i : MatchesAt(i, Delimiter)' <=> MatchesAt(i, Delimiter)
    BY <1>1 DEF MatchesAt
  <2> QED
    BY <1>1, <1>2, <2>1 DEF ServerInv, NothingBefore
<1>6. HeaderFoundAtOnce'
  BY <1>1, <1>2 DEF HeaderFoundAtOnce, HasHeader
<1>7. PoliteStay' /\ EndedOnlyByAQuitter' /\ ClosedAfterHeader' /\ ResetOnlyWithABody'
  BY <1>1 DEF ServerInv, PoliteStay, EndedOnlyByAQuitter, ClosedAfterHeader, ResetOnlyWithABody,
              Prefix, HasHeader, Header
<1> QED
  BY <1>3, <1>4, <1>5, <1>6, <1>7 DEF ServerInv

(* What has arrived but has not been read.                                 *)
LEMMA ArrivedBytes ==
  ASSUME ServerInv, socket \in Clients
  PROVE  /\ Arrived \in Seq(Byte) /\ Len(Arrived) = sent[socket] - Len(buffer)
         /\ \A i \in 1..Len(Arrived) : Arrived[i] = request[socket][Len(buffer) + i]
<1> DEFINE m == Len(buffer) + 1  n == sent[socket]  r == request[socket]
<1>1. /\ m \in Nat /\ n \in Nat /\ n <= Len(r) /\ m <= n + 1 /\ m >= 1
      /\ r \in Seq(Byte) /\ Len(r) \in Nat /\ Len(buffer) \in Nat
  BY Facts, ServerAssumption DEF ServerInv, BufferIsPrefix, ServerAssumption
<1>2. \A i \in m..n : r[i] \in Byte
  BY <1>1
<1> HIDE DEF r, n
<1>3. /\ SubSeq(r, m, n) \in Seq(Byte)
      /\ Len(SubSeq(r, m, n)) = IF m <= n THEN n - m + 1 ELSE 0
      /\ \A i \in 1..(n - m + 1) : SubSeq(r, m, n)[i] = r[m + i - 1]
  BY <1>1, <1>2, SubSeqProperties
<1>4. Arrived = SubSeq(r, m, n)
  BY DEF Arrived, r, n
<1>5. Len(Arrived) = n - Len(buffer)
  BY <1>1, <1>3, <1>4
<1>6. \A i \in 1..Len(Arrived) : Arrived[i] = r[Len(buffer) + i]
  <2> SUFFICES ASSUME NEW i \in 1..Len(Arrived) PROVE Arrived[i] = r[Len(buffer) + i]
    OBVIOUS
  <2>1. i \in 1..(n - m + 1) /\ m + i - 1 = Len(buffer) + i
    BY <1>1, <1>5
  <2> QED
    BY <1>3, <1>4, <2>1
<1> QED
  BY <1>3, <1>4, <1>5, <1>6 DEF r, n

(* A read adds to the buffer; a mismatch stays one.                        *)
LEMMA ReadInv ==
  ASSUME ServerInv, Read
  PROVE  ServerInv'
<1> DEFINE n == IF Len(Arrived) < ReadSize THEN Len(Arrived) ELSE ReadSize
           t == SubSeq(Arrived, 1, n)
<1>1. /\ phase = "read" /\ Arrived # <<>> /\ buffer' = buffer \o t /\ phase' = "search"
      /\ UNCHANGED <<request, sent, conn, end, received, written, reset, backlog, socket,
                     search_position>>
  BY DEF Read, clientVars
<1>2. socket \in Clients /\ socket # Nobody
  BY <1>1, Facts, ServerAssumption DEF ServerAssumption
<1>3. /\ Arrived \in Seq(Byte) /\ Len(Arrived) = sent[socket] - Len(buffer)
      /\ \A i \in 1..Len(Arrived) : Arrived[i] = request[socket][Len(buffer) + i]
  BY <1>2, ArrivedBytes
<1>4. Len(Arrived) \in Nat /\ n \in Nat /\ n <= Len(Arrived)
  BY <1>3, ServerAssumption DEF ServerAssumption
<1> HIDE DEF n
<1>5. t \in Seq(Byte) /\ Len(t) = n /\ \A i \in 1..n : t[i] = Arrived[i]
  <2>1. n \in -1..Len(Arrived) /\ n # -1
    BY <1>4
  <2> QED
    BY <1>3, <2>1, PrefixType DEF Prefix
<1> HIDE DEF t
<1>6. buffer \in Seq(Byte) /\ Len(buffer) \in Nat /\ sent[socket] \in Nat
  BY <1>2, Facts
<1>7. /\ buffer' \in Seq(Byte) /\ Len(buffer') = Len(buffer) + n
      /\ \A i \in 1..(Len(buffer) + n) :
           buffer'[i] = IF i <= Len(buffer) THEN buffer[i] ELSE t[i - Len(buffer)]
  <2> DEFINE c == buffer \o t
  <2>1. /\ c \in Seq(Byte) /\ Len(c) = Len(buffer) + Len(t)
        /\ \A i \in 1..(Len(buffer) + Len(t)) :
             c[i] = IF i <= Len(buffer) THEN buffer[i] ELSE t[i - Len(buffer)]
    BY <1>5, <1>6, ConcatProperties
  <2>2. buffer' = c
    BY <1>1
  <2> HIDE DEF c
  <2> QED
    BY <1>5, <2>1, <2>2
<1>8. BufferIsPrefix'
  <2> SUFFICES /\ Len(buffer') <= sent[socket]
               /\ \A i \in 1..Len(buffer') : buffer'[i] = request[socket][i]
    BY <1>1 DEF BufferIsPrefix
  <2>1. Len(buffer') <= sent[socket]
    BY <1>3, <1>4, <1>6, <1>7
  <2>2. ASSUME NEW i \in 1..Len(buffer')
        PROVE  buffer'[i] = request[socket][i]
    <3>1. CASE i <= Len(buffer)
      <4>1. i \in 1..Len(buffer) /\ i \in 1..(Len(buffer) + n)
        BY <1>4, <1>6, <1>7, <3>1
      <4>2. buffer[i] = request[socket][i]
        BY <1>2, <4>1 DEF ServerInv, BufferIsPrefix
      <4>3. request' = request /\ socket' = socket
        BY <1>1
      <4> QED BY <1>7, <3>1, <4>1, <4>2, <4>3
    <3>2. CASE ~(i <= Len(buffer))
      <4>1. i - Len(buffer) \in 1..n /\ Len(buffer) + (i - Len(buffer)) = i
        BY <1>4, <1>6, <1>7, <3>2
      <4>2. buffer'[i] = Arrived[i - Len(buffer)] /\ i - Len(buffer) \in 1..Len(Arrived)
        BY <1>4, <1>5, <1>6, <1>7, <3>2, <4>1
      <4> QED
        BY <1>3, <4>1, <4>2
    <3> QED
      BY <3>1, <3>2
  <2> QED
    BY <2>1, <2>2
<1>9. ServerTypeOK' /\ Functions'
  <2>1. search_position' \in 0..Len(buffer')
    BY <1>1, <1>4, <1>6, <1>7, Facts
  <2> QED
    BY <1>1, <1>2, <1>7, <2>1 DEF ServerInv, ServerTypeOK, Functions
<1>10. NothingBefore'
  <2> SUFFICES ASSUME NEW i \in 0..(search_position - 1)
               PROVE  ~(MatchesAt(i, Delimiter)')
    BY <1>1 DEF NothingBefore
  <2>1. PICK k \in 1..Len(Delimiter) : i + k <= Len(buffer) /\ buffer[i + k] # Delimiter[k]
    BY DEF ServerInv, NothingBefore, MatchesAt
  <2>2. k \in 1..4
    BY DEF Delimiter
  <2>3. i + k \in 1..(Len(buffer) + n) /\ i + k <= Len(buffer) + n
    BY <1>4, <1>6, <2>1, <2>2, Facts
  <2>4. buffer'[i + k] = buffer[i + k] /\ i + k <= Len(buffer')
    BY <1>7, <2>1, <2>3
  <2> QED
    BY <2>1, <2>4 DEF MatchesAt
<1>11. HeaderFoundAtOnce'
  BY <1>1 DEF HeaderFoundAtOnce
<1>12. PoliteStay' /\ EndedOnlyByAQuitter' /\ ClosedAfterHeader' /\ ResetOnlyWithABody'
  BY <1>1 DEF ServerInv, PoliteStay, EndedOnlyByAQuitter, ClosedAfterHeader, ResetOnlyWithABody,
              Prefix, HasHeader, Header
<1> QED
  BY <1>8, <1>9, <1>10, <1>11, <1>12 DEF ServerInv

(* Only a client that quits makes the server leave.                        *)
LEMMA ReadFailsInv ==
  ASSUME ServerInv, ReadFails
  PROVE  ServerInv'
<1>1. /\ phase = "read" /\ phase' = "exit"
      /\ end[socket] = "gone" \/ (end[socket] = "half" /\ Arrived = <<>>)
      /\ UNCHANGED <<request, sent, conn, end, received, written, reset, backlog, socket, buffer,
                     search_position>>
  BY DEF ReadFails, clientVars
<1>2. socket \in Clients /\ socket # Nobody
  BY <1>1, Facts, ServerAssumption DEF ServerAssumption
<1>3. ServerTypeOK' /\ Functions'
  BY <1>1 DEF ServerInv, ServerTypeOK, Functions
<1>4. BufferIsPrefix' /\ NothingBefore' /\ HeaderFoundAtOnce'
  BY <1>1 DEF ServerInv, BufferIsPrefix, NothingBefore, HeaderFoundAtOnce, MatchesAt
<1>5. PoliteStay' /\ ClosedAfterHeader' /\ ResetOnlyWithABody'
  BY <1>1 DEF ServerInv, PoliteStay, ClosedAfterHeader, ResetOnlyWithABody, Prefix, HasHeader, Header
<1>6. Arrived = <<>> => ~HasHeader(Prefix(request[socket], sent[socket]))
  <2> SUFFICES ASSUME Arrived = <<>>
               PROVE  ~HasHeader(Prefix(request[socket], sent[socket]))
    OBVIOUS
  <2> DEFINE p == Prefix(request[socket], sent[socket])
  <2>1. request[socket] \in Seq(Byte) /\ sent[socket] \in 0..Len(request[socket])
        /\ buffer \in Seq(Byte) /\ Len(buffer) \in Nat /\ sent[socket] \in Nat
    BY <1>2, Facts
  <2>2. Len(buffer) = sent[socket]
    BY <1>2, <2>1, ArrivedBytes
  <2>3. /\ p \in Seq(Byte) /\ Len(p) = sent[socket]
        /\ \A k \in 1..sent[socket] : p[k] = request[socket][k]
    <3>1. sent[socket] \in -1..Len(request[socket]) /\ sent[socket] # -1
      BY <2>1
    <3> QED
      BY <2>1, <3>1, PrefixType
  <2>4. \A k \in 1..Len(buffer) : buffer[k] = request[socket][k]
    BY <1>2 DEF ServerInv, BufferIsPrefix
  <2> HIDE DEF p
  <2>5. p = buffer
    BY <2>1, <2>2, <2>3, <2>4, SeqEqual
  <2> QED
    BY <1>1, <2>5 DEF ServerInv, HeaderFoundAtOnce, p
<1>7. EndedOnlyByAQuitter'
  BY <1>1, <1>2, <1>6 DEF ServerInv, PoliteStay, EndedOnlyByAQuitter, Prefix, HasHeader
<1> QED
  BY <1>3, <1>4, <1>5, <1>7 DEF ServerInv

LEMMA WriteInv ==
  ASSUME ServerInv, Write
  PROVE  ServerInv'
<1>1. /\ phase = "write" /\ written[socket] < Len(RESPONSE)
      /\ UNCHANGED <<request, sent, conn, end, received, reset, backlog, phase, socket, buffer,
                     search_position>>
  BY DEF Write, clientVars
<1>2. PICK n \in (written[socket] + 1)..Len(RESPONSE) : written' = [written EXCEPT ![socket] = n]
  BY DEF Write
<1>3. /\ socket \in Clients /\ Len(RESPONSE) = 5 /\ written[socket] \in Nat /\ n \in Nat
      /\ written[socket] <= n /\ n <= 5
  <2>1. socket \in Clients /\ Len(RESPONSE) = 5
    BY <1>1, Facts
  <2>2. written[socket] \in 0..5
    BY <2>1, Facts
  <2> QED
    BY <1>2, <2>1, <2>2
<1>4. ServerTypeOK' /\ Functions'
  <2>1. /\ \A d \in Clients : written'[d] = IF d = socket THEN n ELSE written[d]
        /\ written' \in [Clients -> Nat]
    BY <1>2, <1>3 DEF ServerInv, Functions
  <2>2. \A d \in Clients : /\ written'[d] \in 0..Len(RESPONSE)
                           /\ received[d] \in 0..written'[d]
    <3> SUFFICES ASSUME NEW d \in Clients
                 PROVE  written'[d] \in 0..5 /\ received[d] \in 0..written'[d]
      BY <1>3
    <3>1. written[d] \in 0..5 /\ received[d] \in 0..written[d]
      BY Facts
    <3> QED
      BY <1>3, <2>1, <3>1
  <2> QED
    BY <1>1, <2>1, <2>2 DEF ServerInv, ServerTypeOK, Functions
<1>5. BufferIsPrefix' /\ NothingBefore' /\ HeaderFoundAtOnce'
  BY <1>1, Facts, BufferKept
<1>6. PoliteStay' /\ EndedOnlyByAQuitter' /\ ClosedAfterHeader' /\ ResetOnlyWithABody'
  BY <1>1 DEF ServerInv, PoliteStay, EndedOnlyByAQuitter, ClosedAfterHeader, ResetOnlyWithABody,
              Prefix, HasHeader, Header
<1> QED
  BY <1>4, <1>5, <1>6 DEF ServerInv

LEMMA WriteFailsInv ==
  ASSUME ServerInv, WriteFails
  PROVE  ServerInv'
<1>1. /\ phase = "write" /\ phase' = "exit" /\ end[socket] = "gone"
      /\ UNCHANGED <<request, sent, conn, end, received, written, reset, backlog, socket, buffer,
                     search_position>>
  BY DEF WriteFails, clientVars
<1>2. ServerTypeOK' /\ Functions'
  BY <1>1 DEF ServerInv, ServerTypeOK, Functions
<1>3. BufferIsPrefix' /\ NothingBefore' /\ HeaderFoundAtOnce'
  BY <1>1 DEF ServerInv, BufferIsPrefix, NothingBefore, HeaderFoundAtOnce, MatchesAt
<1>4. PoliteStay' /\ EndedOnlyByAQuitter' /\ ClosedAfterHeader' /\ ResetOnlyWithABody'
  BY <1>1 DEF ServerInv, PoliteStay, EndedOnlyByAQuitter, ClosedAfterHeader, ResetOnlyWithABody,
              Prefix, HasHeader, Header
<1> QED
  BY <1>2, <1>3, <1>4 DEF ServerInv

(* What the buffer holds is a header, and what is unread lies behind it.   *)
LEMMA CloseInv ==
  ASSUME ServerInv, Close
  PROVE  ServerInv'
<1>1. /\ phase = "write" /\ phase' = "accept" /\ socket' = Nobody
      /\ buffer' = <<>> /\ search_position' = 0
      /\ conn' = [conn EXCEPT ![socket] = "closed"]
      /\ reset' = [reset EXCEPT ![socket] = (Arrived # <<>>)]
      /\ UNCHANGED <<request, sent, end, written, received, backlog>>
  BY DEF Close
<1>2. socket \in Clients /\ socket # Nobody
  BY <1>1, Facts, ServerAssumption DEF ServerAssumption
<1>3. /\ \A d \in Clients : conn'[d] = IF d = socket THEN "closed" ELSE conn[d]
      /\ \A d \in Clients : reset'[d] = IF d = socket THEN Arrived # <<>> ELSE reset[d]
      /\ conn' \in [Clients -> {"none", "open", "closed"}]
      /\ reset' \in [Clients -> BOOLEAN]
  BY <1>1, <1>2 DEF ServerInv, ServerTypeOK
<1>4. ServerTypeOK' /\ Functions'
  <2>1. buffer' \in Seq(Byte) /\ search_position' \in 0..Len(buffer')
    BY <1>1
  <2> QED
    BY <1>1, <1>3, <2>1 DEF ServerInv, ServerTypeOK, Functions
<1>5. BufferIsPrefix' /\ NothingBefore' /\ HeaderFoundAtOnce'
  BY <1>1 DEF BufferIsPrefix, NothingBefore, HeaderFoundAtOnce
<1>6. PoliteStay' /\ EndedOnlyByAQuitter'
  BY <1>1 DEF ServerInv, PoliteStay, EndedOnlyByAQuitter
<1> DEFINE r == request[socket]  b == Len(buffer)
<1>7. /\ r \in Seq(Byte) /\ Len(r) \in Nat /\ b \in Nat /\ sent[socket] \in Nat
      /\ b <= sent[socket] /\ sent[socket] <= Len(r)
      /\ \A k \in 1..b : buffer[k] = r[k]
  BY <1>2, Facts DEF ServerInv, BufferIsPrefix
<1>8. HasHeader(Prefix(r, b))
  <2>1. b \in -1..Len(r) /\ b # -1 /\ buffer \in Seq(Byte)
    BY <1>7, Facts
  <2>2. /\ Prefix(r, b) \in Seq(Byte) /\ Len(Prefix(r, b)) = b
        /\ \A k \in 1..b : Prefix(r, b)[k] = r[k]
    BY <1>7, <2>1, PrefixType
  <2>3. Prefix(r, b) = buffer
    BY <1>7, <2>1, <2>2, SeqEqual
  <2> QED
    BY <1>1, <2>3 DEF ServerInv, HeaderFoundAtOnce
<1>9. HasHeader(Prefix(r, sent[socket])) /\ HasHeader(r)
  <2>1. b \in -1..Len(r) /\ sent[socket] \in b..Len(r)
    BY <1>7
  <2> QED
    BY <1>7, <1>8, <2>1, HeaderStays
<1>10. ClosedAfterHeader'
  BY <1>1, <1>3, <1>9 DEF ServerInv, ClosedAfterHeader, Prefix, HasHeader
<1>11. Arrived # <<>> => sent[socket] > Header(socket)
  <2> SUFFICES ASSUME Arrived # <<>> PROVE sent[socket] > Header(socket)
    OBVIOUS
  <2>1. b < sent[socket]
    <3>1. Arrived \in Seq(Byte) /\ Len(Arrived) = sent[socket] - b
      BY <1>2, ArrivedBytes
    <3>2. Len(Arrived) # 0
      BY <3>1, EmptySeq
    <3> QED
      BY <1>7, <3>1, <3>2
  <2>2. Header(socket) \in 0..Len(r) /\ ~HasHeader(Prefix(r, Header(socket) - 1))
    BY <1>2, <1>7, <1>9, HeaderEnds
  <2>3. CASE b <= Header(socket) - 1
    <3>1. b \in -1..Len(r) /\ Header(socket) - 1 \in b..Len(r)
      BY <1>7, <2>2, <2>3
    <3> QED
      BY <1>7, <1>8, <2>2, <3>1, HeaderStays
  <2> QED
    BY <1>7, <2>1, <2>2, <2>3
<1>12. ResetOnlyWithABody'
  <2> SUFFICES ASSUME NEW d \in Clients, reset'[d]
               PROVE  HasHeader(request[d]) /\ sent[d] > Header(d)
    BY <1>1 DEF ResetOnlyWithABody, Header, HasHeader
  <2>1. CASE d = socket
    BY <1>3, <1>9, <1>11, <2>1
  <2>2. CASE d # socket
    BY <1>3, <2>2 DEF ServerInv, ResetOnlyWithABody
  <2> QED
    BY <2>1, <2>2
<1> QED
  BY <1>4, <1>5, <1>6, <1>10, <1>12 DEF ServerInv

LEMMA ServerStutterInv ==
  ASSUME ServerInv, UNCHANGED serverVars
  PROVE  ServerInv'
<1>1. ServerTypeOK' /\ Functions' /\ PoliteStay'
  BY DEF ServerInv, ServerTypeOK, Functions, PoliteStay, serverVars
<1>2. BufferIsPrefix' /\ NothingBefore' /\ HeaderFoundAtOnce'
  BY DEF ServerInv, BufferIsPrefix, NothingBefore, HeaderFoundAtOnce, MatchesAt, serverVars
<1>3. /\ phase' = phase /\ socket' = socket /\ end' = end /\ request' = request
      /\ sent' = sent /\ conn' = conn /\ reset' = reset
  BY DEF serverVars
<1>4. (\A t : HasHeader(t)' = HasHeader(t)) /\ \A c : Header(c)' = Header(c)
  BY <1>3, Zenon DEF HasHeader, Header, Delimiter
<1>5. EndedOnlyByAQuitter'
  BY <1>3, <1>4 DEF ServerInv, EndedOnlyByAQuitter
<1>6. ClosedAfterHeader'
  BY <1>3, <1>4 DEF ServerInv, ClosedAfterHeader, Prefix
<1>7. ResetOnlyWithABody'
  BY <1>3, <1>4 DEF ServerInv, ResetOnlyWithABody
<1> QED
  BY <1>1, <1>2, <1>5, <1>6, <1>7 DEF ServerInv

-----------------------------------------------------------------------------
(* The inductive invariant.                                                *)
THEOREM ServerInvariance == ServerSpec => []ServerInv
<1>1. ServerInv /\ [ServerNext]_serverVars => ServerInv'
  BY AcceptInv, SearchInv, ReadInv, ReadFailsInv, WriteInv, WriteFailsInv, CloseInv,
     ConnectInv, SendInv, QuitInv, DeliverInv, ServerStutterInv, Zenon
  DEF ServerNext, Serve
<1> QED
  BY ServerInitInv, <1>1, PTL DEF ServerSpec

(* The state keeps its types: no client gets more than the response, and   *)
(* read_until resumes inside the buffer.                                   *)
THEOREM ServerTypesOK == ServerSpec => []ServerTypeOK
<1>1. ServerInv => ServerTypeOK
  BY DEF ServerInv
<1> QED
  BY ServerInvariance, <1>1, PTL

(* However a request is cut into reads, and whatever ReadSize is, the      *)
(* resumed searches find the header exactly when it has been read.         *)
THEOREM HeaderIsFoundAtOnce == ServerSpec => []HeaderFoundAtOnce
<1>1. ServerInv => HeaderFoundAtOnce
  BY DEF ServerInv
<1> QED
  BY ServerInvariance, <1>1, PTL

(* The process ends only by a client that is not polite.                   *)
THEOREM PoliteClientsDoNoHarm == ServerSpec => []EndedOnlyByAQuitter
<1>1. ServerInv => EndedOnlyByAQuitter
  BY DEF ServerInv
<1> QED
  BY ServerInvariance, <1>1, PTL

(* A connection is reset only under a client whose request has a body.     *)
THEOREM BareHeadersAreNotReset == ServerSpec => []ResetOnlyWithABody
<1>1. ServerInv => ResetOnlyWithABody
  BY DEF ServerInv
<1> QED
  BY ServerInvariance, <1>1, PTL

=============================================================================
