---------------------------- MODULE Vec0Search -----------------------------
(* The nearest-neighbour search of sqlite-vec over the chunks of one vec0   *)
(* table: the top k of every chunk, merged chunk after chunk into the top k *)
(* so far.  And what the table shows to a search, as a map.                 *)
EXTENDS Vec0Table

CONSTANT Distance    \* the distance of each vector to the query

ASSUME DistanceAssumption == Distance \in [Vectors -> Nat]

(* What is stored for each row, as a search sees it: the slots whose        *)
(* validity bit is set.                                                     *)
Stored(c) ==
    [r \in Rows |-> IF \E p \in c.valid : c.owner[p] = r
                    THEN c.data[CHOOSE p \in c.valid : c.owner[p] = r]
                    ELSE None]

At(c, k, o) == Distance[c.data[<<k, o>>]]

(* min_idx: up to n offsets of chunk k by distance, the last of equals.     *)
MinIdx(c, k, n) ==
    LET top[i \in 0 .. n] ==
          IF i = 0 THEN <<>>
          ELSE LET left == {o \in Offsets : <<k, o>> \in c.valid} \
                             {top[i - 1][j] : j \in 1 .. Len(top[i - 1])}
                   best == {o \in left : \A q \in left : At(c, k, o) <= At(c, k, q)}
               IN IF left = {} THEN top[i - 1]
                  ELSE Append(top[i - 1],
                              CHOOSE o \in best : \A q \in best : q <= o)
    IN top[n]

(* Mutant: the lists are compared the wrong way round.                      *)
MergeFarther(a, b, n) ==
    LET merged[i \in 0 .. n] ==
          IF i = 0 THEN [a |-> 1, b |-> 1, out |-> <<>>]
          ELSE LET m == merged[i - 1]
                   fromA == m.a <= Len(a)
                              /\ (m.b > Len(b) \/ a[m.a].dist >= b[m.b].dist)
               IN IF fromA
                  THEN [m EXCEPT !.a = @ + 1, !.out = Append(@, a[m.a])]
                  ELSE IF m.b <= Len(b)
                  THEN [m EXCEPT !.b = @ + 1, !.out = Append(@, b[m.b])]
                  ELSE m
    IN merged[n].out

(* merge_sorted_lists: up to n results of a and b, those of a first on a    *)
(* tie.                                                                     *)
Merge(a, b, n) ==
    LET merged[i \in 0 .. n] ==
          IF i = 0 THEN [a |-> 1, b |-> 1, out |-> <<>>]
          ELSE LET m == merged[i - 1]
                   fromA == m.a <= Len(a)
                              /\ (m.b > Len(b) \/ a[m.a].dist <= b[m.b].dist)
               IN IF fromA
                  THEN [m EXCEPT !.a = @ + 1, !.out = Append(@, a[m.a])]
                  ELSE IF m.b <= Len(b)
                  THEN [m EXCEPT !.b = @ + 1, !.out = Append(@, b[m.b])]
                  ELSE m
    IN merged[n].out

(* vec0Filter_knn_chunks_iter: the chunks in the order of their ids.        *)
Search(c, n) ==
    LET after[k \in 0 .. MaxChunk] ==
          IF k = 0 THEN <<>>
          ELSE IF k \notin c.chunks THEN after[k - 1]
          ELSE LET top == MinIdx(c, k, IF n < ChunkSize THEN n ELSE ChunkSize)
                   hits == [i \in 1 .. Len(top) |->
                              [row |-> c.owner[<<k, top[i]>>],
                               dist |-> At(c, k, top[i])]]
               IN Merge(after[k - 1], hits, n)
    IN after[MaxChunk]

Rank(n) == Search(content, n)
Vectored == {r \in Rows : Stored(content)[r] # None}

(* A search for the n nearest rows answers with n rows, or with all there   *)
(* are, each once and with its distance, nearest first, and no row that is  *)
(* left out is nearer than one that is returned: keeping only a top list    *)
(* per chunk loses nothing (vec0Filter_knn_chunks_iter, min_idx and         *)
(* merge_sorted_lists).                                                     *)
SearchFindsTheNearest ==
    call = Idle =>
      \A n \in 1 .. Cardinality(Rows) + 1 :
        LET found == {Rank(n)[i].row : i \in 1 .. Len(Rank(n))} IN
        /\ found \subseteq Vectored
        /\ Len(Rank(n)) = Cardinality(found)
        /\ Cardinality(found) = IF n < Cardinality(Vectored)
                                THEN n ELSE Cardinality(Vectored)
        /\ \A i \in 1 .. Len(Rank(n)) :
             /\ Rank(n)[i].dist = Distance[Stored(content)[Rank(n)[i].row]]
             /\ \A j \in 1 .. i : Rank(n)[j].dist <= Rank(n)[i].dist
             /\ \A r \in Vectored \ found :
                  Rank(n)[i].dist <= Distance[Stored(content)[r]]

(* What the calls promise: VectorStore's map, in which an upsert or a       *)
(* delete happens at the moment it returns.                                 *)
Promise == INSTANCE VectorMap WITH
             vectors <- Stored(IF call = Idle THEN content ELSE base)

(* Every call takes effect as a whole or not at all, and the answer says    *)
(* which: vec0's DELETE and INSERT, with SQLite's undoing of a failed       *)
(* statement and the savepoint of upsert, implement the map.                *)
ImplementsVectorMap == Promise!MapSpec

(* The two directions of the table agree between calls: a row is in _rowids *)
(* exactly when one valid slot of a live chunk holds it, and _rowids names  *)
(* that slot, so that a delete clears what a search would find.             *)
PositionsAgree ==
    call = Idle =>
      /\ \A r \in Rows : content.rowids[r] # Absent =>
           /\ content.rowids[r] \in content.valid
           /\ content.owner[content.rowids[r]] = r
      /\ \A p \in content.valid :
           /\ p[1] \in content.chunks
           /\ content.owner[p] \in Rows
           /\ content.rowids[content.owner[p]] = p

(* Between calls no chunk is kept for nothing: a table from which           *)
(* everything was deleted is as small as a new one, and each chunk but the  *)
(* latest was full once (DeleteChunkIfEmpty, InsertNextAvailableStep).      *)
NoEmptyChunk ==
    call = Idle =>
      \A c \in content.chunks : \E p \in content.valid : p[1] = c
=============================================================================
