----------------------------- MODULE VectorMap -----------------------------
(* What the interface VectorStore promises of one table of vectors: a map   *)
(* from row ids to vectors.  "Insert or replace a vector for the given      *)
(* rowId" and "Delete the vector with the given rowId" either take effect   *)
(* as a whole and answer "done", or change nothing and answer "error".      *)
(* Vec0Table is shown to implement this module.                             *)

CONSTANTS Rows,      \* the row ids a caller uses
          Vectors,   \* the embeddings
          None       \* no vector is stored for the row

VARIABLES vectors,   \* the table
          call,      \* the statement the caller has asked for
          answer     \* what the last statement returned

mapVars == <<vectors, call, answer>>

Idle == [kind |-> "idle"]

Calls == [kind: {"upsert"}, row: Rows, vec: Vectors]
           \cup [kind: {"delete"}, row: Rows]

Applied(m, c) ==
    [m EXCEPT ![c.row] = IF c.kind = "upsert" THEN c.vec ELSE None]

MapTypeOK ==
    /\ vectors \in [Rows -> Vectors \cup {None}]
    /\ call \in Calls \cup {Idle}
    /\ answer \in {"none", "done", "error"}

MapInit ==
    /\ vectors = [r \in Rows |-> None]
    /\ call = Idle
    /\ answer = "none"

Ask(c) ==
    /\ call = Idle
    /\ call' = c
    /\ answer' = "none"
    /\ UNCHANGED vectors

Succeed ==
    /\ call # Idle
    /\ vectors' = Applied(vectors, call)
    /\ answer' = "done"
    /\ call' = Idle

Refuse ==
    /\ call # Idle
    /\ answer' = "error"
    /\ call' = Idle
    /\ UNCHANGED vectors

MapNext == (\E c \in Calls : Ask(c)) \/ Succeed \/ Refuse

MapSpec == MapInit /\ [][MapNext]_mapVars
=============================================================================
