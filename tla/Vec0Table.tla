----------------------------- MODULE Vec0Table -----------------------------
(* One vec0 virtual table of sqlite-vec, as one thread of the app uses it   *)
(* through kernel_vec_jni.cpp: the shadow tables _rowids, _chunks and       *)
(* _vector_chunks, and the steps in which DELETE and INSERT write them, any *)
(* of which may fail.                                                       *)
(*                                                                          *)
(* The blobs of the shadow tables are flattened: a position <<c, o>> is the *)
(* slot at offset o of chunk c, "valid" holds the positions whose validity  *)
(* bit is set, and "owner" and "data" are what _chunks.rowids and           *)
(* _vector_chunks.vectors hold at a position.                               *)
EXTENDS Integers, FiniteSets, Sequences

CONSTANTS Rows, Vectors, None,
          NoRow,       \* the zero a cleared slot of _chunks.rowids holds
          ChunkSize,   \* slots of a chunk
          MaxChunk     \* bound: chunk ids 1..MaxChunk are used

ASSUME ChunkSizeAssumption == ChunkSize \in Nat \ {0}
ASSUME MaxChunkAssumption == MaxChunk \in Nat
ASSUME NoRowAssumption == NoRow \notin Rows
ASSUME NoneAssumption == None \notin Vectors

VARIABLES content,   \* the shadow tables
          base,      \* the shadow tables when the statement began
          call,      \* the JNI call that is running
          step,      \* the step of it that is next
          slot,      \* the position the call works on
          answer     \* what the last call returned

vars == <<content, base, call, step, slot, answer>>

Idle == [kind |-> "idle"]
Calls == [kind: {"upsert"}, row: Rows, vec: Vectors]
           \cup [kind: {"delete"}, row: Rows]
Steps == {"none", "find", "clear", "forget", "reclaim",
          "rowid", "place", "write", "release"}

Offsets == 0 .. ChunkSize - 1
Positions == (1 .. MaxChunk) \X Offsets
(* No row in _rowids, and a row whose chunk_id is still NULL: no positions, *)
(* because chunk ids begin with 1.                                          *)
Absent == <<0, 0>>
Unplaced == <<0, 1>>

Content == [rowids: [Rows -> Positions \cup {Absent, Unplaced}],
            chunks: SUBSET (1 .. MaxChunk),
            last:   0 .. MaxChunk,       \* the AUTOINCREMENT of _chunks
            valid:  SUBSET Positions,
            owner:  [Positions -> Rows \cup {NoRow}],
            data:   [Positions -> Vectors \cup {None}]]

EmptyTable == [rowids |-> [r \in Rows |-> Absent],
               chunks |-> {}, last |-> 0, valid |-> {},
               owner |-> [p \in Positions |-> NoRow],
               data |-> [p \in Positions |-> None]]

Init ==
    /\ content = EmptyTable
    /\ base = EmptyTable
    /\ call = Idle
    /\ step = "none"
    /\ slot = <<0, 0>>
    /\ answer = "none"

(* The shadow tables hold rows, positions and vectors of the right kinds,   *)
(* and a call works on a slot of the table (vec0Update_Delete,              *)
(* vec0Update_Insert).                                                      *)
TypeOK ==
    /\ content \in Content
    /\ base \in Content
    /\ call \in Calls \cup {Idle}
    /\ step \in Steps
    /\ slot \in Positions \cup {<<0, 0>>}
    /\ answer \in {"none", "done", "error"}

SlotsOf(c) == {p \in Positions : p[1] = c}

(***************************************************************************)
(* The calls of the app: upsert and deleteRow of kernel_vec_jni.cpp.  Both *)
(* begin with DELETE, which looks the row up in _rowids first.             *)
(***************************************************************************)
Begin(c) ==
    /\ call = Idle
    /\ content.last < MaxChunk
    /\ call' = c
    /\ base' = content
    /\ step' = "find"
    /\ answer' = "none"
    /\ UNCHANGED <<content, slot>>

AfterDelete == IF call.kind = "upsert" THEN "rowid" ELSE "release"

FindRow ==
    /\ step = "find"
    /\ IF content.rowids[call.row] = Absent
       THEN /\ step' = AfterDelete
            /\ UNCHANGED slot
       ELSE /\ step' = "clear"
            /\ slot' = content.rowids[call.row]
    /\ UNCHANGED <<content, base, call, answer>>

(* The validity bit, the row id and the vector of the slot are cleared.    *)
ClearSlot ==
    /\ step = "clear"
    /\ content' = [content EXCEPT !.valid = @ \ {slot},
                                  !.owner[slot] = NoRow,
                                  !.data[slot] = None]
    /\ step' = "forget"
    /\ UNCHANGED <<base, call, slot, answer>>

DeleteRowid ==
    /\ step = "forget"
    /\ content' = [content EXCEPT !.rowids[call.row] = Absent]
    /\ step' = "reclaim"
    /\ UNCHANGED <<base, call, slot, answer>>

(* Mutants: the chunk of a deleted row is deleted whatever it holds, or is  *)
(* never deleted.                                                           *)
ReclaimAlways ==
    /\ step = "reclaim"
    /\ content' = [content EXCEPT !.chunks = @ \ {slot[1]}]
    /\ step' = AfterDelete
    /\ UNCHANGED <<base, call, slot, answer>>

ReclaimNever ==
    /\ step = "reclaim"
    /\ step' = AfterDelete
    /\ UNCHANGED <<content, base, call, slot, answer>>

(* A chunk without a valid slot is deleted.                                *)
ReclaimChunk ==
    /\ step = "reclaim"
    /\ content' = IF content.valid \cap SlotsOf(slot[1]) = {}
                  THEN [content EXCEPT !.chunks = @ \ {slot[1]}]
                  ELSE content
    /\ step' = AfterDelete
    /\ UNCHANGED <<base, call, slot, answer>>

(* The DELETE of an upsert is not checked: after a failure, which SQLite   *)
(* undoes, the INSERT follows.  A failed deleteRow is an error.            *)
DeleteFails ==
    /\ step \in {"find", "clear", "forget", "reclaim"}
    /\ content' = base
    /\ IF call.kind = "upsert"
       THEN /\ step' = "rowid"
            /\ UNCHANGED <<call, answer>>
       ELSE /\ step' = "none"
            /\ call' = Idle
            /\ answer' = "error"
    /\ UNCHANGED <<base, slot>>

(* _rowids takes the row id unless it is there already.                    *)
InsertRowid ==
    /\ step = "rowid"
    /\ content.rowids[call.row] = Absent
    /\ content' = [content EXCEPT !.rowids[call.row] = Unplaced]
    /\ step' = "place"
    /\ UNCHANGED <<base, call, slot, answer>>

LatestChunk(c) == {k \in c.chunks : \A j \in c.chunks : j <= k}
(* Mutant: the scan of the validity bits runs one bit past the chunk.       *)
FreeInPast(c, k) == {o \in 0 .. ChunkSize : <<k, o>> \notin c.valid}
FreeIn(c, k) == {o \in Offsets : <<k, o>> \notin c.valid}

(* The first free slot of the latest chunk, or slot 0 of a new chunk, whose *)
(* id has never been used and whose blobs are zeroed.                       *)
UseLatestChunk ==
    /\ step = "place"
    /\ \E k \in LatestChunk(content) : \E o \in FreeIn(content, k) :
         /\ \A q \in FreeIn(content, k) : o <= q
         /\ slot' = <<k, o>>
    /\ step' = "write"
    /\ UNCHANGED <<content, base, call, answer>>

NewChunk(c) ==
    [c EXCEPT !.chunks = @ \cup {c.last + 1},
              !.last = @ + 1,
              !.owner = [p \in Positions |->
                           IF p[1] = c.last + 1 THEN NoRow ELSE c.owner[p]],
              !.data = [p \in Positions |->
                           IF p[1] = c.last + 1 THEN None ELSE c.data[p]]]

UseNewChunk ==
    /\ step = "place"
    /\ \A k \in LatestChunk(content) : FreeIn(content, k) = {}
    /\ content' = NewChunk(content)
    /\ slot' = <<content.last + 1, 0>>
    /\ step' = "write"
    /\ UNCHANGED <<base, call, answer>>

(* The validity bit, the vector, the row id of the chunk, and last the     *)
(* position in _rowids.                                                    *)
WriteSlot ==
    /\ step = "write"
    /\ content' = [content EXCEPT !.valid = @ \cup {slot},
                                  !.data[slot] = call.vec,
                                  !.owner[slot] = call.row,
                                  !.rowids[call.row] = slot]
    /\ step' = "release"
    /\ UNCHANGED <<base, call, slot, answer>>

(* Mutant: no ROLLBACK TO after a failed INSERT.                            *)
InsertFailsKept ==
    /\ step \in {"rowid", "place", "write"}
    /\ step' = "none"
    /\ call' = Idle
    /\ answer' = "error"
    /\ UNCHANGED <<content, base, slot>>

(* A failed INSERT leaves what it wrote until ROLLBACK TO vec_upsert.      *)
InsertFails ==
    /\ step \in {"rowid", "place", "write"}
    /\ content' = base
    /\ step' = "none"
    /\ call' = Idle
    /\ answer' = "error"
    /\ UNCHANGED <<base, slot>>

Release ==
    /\ step = "release"
    /\ step' = "none"
    /\ call' = Idle
    /\ answer' = "done"
    /\ UNCHANGED <<content, base, slot>>

Next ==
    \/ \E c \in Calls : Begin(c)
    \/ FindRow \/ ClearSlot \/ DeleteRowid \/ ReclaimChunk \/ DeleteFails
    \/ InsertRowid \/ UseLatestChunk \/ UseNewChunk \/ WriteSlot
    \/ InsertFails \/ Release

Spec == Init /\ [][Next]_vars
=============================================================================
