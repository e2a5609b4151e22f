----------------------------- MODULE Vec0Proofs -----------------------------
(* Theorems about the vec0 table for any rows, vectors and chunk size.      *)
(*                                                                          *)
(* The argument: while a call works on one row, every other row keeps its   *)
(* place, its vector and its validity bit (Frame), so what is left to show  *)
(* of each step is what it does to the one row and the one slot.  The       *)
(* search follows, chunk by chunk: after each, it has the nearest of the    *)
(* rows of the chunks so far (Nearest).                                     *)
EXTENDS Vec0Search, FiniteSetTheorems, WellFoundedInduction, TLAPS

(* The two directions of the table agree, and its chunk ids were given out. *)
Agree(c) ==
    /\ \A r \in Rows : c.rowids[r] # Absent =>
         c.rowids[r] \in c.valid /\ c.owner[c.rowids[r]] = r
    /\ \A p \in c.valid :
         /\ p[1] \in c.chunks
         /\ c.owner[p] \in Rows
         /\ c.rowids[c.owner[p]] = p
    /\ c.chunks \subseteq 1 .. c.last

Full(c, except) ==
    \A k \in c.chunks \ except : \E p \in c.valid : p[1] = k

(* Every row but r is stored as it was when the call began.                 *)
Frame(r) ==
    \A q \in Rows \ {r} :
        /\ content.rowids[q] = base.rowids[q]
        /\ base.rowids[q] # Absent =>
             /\ base.rowids[q] \in content.valid
             /\ content.owner[base.rowids[q]] = q
             /\ content.data[base.rowids[q]] = base.data[base.rowids[q]]

(* The valid slots are those of the rows other than r.                      *)
Rest(r) ==
    /\ \A p \in content.valid :
         /\ p[1] \in content.chunks
         /\ content.owner[p] \in Rows \ {r}
         /\ content.rowids[content.owner[p]] = p
    /\ content.chunks \subseteq 1 .. content.last

Without(r) == Rest(r) /\ content.rowids[r] = Absent /\ Full(content, {})

(* What holds before each step of a call on row r.                          *)
AtStep(r) ==
    /\ step = "find" => content = base
    /\ step = "clear" => content = base /\ slot \in Positions
                           /\ slot = base.rowids[r]
    /\ step = "forget" => Rest(r) /\ Full(content, {slot[1]}) /\ slot \in Positions
    /\ step = "reclaim" => /\ Rest(r) /\ Full(content, {slot[1]})
                           /\ slot \in Positions /\ content.rowids[r] = Absent
    /\ step = "rowid" => call.kind = "upsert" /\ (content = base \/ Without(r))
    /\ step = "place" => /\ call.kind = "upsert" /\ Rest(r)
                         /\ Full(content, {}) /\ content.rowids[r] = Unplaced
    /\ step = "write" => /\ call.kind = "upsert" /\ Rest(r)
                         /\ Full(content, {slot[1]}) /\ content.rowids[r] = Unplaced
                         /\ slot \in Positions \ content.valid
                         /\ slot[1] \in content.chunks
    /\ step = "release" =>
         /\ Agree(content) /\ Full(content, {})
         /\ IF call.kind = "upsert"
            THEN /\ content.rowids[r] \in Positions
                 /\ content.data[content.rowids[r]] = call.vec
            ELSE content.rowids[r] = Absent

Quiet == step = "none" /\ Agree(content) /\ Full(content, {})

During ==
    /\ step # "none"
    /\ Agree(base) /\ Full(base, {})
    /\ base.last < MaxChunk
    /\ step \notin {"write", "release"} => content.last = base.last
    /\ Frame(call.row)
    /\ AtStep(call.row)

IInv == TypeOK /\ (call = Idle => Quiet) /\ (call # Idle => During)

(* Idle is no call, and a call has a row.                                   *)
LEMMA CallKinds ==
    ASSUME NEW c \in Calls
    PROVE  /\ c # Idle /\ c.row \in Rows /\ c.kind \in {"upsert", "delete"}
           /\ c.kind = "upsert" => c.vec \in Vectors
BY DEF Calls, Idle

(* A place in _rowids is a position or neither of the two marks.            *)
LEMMA PlaceKinds == Absent \notin Positions /\ Unplaced \notin Positions
BY DEF Absent, Unplaced, Positions, Offsets

LEMMA InitIInv == Init => IInv
<1> SUFFICES ASSUME Init PROVE IInv
    OBVIOUS
<1>1. EmptyTable \in Content
    BY MaxChunkAssumption DEF EmptyTable, Content
<1>2. TypeOK
    BY <1>1 DEF Init, TypeOK, Steps
<1>3. Agree(content) /\ Full(content, {})
    BY DEF Init, EmptyTable, Agree, Full
<1>4. QED
    BY <1>2, <1>3 DEF Init, IInv, Quiet

(* An idle table stays as it is when nothing happens, and a call begins     *)
(* from it (upsert, deleteRow).                                             *)
LEMMA BeginIInv ==
    ASSUME IInv, NEW c \in Calls, Begin(c)
    PROVE  IInv'
<1>1. /\ Agree(content) /\ Full(content, {}) /\ TypeOK
    BY DEF Begin, IInv, Quiet
<1>2. /\ call' = c /\ base' = content /\ content' = content /\ step' = "find"
      /\ content.last < MaxChunk
    BY DEF Begin
<1>3. c # Idle /\ c.row \in Rows
    BY CallKinds
<1>4. TypeOK'
    BY <1>1 DEF Begin, TypeOK, Steps
<1>5. Frame(c.row)'
    BY <1>1, <1>2, <1>3 DEF Frame, Agree
<1>6. AtStep(c.row)'
    BY <1>2 DEF AtStep
<1>7. During'
    BY <1>1, <1>2, <1>5, <1>6 DEF During, Agree, Full
<1>8. QED
    BY <1>2, <1>3, <1>4, <1>7 DEF IInv

(* What every step of a running call starts from.                           *)
LEMMA Running ==
    ASSUME IInv, step # "none"
    PROVE  /\ call \in Calls /\ call.row \in Rows
           /\ call.kind \in {"upsert", "delete"}
           /\ TypeOK /\ During
BY CallKinds DEF IInv, Quiet, TypeOK

(* A lookup changes nothing (vec0Update_Delete, get_chunk_position).        *)
LEMMA FindRowIInv ==
    ASSUME IInv, FindRow
    PROVE  IInv'
<1>1. /\ answer' = answer /\ call \in Calls /\ call.row \in Rows /\ TypeOK /\ During
      /\ call.kind \in {"upsert", "delete"}
      /\ step = "find" /\ content' = content /\ base' = base /\ call' = call
    BY Running DEF FindRow
<1>2. /\ content = base /\ Agree(content) /\ Full(content, {})
    BY <1>1 DEF During, AtStep
<1>3. CASE content.rowids[call.row] = Absent
  <2>1. step' = AfterDelete /\ slot' = slot
    BY <1>3 DEF FindRow
  <2>2. TypeOK'
    BY <1>1, <2>1 DEF TypeOK, Steps, AfterDelete
  <2>3. Rest(call.row)
    BY <1>1, <1>2, <1>3, PlaceKinds DEF Rest, Agree, TypeOK, Content
  <2>4. AtStep(call.row)'
    BY <1>1, <1>2, <1>3, <2>1, <2>3 DEF AtStep, AfterDelete, Agree, Full
  <2>5. QED
    BY <1>1, <1>3, <2>1, <2>2, <2>4, CallKinds
    DEF IInv, During, Frame, AfterDelete, Agree, Full
<1>4. CASE content.rowids[call.row] # Absent
  <2>1. step' = "clear" /\ slot' = content.rowids[call.row]
    BY <1>4 DEF FindRow
  <2>2. slot' \in Positions
    BY <1>1, <1>2, <1>4, <2>1 DEF Agree, TypeOK, Content
  <2>3. TypeOK'
    BY <1>1, <2>1, <2>2 DEF TypeOK, Steps
  <2>4. AtStep(call.row)'
    BY <1>1, <1>2, <2>1, <2>2 DEF AtStep
  <2>5. QED
    BY <1>1, <2>1, <2>3, <2>4, CallKinds DEF IInv, During, Frame, Agree, Full
<1>5. QED
    BY <1>3, <1>4

(* Clearing the slot of a row leaves the slots of the others (ClearValidity,*)
(* ClearRowid, ClearVectors).                                               *)
LEMMA ClearSlotIInv ==
    ASSUME IInv, ClearSlot
    PROVE  IInv'
<1>1. /\ answer' = answer /\ call \in Calls /\ call.row \in Rows /\ TypeOK /\ During
      /\ step = "clear" /\ base' = base /\ call' = call /\ slot' = slot
      /\ step' = "forget"
    BY Running DEF ClearSlot
<1>2. /\ content = base /\ Agree(content) /\ Full(content, {})
      /\ slot \in Positions /\ slot = base.rowids[call.row]
    BY <1>1 DEF During, AtStep
<1>3. /\ content'.valid = content.valid \ {slot}
      /\ content'.owner = [content.owner EXCEPT ![slot] = NoRow]
      /\ content'.data = [content.data EXCEPT ![slot] = None]
      /\ content'.rowids = content.rowids
      /\ content'.chunks = content.chunks
      /\ content'.last = content.last
      /\ content' \in Content
    BY <1>1, <1>2 DEF ClearSlot, TypeOK, Content
<1>4. TypeOK'
    BY <1>1, <1>3 DEF TypeOK, Steps
<1>5. slot \in content.valid /\ content.owner[slot] = call.row
    BY <1>1, <1>2, PlaceKinds DEF Agree
<1>6. Rest(call.row)'
    BY <1>1, <1>2, <1>3, <1>5 DEF Rest, Agree, TypeOK, Content
<1>7. Frame(call.row)'
  <2>1. ASSUME NEW q \in Rows \ {call.row}, base.rowids[q] # Absent
        PROVE  base.rowids[q] # slot /\ base.rowids[q] \in Positions
    BY <1>1, <1>2, <1>5, <2>1 DEF Agree, TypeOK, Content
  <2>2. QED
    BY <1>1, <1>2, <1>3, <2>1 DEF Frame, Agree, TypeOK, Content
<1>8. Full(content, {slot[1]})'
    BY <1>1, <1>2, <1>3 DEF Full
<1>9. AtStep(call.row)'
    BY <1>1, <1>2, <1>6, <1>8 DEF AtStep
<1>10. QED
    BY <1>1, <1>2, <1>3, <1>4, <1>7, <1>9, CallKinds DEF IInv, During, Agree, Full

(* The row id goes, and with it nothing of another row (DeleteRowids).      *)
LEMMA DeleteRowidIInv ==
    ASSUME IInv, DeleteRowid
    PROVE  IInv'
<1>1. /\ answer' = answer /\ call \in Calls /\ call.row \in Rows /\ TypeOK /\ During
      /\ step = "forget" /\ base' = base /\ call' = call /\ slot' = slot
      /\ step' = "reclaim"
    BY Running DEF DeleteRowid
<1>2. Rest(call.row) /\ Full(content, {slot[1]}) /\ slot \in Positions
    BY <1>1 DEF During, AtStep
<1>3. /\ content'.rowids = [content.rowids EXCEPT ![call.row] = Absent]
      /\ content'.valid = content.valid /\ content'.owner = content.owner
      /\ content'.data = content.data /\ content'.chunks = content.chunks
      /\ content'.last = content.last
      /\ content' \in Content
    BY <1>1 DEF DeleteRowid, TypeOK, Content
<1>4. TypeOK'
    BY <1>1, <1>3 DEF TypeOK, Steps
<1>5. Rest(call.row)'
    BY <1>1, <1>2, <1>3 DEF Rest, TypeOK, Content
<1>6. Frame(call.row)'
    BY <1>1, <1>3 DEF During, Frame, TypeOK, Content
<1>7. AtStep(call.row)'
    BY <1>1, <1>2, <1>3, <1>5 DEF AtStep, Full, TypeOK, Content
<1>8. QED
    BY <1>1, <1>3, <1>4, <1>6, <1>7, CallKinds DEF IInv, During, Agree, Full

(* Only a chunk without a valid slot goes (DeleteChunkIfEmpty).             *)
LEMMA ReclaimChunkIInv ==
    ASSUME IInv, ReclaimChunk
    PROVE  IInv'
<1>1. /\ answer' = answer /\ call \in Calls /\ call.row \in Rows /\ TypeOK /\ During
      /\ call.kind \in {"upsert", "delete"}
      /\ step = "reclaim" /\ base' = base /\ call' = call /\ slot' = slot
      /\ step' = AfterDelete
    BY Running DEF ReclaimChunk
<1>2. /\ Rest(call.row) /\ Full(content, {slot[1]}) /\ slot \in Positions
      /\ content.rowids[call.row] = Absent
    BY <1>1 DEF During, AtStep
<1>3. /\ content'.rowids = content.rowids
      /\ content'.valid = content.valid /\ content'.owner = content.owner
      /\ content'.data = content.data
      /\ content'.last = content.last
      /\ content' \in Content
    BY <1>1 DEF ReclaimChunk, TypeOK, Content
<1>4. /\ content'.chunks \subseteq content.chunks
      /\ \A k \in content.chunks \ {slot[1]} : k \in content'.chunks
      /\ slot[1] \in content'.chunks <=>
           slot[1] \in content.chunks /\ \E p \in content.valid : p[1] = slot[1]
    BY <1>1 DEF ReclaimChunk, TypeOK, Content, SlotsOf
<1>5. \A p \in content.valid : p[1] \in content'.chunks
    BY <1>2, <1>4 DEF Rest
<1>6. Rest(call.row)'
    BY <1>1, <1>2, <1>3, <1>4, <1>5 DEF Rest
<1>7. Full(content, {})'
    BY <1>2, <1>3, <1>4 DEF Full
<1>8. TypeOK'
    BY <1>1, <1>3 DEF TypeOK, Steps, AfterDelete
<1>9. Frame(call.row)'
    BY <1>1, <1>3 DEF During, Frame
<1>10. Agree(content)'
    BY <1>1, <1>2, <1>3, <1>6, <1>9 DEF During, Agree, Rest, Frame
<1>11. AtStep(call.row)'
    BY <1>1, <1>2, <1>3, <1>6, <1>7, <1>10 DEF AtStep, Without, AfterDelete
<1>12. QED
    BY <1>1, <1>3, <1>8, <1>9, <1>11, CallKinds
    DEF IInv, During, Agree, Full, AfterDelete

(* A failed DELETE leaves the table of the beginning (DeleteFails).         *)
LEMMA DeleteFailsIInv ==
    ASSUME IInv, DeleteFails
    PROVE  IInv'
<1>1. /\ call \in Calls /\ call.row \in Rows /\ TypeOK /\ During
      /\ call.kind \in {"upsert", "delete"}
      /\ step \notin {"none", "write", "release"}
      /\ content' = base /\ base' = base /\ slot' = slot
    BY Running DEF DeleteFails
<1>2. Agree(base) /\ Full(base, {}) /\ base.last < MaxChunk
    BY <1>1 DEF During
<1>3. CASE call.kind = "upsert"
  <2>1. step' = "rowid" /\ call' = call /\ answer' = answer
    BY <1>3 DEF DeleteFails
  <2>2. TypeOK'
    BY <1>1, <2>1 DEF TypeOK, Steps
  <2>3. Frame(call.row)'
    BY <1>1, <1>2, <2>1 DEF Frame, Agree
  <2>4. AtStep(call.row)'
    BY <1>1, <1>3, <2>1 DEF AtStep
  <2>5. QED
    BY <1>1, <1>2, <2>1, <2>2, <2>3, <2>4, CallKinds DEF IInv, During, Agree, Full
<1>4. CASE call.kind = "delete"
  <2>1. step' = "none" /\ call' = Idle /\ answer' = "error"
    BY <1>4 DEF DeleteFails
  <2>2. TypeOK'
    BY <1>1, <2>1 DEF TypeOK, Steps
  <2>3. QED
    BY <1>1, <1>2, <2>1, <2>2 DEF IInv, Quiet, Agree, Full
<1>5. QED
    BY <1>1, <1>3, <1>4

(* _rowids takes the row id only when DELETE has removed it, or has found   *)
(* none, so the rest of the table is that of the other rows                 *)
(* (vec0Update_InsertRowidStep).                                            *)
LEMMA InsertRowidIInv ==
    ASSUME IInv, InsertRowid
    PROVE  IInv'
<1>1. /\ answer' = answer /\ call \in Calls /\ call.row \in Rows /\ TypeOK /\ During
      /\ step = "rowid" /\ base' = base /\ call' = call /\ slot' = slot
      /\ step' = "place" /\ content.rowids[call.row] = Absent
    BY Running DEF InsertRowid
<1>2. call.kind = "upsert" /\ (content = base \/ Without(call.row))
    BY <1>1 DEF During, AtStep
<1>3. Rest(call.row) /\ Full(content, {})
  <2>1. CASE content = base
    <3>1. Agree(content) /\ Full(content, {})
      BY <1>1, <2>1 DEF During
    <3>2. QED
      BY <1>1, <3>1, PlaceKinds DEF Rest, Agree, TypeOK, Content
  <2>2. CASE Without(call.row)
    BY <2>2 DEF Without
  <2>3. QED
    BY <1>2, <2>1, <2>2
<1>4. /\ content'.rowids = [content.rowids EXCEPT ![call.row] = Unplaced]
      /\ content'.valid = content.valid /\ content'.owner = content.owner
      /\ content'.data = content.data /\ content'.chunks = content.chunks
      /\ content'.last = content.last
      /\ content' \in Content
    BY <1>1 DEF InsertRowid, TypeOK, Content
<1>5. TypeOK'
    BY <1>1, <1>4 DEF TypeOK, Steps
<1>6. Rest(call.row)'
    BY <1>1, <1>3, <1>4 DEF Rest, TypeOK, Content
<1>7. Frame(call.row)'
    BY <1>1, <1>4 DEF During, Frame, TypeOK, Content
<1>8. AtStep(call.row)'
    BY <1>1, <1>2, <1>3, <1>4, <1>6 DEF AtStep, Full, TypeOK, Content
<1>9. QED
    BY <1>1, <1>4, <1>5, <1>7, <1>8, CallKinds DEF IInv, During, Agree, Full

(* A free slot of the latest chunk belongs to nobody                        *)
(* (vec0Update_InsertNextAvailableStep).                                    *)
LEMMA UseLatestChunkIInv ==
    ASSUME IInv, UseLatestChunk
    PROVE  IInv'
<1>1. /\ answer' = answer /\ call \in Calls /\ call.row \in Rows /\ TypeOK /\ During
      /\ step = "place" /\ base' = base /\ call' = call /\ content' = content
      /\ step' = "write"
    BY Running DEF UseLatestChunk
<1>2. /\ call.kind = "upsert" /\ Rest(call.row)
      /\ Full(content, {}) /\ content.rowids[call.row] = Unplaced
    BY <1>1 DEF During, AtStep
<1>3. PICK k \in LatestChunk(content) : \E o \in FreeIn(content, k) :
         slot' = <<k, o>>
    BY DEF UseLatestChunk
<1>4. PICK o \in FreeIn(content, k) : slot' = <<k, o>>
    BY <1>3
<1>5. /\ slot' \in Positions \ content.valid /\ slot'[1] = k
      /\ k \in content.chunks
    BY <1>1, <1>4 DEF LatestChunk, FreeIn, Positions, TypeOK, Content
<1>6. TypeOK'
    BY <1>1, <1>5 DEF TypeOK, Steps
<1>7. Full(content, {slot[1]})'
    BY <1>1, <1>2 DEF Full
<1>8. AtStep(call.row)'
    BY <1>1, <1>2, <1>5, <1>7 DEF AtStep, Rest
<1>9. Frame(call.row)'
    BY <1>1 DEF During, Frame
<1>10. QED
    BY <1>1, <1>6, <1>8, <1>9, CallKinds DEF IInv, During, Agree, Full

(* A new chunk has a new id, so zeroing it touches no row (vec0_new_chunk). *)
LEMMA UseNewChunkIInv ==
    ASSUME IInv, UseNewChunk
    PROVE  IInv'
<1>1. /\ answer' = answer /\ call \in Calls /\ call.row \in Rows /\ TypeOK /\ During
      /\ step = "place" /\ base' = base /\ call' = call
      /\ step' = "write" /\ slot' = <<content.last + 1, 0>>
      /\ content' = NewChunk(content)
    BY Running DEF UseNewChunk
<1>2. /\ call.kind = "upsert" /\ Rest(call.row)
      /\ Full(content, {}) /\ content.rowids[call.row] = Unplaced
    BY <1>1 DEF During, AtStep
<1>3. /\ content.last = base.last /\ base.last < MaxChunk
      /\ content.last \in 0 .. MaxChunk
    BY <1>1 DEF During, TypeOK, Content
<1>4. content.last + 1 \in 1 .. MaxChunk /\ content.last + 1 \notin content.chunks
    BY <1>2, <1>3, MaxChunkAssumption DEF Rest
<1>5. slot' \in Positions /\ slot'[1] = content.last + 1
    BY <1>1, <1>4, ChunkSizeAssumption DEF Positions, Offsets
<1>6. \A p \in content.valid : p \in Positions /\ p[1] # content.last + 1
    BY <1>1, <1>2, <1>4 DEF Rest, TypeOK, Content
<1>7. /\ content'.rowids = content.rowids
      /\ content'.valid = content.valid
      /\ content'.owner = [p \in Positions |->
                 IF p[1] = content.last + 1 THEN NoRow ELSE content.owner[p]]
      /\ content'.data = [p \in Positions |->
                 IF p[1] = content.last + 1 THEN None ELSE content.data[p]]
      /\ content'.chunks = content.chunks \cup {content.last + 1}
      /\ content'.last = content.last + 1
    BY <1>1 DEF NewChunk, TypeOK, Content
<1>8. content' \in Content
  <2>1. /\ content'.owner \in [Positions -> Rows \cup {NoRow}]
        /\ content'.data \in [Positions -> Vectors \cup {None}]
    BY <1>1, <1>7 DEF TypeOK, Content
  <2>2. /\ content'.chunks \in SUBSET (1 .. MaxChunk)
        /\ content'.last \in 0 .. MaxChunk
    BY <1>1, <1>3, <1>4, <1>7 DEF TypeOK, Content
  <2>3. content' = [content EXCEPT !.owner = content'.owner, !.data = content'.data,
                      !.chunks = content'.chunks, !.last = content'.last]
    BY <1>1 DEF NewChunk, TypeOK, Content
  <2>4. QED
    BY <1>1, <2>1, <2>2, <2>3 DEF TypeOK, Content
<1>9. TypeOK'
    BY <1>1, <1>5, <1>8 DEF TypeOK, Steps
<1>10. \A p \in content.valid : content'.owner[p] = content.owner[p]
                                  /\ content'.data[p] = content.data[p]
    BY <1>6, <1>7
<1>11. Rest(call.row)'
    BY <1>1, <1>2, <1>3, <1>7, <1>10 DEF Rest
<1>12. Frame(call.row)'
  <2>1. Frame(call.row)
    BY <1>1 DEF During
  <2>2. /\ content'.rowids = content.rowids /\ content'.valid = content.valid
        /\ \A p \in content.valid : content'.owner[p] = content.owner[p]
                                      /\ content'.data[p] = content.data[p]
    BY <1>7, <1>10
  <2>3. QED
    BY <1>1, <2>1, <2>2 DEF Frame
<1>13. Full(content, {slot[1]})'
    BY <1>2, <1>5, <1>7 DEF Full
<1>14. slot' \in Positions \ content'.valid /\ slot'[1] \in content'.chunks
    BY <1>5, <1>6, <1>7
<1>15. AtStep(call.row)'
    BY <1>1, <1>2, <1>7, <1>11, <1>13, <1>14 DEF AtStep
<1>16. QED
    BY <1>1, <1>9, <1>12, <1>15, CallKinds DEF IInv, During, Agree, Full

(* The slot that was free becomes the slot of the row                       *)
(* (vec0Update_InsertWriteFinalStep).                                       *)
LEMMA WriteSlotIInv ==
    ASSUME IInv, WriteSlot
    PROVE  IInv'
<1>1. /\ answer' = answer /\ call \in Calls /\ call.row \in Rows /\ TypeOK /\ During
      /\ step = "write" /\ base' = base /\ call' = call /\ slot' = slot
      /\ step' = "release"
    BY Running DEF WriteSlot
<1>2. /\ call.kind = "upsert" /\ Rest(call.row)
      /\ Full(content, {slot[1]}) /\ content.rowids[call.row] = Unplaced
      /\ slot \in Positions \ content.valid /\ slot[1] \in content.chunks
    BY <1>1 DEF During, AtStep
<1>3. call.vec \in Vectors
    BY <1>1, <1>2, CallKinds
<1>4. /\ content'.rowids = [content.rowids EXCEPT ![call.row] = slot]
      /\ content'.valid = content.valid \cup {slot}
      /\ content'.owner = [content.owner EXCEPT ![slot] = call.row]
      /\ content'.data = [content.data EXCEPT ![slot] = call.vec]
      /\ content'.chunks = content.chunks
      /\ content'.last = content.last
      /\ content' \in Content
    BY <1>1, <1>2, <1>3 DEF WriteSlot, TypeOK, Content
<1>5. TypeOK'
    BY <1>1, <1>4 DEF TypeOK, Steps
<1>6. content'.rowids[call.row] = slot /\ content'.owner[slot] = call.row
      /\ content'.data[slot] = call.vec
    BY <1>1, <1>2, <1>4 DEF TypeOK, Content
<1>7. \A q \in Rows \ {call.row} : content'.rowids[q] = content.rowids[q]
    BY <1>1, <1>4 DEF TypeOK, Content
<1>8. \A p \in content.valid : p \in Positions /\ p # slot
                                 /\ content'.owner[p] = content.owner[p]
                                 /\ content'.data[p] = content.data[p]
    BY <1>1, <1>2, <1>4 DEF TypeOK, Content
<1>9. Frame(call.row)'
  <2>1. Frame(call.row)
    BY <1>1 DEF During
  <2>2. ASSUME NEW q \in Rows \ {call.row}
        PROVE  content'.rowids[q] = base.rowids[q]
    BY <2>1, <1>7 DEF Frame
  <2>3. ASSUME NEW q \in Rows \ {call.row}, base.rowids[q] # Absent
        PROVE  /\ base.rowids[q] \in content'.valid
               /\ content'.owner[base.rowids[q]] = q
               /\ content'.data[base.rowids[q]] = base.data[base.rowids[q]]
    <3>1. /\ base.rowids[q] \in content.valid
          /\ content.owner[base.rowids[q]] = q
          /\ content.data[base.rowids[q]] = base.data[base.rowids[q]]
      BY <2>1, <2>3 DEF Frame
    <3>2. QED
      BY <3>1, <1>4, <1>8
  <2>4. QED
    BY <1>1, <2>2, <2>3 DEF Frame
<1>10. \A q \in Rows \ {call.row} : content.rowids[q] # Absent =>
          content.rowids[q] \in content.valid
            /\ content.owner[content.rowids[q]] = q
    BY <1>1 DEF During, Frame
<1>11. Agree(content)'
  <2>1. \A q \in Rows : content'.rowids[q] # Absent =>
          content'.rowids[q] \in content'.valid
            /\ content'.owner[content'.rowids[q]] = q
    BY <1>1, <1>4, <1>6, <1>7, <1>8, <1>10
  <2>2. \A p \in content'.valid : p[1] \in content'.chunks
          /\ content'.owner[p] \in Rows /\ content'.rowids[content'.owner[p]] = p
    BY <1>1, <1>2, <1>4, <1>6, <1>7, <1>8 DEF Rest
  <2>3. content'.chunks \subseteq 1 .. content'.last
    BY <1>2, <1>4 DEF Rest
  <2>4. QED
    BY <2>1, <2>2, <2>3 DEF Agree
<1>12. Full(content, {})'
    BY <1>2, <1>4 DEF Full
<1>13. AtStep(call.row)'
    BY <1>1, <1>2, <1>6, <1>11, <1>12 DEF AtStep
<1>14. QED
    BY <1>1, <1>5, <1>9, <1>13, CallKinds DEF IInv, During, Agree, Full

(* A failed INSERT is rolled back to the beginning of the upsert.           *)
LEMMA InsertFailsIInv ==
    ASSUME IInv, InsertFails
    PROVE  IInv'
<1>1. /\ TypeOK /\ During /\ content' = base /\ base' = base /\ slot' = slot
      /\ step' = "none" /\ call' = Idle /\ answer' = "error"
    BY Running DEF InsertFails
<1>2. Agree(base) /\ Full(base, {})
    BY <1>1 DEF During
<1>3. TypeOK'
    BY <1>1 DEF TypeOK, Steps
<1>4. QED
    BY <1>1, <1>2, <1>3 DEF IInv, Quiet, Agree, Full

(* Releasing the savepoint ends the call.                                   *)
LEMMA ReleaseIInv ==
    ASSUME IInv, Release
    PROVE  IInv'
<1>1. /\ TypeOK /\ During /\ content' = content /\ base' = base /\ slot' = slot
      /\ step = "release"
      /\ step' = "none" /\ call' = Idle /\ answer' = "done"
    BY Running DEF Release
<1>2. Agree(content) /\ Full(content, {})
    BY <1>1 DEF During, AtStep
<1>3. TypeOK'
    BY <1>1 DEF TypeOK, Steps
<1>4. QED
    BY <1>1, <1>2, <1>3 DEF IInv, Quiet, Agree, Full

(* Nothing happens.                                                         *)
LEMMA StutterIInv ==
    ASSUME IInv, UNCHANGED vars
    PROVE  IInv'
BY DEF vars, IInv, TypeOK, Quiet, During, AtStep, Frame, Rest, Without, Agree, Full

LEMMA StepIInv == IInv /\ [Next]_vars => IInv'
BY BeginIInv, FindRowIInv, ClearSlotIInv, DeleteRowidIInv, ReclaimChunkIInv,
   DeleteFailsIInv, InsertRowidIInv, UseLatestChunkIInv, UseNewChunkIInv,
   WriteSlotIInv, InsertFailsIInv, ReleaseIInv, StutterIInv
DEF Next

(* The inductive invariant of the table: what a call has done so far        *)
(* concerns its own row only (the steps of vec0Update_Delete and            *)
(* vec0Update_Insert).                                                      *)
THEOREM TableInvariant == Spec => []IInv
BY InitIInv, StepIInv, PTL DEF Spec

(* The shadow tables keep their types for any number of rows and any chunk  *)
(* size (vec0Update_Delete, vec0Update_Insert).                             *)
THEOREM TableTypes == Spec => []TypeOK
<1>1. IInv => TypeOK
    BY DEF IInv
<1>2. QED
    BY <1>1, TableInvariant, PTL

(* Between calls, _rowids and the chunks name the same places: a DELETE     *)
(* clears what a search would find (get_chunk_position, ClearValidity,      *)
(* InsertWriteFinalStep), whichever step of whichever call failed before.   *)
THEOREM PositionsAlwaysAgree == Spec => []PositionsAgree
<1>1. IInv => PositionsAgree
    BY DEF IInv, Quiet, Agree, PositionsAgree
<1>2. QED
    BY <1>1, TableInvariant, PTL

(* Between calls every chunk holds a row (DeleteChunkIfEmpty).              *)
THEOREM ChunksAreReclaimed == Spec => []NoEmptyChunk
<1>1. IInv => NoEmptyChunk
    BY DEF IInv, Quiet, Full, NoEmptyChunk
<1>2. QED
    BY <1>1, TableInvariant, PTL

(***************************************************************************)
(* The table implements the map of VectorMap.                              *)
(***************************************************************************)

(* What a search sees of a consistent table is what _rowids points at.      *)
LEMMA StoredByRow ==
    ASSUME NEW c \in Content, Agree(c), NEW r \in Rows
    PROVE  Stored(c)[r] = IF c.rowids[r] = Absent THEN None ELSE c.data[c.rowids[r]]
<1>1. \A p \in c.valid : c.owner[p] = r => p = c.rowids[r] /\ c.rowids[r] # Absent
    BY PlaceKinds DEF Agree, Content
<1>2. c.rowids[r] # Absent => c.rowids[r] \in c.valid /\ c.owner[c.rowids[r]] = r
    BY DEF Agree
<1>3. CASE c.rowids[r] = Absent
    BY <1>1, <1>3 DEF Stored
<1>4. CASE c.rowids[r] # Absent
  <2>1. (CHOOSE p \in c.valid : c.owner[p] = r) = c.rowids[r]
    BY <1>1, <1>2, <1>4
  <2>2. QED
    BY <1>2, <1>4, <2>1 DEF Stored
<1>5. QED
    BY <1>3, <1>4

(* The release of a call is the moment the map changes, by exactly what was *)
(* asked.                                                                   *)
LEMMA ReleaseApplies ==
    ASSUME IInv, Release
    PROVE  Stored(content) = Promise!Applied(Stored(base), call)
<1>1. /\ call \in Calls /\ call.row \in Rows /\ TypeOK /\ During
      /\ call.kind \in {"upsert", "delete"} /\ step = "release"
    BY Running DEF Release
<1>2. /\ Agree(content) /\ Agree(base) /\ Frame(call.row)
      /\ content \in Content /\ base \in Content
    BY <1>1 DEF During, AtStep, TypeOK
<1>3. /\ call.kind = "upsert" => /\ content.rowids[call.row] \in Positions
                                 /\ content.data[content.rowids[call.row]] = call.vec
      /\ call.kind = "delete" => content.rowids[call.row] = Absent
    BY <1>1 DEF During, AtStep
<1>4. Stored(content)[call.row] = IF call.kind = "upsert" THEN call.vec ELSE None
    BY <1>1, <1>2, <1>3, StoredByRow, PlaceKinds
<1>5. ASSUME NEW q \in Rows \ {call.row}
      PROVE  Stored(content)[q] = Stored(base)[q]
  <2>1. /\ content.rowids[q] = base.rowids[q]
        /\ base.rowids[q] # Absent =>
             content.data[base.rowids[q]] = base.data[base.rowids[q]]
    BY <1>2 DEF Frame
  <2>2. QED
    BY <1>2, <2>1, StoredByRow
<1>6. \A q \in Rows : Stored(content)[q] = Promise!Applied(Stored(base), call)[q]
    BY <1>1, <1>4, <1>5 DEF Promise!Applied, Stored
<1>7. QED
    BY <1>6 DEF Promise!Applied, Stored

LEMMA InitMaps == Init => Promise!MapInit
<1> SUFFICES ASSUME Init PROVE Promise!MapInit
    OBVIOUS
<1>1. Stored(content) = [r \in Rows |-> None]
    BY DEF Init, EmptyTable, Stored
<1>2. QED
    BY <1>1 DEF Init, Promise!MapInit, Idle, Promise!Idle

(* Every step of the table is a step of the map or leaves the map as it is. *)
LEMMA StepMaps ==
    ASSUME IInv, [Next]_vars
    PROVE  [Promise!MapNext]_(Promise!mapVars)
<1>1. ASSUME NEW c \in Calls, Begin(c)
      PROVE  Promise!Ask(c) /\ c \in Promise!Calls
    BY <1>1, CallKinds DEF Begin, Promise!Ask, Idle, Promise!Idle, Calls, Promise!Calls
<1>2. CASE Release
  <2>1. call # Idle /\ call' = Idle /\ answer' = "done" /\ content' = content
    BY <1>2, Running, CallKinds DEF Release
  <2>2. Promise!Succeed
    BY <1>2, <2>1, ReleaseApplies DEF Promise!Succeed, Idle, Promise!Idle
  <2>3. QED
    BY <2>2 DEF Promise!MapNext
<1>3. CASE InsertFails \/ (DeleteFails /\ call' = Idle)
  <2>1. /\ call # Idle /\ call' = Idle /\ content' = base /\ base' = base
    BY <1>3, Running, CallKinds DEF InsertFails, DeleteFails
  <2>2. answer' = "error"
    BY <1>3, <2>1 DEF InsertFails, DeleteFails
  <2>3. Promise!Refuse
    BY <2>1, <2>2 DEF Promise!Refuse, Idle, Promise!Idle
  <2>4. QED
    BY <2>3 DEF Promise!MapNext
<1>4. CASE \/ FindRow \/ ClearSlot \/ DeleteRowid \/ ReclaimChunk \/ InsertRowid
           \/ UseLatestChunk \/ UseNewChunk \/ WriteSlot
           \/ DeleteFails /\ call' # Idle
  <2>1. call # Idle /\ call' = call /\ base' = base /\ answer' = answer
    BY <1>4, Running, CallKinds
    DEF FindRow, ClearSlot, DeleteRowid, ReclaimChunk, InsertRowid,
        UseLatestChunk, UseNewChunk, WriteSlot, DeleteFails
  <2>2. QED
    BY <2>1 DEF Promise!mapVars
<1>5. CASE UNCHANGED vars
    BY <1>5 DEF vars, Promise!mapVars
<1>6. QED
    BY <1>1, <1>2, <1>3, <1>4, <1>5 DEF Next, Promise!MapNext

(* Every call of the table takes effect as a whole when it returns "done"   *)
(* and not at all when it returns an error, as VectorStore promises.        *)
THEOREM TableImplementsMap == Spec => ImplementsVectorMap
BY InitMaps, StepMaps, TableInvariant, PTL
DEF Spec, ImplementsVectorMap, Promise!MapSpec

(***************************************************************************)
(* Counting                                                                *)
(***************************************************************************)
(* Among some numbers there is a least one.                                 *)
LEMMA LeastNumber ==
    ASSUME NEW T, T \subseteq Nat, T # {}
    PROVE  \E x \in T : \A y \in T : x <= y
<1>1. PICK t \in T : TRUE
  OBVIOUS
<1> DEFINE upTo(x) == 0 .. x
           B == {upTo(x) : x \in {y \in T : y <= t}}
<1>2. IsFiniteSet(upTo(t)) /\ B \subseteq SUBSET upTo(t) /\ B # {}
  <2>1. \A x \in T : x <= t => upTo(x) \in SUBSET upTo(t)
    BY <1>1
  <2>2. IsFiniteSet(upTo(t))
    BY <1>1, FS_Interval
  <2>3. upTo(t) \in B
    BY <1>1
  <2> QED
    BY <2>1, <2>2, <2>3
<1>3. IsWellFoundedOn(StrictSubsetOrdering(upTo(t)), FiniteSubsetsOf(upTo(t)))
  BY FS_StrictSubsetOrderingWellFounded
<1>4. B \subseteq FiniteSubsetsOf(upTo(t))
  BY <1>2, FS_Subset DEF FiniteSubsetsOf
<1> HIDE DEF B
<1>5. PICK X \in B : \A Y \in B : <<Y, X>> \notin StrictSubsetOrdering(upTo(t))
  BY <1>2, <1>3, <1>4, WFMin
<1>6. PICK x \in T : x <= t /\ X = upTo(x)
  BY <1>5 DEF B
<1>7. ASSUME NEW y \in T, y < x
      PROVE  FALSE
  <2>1. upTo(y) \in B /\ x \in upTo(x) /\ x \notin upTo(y) /\ upTo(y) \subseteq upTo(x)
    BY <1>1, <1>6, <1>7 DEF B
  <2>2. upTo(x) \subseteq upTo(t)
    BY <1>1, <1>6
  <2> HIDE DEF upTo
  <2> QED
    BY <1>5, <1>6, <2>1, <2>2 DEF StrictSubsetOrdering
<1> QED
  BY <1>6, <1>7

(* What holds at 0 and is handed on holds up to n.                          *)
LEMMA HandedOn ==
    ASSUME NEW n \in Nat, NEW S, 0 \in S,
           \A i \in 0 .. n : i < n /\ i \in S => i + 1 \in S
    PROVE  \A i \in 0 .. n : i \in S
<1> DEFINE T == {i \in 0 .. n : i \notin S}
<1>1. ASSUME T # {}
      PROVE  FALSE
  <2>1. T \subseteq Nat
    OBVIOUS
  <2>2. PICK x \in T : \A y \in T : x <= y
    BY <1>1, <2>1, LeastNumber
  <2>3. x - 1 \in 0 .. n /\ x - 1 < n /\ x - 1 \notin T
    BY <2>2
  <2> QED
    BY <2>2, <2>3
<1> QED
  BY <1>1

(* A list that is built in n steps.                                         *)
Iterates(f, n, b, g) ==
    f = [i \in 0 .. n |-> IF i = 0 THEN b ELSE g[i][f[i - 1]]]

LEMMA IterationExists ==
    ASSUME NEW n \in Nat, NEW T, NEW b \in T, NEW g \in [1 .. n -> [T -> T]]
    PROVE  \E f \in [0 .. n -> T] : Iterates(f, n, b, g)
<1> DEFINE S == {m \in 0 .. n : \E f \in [0 .. m -> T] : Iterates(f, m, b, g)}
<1>1. 0 \in S
  <2> DEFINE f == [i \in 0 .. 0 |-> b]
  <2>1. f \in [0 .. 0 -> T] /\ Iterates(f, 0, b, g)
    BY DEF Iterates
  <2> QED
    BY <2>1
<1>2. ASSUME NEW m \in 0 .. n, m < n, m \in S
      PROVE  m + 1 \in S
  <2>1. PICK f \in [0 .. m -> T] : Iterates(f, m, b, g)
    BY <1>2
  <2> DEFINE h == [i \in 0 .. m + 1 |-> IF i <= m THEN f[i] ELSE g[i][f[m]]]
  <2>2. h \in [0 .. m + 1 -> T]
    <3>1. m + 1 \in 1 .. n /\ f[m] \in T
      BY <1>2
    <3>2. g[m + 1][f[m]] \in T
      BY <3>1
    <3> QED
      BY <3>2
  <2>3. ASSUME NEW i \in 0 .. m + 1
        PROVE  h[i] = IF i = 0 THEN b ELSE g[i][h[i - 1]]
    <3>1. CASE i = 0
      <4>1. h[0] = f[0] /\ f[0] = b
        BY <2>1 DEF Iterates
      <4> QED
        BY <3>1, <4>1
    <3>2. CASE i \in 1 .. m
      <4>1. h[i] = f[i] /\ h[i - 1] = f[i - 1]
        BY <3>2
      <4>2. f[i] = g[i][f[i - 1]]
        BY <2>1, <3>2 DEF Iterates
      <4> QED
        BY <3>2, <4>1, <4>2
    <3>3. CASE i = m + 1
      <4>1. h[i] = g[i][f[m]] /\ h[i - 1] = f[m] /\ i # 0
        BY <3>3
      <4> QED
        BY <4>1
    <3> QED
      BY <3>1, <3>2, <3>3
  <2>4. Iterates(h, m + 1, b, g)
    <3> HIDE DEF h
    <3> QED
      BY <2>2, <2>3 DEF Iterates
  <2>5. m + 1 \in 0 .. n
    BY <1>2
  <2> QED
    BY <2>2, <2>4, <2>5
<1> HIDE DEF S
<1>3. n \in S
  <2>1. \A m \in 0 .. n : m < n /\ m \in S => m + 1 \in S
    BY <1>2
  <2>2. \A m \in 0 .. n : m \in S
    BY ONLY n \in Nat, <1>1, <2>1, HandedOn
  <2> QED
    BY <2>2
<1> QED
  BY <1>3 DEF S

(***************************************************************************)
(* The nearest of one chunk                                                *)
(***************************************************************************)
(* The valid offsets of a chunk, and the nearest of some of them.           *)
ValidOf(c, k) == {o \in Offsets : <<k, o>> \in c.valid}
Left(c, k, t) == ValidOf(c, k) \ {t[j] : j \in 1 .. Len(t)}
BestOf(c, k, left) == {o \in left : \A q \in left : At(c, k, o) <= At(c, k, q)}
LastOf(best) == CHOOSE o \in best : \A q \in best : q <= o

OneMore(c, k, t) ==
    IF Left(c, k, t) = {} THEN t ELSE Append(t, LastOf(BestOf(c, k, Left(c, k, t))))

(* Every valid slot holds a vector, and so has a distance.                  *)
Filled(c) == \A p \in c.valid : c.data[p] \in Vectors

LEMMA DistanceOf ==
    ASSUME NEW c, Filled(c), NEW k, NEW o \in ValidOf(c, k)
    PROVE  At(c, k, o) \in Nat
BY DistanceAssumption DEF Filled, ValidOf, At

(* One of them is found.                                                    *)
LEMMA BestExists ==
    ASSUME NEW c, Filled(c), NEW k, NEW left, left \subseteq ValidOf(c, k), left # {}
    PROVE  /\ LastOf(BestOf(c, k, left)) \in left
           /\ \A q \in left : At(c, k, LastOf(BestOf(c, k, left))) <= At(c, k, q)
<1> DEFINE far == {At(c, k, o) : o \in left}
           best == BestOf(c, k, left)
           mirror == {ChunkSize - o : o \in best}
<1>1. far \subseteq Nat /\ far # {}
  BY DistanceOf
<1> HIDE DEF far
<1>2. PICK x \in far : \A y \in far : x <= y
  BY <1>1, LeastNumber
<1> USE DEF far
<1>3. best # {} /\ best \subseteq Offsets
  <2>1. PICK o \in left : x = At(c, k, o)
    BY <1>2
  <2>2. o \in best
    BY <1>2, <2>1 DEF BestOf
  <2> QED
    BY <2>2 DEF BestOf, ValidOf
<1>4. mirror \subseteq Nat /\ mirror # {}
  BY <1>3, ChunkSizeAssumption DEF Offsets
<1> HIDE DEF mirror
<1>5. PICK z \in mirror : \A y \in mirror : z <= y
  BY <1>4, LeastNumber
<1> USE DEF mirror
<1>6. PICK o \in best : z = ChunkSize - o
  BY <1>5
<1>7. \A q \in best : q <= o
  <2> SUFFICES ASSUME NEW q \in best PROVE q <= o
    OBVIOUS
  <2>1. ChunkSize - o <= ChunkSize - q
    BY <1>5, <1>6
  <2>2. o \in Nat /\ q \in Nat
    BY <1>3 DEF Offsets
  <2> QED
    BY <2>1, <2>2, ChunkSizeAssumption
<1> HIDE DEF best
<1>8. LastOf(best) \in best
  BY <1>6, <1>7 DEF LastOf
<1> QED
  BY <1>8 DEF best, BestOf

(* The first n of them, nearest first.                                      *)
Tops(c, k, t, n) ==
    /\ t \in Seq(ValidOf(c, k)) /\ Len(t) <= n
    /\ \A i, j \in 1 .. Len(t) : i # j => t[i] # t[j]
    /\ \A i, j \in 1 .. Len(t) : i <= j => At(c, k, t[i]) <= At(c, k, t[j])
    /\ \A o \in Left(c, k, t) :
         Len(t) = n /\ \A i \in 1 .. Len(t) : At(c, k, t[i]) <= At(c, k, o)

LEMMA OneMoreTops ==
    ASSUME NEW c, Filled(c), NEW k, NEW n \in Nat, NEW t, Tops(c, k, t, n)
    PROVE  Tops(c, k, OneMore(c, k, t), n + 1)
<1> DEFINE V == ValidOf(c, k)
           left == Left(c, k, t)
           o == LastOf(BestOf(c, k, left))
<1>1. t \in Seq(V) /\ Len(t) \in Nat
  BY DEF Tops
<1>2. CASE left = {}
  BY <1>1, <1>2 DEF OneMore, Tops
<1>3. CASE left # {}
  <2>1. o \in left /\ \A q \in left : At(c, k, o) <= At(c, k, q)
    BY <1>3, BestExists DEF Left
  <2>2. /\ Len(t) = n /\ \A i \in 1 .. Len(t) : At(c, k, t[i]) <= At(c, k, o)
        /\ o \in V /\ \A i \in 1 .. Len(t) : t[i] # o
    BY <2>1 DEF Tops, Left
  <2>3. OneMore(c, k, t) = Append(t, o)
    BY <1>3 DEF OneMore
  <2> DEFINE u == Append(t, o)
  <2>4. /\ u \in Seq(V) /\ Len(u) = n + 1 /\ u[n + 1] = o
        /\ \A i \in 1 .. n : u[i] = t[i]
    BY <1>1, <2>2
  <2> HIDE DEF u, o
  <2>5. \A i \in 1 .. n : t[i] \in V
    BY <1>1, <2>2
  <2>6. \A i \in 1 .. n + 1 : i \in 1 .. n \/ i = n + 1
    OBVIOUS
  <2>7. \A i, j \in 1 .. Len(u) : i # j => u[i] # u[j]
    BY <2>2, <2>4, <2>6 DEF Tops
  <2>8. \A i, j \in 1 .. Len(u) : i <= j => At(c, k, u[i]) <= At(c, k, u[j])
    <3> SUFFICES ASSUME NEW i \in 1 .. n + 1, NEW j \in 1 .. n + 1, i <= j
                 PROVE  At(c, k, u[i]) <= At(c, k, u[j])
      BY <2>4
    <3>1. CASE j \in 1 .. n
      <4>1. i \in 1 .. n
        BY <3>1
      <4> QED
        BY <2>2, <2>4, <3>1, <4>1 DEF Tops
    <3>2. CASE j = n + 1 /\ i \in 1 .. n
      BY <2>2, <2>4, <3>2
    <3>3. CASE j = n + 1 /\ i = n + 1
      <4>1. At(c, k, o) \in Nat
        BY <2>2, DistanceOf
      <4> QED
        BY <2>4, <3>3, <4>1
    <3> QED
      BY <2>6, <3>1, <3>2, <3>3
  <2>9. \A q \in Left(c, k, u) :
          \A i \in 1 .. Len(u) : At(c, k, u[i]) <= At(c, k, q)
    <3> SUFFICES ASSUME NEW q \in Left(c, k, u), NEW i \in 1 .. n + 1
                 PROVE  At(c, k, u[i]) <= At(c, k, q)
      BY <2>4
    <3>1. q \in left
      BY <2>2, <2>4 DEF Left
    <3>2. At(c, k, o) <= At(c, k, q)
      BY <2>1, <3>1
    <3>3. CASE i = n + 1
      BY <2>4, <3>2, <3>3
    <3>4. CASE i \in 1 .. n
      BY <2>2, <2>4, <3>1, <3>4 DEF Tops
    <3> QED
      BY <2>6, <3>3, <3>4
  <2> QED
    BY <2>3, <2>4, <2>7, <2>8, <2>9 DEF Tops, u
<1> QED
  BY <1>2, <1>3

(* min_idx.                                                                 *)
LEMMA MinIdxFinds ==
    ASSUME NEW c, Filled(c), NEW k, NEW n \in Nat
    PROVE  Tops(c, k, MinIdx(c, k, n), n)
<1> DEFINE T == Seq(ValidOf(c, k))
           g == [i \in 1 .. n |-> [t \in T |-> OneMore(c, k, t)]]
           IsTop(f) == f = [i \in 0 .. n |-> IF i = 0 THEN <<>> ELSE OneMore(c, k, f[i - 1])]
           top == CHOOSE f : IsTop(f)
<1>1. \A t \in T : OneMore(c, k, t) \in T
  <2> SUFFICES ASSUME NEW t \in T PROVE OneMore(c, k, t) \in T
    OBVIOUS
  <2> DEFINE left == Left(c, k, t)
             o == LastOf(BestOf(c, k, left))
  <2>1. CASE left # {}
    <3>1. o \in ValidOf(c, k)
      BY <2>1, BestExists DEF Left
    <3> HIDE DEF o
    <3>2. Append(t, o) \in T
      BY <3>1
    <3> QED
      BY <2>1, <3>2 DEF OneMore, o
  <2>2. CASE left = {}
    BY <2>2 DEF OneMore
  <2> QED
    BY <2>1, <2>2
<1>2. <<>> \in T /\ g \in [1 .. n -> [T -> T]]
  BY <1>1
<1> HIDE DEF g
<1>3. PICK f \in [0 .. n -> T] : Iterates(f, n, <<>>, g)
  <2> HIDE DEF T
  <2> QED
    BY <1>2, IterationExists
<1>4. IsTop(f)
  <2>1. ASSUME NEW i \in 0 .. n, i # 0
        PROVE  g[i][f[i - 1]] = OneMore(c, k, f[i - 1])
    <3>1. f[i - 1] \in T /\ i \in 1 .. n
      BY <2>1
    <3> QED
      BY <3>1 DEF g
  <2>2. f = [i \in 0 .. n |-> IF i = 0 THEN <<>> ELSE g[i][f[i - 1]]]
    BY <1>3 DEF Iterates
  <2> QED
    BY <2>1, <2>2
<1>5. IsTop(top)
  BY <1>4
<1>6. MinIdx(c, k, n) = top[n]
  BY DEF MinIdx, OneMore, Left, ValidOf, BestOf, LastOf
<1>7. top = [i \in 0 .. n |-> IF i = 0 THEN <<>> ELSE OneMore(c, k, top[i - 1])]
  BY <1>5
<1> HIDE DEF top, IsTop
<1> DEFINE S == {i \in 0 .. n : Tops(c, k, top[i], i)}
<1>8. 0 \in S
  <2>1. top[0] = <<>> /\ 0 \in 0 .. n
    BY <1>7
  <2>2. Tops(c, k, <<>>, 0)
    BY DEF Tops
  <2> QED
    BY <2>1, <2>2
<1>9. \A i \in 0 .. n : i < n /\ i \in S => i + 1 \in S
  <2> SUFFICES ASSUME NEW i \in 0 .. n, i < n, i \in S PROVE i + 1 \in S
    OBVIOUS
  <2>1. i + 1 \in 0 .. n /\ i + 1 # 0 /\ (i + 1) - 1 = i /\ i \in Nat
    OBVIOUS
  <2>2. top[i + 1] = OneMore(c, k, top[i])
    BY <1>7, <2>1
  <2> QED
    BY <2>1, <2>2, OneMoreTops
<1> HIDE DEF S
<1>10. \A i \in 0 .. n : i \in S
  BY ONLY n \in Nat, <1>8, <1>9, HandedOn
<1> QED
  BY <1>6, <1>10 DEF S

(***************************************************************************)
(* The merge of two lists of hits                                          *)
(***************************************************************************)
Hits == [row : Rows, dist : Nat]
Found(s) == {s[i].row : i \in 1 .. Len(s)}

(* s lists the n nearest of the rows R, of which d says how far they are.   *)
Nearest(s, R, n, d) ==
    /\ s \in Seq(Hits) /\ Len(s) <= n
    /\ \A i \in 1 .. Len(s) : s[i].row \in R /\ s[i].dist = d[s[i].row]
    /\ \A i, j \in 1 .. Len(s) : i # j => s[i].row # s[j].row
    /\ \A i, j \in 1 .. Len(s) : i <= j => s[i].dist <= s[j].dist
    /\ \A r \in R \ Found(s) :
         Len(s) = n /\ \A i \in 1 .. Len(s) : s[i].dist <= d[r]

(* The state of the merge, and its next step.                               *)
Merging == [a : Nat \ {0}, b : Nat \ {0}, out : Seq(Hits)]
MergeBegins == [a |-> 1, b |-> 1, out |-> <<>>]
FromFirst(a, b, m) ==
    m.a <= Len(a) /\ (m.b > Len(b) \/ a[m.a].dist <= b[m.b].dist)
MergeOne(a, b, m) ==
    IF FromFirst(a, b, m) THEN [m EXCEPT !.a = @ + 1, !.out = Append(@, a[m.a])]
    ELSE IF m.b <= Len(b) THEN [m EXCEPT !.b = @ + 1, !.out = Append(@, b[m.b])]
    ELSE m

LEMMA MergeOneParts ==
    ASSUME NEW a \in Seq(Hits), NEW b \in Seq(Hits), NEW m \in Merging
    PROVE  /\ MergeOne(a, b, m) \in Merging
           /\ FromFirst(a, b, m) =>
                /\ MergeOne(a, b, m).a = m.a + 1 /\ MergeOne(a, b, m).b = m.b
                /\ MergeOne(a, b, m).out = Append(m.out, a[m.a])
           /\ ~FromFirst(a, b, m) /\ m.b <= Len(b) =>
                /\ MergeOne(a, b, m).a = m.a /\ MergeOne(a, b, m).b = m.b + 1
                /\ MergeOne(a, b, m).out = Append(m.out, b[m.b])
           /\ ~FromFirst(a, b, m) /\ m.b > Len(b) => MergeOne(a, b, m) = m
<1>0. m.a \in Nat \ {0} /\ m.b \in Nat \ {0} /\ m.out \in Seq(Hits)
      /\ Len(a) \in Nat /\ Len(b) \in Nat
  BY DEF Merging
<1>1. CASE FromFirst(a, b, m)
  <2>1. m.a \in 1 .. Len(a)
    BY <1>0, <1>1 DEF FromFirst
  <2>2. a[m.a] \in Hits
    BY <2>1
  <2>3. Append(m.out, a[m.a]) \in Seq(Hits) /\ m.a + 1 \in Nat \ {0}
    BY <1>0, <2>2
  <2>4. MergeOne(a, b, m) = [m EXCEPT !.a = m.a + 1, !.out = Append(m.out, a[m.a])]
    BY <1>1 DEF MergeOne
  <2> QED
    BY <1>0, <1>1, <2>3, <2>4 DEF Merging
<1>2. CASE ~FromFirst(a, b, m) /\ m.b <= Len(b)
  <2>1. m.b \in 1 .. Len(b)
    BY <1>0, <1>2
  <2>2. b[m.b] \in Hits
    BY <2>1
  <2>3. Append(m.out, b[m.b]) \in Seq(Hits) /\ m.b + 1 \in Nat \ {0}
    BY <1>0, <2>2
  <2>4. MergeOne(a, b, m) = [m EXCEPT !.b = m.b + 1, !.out = Append(m.out, b[m.b])]
    BY <1>2 DEF MergeOne
  <2>5. ~(m.b > Len(b))
    BY <1>0, <1>2
  <2> DEFINE u == [m EXCEPT !.b = m.b + 1, !.out = Append(m.out, b[m.b])]
  <2>6. /\ u \in Merging /\ u.a = m.a /\ u.b = m.b + 1
        /\ u.out = Append(m.out, b[m.b])
    BY <1>0, <2>3 DEF Merging
  <2> HIDE DEF u
  <2> QED
    BY <1>2, <2>4, <2>5, <2>6 DEF u
<1>3. CASE ~FromFirst(a, b, m) /\ m.b > Len(b)
  BY <1>0, <1>3 DEF MergeOne
<1> QED
  BY <1>0, <1>1, <1>2, <1>3

(* merge_sorted_lists.                                                      *)
LEMMA MergeSteps ==
    ASSUME NEW n \in Nat, NEW a \in Seq(Hits), NEW b \in Seq(Hits)
    PROVE  \E f \in [0 .. n -> Merging] :
             /\ Merge(a, b, n) = f[n].out
             /\ f[0] = MergeBegins
             /\ \A i \in 0 .. n : i < n => f[i + 1] = MergeOne(a, b, f[i])
<1> DEFINE g == [i \in 1 .. n |-> [m \in Merging |-> MergeOne(a, b, m)]]
           IsMerged(f) == f = [i \in 0 .. n |-> IF i = 0 THEN MergeBegins
                                                ELSE MergeOne(a, b, f[i - 1])]
           merged == CHOOSE f : IsMerged(f)
<1>1. MergeBegins \in Merging /\ g \in [1 .. n -> [Merging -> Merging]]
  BY MergeOneParts DEF MergeBegins, Merging
<1> HIDE DEF g
<1>2. PICK f \in [0 .. n -> Merging] : Iterates(f, n, MergeBegins, g)
  BY <1>1, IterationExists
<1>3. IsMerged(f)
  <2>1. ASSUME NEW i \in 0 .. n, i # 0
        PROVE  g[i][f[i - 1]] = MergeOne(a, b, f[i - 1])
    <3>1. f[i - 1] \in Merging /\ i \in 1 .. n
      BY <2>1
    <3> QED
      BY <3>1 DEF g
  <2>2. f = [i \in 0 .. n |-> IF i = 0 THEN MergeBegins ELSE g[i][f[i - 1]]]
    BY <1>2 DEF Iterates
  <2> QED
    BY <2>1, <2>2
<1>4. IsMerged(merged)
  BY <1>3
<1>5. Merge(a, b, n) = merged[n].out
  BY DEF Merge, MergeBegins, MergeOne, FromFirst
<1>6. merged = [i \in 0 .. n |-> IF i = 0 THEN MergeBegins
                                 ELSE MergeOne(a, b, merged[i - 1])]
  BY <1>4
<1> HIDE DEF merged, IsMerged
<1>7. merged[0] = MergeBegins
  BY <1>6
<1>8. ASSUME NEW i \in 0 .. n, i < n
      PROVE  merged[i + 1] = MergeOne(a, b, merged[i])
  <2>1. i + 1 \in 0 .. n /\ i + 1 # 0 /\ (i + 1) - 1 = i
    BY <1>8
  <2> QED
    BY <1>6, <2>1
<1>9. \A i \in 0 .. n : merged[i] \in Merging
  <2> DEFINE S == {i \in 0 .. n : merged[i] \in Merging}
  <2>1. 0 \in S
    BY <1>1, <1>7
  <2>2. \A i \in 0 .. n : i < n /\ i \in S => i + 1 \in S
    <3> SUFFICES ASSUME NEW i \in 0 .. n, i < n, i \in S PROVE i + 1 \in S
      OBVIOUS
    <3>1. i + 1 \in 0 .. n
      OBVIOUS
    <3> QED
      BY <1>8, <3>1, MergeOneParts
  <2> HIDE DEF S
  <2>3. \A i \in 0 .. n : i \in S
    BY ONLY n \in Nat, <2>1, <2>2, HandedOn
  <2> QED
    BY <2>3 DEF S
<1>10. merged \in [0 .. n -> Merging]
  BY <1>6, <1>9
<1> QED
  BY <1>5, <1>7, <1>8, <1>10

(* What is merged before the j-th hit of a and the k-th of b.               *)
Midway(a, j, b, k, out, i) ==
    /\ out \in Seq(Hits) /\ j \in 1 .. Len(a) + 1 /\ k \in 1 .. Len(b) + 1
    /\ Len(out) = j + k - 2 /\ Len(out) <= i
    /\ Len(out) < i => j > Len(a) /\ k > Len(b)
    /\ \A x \in 1 .. Len(out) : \/ \E u \in 1 .. Len(a) : u < j /\ out[x] = a[u]
                                \/ \E v \in 1 .. Len(b) : v < k /\ out[x] = b[v]
    /\ \A u \in 1 .. Len(a) : u < j => \E x \in 1 .. Len(out) : out[x] = a[u]
    /\ \A v \in 1 .. Len(b) : v < k => \E x \in 1 .. Len(out) : out[x] = b[v]
    /\ \A x, y \in 1 .. Len(out) : x # y => out[x].row # out[y].row
    /\ \A x, y \in 1 .. Len(out) : x <= y => out[x].dist <= out[y].dist
    /\ \A x \in 1 .. Len(out), u \in 1 .. Len(a) : u >= j => out[x].dist <= a[u].dist
    /\ \A x \in 1 .. Len(out), v \in 1 .. Len(b) : v >= k => out[x].dist <= b[v].dist

LEMMA MidwaySwaps ==
    ASSUME NEW a, NEW j \in Nat, NEW b, NEW k \in Nat, NEW out, NEW i \in Nat,
           Midway(a, j, b, k, out, i)
    PROVE  Midway(b, k, a, j, out, i)
<1>1. j + k - 2 = k + j - 2
  OBVIOUS
<1> QED
  BY <1>1 DEF Midway

(* Hits of rows that are all different, nearest first.                      *)
Sorted(s) ==
    /\ s \in Seq(Hits)
    /\ \A i, j \in 1 .. Len(s) : i # j => s[i].row # s[j].row
    /\ \A i, j \in 1 .. Len(s) : i <= j => s[i].dist <= s[j].dist

LEMMA TakeFirst ==
    ASSUME NEW a, NEW b, Sorted(a), Sorted(b), Found(a) \cap Found(b) = {},
           NEW j \in Nat, NEW k \in Nat, NEW out, NEW i \in Nat,
           Midway(a, j, b, k, out, i), j <= Len(a),
           k > Len(b) \/ a[j].dist <= b[k].dist
    PROVE  Midway(a, j + 1, b, k, Append(out, a[j]), i + 1)
<1>0. /\ a \in Seq(Hits) /\ b \in Seq(Hits) /\ out \in Seq(Hits)
      /\ Len(a) \in Nat /\ Len(b) \in Nat /\ Len(out) \in Nat
      /\ j \in 1 .. Len(a) /\ k \in 1 .. Len(b) + 1
      /\ Len(out) = j + k - 2 /\ Len(out) = i
  BY DEF Midway, Sorted
<1> DEFINE h == a[j]
           u == Append(out, h)
           n == Len(out)
<1>1. h \in Hits /\ h.dist \in Nat
  <2>1. h \in Hits
    BY <1>0
  <2> QED
    BY <2>1 DEF Hits
<1>2. /\ u \in Seq(Hits) /\ Len(u) = n + 1 /\ u[n + 1] = h
      /\ \A x \in 1 .. n : u[x] = out[x]
  BY <1>0, <1>1
<1>3. \A x \in 1 .. n + 1 : x \in 1 .. n \/ x = n + 1
  BY <1>0
<1>4. \A y \in 1 .. n : y \in 1 .. n + 1
  BY <1>0
<1> HIDE DEF u
<1>5. \A x \in 1 .. Len(u) : \/ \E y \in 1 .. Len(a) : y < j + 1 /\ u[x] = a[y]
                            \/ \E v \in 1 .. Len(b) : v < k /\ u[x] = b[v]
  <2> SUFFICES ASSUME NEW x \in 1 .. n + 1
               PROVE  \/ \E y \in 1 .. Len(a) : y < j + 1 /\ u[x] = a[y]
                      \/ \E v \in 1 .. Len(b) : v < k /\ u[x] = b[v]
    BY <1>2
  <2>1. CASE x = n + 1
    <3>1. u[x] = a[j] /\ j \in 1 .. Len(a) /\ j < j + 1
      BY <1>0, <1>2, <2>1
    <3> QED
      BY <3>1
  <2>2. CASE x \in 1 .. n
    <3>1. \/ \E y \in 1 .. Len(a) : y < j /\ out[x] = a[y]
          \/ \E v \in 1 .. Len(b) : v < k /\ out[x] = b[v]
      BY <2>2 DEF Midway
    <3>2. \A y \in 1 .. Len(a) : y < j => y < j + 1
      BY <1>0
    <3> QED
      BY <1>2, <2>2, <3>1, <3>2
  <2> QED
    BY <1>3, <2>1, <2>2
<1>6. \A y \in 1 .. Len(a) : y < j + 1 => \E x \in 1 .. Len(u) : u[x] = a[y]
  <2> SUFFICES ASSUME NEW y \in 1 .. Len(a), y < j + 1
               PROVE  \E x \in 1 .. n + 1 : u[x] = a[y]
    BY <1>2
  <2>1. CASE y = j
    BY <1>0, <1>2, <2>1
  <2>2. CASE y < j
    <3>1. PICK x \in 1 .. n : out[x] = a[y]
      BY <2>2 DEF Midway
    <3> QED
      BY <1>2, <1>4, <3>1
  <2> QED
    BY <1>0, <2>1, <2>2
<1>7. \A v \in 1 .. Len(b) : v < k => \E x \in 1 .. Len(u) : u[x] = b[v]
  <2> SUFFICES ASSUME NEW v \in 1 .. Len(b), v < k
               PROVE  \E x \in 1 .. n + 1 : u[x] = b[v]
    BY <1>2
  <2>1. PICK x \in 1 .. n : out[x] = b[v]
    BY DEF Midway
  <2> QED
    BY <1>2, <1>4, <2>1
<1>8. \A x \in 1 .. n : out[x].row # h.row
  <2> SUFFICES ASSUME NEW x \in 1 .. n PROVE out[x].row # h.row
    OBVIOUS
  <2>1. CASE \E y \in 1 .. Len(a) : y < j /\ out[x] = a[y]
    BY <1>0, <2>1 DEF Sorted
  <2>2. CASE \E v \in 1 .. Len(b) : v < k /\ out[x] = b[v]
    BY <1>0, <2>2 DEF Found
  <2> QED
    BY <2>1, <2>2 DEF Midway
<1>9. \A x, y \in 1 .. Len(u) : x # y => u[x].row # u[y].row
  <2> SUFFICES ASSUME NEW x \in 1 .. n + 1, NEW y \in 1 .. n + 1, x # y
               PROVE  u[x].row # u[y].row
    BY <1>2
  <2>1. CASE x \in 1 .. n /\ y \in 1 .. n
    BY <1>2, <2>1 DEF Midway
  <2>2. CASE x \in 1 .. n /\ y = n + 1
    BY <1>2, <1>8, <2>2
  <2>3. CASE x = n + 1 /\ y \in 1 .. n
    BY <1>2, <1>8, <2>3
  <2> QED
    BY <1>3, <2>1, <2>2, <2>3
<1>10. \A x \in 1 .. n : out[x].dist <= h.dist
  BY <1>0 DEF Midway
<1>11. \A x, y \in 1 .. Len(u) : x <= y => u[x].dist <= u[y].dist
  <2> SUFFICES ASSUME NEW x \in 1 .. n + 1, NEW y \in 1 .. n + 1, x <= y
               PROVE  u[x].dist <= u[y].dist
    BY <1>2
  <2>1. CASE x \in 1 .. n /\ y \in 1 .. n
    BY <1>2, <2>1 DEF Midway
  <2>2. CASE x \in 1 .. n /\ y = n + 1
    BY <1>2, <1>10, <2>2
  <2>3. CASE x = n + 1
    <3>1. y = n + 1
      BY <1>0, <2>3
    <3> QED
      BY <1>1, <1>2, <2>3, <3>1
  <2> QED
    BY <1>3, <2>1, <2>2, <2>3
<1>12. \A y \in 1 .. Len(a) : y >= j + 1 => h.dist <= a[y].dist
  BY <1>0 DEF Sorted
<1>13. \A v \in 1 .. Len(b) : v >= k => h.dist <= b[v].dist
  <2> SUFFICES ASSUME NEW v \in 1 .. Len(b), v >= k PROVE h.dist <= b[v].dist
    OBVIOUS
  <2>1. k \in 1 .. Len(b) /\ ~(k > Len(b))
    BY <1>0
  <2>2. h.dist <= b[k].dist /\ b[k].dist <= b[v].dist
    BY <1>0, <2>1 DEF Sorted
  <2>3. b[k] \in Hits /\ b[v] \in Hits
    BY <1>0, <2>1
  <2>4. b[k].dist \in Nat /\ b[v].dist \in Nat
    BY <2>3 DEF Hits
  <2> QED
    BY <1>1, <2>2, <2>4
<1>14. \A x \in 1 .. Len(u), y \in 1 .. Len(a) : y >= j + 1 => u[x].dist <= a[y].dist
  <2> SUFFICES ASSUME NEW x \in 1 .. n + 1, NEW y \in 1 .. Len(a), y >= j + 1
               PROVE  u[x].dist <= a[y].dist
    BY <1>2
  <2>1. CASE x \in 1 .. n
    BY <1>0, <1>2, <2>1 DEF Midway
  <2>2. CASE x = n + 1
    BY <1>2, <1>12, <2>2
  <2> QED
    BY <1>3, <2>1, <2>2
<1>15. \A x \in 1 .. Len(u), v \in 1 .. Len(b) : v >= k => u[x].dist <= b[v].dist
  <2> SUFFICES ASSUME NEW x \in 1 .. n + 1, NEW v \in 1 .. Len(b), v >= k
               PROVE  u[x].dist <= b[v].dist
    BY <1>2
  <2>1. CASE x \in 1 .. n
    BY <1>2, <2>1 DEF Midway
  <2>2. CASE x = n + 1
    BY <1>2, <1>13, <2>2
  <2> QED
    BY <1>3, <2>1, <2>2
<1>16. /\ j + 1 \in 1 .. Len(a) + 1
       /\ Len(u) = (j + 1) + k - 2 /\ Len(u) = i + 1
  BY <1>0, <1>2
<1>17. Len(u) <= i + 1 /\ ~(Len(u) < i + 1)
  BY <1>0, <1>16
<1> HIDE DEF n, h
<1> QED
  BY <1>0, <1>2, <1>5, <1>6, <1>7, <1>9, <1>11, <1>14, <1>15, <1>16, <1>17 DEF Midway, u, h

(* Two lists of the n nearest, of different rows, make one for all of them. *)
LEMMA MergeNearest ==
    ASSUME NEW n \in Nat, NEW a, NEW b, NEW R, NEW Q, NEW d,
           Nearest(a, R, n, d), Nearest(b, Q, n, d), R \cap Q = {},
           \A r \in R \cup Q : d[r] \in Nat
    PROVE  Nearest(Merge(a, b, n), R \cup Q, n, d)
<1>1. /\ a \in Seq(Hits) /\ b \in Seq(Hits) /\ Len(a) \in Nat /\ Len(b) \in Nat
      /\ Sorted(a) /\ Sorted(b)
  BY DEF Nearest, Sorted
<1>2. Found(a) \cap Found(b) = {}
  BY DEF Nearest, Found
<1>3. PICK f \in [0 .. n -> Merging] :
        /\ Merge(a, b, n) = f[n].out /\ f[0] = MergeBegins
        /\ \A i \in 0 .. n : i < n => f[i + 1] = MergeOne(a, b, f[i])
  BY <1>1, MergeSteps
<1> DEFINE S == {i \in 0 .. n : Midway(a, f[i].a, b, f[i].b, f[i].out, i)}
<1>4. 0 \in S
  <2>1. f[0].a = 1 /\ f[0].b = 1 /\ f[0].out = <<>>
    BY <1>3 DEF MergeBegins
  <2>2. Midway(a, 1, b, 1, <<>>, 0)
    BY <1>1 DEF Midway
  <2> QED
    BY <2>1, <2>2
<1>5. \A i \in 0 .. n : i < n /\ i \in S => i + 1 \in S
  <2> SUFFICES ASSUME NEW i \in 0 .. n, i < n, i \in S PROVE i + 1 \in S
    OBVIOUS
  <2> DEFINE m == f[i]
  <2>1. /\ m \in Merging /\ i \in Nat /\ i + 1 \in 0 .. n
        /\ f[i + 1] = MergeOne(a, b, m)
        /\ Midway(a, m.a, b, m.b, m.out, i)
    BY <1>3
  <2> HIDE DEF m, S
  <2>2. m.a \in Nat /\ m.b \in Nat
    BY <2>1 DEF Merging
  <2>3. Midway(a, f[i + 1].a, b, f[i + 1].b, f[i + 1].out, i + 1)
    <3>1. CASE FromFirst(a, b, m)
      <4>1. Midway(a, m.a + 1, b, m.b, Append(m.out, a[m.a]), i + 1)
        BY <1>1, <1>2, <2>1, <2>2, <3>1, TakeFirst DEF FromFirst
      <4>2. /\ f[i + 1].a = m.a + 1 /\ f[i + 1].b = m.b
            /\ f[i + 1].out = Append(m.out, a[m.a])
        BY <1>1, <2>1, <3>1, MergeOneParts
      <4> QED
        BY ONLY <4>1, <4>2
    <3>2. CASE ~FromFirst(a, b, m) /\ m.b <= Len(b)
      <4>1. Midway(b, m.b, a, m.a, m.out, i)
        BY <2>1, <2>2, MidwaySwaps
      <4>2. m.a > Len(a) \/ b[m.b].dist <= a[m.a].dist
        <5>1. CASE m.a <= Len(a)
          <6>1. a[m.a] \in Hits /\ b[m.b] \in Hits
            BY <1>1, <2>1, <2>2, <3>2, <5>1 DEF Midway
          <6>2. ~(a[m.a].dist <= b[m.b].dist)
            BY <3>2, <5>1 DEF FromFirst
          <6> QED
            BY <6>1, <6>2 DEF Hits
        <5> QED
          BY <1>1, <2>2, <5>1
      <4>3. Found(b) \cap Found(a) = {}
        BY <1>2
      <4>4. Midway(b, m.b + 1, a, m.a, Append(m.out, b[m.b]), i + 1)
        BY <1>1, <2>1, <2>2, <3>2, <4>1, <4>2, <4>3, TakeFirst
      <4>5. Midway(a, m.a, b, m.b + 1, Append(m.out, b[m.b]), i + 1)
        BY <2>1, <2>2, <4>4, MidwaySwaps
      <4>6. /\ f[i + 1].a = m.a /\ f[i + 1].b = m.b + 1
            /\ f[i + 1].out = Append(m.out, b[m.b])
        BY <1>1, <2>1, <3>2, MergeOneParts
      <4> QED
        BY ONLY <4>5, <4>6
    <3>3. CASE ~FromFirst(a, b, m) /\ m.b > Len(b)
      <4>1. f[i + 1] = m
        BY <1>1, <2>1, <3>3, MergeOneParts
      <4>2. m.a > Len(a)
        BY <1>1, <2>2, <3>3 DEF FromFirst
      <4>3. Len(m.out) <= i + 1 /\ Len(m.out) \in Nat
        BY <2>1 DEF Midway
      <4>4. Midway(a, m.a, b, m.b, m.out, i + 1)
        BY <2>1, <3>3, <4>2, <4>3 DEF Midway
      <4> QED
        BY <4>1, <4>4
    <3> QED
      BY <1>1, <2>2, <3>1, <3>2, <3>3
  <2> QED
    BY <2>1, <2>3 DEF S
<1> HIDE DEF S
<1>6. \A i \in 0 .. n : i \in S
  BY ONLY n \in Nat, <1>4, <1>5, HandedOn
<1> DEFINE s == f[n].out
           j == f[n].a
           k == f[n].b
<1>7. Midway(a, j, b, k, s, n) /\ s \in Seq(Hits) /\ j \in Nat /\ k \in Nat
  BY <1>6 DEF S, Merging
<1> HIDE DEF s, j, k
<1>8. /\ Len(s) \in Nat /\ Len(s) = j + k - 2 /\ Len(s) <= n
      /\ Len(s) < n => j > Len(a) /\ k > Len(b)
      /\ j \in 1 .. Len(a) + 1 /\ k \in 1 .. Len(b) + 1
  BY <1>7 DEF Midway
<1>9. \A x \in 1 .. Len(s) : s[x].row \in R \cup Q /\ s[x].dist = d[s[x].row]
  <2> SUFFICES ASSUME NEW x \in 1 .. Len(s)
               PROVE  s[x].row \in R \cup Q /\ s[x].dist = d[s[x].row]
    OBVIOUS
  <2>1. (\E u \in 1 .. Len(a) : s[x] = a[u]) \/ (\E v \in 1 .. Len(b) : s[x] = b[v])
    BY <1>7 DEF Midway
  <2>2. CASE \E u \in 1 .. Len(a) : s[x] = a[u]
    <3>1. PICK u \in 1 .. Len(a) : s[x] = a[u]
      BY <2>2
    <3>2. a[u].row \in R /\ a[u].dist = d[a[u].row]
      BY DEF Nearest
    <3> QED
      BY <3>1, <3>2
  <2>3. CASE \E v \in 1 .. Len(b) : s[x] = b[v]
    <3>1. PICK v \in 1 .. Len(b) : s[x] = b[v]
      BY <2>3
    <3>2. b[v].row \in Q /\ b[v].dist = d[b[v].row]
      BY DEF Nearest
    <3> QED
      BY <3>1, <3>2
  <2> QED
    BY <2>1, <2>2, <2>3
<1>10. ASSUME NEW r \in R, r \notin Found(s)
       PROVE  Len(s) = n /\ \A x \in 1 .. Len(s) : s[x].dist <= d[r]
  <2>1. CASE \E u \in 1 .. Len(a) : a[u].row = r
    <3>1. PICK u \in 1 .. Len(a) : a[u].row = r
      BY <2>1
    <3>2. u >= j
      <4>1. ~(u < j)
        BY <1>7, <1>10, <3>1 DEF Midway, Found
      <4> QED
        BY <1>1, <1>8, <4>1
    <3>3. Len(s) = n
      BY <1>1, <1>8, <3>2
    <3>4. a[u].dist = d[r]
      BY <3>1 DEF Nearest
    <3> QED
      BY <1>7, <3>2, <3>3, <3>4 DEF Midway
  <2>2. CASE r \notin Found(a)
    <3>1. Len(a) = n /\ \A u \in 1 .. Len(a) : a[u].dist <= d[r]
      BY <2>2 DEF Nearest
    <3>2. CASE j <= Len(a)
      <4>1. Len(s) = n /\ j \in 1 .. Len(a)
        BY <1>1, <1>8, <3>2
      <4>2. a[j].dist \in Nat /\ a[j].dist <= d[r]
        <5>1. a[j] \in Hits
          BY <1>1, <4>1
        <5> QED
          BY <3>1, <4>1, <5>1 DEF Hits
      <4>3. ASSUME NEW x \in 1 .. Len(s)
            PROVE  s[x].dist <= d[r]
        <5>1. s[x] \in Hits /\ s[x].dist <= a[j].dist
          BY <1>7, <4>1 DEF Midway
        <5>2. s[x].dist \in Nat
          BY <5>1 DEF Hits
        <5> QED
          BY <4>2, <5>1, <5>2
      <4> QED
        BY <4>1, <4>3
    <3>3. CASE ~(j <= Len(a))
      <4>1. Len(s) = n /\ k = 1
        BY <1>1, <1>8, <3>1, <3>3
      <4>2. \A x \in 1 .. Len(s) : \E u \in 1 .. Len(a) : s[x] = a[u]
        BY <1>7, <4>1 DEF Midway
      <4> QED
        BY <3>1, <4>1, <4>2
    <3> QED
      BY <3>2, <3>3
  <2> QED
    BY <2>1, <2>2 DEF Found
<1>11. ASSUME NEW r \in Q, r \notin Found(s)
       PROVE  Len(s) = n /\ \A x \in 1 .. Len(s) : s[x].dist <= d[r]
  <2>1. CASE \E v \in 1 .. Len(b) : b[v].row = r
    <3>1. PICK v \in 1 .. Len(b) : b[v].row = r
      BY <2>1
    <3>2. v >= k
      <4>1. ~(v < k)
        BY <1>7, <1>11, <3>1 DEF Midway, Found
      <4> QED
        BY <1>1, <1>8, <4>1
    <3>3. Len(s) = n
      BY <1>1, <1>8, <3>2
    <3>4. b[v].dist = d[r]
      BY <3>1 DEF Nearest
    <3> QED
      BY <1>7, <3>2, <3>3, <3>4 DEF Midway
  <2>2. CASE r \notin Found(b)
    <3>1. Len(b) = n /\ \A v \in 1 .. Len(b) : b[v].dist <= d[r]
      BY <2>2 DEF Nearest
    <3>2. CASE k <= Len(b)
      <4>1. Len(s) = n /\ k \in 1 .. Len(b)
        BY <1>1, <1>8, <3>2
      <4>2. b[k].dist \in Nat /\ b[k].dist <= d[r]
        <5>1. b[k] \in Hits
          BY <1>1, <4>1
        <5> QED
          BY <3>1, <4>1, <5>1 DEF Hits
      <4>3. ASSUME NEW x \in 1 .. Len(s)
            PROVE  s[x].dist <= d[r]
        <5>1. s[x] \in Hits /\ s[x].dist <= b[k].dist
          BY <1>7, <4>1 DEF Midway
        <5>2. s[x].dist \in Nat
          BY <5>1 DEF Hits
        <5> QED
          BY <4>2, <5>1, <5>2
      <4> QED
        BY <4>1, <4>3
    <3>3. CASE ~(k <= Len(b))
      <4>1. Len(s) = n /\ j = 1
        BY <1>1, <1>8, <3>1, <3>3
      <4>2. \A x \in 1 .. Len(s) : \E v \in 1 .. Len(b) : s[x] = b[v]
        BY <1>7, <4>1 DEF Midway
      <4> QED
        BY <3>1, <4>1, <4>2
    <3> QED
      BY <3>2, <3>3
  <2> QED
    BY <2>1, <2>2 DEF Found
<1>12. /\ \A x, y \in 1 .. Len(s) : x # y => s[x].row # s[y].row
       /\ \A x, y \in 1 .. Len(s) : x <= y => s[x].dist <= s[y].dist
  BY <1>7 DEF Midway
<1>13. Nearest(s, R \cup Q, n, d)
  BY <1>7, <1>8, <1>9, <1>10, <1>11, <1>12 DEF Nearest
<1> QED
  BY <1>3, <1>13 DEF s

(***************************************************************************)
(* The search over the chunks                                              *)
(***************************************************************************)
(* The hits of one chunk, and the rows that a chunk, or the first chunks,   *)
(* hold.                                                                    *)
TopCount(n) == IF n < ChunkSize THEN n ELSE ChunkSize
HitAt(c, k, o) == [row |-> c.owner[<<k, o>>], dist |-> At(c, k, o)]
HitsOf(c, k, t) == [i \in 1 .. Len(t) |-> HitAt(c, k, t[i])]
RowsOf(c, k) == {c.owner[<<k, o>>] : o \in ValidOf(c, k)}
RowsUpTo(c, k) == {c.owner[p] : p \in {q \in c.valid : q[1] <= k}}
Far(c) == [r \in Rows |-> Distance[Stored(c)[r]]]

(* No two slots hold one row, and the row is as far as its slot.            *)
LEMMA RowOfSlot ==
    ASSUME NEW c \in Content, Agree(c), Filled(c), NEW p \in c.valid
    PROVE  /\ c.owner[p] \in Rows /\ c.rowids[c.owner[p]] = p
           /\ Stored(c)[c.owner[p]] = c.data[p]
           /\ Far(c)[c.owner[p]] = Distance[c.data[p]]
           /\ Far(c)[c.owner[p]] \in Nat
<1>1. c.owner[p] \in Rows /\ c.rowids[c.owner[p]] = p /\ p \in Positions
  BY DEF Agree, Content
<1>2. p # Absent
  BY <1>1, PlaceKinds
<1>3. Stored(c)[c.owner[p]] = c.data[p]
  BY <1>1, <1>2, StoredByRow
<1>4. Distance[c.data[p]] \in Nat
  BY DistanceAssumption DEF Filled
<1> QED
  BY <1>1, <1>3, <1>4 DEF Far

(* A top list as long as the chunk leaves no slot out.                      *)
LEMMA WholeChunk ==
    ASSUME NEW t \in Seq(Offsets), Len(t) = ChunkSize,
           \A i, j \in 1 .. Len(t) : i # j => t[i] # t[j], NEW o \in Offsets
    PROVE  \E i \in 1 .. Len(t) : t[i] = o
<1> DEFINE f == [i \in 1 .. ChunkSize |-> t[i]]
<1>1. f \in [1 .. ChunkSize -> Offsets]
  OBVIOUS
<1>2. f \in Injection(1 .. ChunkSize, Offsets)
  BY <1>1 DEF Injection, IsInjective
<1>3. /\ IsFiniteSet(Offsets) /\ Cardinality(Offsets) = ChunkSize
      /\ Cardinality(1 .. ChunkSize) = ChunkSize
  BY ChunkSizeAssumption, FS_Interval DEF Offsets
<1>4. f \in Surjection(1 .. ChunkSize, Offsets)
  BY <1>2, <1>3, FS_Injection
<1> QED
  BY <1>4 DEF Surjection

LEMMA ChunkNearest ==
    ASSUME NEW c \in Content, Agree(c), Filled(c), NEW k \in 1 .. MaxChunk, NEW n \in Nat
    PROVE  Nearest(HitsOf(c, k, MinIdx(c, k, TopCount(n))), RowsOf(c, k), n, Far(c))
<1> DEFINE t == MinIdx(c, k, TopCount(n))
           s == HitsOf(c, k, t)
           V == ValidOf(c, k)
<1>1. TopCount(n) \in Nat /\ TopCount(n) <= n
  BY ChunkSizeAssumption DEF TopCount
<1>2. Tops(c, k, t, TopCount(n))
  BY <1>1, MinIdxFinds
<1> HIDE DEF t
<1>3. t \in Seq(V) /\ Len(t) \in Nat /\ Len(t) <= n
  BY <1>1, <1>2 DEF Tops
<1>4. ASSUME NEW o \in V
      PROVE  /\ HitAt(c, k, o) \in Hits
             /\ HitAt(c, k, o).row \in RowsOf(c, k)
             /\ HitAt(c, k, o).dist = Far(c)[HitAt(c, k, o).row]
             /\ HitAt(c, k, o).dist = At(c, k, o)
             /\ c.rowids[HitAt(c, k, o).row] = <<k, o>>
  <2>1. <<k, o>> \in c.valid
    BY <1>4 DEF ValidOf
  <2>2. /\ c.owner[<<k, o>>] \in Rows /\ c.rowids[c.owner[<<k, o>>]] = <<k, o>>
        /\ Far(c)[c.owner[<<k, o>>]] = At(c, k, o) /\ At(c, k, o) \in Nat
    BY <2>1, RowOfSlot DEF At
  <2>3. c.owner[<<k, o>>] \in RowsOf(c, k)
    BY <1>4 DEF RowsOf
  <2> QED
    BY <2>2, <2>3 DEF HitAt, Hits
<1>5. \A i \in 1 .. Len(t) : t[i] \in V /\ s[i] = HitAt(c, k, t[i])
  BY <1>3 DEF HitsOf
<1>6. s \in Seq(Hits) /\ Len(s) = Len(t)
  <2>1. \A i \in 1 .. Len(t) : HitAt(c, k, t[i]) \in Hits
    BY <1>4, <1>5
  <2>2. s = [i \in 1 .. Len(t) |-> HitAt(c, k, t[i])]
    BY DEF HitsOf
  <2> QED
    BY <1>3, <2>1, <2>2
<1> HIDE DEF s, V
<1>7. \A i \in 1 .. Len(s) : s[i].row \in RowsOf(c, k) /\ s[i].dist = Far(c)[s[i].row]
  BY <1>4, <1>5, <1>6
<1>8. \A i, j \in 1 .. Len(s) : i # j => s[i].row # s[j].row
  <2> SUFFICES ASSUME NEW i \in 1 .. Len(t), NEW j \in 1 .. Len(t), i # j
               PROVE  s[i].row # s[j].row
    BY <1>6
  <2>1. t[i] # t[j]
    BY <1>2 DEF Tops
  <2>2. c.rowids[s[i].row] = <<k, t[i]>> /\ c.rowids[s[j].row] = <<k, t[j]>>
    BY <1>4, <1>5
  <2> QED
    BY <2>1, <2>2
<1>9. \A i, j \in 1 .. Len(s) : i <= j => s[i].dist <= s[j].dist
  <2> SUFFICES ASSUME NEW i \in 1 .. Len(t), NEW j \in 1 .. Len(t), i <= j
               PROVE  s[i].dist <= s[j].dist
    BY <1>6
  <2>1. At(c, k, t[i]) <= At(c, k, t[j])
    BY <1>2 DEF Tops
  <2> QED
    BY <1>4, <1>5, <2>1
<1>10. ASSUME NEW r \in RowsOf(c, k), r \notin Found(s)
       PROVE  Len(s) = n /\ \A i \in 1 .. Len(s) : s[i].dist <= Far(c)[r]
  <2>1. PICK o \in V : r = c.owner[<<k, o>>]
    BY DEF RowsOf, V
  <2>2. \A i \in 1 .. Len(t) : t[i] # o
    <3> SUFFICES ASSUME NEW i \in 1 .. Len(t), t[i] = o PROVE FALSE
      OBVIOUS
    <3>1. s[i] = HitAt(c, k, o) /\ i \in 1 .. Len(s)
      BY <1>5, <1>6
    <3>2. s[i].row = r
      BY <2>1, <3>1 DEF HitAt
    <3> QED
      BY <1>10, <3>1, <3>2 DEF Found
  <2>3. o \in Left(c, k, t)
    BY <2>1, <2>2 DEF Left, V
  <2>4. Len(t) = TopCount(n) /\ \A i \in 1 .. Len(t) : At(c, k, t[i]) <= At(c, k, o)
    BY <1>2, <2>3 DEF Tops
  <2>5. Far(c)[r] = At(c, k, o)
    BY <1>4, <2>1 DEF HitAt
  <2>6. n < ChunkSize \/ n = ChunkSize
    <3>1. CASE n > ChunkSize
      <4>1. Len(t) = ChunkSize
        BY <2>4, <3>1, ChunkSizeAssumption DEF TopCount
      <4>2. t \in Seq(Offsets) /\ o \in Offsets
        <5>1. V \subseteq Offsets
          BY DEF V, ValidOf
        <5>2. Seq(V) \subseteq Seq(Offsets)
          BY <5>1
        <5> QED
          BY <1>3, <2>1, <5>1, <5>2
      <4>3. \A i, j \in 1 .. Len(t) : i # j => t[i] # t[j]
        BY <1>2 DEF Tops
      <4> QED
        BY <2>2, <4>1, <4>2, <4>3, WholeChunk
    <3> QED
      BY <3>1, ChunkSizeAssumption
  <2>7. Len(s) = n
    BY <1>6, <2>4, <2>6 DEF TopCount
  <2>8. \A i \in 1 .. Len(t) : s[i].dist = At(c, k, t[i])
    BY <1>4, <1>5
  <2> QED
    BY <1>6, <2>4, <2>5, <2>7, <2>8
<1> QED
  BY <1>3, <1>6, <1>7, <1>8, <1>9, <1>10 DEF Nearest, s, t

(* vec0Filter_knn_chunks_iter, chunk by chunk.                              *)
SearchOne(c, n, k, s) ==
    IF k \notin c.chunks THEN s
    ELSE Merge(s, HitsOf(c, k, MinIdx(c, k, TopCount(n))), n)

LEMMA SearchSteps ==
    ASSUME NEW c \in Content, Agree(c), Filled(c), NEW n \in Nat
    PROVE  \E f : /\ Search(c, n) = f[MaxChunk] /\ f[0] = <<>>
                  /\ \A k \in 0 .. MaxChunk :
                       k < MaxChunk => f[k + 1] = SearchOne(c, n, k + 1, f[k])
<1> DEFINE T == Seq(Hits)
           g == [k \in 1 .. MaxChunk |-> [s \in T |-> SearchOne(c, n, k, s)]]
           IsAfter(f) == f = [k \in 0 .. MaxChunk |-> IF k = 0 THEN <<>>
                                                      ELSE SearchOne(c, n, k, f[k - 1])]
           after == CHOOSE f : IsAfter(f)
<1>1. ASSUME NEW k \in 1 .. MaxChunk, NEW s \in T
      PROVE  SearchOne(c, n, k, s) \in T
  <2> DEFINE h == HitsOf(c, k, MinIdx(c, k, TopCount(n)))
  <2>1. h \in T
    BY ChunkNearest DEF Nearest
  <2> HIDE DEF h
  <2>2. PICK f \in [0 .. n -> Merging] : Merge(s, h, n) = f[n].out
    BY <2>1, MergeSteps
  <2>3. f[n] \in Merging
    OBVIOUS
  <2>4. Merge(s, h, n) \in T
    BY <2>2, <2>3 DEF Merging
  <2> QED
    BY <2>4 DEF SearchOne, h
<1>2. <<>> \in T /\ g \in [1 .. MaxChunk -> [T -> T]]
  BY <1>1
<1> HIDE DEF g, T
<1>3. PICK f \in [0 .. MaxChunk -> T] : Iterates(f, MaxChunk, <<>>, g)
  BY <1>2, MaxChunkAssumption, IterationExists
<1>4. IsAfter(f)
  <2>1. ASSUME NEW k \in 0 .. MaxChunk, k # 0
        PROVE  g[k][f[k - 1]] = SearchOne(c, n, k, f[k - 1])
    <3>1. f[k - 1] \in T /\ k \in 1 .. MaxChunk
      BY <2>1, MaxChunkAssumption
    <3> QED
      BY <3>1 DEF g
  <2>2. f = [k \in 0 .. MaxChunk |-> IF k = 0 THEN <<>> ELSE g[k][f[k - 1]]]
    BY <1>3 DEF Iterates
  <2> QED
    BY <2>1, <2>2
<1>5. IsAfter(after)
  BY <1>4
<1>6. Search(c, n) = after[MaxChunk]
  BY DEF Search, SearchOne, HitsOf, HitAt, TopCount
<1>7. after = [k \in 0 .. MaxChunk |-> IF k = 0 THEN <<>>
                                       ELSE SearchOne(c, n, k, after[k - 1])]
  BY <1>5
<1> HIDE DEF after, IsAfter
<1>8. after[0] = <<>>
  BY <1>7, MaxChunkAssumption
<1>9. ASSUME NEW k \in 0 .. MaxChunk, k < MaxChunk
      PROVE  after[k + 1] = SearchOne(c, n, k + 1, after[k])
  <2>1. k + 1 \in 0 .. MaxChunk /\ k + 1 # 0 /\ (k + 1) - 1 = k
    BY <1>9, MaxChunkAssumption
  <2> QED
    BY <1>7, <2>1
<1> QED
  BY <1>6, <1>8, <1>9

(* The chunks that were searched, and one more.                             *)
LEMMA OneMoreChunk ==
    ASSUME NEW c \in Content, Agree(c), Filled(c), NEW n \in Nat,
           NEW k \in 0 .. MaxChunk, k < MaxChunk, NEW s,
           Nearest(s, RowsUpTo(c, k), n, Far(c))
    PROVE  Nearest(SearchOne(c, n, k + 1, s), RowsUpTo(c, k + 1), n, Far(c))
<1> DEFINE R == RowsUpTo(c, k)
           Q == RowsOf(c, k + 1)
           h == HitsOf(c, k + 1, MinIdx(c, k + 1, TopCount(n)))
<1>1. k + 1 \in 1 .. MaxChunk /\ k \in Nat
  BY MaxChunkAssumption
<1>2. ASSUME NEW p \in c.valid
      PROVE  /\ p = <<p[1], p[2]>> /\ p[1] \in Nat /\ p[2] \in Offsets
             /\ p[1] \in c.chunks
  <2>1. p \in Positions /\ p[1] \in c.chunks
    BY DEF Content, Agree
  <2> QED
    BY <2>1, MaxChunkAssumption DEF Positions
<1>3. RowsUpTo(c, k + 1) = R \cup Q
  <2>1. ASSUME NEW p \in c.valid, p[1] <= k + 1
        PROVE  c.owner[p] \in R \cup Q
    <3>1. CASE p[1] <= k
      BY <3>1 DEF RowsUpTo
    <3>2. CASE p[1] = k + 1
      <4>1. p = <<k + 1, p[2]>> /\ p[2] \in ValidOf(c, k + 1)
        BY <1>2, <3>2 DEF ValidOf
      <4> QED
        BY <4>1 DEF RowsOf
    <3> QED
      BY <1>1, <1>2, <2>1, <3>1, <3>2
  <2>2. ASSUME NEW p \in c.valid, p[1] <= k
        PROVE  p[1] <= k + 1
    BY <1>1, <1>2, <2>2
  <2>3. R \subseteq RowsUpTo(c, k + 1)
    BY <2>2 DEF RowsUpTo
  <2>4. ASSUME NEW o \in ValidOf(c, k + 1)
        PROVE  c.owner[<<k + 1, o>>] \in RowsUpTo(c, k + 1)
    <3>1. <<k + 1, o>> \in c.valid /\ <<k + 1, o>>[1] <= k + 1
      BY <1>1 DEF ValidOf
    <3> QED
      BY <3>1 DEF RowsUpTo
  <2>5. Q \subseteq RowsUpTo(c, k + 1)
    BY <2>4 DEF RowsOf
  <2>6. RowsUpTo(c, k + 1) \subseteq R \cup Q
    <3> HIDE DEF R, Q
    <3> QED
      BY <2>1 DEF RowsUpTo
  <2> QED
    BY <2>3, <2>5, <2>6
<1>4. R \cap Q = {}
  <2> SUFFICES ASSUME NEW p \in c.valid, p[1] <= k, NEW o \in ValidOf(c, k + 1),
                      c.owner[p] = c.owner[<<k + 1, o>>]
               PROVE  FALSE
    BY DEF RowsUpTo, RowsOf
  <2>1. <<k + 1, o>> \in c.valid
    BY DEF ValidOf
  <2>2. p = <<k + 1, o>>
    BY <2>1, RowOfSlot
  <2> QED
    BY <1>1, <2>2
<1>5. \A r \in R \cup Q : Far(c)[r] \in Nat
  <2>1. \A p \in c.valid : Far(c)[c.owner[p]] \in Nat
    BY RowOfSlot
  <2> QED
    BY <2>1 DEF RowsUpTo, RowsOf, ValidOf
<1> HIDE DEF R, Q, h
<1>6. CASE k + 1 \in c.chunks
  <2>1. Nearest(h, Q, n, Far(c)) /\ Nearest(s, R, n, Far(c))
    BY <1>1, ChunkNearest DEF h, Q, R
  <2>2. Nearest(Merge(s, h, n), R \cup Q, n, Far(c))
    BY <1>4, <1>5, <2>1, MergeNearest
  <2> QED
    BY <1>3, <1>6, <2>2 DEF SearchOne, h
<1>7. CASE k + 1 \notin c.chunks
  <2>1. Q = {}
    <3> SUFFICES ASSUME NEW o \in ValidOf(c, k + 1) PROVE FALSE
      BY DEF Q, RowsOf
    <3>1. <<k + 1, o>> \in c.valid
      BY DEF ValidOf
    <3> QED
      BY <1>2, <1>7, <3>1
  <2>2. RowsUpTo(c, k + 1) = R
    BY <1>3, <2>1
  <2> QED
    BY <1>7, <2>2 DEF SearchOne, R
<1> QED
  BY <1>6, <1>7

LEMMA SearchNearest ==
    ASSUME NEW c \in Content, Agree(c), Filled(c), NEW n \in Nat
    PROVE  Nearest(Search(c, n), {c.owner[p] : p \in c.valid}, n, Far(c))
<1>1. PICK f : /\ Search(c, n) = f[MaxChunk] /\ f[0] = <<>>
               /\ \A k \in 0 .. MaxChunk :
                    k < MaxChunk => f[k + 1] = SearchOne(c, n, k + 1, f[k])
  BY SearchSteps
<1> DEFINE S == {k \in 0 .. MaxChunk : Nearest(f[k], RowsUpTo(c, k), n, Far(c))}
<1>2. \A p \in c.valid : p[1] \in 1 .. MaxChunk
  BY DEF Content, Positions
<1>3. 0 \in S
  <2>1. RowsUpTo(c, 0) = {}
    BY <1>2, MaxChunkAssumption DEF RowsUpTo
  <2>2. Nearest(<<>>, {}, n, Far(c))
    BY DEF Nearest
  <2>3. Nearest(f[0], RowsUpTo(c, 0), n, Far(c))
    BY <1>1, <2>1, <2>2
  <2> QED
    BY <2>3, MaxChunkAssumption
<1>4. \A k \in 0 .. MaxChunk : k < MaxChunk /\ k \in S => k + 1 \in S
  <2> SUFFICES ASSUME NEW k \in 0 .. MaxChunk, k < MaxChunk, k \in S PROVE k + 1 \in S
    OBVIOUS
  <2>1. f[k + 1] = SearchOne(c, n, k + 1, f[k]) /\ k + 1 \in 0 .. MaxChunk
    BY <1>1, MaxChunkAssumption
  <2>2. Nearest(f[k + 1], RowsUpTo(c, k + 1), n, Far(c))
    BY <2>1, OneMoreChunk
  <2> QED
    BY <2>1, <2>2
<1> HIDE DEF S
<1>5. \A k \in 0 .. MaxChunk : k \in S
  BY ONLY MaxChunkAssumption, <1>3, <1>4, HandedOn
<1>6. Nearest(f[MaxChunk], RowsUpTo(c, MaxChunk), n, Far(c))
  BY <1>5, MaxChunkAssumption DEF S
<1>7. RowsUpTo(c, MaxChunk) = {c.owner[p] : p \in c.valid}
  BY <1>2, MaxChunkAssumption DEF RowsUpTo
<1> QED
  BY <1>1, <1>6, <1>7

(***************************************************************************)
(* Every valid slot holds a vector.                                        *)
(***************************************************************************)
LEMMA FilledStep ==
    ASSUME IInv, Filled(content), Filled(base), [Next]_vars
    PROVE  Filled(content)' /\ Filled(base)'
<1>1. CASE UNCHANGED vars
  BY <1>1 DEF vars, Filled
<1>2. ASSUME NEW c \in Calls, Begin(c) PROVE Filled(content)' /\ Filled(base)'
  BY <1>2 DEF Begin, Filled
<1>3. CASE FindRow \/ DeleteRowid \/ ReclaimChunk \/ InsertRowid \/ UseLatestChunk \/ Release
  <2>1. content'.valid = content.valid /\ content'.data = content.data /\ base' = base
    <3>0. content \in Content
      BY DEF IInv, TypeOK
    <3>1. CASE FindRow \/ UseLatestChunk \/ Release
      BY <3>1 DEF FindRow, UseLatestChunk, Release
    <3>2. CASE DeleteRowid \/ InsertRowid
      BY <3>0, <3>2 DEF DeleteRowid, InsertRowid, Content
    <3>3. CASE ReclaimChunk
      BY <3>0, <3>3 DEF ReclaimChunk, Content
    <3> QED
      BY <1>3, <3>1, <3>2, <3>3
  <2> QED
    BY <2>1 DEF Filled
<1>4. CASE ClearSlot
  <2>1. content \in Content /\ base' = base
    BY <1>4 DEF ClearSlot, IInv, TypeOK
  <2>2. /\ content'.valid = content.valid \ {slot}
        /\ content'.data = [content.data EXCEPT ![slot] = None]
    BY <1>4, <2>1 DEF ClearSlot, Content
  <2>3. \A p \in content'.valid : content'.data[p] = content.data[p]
    BY <2>1, <2>2 DEF Content
  <2> QED
    BY <2>1, <2>2, <2>3 DEF Filled
<1>5. CASE DeleteFails \/ InsertFails
  BY <1>5 DEF DeleteFails, InsertFails, Filled
<1>6. CASE UseNewChunk
  <2>1. /\ content \in Content /\ base' = base /\ content' = NewChunk(content)
        /\ call \in Calls /\ During /\ step = "place"
    BY <1>6, Running DEF UseNewChunk, IInv, TypeOK
  <2>2. /\ content'.valid = content.valid
        /\ content'.data = [p \in Positions |-> IF p[1] = content.last + 1 THEN None
                                                ELSE content.data[p]]
    BY <2>1 DEF NewChunk, Content
  <2>3. Rest(call.row)
    BY <2>1 DEF During, AtStep
  <2>4. ASSUME NEW p \in content.valid
        PROVE  content'.data[p] = content.data[p]
    <3>1. p \in Positions /\ p[1] \in 1 .. content.last /\ content.last \in Nat
      BY <2>1, <2>3, MaxChunkAssumption DEF Rest, Content
    <3>2. p[1] # content.last + 1
      BY <3>1
    <3> QED
      BY <2>2, <3>1, <3>2
  <2> QED
    BY <2>1, <2>2, <2>4 DEF Filled
<1>7. CASE WriteSlot
  <2>1. /\ content \in Content /\ base' = base /\ step = "write"
        /\ call \in Calls /\ During
    BY <1>7, Running DEF WriteSlot, IInv, TypeOK
  <2>2. /\ content'.valid = content.valid \cup {slot}
        /\ content'.data = [content.data EXCEPT ![slot] = call.vec]
    BY <1>7, <2>1 DEF WriteSlot, Content
  <2>3. call.vec \in Vectors /\ slot \in Positions
    BY <2>1, CallKinds DEF During, AtStep
  <2>4. ASSUME NEW p \in content'.valid
        PROVE  content'.data[p] \in Vectors
    <3>1. CASE p = slot
      BY <2>1, <2>2, <2>3, <3>1 DEF Content
    <3>2. CASE p \in content.valid /\ p # slot
      BY <2>1, <2>2, <3>2 DEF Content, Filled
    <3> QED
      BY <2>2, <2>4, <3>1, <3>2
  <2> QED
    BY <2>1, <2>4 DEF Filled
<1> QED
  BY <1>1, <1>2, <1>3, <1>4, <1>5, <1>6, <1>7 DEF Next

LEMMA AlwaysFilled == Spec => [](IInv /\ Filled(content) /\ Filled(base))
<1>1. Init => IInv /\ Filled(content) /\ Filled(base)
  BY InitIInv DEF Init, EmptyTable, Filled
<1>2. ASSUME IInv /\ Filled(content) /\ Filled(base), [Next]_vars
      PROVE  (IInv /\ Filled(content) /\ Filled(base))'
  BY <1>2, StepIInv, FilledStep
<1> QED
  BY <1>1, <1>2, PTL DEF Spec

(* A list of the nearest is as long as it should be.                        *)
LEMMA NearestCounts ==
    ASSUME NEW s, NEW V, IsFiniteSet(V), NEW n \in Nat, NEW d, Nearest(s, V, n, d)
    PROVE  /\ Found(s) \subseteq V /\ Len(s) = Cardinality(Found(s))
           /\ Cardinality(Found(s)) = IF n < Cardinality(V) THEN n ELSE Cardinality(V)
<1> DEFINE f == [i \in 1 .. Len(s) |-> s[i].row]
<1>1. Len(s) \in Nat /\ Len(s) <= n /\ Found(s) \subseteq V
  BY DEF Nearest, Found
<1>2. f \in Surjection(1 .. Len(s), Found(s)) /\ f \in Injection(1 .. Len(s), Found(s))
  BY DEF Surjection, Injection, IsInjective, Found, Nearest
<1>3. IsFiniteSet(1 .. Len(s)) /\ Cardinality(1 .. Len(s)) = Len(s)
  <2>1. Len(s) \in Int /\ 1 \in Int /\ (IF 1 > Len(s) THEN 0 ELSE Len(s) - 1 + 1) = Len(s)
    BY <1>1
  <2> QED
    BY ONLY <2>1, FS_Interval
<1> HIDE DEF f
<1>4. Cardinality(Found(s)) = Len(s)
  BY <1>2, <1>3, FS_Surjection
<1>5. /\ Cardinality(Found(s)) <= Cardinality(V) /\ Cardinality(V) \in Nat
      /\ Cardinality(Found(s)) = Cardinality(V) => Found(s) = V
  BY <1>1, FS_Subset, FS_CardinalityType
<1>6. CASE Len(s) = n
  BY <1>1, <1>4, <1>5, <1>6
<1>7. CASE Len(s) # n
  <2>1. Found(s) = V
    BY <1>1, <1>7 DEF Nearest
  <2> QED
    BY <1>1, <1>4, <1>5, <1>7, <2>1
<1> QED
  BY <1>1, <1>4, <1>6, <1>7

(* A search answers with the n nearest of the stored rows, or with all when *)
(* there are fewer, each once and with its distance, nearest first          *)
(* (vec0Filter_knn_chunks_iter, min_idx, merge_sorted_lists).               *)
THEOREM SearchIsExact == Spec => []SearchFindsTheNearest
<1>1. IInv /\ Filled(content) /\ Filled(base) => SearchFindsTheNearest
  <2> SUFFICES ASSUME IInv, Filled(content), call = Idle,
                      NEW n \in 1 .. Cardinality(Rows) + 1
               PROVE  /\ Found(Rank(n)) \subseteq Vectored
                      /\ Len(Rank(n)) = Cardinality(Found(Rank(n)))
                      /\ Cardinality(Found(Rank(n))) =
                           IF n < Cardinality(Vectored) THEN n ELSE Cardinality(Vectored)
                      /\ \A i \in 1 .. Len(Rank(n)) :
                           /\ Rank(n)[i].dist = Distance[Stored(content)[Rank(n)[i].row]]
                           /\ \A j \in 1 .. i : Rank(n)[j].dist <= Rank(n)[i].dist
                           /\ \A r \in Vectored \ Found(Rank(n)) :
                                Rank(n)[i].dist <= Distance[Stored(content)[r]]
    BY DEF SearchFindsTheNearest, Found
  <2> DEFINE V == {content.owner[p] : p \in content.valid}
             s == Rank(n)
  <2>1. n \in Nat
    OBVIOUS
  <2>2. content \in Content /\ Agree(content)
    BY DEF IInv, TypeOK, Quiet
  <2>3. Nearest(s, V, n, Far(content))
    BY <2>1, <2>2, SearchNearest DEF Rank
  <2>4. V = Vectored
    <3>1. \A p \in content.valid : /\ content.owner[p] \in Rows
                                   /\ Stored(content)[content.owner[p]] \in Vectors
      BY <2>2, RowOfSlot DEF Filled
    <3>2. ASSUME NEW r \in Rows, Stored(content)[r] # None
          PROVE  r \in V
      BY <3>2 DEF Stored
    <3> QED
      BY <3>1, <3>2, NoneAssumption DEF Vectored
  <2>5. IsFiniteSet(V)
    <3>1. IsFiniteSet(1 .. MaxChunk) /\ IsFiniteSet(Offsets)
      BY FS_Interval, MaxChunkAssumption, ChunkSizeAssumption DEF Offsets
    <3>2. IsFiniteSet(content.valid)
      BY <2>2, <3>1, FS_Product, FS_Subset DEF Content, Positions
    <3> DEFINE f == [p \in content.valid |-> content.owner[p]]
    <3>3. f \in Surjection(content.valid, V)
      BY DEF Surjection
    <3> QED
      BY <3>2, <3>3, FS_Surjection
  <2> HIDE DEF V, s
  <2>6. /\ Found(s) \subseteq V /\ Len(s) = Cardinality(Found(s))
        /\ Cardinality(Found(s)) = IF n < Cardinality(V) THEN n ELSE Cardinality(V)
    BY <2>1, <2>3, <2>5, NearestCounts
  <2>7. \A r \in V : Far(content)[r] = Distance[Stored(content)[r]]
    BY <2>4 DEF Far, Vectored
  <2>8. ASSUME NEW i \in 1 .. Len(s)
        PROVE  /\ s[i].dist = Distance[Stored(content)[s[i].row]]
               /\ \A j \in 1 .. i : s[j].dist <= s[i].dist
               /\ \A r \in V \ Found(s) : s[i].dist <= Distance[Stored(content)[r]]
    <3>1. s[i].row \in V /\ s[i].dist = Far(content)[s[i].row]
      BY <2>3 DEF Nearest
    <3>2. \A j \in 1 .. i : j \in 1 .. Len(s) /\ j <= i
      BY <2>3 DEF Nearest
    <3>3. \A j \in 1 .. i : s[j].dist <= s[i].dist
      BY <2>3, <3>2 DEF Nearest
    <3>4. \A r \in V \ Found(s) : s[i].dist <= Far(content)[r]
      BY <2>3 DEF Nearest
    <3> QED
      BY <2>7, <3>1, <3>3, <3>4
  <2> QED
    BY <2>4, <2>6, <2>8 DEF s
<1> QED
  BY <1>1, AlwaysFilled, PTL
=============================================================================
