------------------------- MODULE MemoryIndexProofs -------------------------
(* Theorems about the semantic index for any number of threads, rows,       *)
(* texts, calls and faults.                                                 *)
(*                                                                          *)
(* The argument has two parts.  The shared connection: the open savepoints  *)
(* are those of the running upserts and of the failed ones, so a RELEASE    *)
(* commits only when its thread is alone and nothing has failed.  The       *)
(* index: from the moment a rebuild has dropped the tables, no view, file   *)
(* or savepoint holds a vector of the old model again, because every call   *)
(* that stores waits for an index that is current.                          *)
EXTENDS MemoryIndex, FiniteSetTheorems, TLAPS

(* What the connection and the file hold is a table or nothing.             *)
Sound(db) == db.dim = None => \A r \in Rows : db.rows[r] = None

StoreInv ==
    /\ StoreTypeOK
    /\ SavepointsAreCounted
    /\ \A t \in Threads : pc[t] # "idle" => job[t] \in Jobs
    /\ saves = <<>> => view = durable
    /\ Sound(view) /\ Sound(durable)
    /\ \A i \in 1 .. Len(saves) : Sound(saves[i])

(* No vector of the old model is left.                                      *)
Fresh(db) == \A r \in Rows : db.rows[r] # Stale
AllFresh == /\ Fresh(view) /\ Fresh(durable)
            /\ \A i \in 1 .. Len(saves) : Fresh(saves[i])

JobsFresh == \A t \in Threads : pc[t] # "idle" => job[t].vec \in Texts

-----------------------------------------------------------------------------
(* The threads inside an upsert are finitely many, and a step changes them  *)
(* by one (StartUpsert, Finish).                                            *)
LEMMA InsideCount ==
    ASSUME StoreTypeOK
    PROVE  /\ Cardinality(Inside) \in Nat
           /\ Cardinality(Inside) = 0 <=> Inside = {}
           /\ \A t \in Threads :
                /\ t \notin Inside =>
                     Cardinality(Inside \cup {t}) = Cardinality(Inside) + 1
                /\ t \in Inside =>
                     /\ Cardinality(Inside \ {t}) = Cardinality(Inside) - 1
                     /\ Cardinality(Inside) = 1 => Inside = {t}
<1>1. IsFiniteSet(Inside)
    BY FS_Subset, ThreadsAssumption DEF Inside
<1>2. Cardinality(Inside) \in Nat /\ (Cardinality(Inside) = 0 <=> Inside = {})
    BY <1>1, FS_CardinalityType, FS_EmptySet
<1>3. ASSUME NEW t \in Threads
      PROVE  /\ t \notin Inside =>
                  Cardinality(Inside \cup {t}) = Cardinality(Inside) + 1
             /\ t \in Inside => Cardinality(Inside \ {t}) = Cardinality(Inside) - 1
    BY <1>1, FS_AddElement, FS_RemoveElement
<1>4. ASSUME NEW t \in Inside, Cardinality(Inside) = 1
      PROVE  Inside = {t}
    BY <1>1, <1>4, FS_Singleton
<1>5. QED
    BY <1>2, <1>3, <1>4

(* Statements that write go to the view, and to the file when no savepoint  *)
(* is open.                                                                 *)
LEMMA WriteKeeps ==
    ASSUME StoreInv, NEW db \in Tables, Sound(db), Write(db),
           UNCHANGED <<job, failed>>,
           pc' \in [Threads -> {"idle", "delete", "insert", "release", "rollback"}],
           Inside' = Inside
    PROVE  StoreInv'
<1>1. view' = db /\ saves' = saves /\ job' = job /\ failed' = failed
      /\ durable' = IF saves = <<>> THEN db ELSE durable
    BY DEF Write
<1>2. StoreTypeOK'
    BY <1>1 DEF StoreInv, StoreTypeOK
<1>3. SavepointsAreCounted'
    BY <1>1 DEF StoreInv, SavepointsAreCounted
<1>4. \A t \in Threads : pc'[t] # "idle" => job'[t] \in Jobs
    BY <1>1 DEF StoreInv, Inside
<1>5. /\ saves' = <<>> => view' = durable'
      /\ Sound(view)' /\ Sound(durable)'
      /\ \A i \in 1 .. Len(saves') : Sound(saves'[i])
    BY <1>1 DEF StoreInv, Sound
<1>6. QED
    BY <1>2, <1>3, <1>4, <1>5 DEF StoreInv, Sound

LEMMA StartUpsertKeeps ==
    ASSUME StoreInv, NEW t \in Threads, NEW j \in Jobs, StartUpsert(t, j)
    PROVE  StoreInv'
<1>1. /\ pc[t] = "idle" /\ saves' = Append(saves, view)
      /\ view' = view /\ durable' = durable /\ failed' = failed
      /\ pc' = [pc EXCEPT ![t] = "delete"] /\ job' = [job EXCEPT ![t] = j]
    BY DEF StartUpsert, OpenSavepoint
<1>2. StoreTypeOK'
    BY <1>1 DEF StoreInv, StoreTypeOK
<1>3. t \notin Inside /\ Inside' = Inside \cup {t}
    BY <1>1 DEF StoreInv, StoreTypeOK, Inside
<1>4. Len(saves') = Len(saves) + 1 /\ saves \in Seq(Tables)
    BY <1>1 DEF StoreInv, StoreTypeOK
<1>5. SavepointsAreCounted'
  <2>1. Cardinality(Inside') = Cardinality(Inside) + 1
    BY <1>3, InsideCount DEF StoreInv
  <2>2. /\ Len(saves) = Cardinality(Inside) + failed
        /\ Cardinality(Inside) \in Nat /\ failed \in Nat
    BY InsideCount DEF StoreInv, SavepointsAreCounted, StoreTypeOK
  <2>3. QED
    BY <1>1, <1>4, <2>1, <2>2 DEF SavepointsAreCounted
<1>6. \A i \in 1 .. Len(saves') : Sound(saves'[i])
    BY <1>1, <1>4 DEF StoreInv, StoreTypeOK
<1>7. saves' # <<>>
    BY <1>4
<1>8. \A u \in Threads : pc'[u] # "idle" => job'[u] \in Jobs
    BY <1>1 DEF StoreInv, StoreTypeOK
<1>9. Sound(view)' /\ Sound(durable)'
    BY <1>1 DEF StoreInv, Sound
<1>10. QED
    BY <1>2, <1>5, <1>6, <1>7, <1>8, <1>9 DEF StoreInv, Sound

LEMMA DeleteOldKeeps ==
    ASSUME StoreInv, NEW t \in Threads, DeleteOld(t)
    PROVE  StoreInv'
<1>1. /\ pc[t] = "delete" /\ pc' = [pc EXCEPT ![t] = "insert"]
      /\ job' = job /\ failed' = failed
    BY DEF DeleteOld
<1>2. /\ pc' \in [Threads -> {"idle", "delete", "insert", "release", "rollback"}]
      /\ Inside' = Inside
    BY <1>1 DEF StoreInv, StoreTypeOK, Inside
<1>3. CASE view.dim = None
  <2>1. view' = view /\ durable' = durable /\ saves' = saves
    BY <1>3 DEF DeleteOld
  <2>2. QED
    BY <1>1, <1>2, <2>1
    DEF StoreInv, StoreTypeOK, SavepointsAreCounted, Inside, Sound
<1>4. CASE view.dim # None
  <2> DEFINE db == [view EXCEPT !.rows[job[t].row] = None]
  <2>1. Write(db)
    BY <1>4 DEF DeleteOld
  <2>2. db \in Tables /\ Sound(db)
    BY <1>4 DEF StoreInv, StoreTypeOK, Tables, Sound
  <2> HIDE DEF db
  <2>3. QED
    BY <1>1, <1>2, <2>1, <2>2, WriteKeeps
<1>5. QED
    BY <1>3, <1>4

LEMMA InsertNewKeeps ==
    ASSUME StoreInv, NEW t \in Threads, InsertNew(t) \/ InsertBreaks(t)
    PROVE  StoreInv'
<1>1. /\ pc[t] = "insert" /\ job' = job /\ failed' = failed
      /\ pc' \in {[pc EXCEPT ![t] = "release"], [pc EXCEPT ![t] = "rollback"]}
    BY DEF InsertNew, InsertBreaks
<1>2. /\ pc' \in [Threads -> {"idle", "delete", "insert", "release", "rollback"}]
      /\ Inside' = Inside
    BY <1>1 DEF StoreInv, StoreTypeOK, Inside
<1>3. CASE InsertNew(t) /\ Accepted(job[t])
  <2> DEFINE db == [view EXCEPT !.rows[job[t].row] = job[t].vec]
  <2>1. Write(db)
    BY <1>3 DEF InsertNew
  <2>2. job[t] \in Jobs /\ view.dim # None
    BY <1>1, <1>3, NoneAssumption, DimOfAssumption DEF StoreInv, Accepted, Jobs
  <2>3. db \in Tables /\ Sound(db)
    BY <2>2 DEF StoreInv, StoreTypeOK, Tables, Sound, Jobs
  <2> HIDE DEF db
  <2>4. QED
    BY <1>1, <1>2, <2>1, <2>3, WriteKeeps
<1>4. CASE view' = view /\ durable' = durable /\ saves' = saves
    BY <1>1, <1>2, <1>4
    DEF StoreInv, StoreTypeOK, SavepointsAreCounted, Inside, Sound
<1>5. QED
    BY <1>3, <1>4 DEF InsertNew, InsertBreaks

LEMMA ReturnDoneKeeps ==
    ASSUME StoreInv, NEW t \in Threads, ReturnDone(t)
    PROVE  StoreInv'
<1>1. /\ pc[t] = "release" /\ failed' = failed /\ view' = view
      /\ saves' = SubSeq(saves, 1, Len(saves) - 1)
      /\ durable' = IF Len(saves) = 1 THEN view ELSE durable
      /\ pc' = [pc EXCEPT ![t] = "idle"] /\ job' = [job EXCEPT ![t] = NoJob]
    BY DEF ReturnDone, ReleaseSavepoint, Finish
<1>2. t \in Inside /\ Inside' = Inside \ {t}
    BY <1>1 DEF StoreInv, StoreTypeOK, Inside
<1>3. saves \in Seq(Tables) /\ Len(saves) \in Nat /\ Len(saves) >= 1 /\ failed \in Nat
      /\ Len(saves) = Cardinality(Inside) + failed
    BY <1>2, InsideCount DEF StoreInv, SavepointsAreCounted, StoreTypeOK
<1>4. /\ saves' \in Seq(Tables) /\ Len(saves') = Len(saves) - 1
      /\ \A i \in 1 .. Len(saves') : saves'[i] = saves[i]
    BY <1>1, <1>3
<1>5. SavepointsAreCounted'
    BY <1>1, <1>2, <1>3, <1>4, InsideCount DEF StoreInv, SavepointsAreCounted
<1>6. StoreTypeOK'
    BY <1>1, <1>4 DEF StoreInv, StoreTypeOK
<1>7. saves' = <<>> => view' = durable'
  <2>1. saves' = <<>> => Len(saves') = 0
    OBVIOUS
  <2>2. saves' = <<>> => Len(saves) = 1
    BY <1>3, <1>4, <2>1
  <2>3. QED
    BY <1>1, <2>2
<1>8. /\ Sound(view)' /\ Sound(durable)'
      /\ \A i \in 1 .. Len(saves') : Sound(saves'[i])
  <2>1. durable' \in {view, durable} /\ view' = view
    BY <1>1
  <2>2. Sound(view)' /\ Sound(durable)'
    BY <2>1 DEF StoreInv, Sound
  <2>3. \A i \in 1 .. Len(saves') : i \in 1 .. Len(saves) /\ saves'[i] = saves[i]
    BY <1>3, <1>4
  <2>4. QED
    BY <2>2, <2>3 DEF StoreInv
<1>9. \A u \in Threads : pc'[u] # "idle" => job'[u] \in Jobs
    BY <1>1 DEF StoreInv, StoreTypeOK
<1>10. QED
    BY <1>5, <1>6, <1>7, <1>8, <1>9 DEF StoreInv, Sound

LEMMA ReturnErrorKeeps ==
    ASSUME StoreInv, NEW t \in Threads, ReturnError(t)
    PROVE  StoreInv'
<1>1. /\ pc[t] = "rollback" /\ failed' = failed + 1 /\ view' = saves[Len(saves)]
      /\ saves' = saves /\ durable' = durable
      /\ pc' = [pc EXCEPT ![t] = "idle"] /\ job' = [job EXCEPT ![t] = NoJob]
    BY DEF ReturnError, RollbackToSavepoint, Finish
<1>2. t \in Inside /\ Inside' = Inside \ {t}
    BY <1>1 DEF StoreInv, StoreTypeOK, Inside
<1>3. saves \in Seq(Tables) /\ Len(saves) \in Nat /\ Len(saves) >= 1 /\ failed \in Nat
      /\ Len(saves) = Cardinality(Inside) + failed
    BY <1>2, InsideCount DEF StoreInv, SavepointsAreCounted, StoreTypeOK
<1>4. SavepointsAreCounted'
    BY <1>1, <1>2, <1>3, InsideCount DEF StoreInv, SavepointsAreCounted
<1>5. view' \in Tables /\ Sound(view')
    BY <1>1, <1>3 DEF StoreInv
<1>6. StoreTypeOK'
    BY <1>1, <1>3, <1>5 DEF StoreInv, StoreTypeOK
<1>7. saves' # <<>>
    BY <1>1, <1>3
<1>8. Sound(view)' /\ Sound(durable)' /\ \A i \in 1 .. Len(saves') : Sound(saves'[i])
    BY <1>1, <1>5 DEF StoreInv, Sound
<1>9. \A u \in Threads : pc'[u] # "idle" => job'[u] \in Jobs
    BY <1>1 DEF StoreInv, StoreTypeOK
<1>10. QED
    BY <1>4, <1>6, <1>7, <1>8, <1>9 DEF StoreInv, Sound

LEMMA TableCallsKeep ==
    ASSUME StoreInv, NEW t \in Threads,
           \/ \E r \in Rows : DeleteRow(t, r)
           \/ \E d \in Dims : CreateTable(t, d)
           \/ DropTable(t)
    PROVE  StoreInv'
<1>1. pc' = pc /\ job' = job /\ failed' = failed
    BY DEF DeleteRow, CreateTable, DropTable
<1>2. /\ pc' \in [Threads -> {"idle", "delete", "insert", "release", "rollback"}]
      /\ Inside' = Inside
    BY <1>1 DEF StoreInv, StoreTypeOK, Inside
<1>3. ASSUME NEW r \in Rows, DeleteRow(t, r)
      PROVE  StoreInv'
  <2> DEFINE db == [view EXCEPT !.rows[r] = None]
  <2>1. Write(db) /\ db \in Tables /\ Sound(db)
    BY <1>3 DEF DeleteRow, StoreInv, StoreTypeOK, Tables, Sound
  <2> HIDE DEF db
  <2>2. QED
    BY <1>1, <1>2, <2>1, WriteKeeps
<1>4. ASSUME NEW d \in Dims, CreateTable(t, d)
      PROVE  StoreInv'
  <2> DEFINE db == [view EXCEPT !.dim = d]
  <2>1. Write(db) /\ db \in Tables /\ Sound(db)
    BY <1>4, NoneAssumption DEF CreateTable, StoreInv, StoreTypeOK, Tables, Sound
  <2> HIDE DEF db
  <2>2. QED
    BY <1>1, <1>2, <2>1, WriteKeeps
<1>5. CASE DropTable(t)
  <2>1. Write(NoTable) /\ NoTable \in Tables /\ Sound(NoTable)
    BY <1>5 DEF DropTable, NoTable, Tables, Sound
  <2>2. QED
    BY <1>1, <1>2, <2>1, WriteKeeps
<1>6. QED
    BY <1>3, <1>4, <1>5

LEMMA CrashKeeps ==
    ASSUME StoreInv, Crash
    PROVE  StoreInv'
<1>1. /\ view' = durable /\ durable' = durable /\ saves' = <<>> /\ failed' = 0
      /\ pc' = [t \in Threads |-> "idle"] /\ job' = [t \in Threads |-> NoJob]
    BY DEF Crash
<1>2. Inside' = {}
    BY <1>1 DEF Inside
<1>3. Len(saves') = 0 /\ Cardinality(Inside') = 0
    BY <1>1, <1>2, FS_EmptySet
<1>4. QED
    BY <1>1, <1>3 DEF StoreInv, StoreTypeOK, SavepointsAreCounted, Sound

(* Every statement on the connection keeps the savepoints in step with the  *)
(* upserts (upsert, OP_Savepoint).                                          *)
LEMMA StoreStep ==
    ASSUME StoreInv, [StoreNext]_storeVars
    PROVE  StoreInv'
<1>1. CASE UNCHANGED storeVars
    BY <1>1 DEF storeVars, StoreInv, StoreTypeOK, SavepointsAreCounted, Inside, Sound
<1>2. ASSUME NEW t \in Threads, Step(t)
      PROVE  StoreInv'
    BY <1>2, StartUpsertKeeps, DeleteOldKeeps, InsertNewKeeps, ReturnDoneKeeps,
       ReturnErrorKeeps, TableCallsKeep DEF Step
<1>3. QED
    BY <1>1, <1>2, CrashKeeps DEF StoreNext

(* The file takes over what the connection shows only when the last thread  *)
(* leaves, or for a statement of its own.                                   *)
LEMMA StoreStepCommitsWhole ==
    ASSUME StoreInv, [StoreNext]_storeVars, durable' # durable
    PROVE  \A t \in Threads : pc'[t] = "idle"
<1>1. ASSUME NEW db, Write(db), pc' = pc
      PROVE  \A t \in Threads : pc'[t] = "idle"
  <2>1. saves = <<>>
    BY <1>1 DEF Write
  <2>2. Len(saves) = 0 /\ Cardinality(Inside) \in Nat /\ failed \in Nat
    BY <2>1, InsideCount DEF StoreInv, StoreTypeOK
  <2>3. Inside = {}
    BY <2>2, InsideCount DEF StoreInv, SavepointsAreCounted
  <2>4. QED
    BY <1>1, <2>3 DEF Inside
<1>2. ASSUME NEW t \in Threads, pc[t] # "idle"
      PROVE  saves # <<>>
  <2>1. t \in Inside
    BY <1>2 DEF Inside
  <2>2. Cardinality(Inside) \in Nat \ {0} /\ failed \in Nat
    BY <2>1, InsideCount DEF StoreInv, StoreTypeOK
  <2>3. Len(saves) # 0
    BY <2>2 DEF StoreInv, SavepointsAreCounted
  <2>4. QED
    BY <2>3
<1>3. ASSUME NEW t \in Threads, ReturnDone(t)
      PROVE  \A u \in Threads : pc'[u] = "idle"
  <2>1. /\ pc[t] = "release" /\ Len(saves) = 1
        /\ pc' = [pc EXCEPT ![t] = "idle"]
    BY <1>3 DEF ReturnDone, ReleaseSavepoint, Finish
  <2>2. t \in Inside
    BY <2>1 DEF Inside
  <2>3. Cardinality(Inside) \in Nat \ {0} /\ failed \in Nat
    BY <2>2, InsideCount DEF StoreInv, StoreTypeOK
  <2>4. Cardinality(Inside) = 1
    <3>1. 1 = Cardinality(Inside) + failed
      BY <2>1 DEF StoreInv, SavepointsAreCounted
    <3>2. QED
      BY <2>3, <3>1
  <2>5. Inside = {t}
    BY <2>2, <2>4, InsideCount DEF StoreInv
  <2>6. QED
    BY <2>1, <2>5 DEF Inside, StoreInv, StoreTypeOK
<1>4. ASSUME NEW t \in Threads, DeleteOld(t) \/ InsertNew(t) \/ InsertBreaks(t)
      PROVE  FALSE
    BY <1>2, <1>4 DEF DeleteOld, InsertNew, InsertBreaks, Write
<1>5. ASSUME NEW t \in Threads,
             (\E j \in Jobs : StartUpsert(t, j)) \/ ReturnError(t)
      PROVE  FALSE
    BY <1>5 DEF StartUpsert, OpenSavepoint, ReturnError, RollbackToSavepoint
<1>6. ASSUME NEW t \in Threads,
             \/ \E r \in Rows : DeleteRow(t, r)
             \/ \E d \in Dims : CreateTable(t, d)
             \/ DropTable(t)
      PROVE  \A u \in Threads : pc'[u] = "idle"
    BY <1>1, <1>6 DEF DeleteRow, CreateTable, DropTable
<1>7. QED
    BY <1>3, <1>4, <1>5, <1>6 DEF StoreNext, Step, Crash, storeVars

(* Once the old vectors are gone no statement brings one back: not a        *)
(* rollback, because the savepoints hold none, and not the death of the     *)
(* process, because the file holds none.                                    *)
LEMMA FreshStays ==
    ASSUME StoreInv, JobsFresh, AllFresh, [StoreNext]_storeVars
    PROVE  AllFresh'
<1>1. ASSUME NEW db, Fresh(db), Write(db)
      PROVE  AllFresh'
    BY <1>1 DEF Write, AllFresh, Fresh
<1>2. saves \in Seq(Tables) /\ view \in Tables
    BY DEF StoreInv, StoreTypeOK
<1>3. ASSUME NEW t \in Threads, NEW j \in Jobs, StartUpsert(t, j)
      PROVE  AllFresh'
  <2>1. saves' = Append(saves, view) /\ view' = view /\ durable' = durable
    BY <1>3 DEF StartUpsert, OpenSavepoint
  <2>2. \A i \in 1 .. Len(saves') :
           \/ i \in 1 .. Len(saves) /\ saves'[i] = saves[i]
           \/ saves'[i] = view
    BY <1>2, <2>1
  <2>3. QED
    BY <2>1, <2>2 DEF AllFresh, Fresh
<1>4. ASSUME NEW t \in Threads, DeleteOld(t)
      PROVE  AllFresh'
  <2>1. Fresh([view EXCEPT !.rows[job[t].row] = None])
    BY <1>2, TextsAssumption, NoneAssumption DEF AllFresh, Fresh, Tables
  <2>2. QED
    BY <1>1, <1>4, <2>1 DEF DeleteOld, AllFresh
<1>5. ASSUME NEW t \in Threads, InsertNew(t) \/ InsertBreaks(t)
      PROVE  AllFresh'
  <2>1. job[t].vec # Stale
    BY <1>5, TextsAssumption DEF JobsFresh, InsertNew, InsertBreaks
  <2>2. Fresh([view EXCEPT !.rows[job[t].row] = job[t].vec])
    BY <1>2, <2>1 DEF AllFresh, Fresh, Tables
  <2>3. QED
    BY <1>1, <1>5, <2>2 DEF InsertNew, InsertBreaks, AllFresh
<1>6. ASSUME NEW t \in Threads, ReturnDone(t)
      PROVE  AllFresh'
  <2>1. /\ pc[t] = "release" /\ saves' = SubSeq(saves, 1, Len(saves) - 1)
        /\ view' = view /\ durable' \in {view, durable}
    BY <1>6 DEF ReturnDone, ReleaseSavepoint
  <2>2. \A i \in 1 .. Len(saves') : i \in 1 .. Len(saves) /\ saves'[i] = saves[i]
    BY <1>2, <2>1
  <2>3. QED
    BY <2>1, <2>2 DEF AllFresh, Fresh
<1>7. ASSUME NEW t \in Threads, ReturnError(t)
      PROVE  AllFresh'
  <2>1. pc[t] = "rollback" /\ view' = saves[Len(saves)] /\ saves' = saves
        /\ durable' = durable
    BY <1>7 DEF ReturnError, RollbackToSavepoint
  <2>2. t \in Inside
    BY <2>1 DEF Inside
  <2>3. Cardinality(Inside) \in Nat \ {0} /\ failed \in Nat
    BY <2>2, InsideCount DEF StoreInv, StoreTypeOK
  <2>4. Len(saves) \in 1 .. Len(saves)
    BY <1>2, <2>3 DEF StoreInv, SavepointsAreCounted
  <2>5. QED
    BY <2>1, <2>4 DEF AllFresh, Fresh
<1>8. ASSUME NEW t \in Threads, NEW r \in Rows, DeleteRow(t, r)
      PROVE  AllFresh'
  <2>1. Fresh([view EXCEPT !.rows[r] = None])
    BY <1>2, TextsAssumption, NoneAssumption DEF AllFresh, Fresh, Tables
  <2>2. QED
    BY <1>1, <1>8, <2>1 DEF DeleteRow
<1>9. ASSUME NEW t \in Threads, NEW d \in Dims, CreateTable(t, d)
      PROVE  AllFresh'
  <2>1. Fresh([view EXCEPT !.dim = d])
    BY <1>2 DEF AllFresh, Fresh, Tables
  <2>2. QED
    BY <1>1, <1>9, <2>1 DEF CreateTable
<1>10. ASSUME NEW t \in Threads, DropTable(t)
       PROVE  AllFresh'
  <2>1. Fresh(NoTable)
    BY TextsAssumption, NoneAssumption DEF Fresh, NoTable
  <2>2. QED
    BY <1>1, <1>10, <2>1 DEF DropTable
<1>11. CASE Crash
    BY <1>11 DEF Crash, AllFresh, Fresh
<1>12. CASE UNCHANGED storeVars
    BY <1>12 DEF storeVars, AllFresh, Fresh
<1>13. QED
    BY <1>3, <1>4, <1>5, <1>6, <1>7, <1>8, <1>9, <1>10, <1>11, <1>12
    DEF StoreNext, Step

-----------------------------------------------------------------------------
(* The repository's half of the type invariant.                             *)
RepoTypes ==
    /\ room \in [Rows -> Memory]
    /\ identity \in {"old", "arctic"} /\ engine \in BOOLEAN
    /\ owner \in Threads \cup {None}
    /\ todo \subseteq Listed /\ item \in Listed \cup {None}
    /\ at \in [Threads -> Places] /\ op \in [Threads -> Ops]
    /\ current \in [Threads -> BOOLEAN]
    /\ created \in BOOLEAN /\ known \in BOOLEAN
    /\ calls \in 0 .. MaxCalls /\ faults \in 0 .. MaxFaults

Rebuilding == {"probe", "drop", "create", "list", "next", "storing", "mark"}
OwnersOnly == \A t \in Threads : at[t] \in Rebuilding => owner = t

(* The texts that are embedded are texts of memories.                       *)
TextsKnown ==
    /\ \A r \in Present : room[r].text \in Texts
    /\ \A t \in Threads :
         /\ op[t].kind \in {"ADD", "UPDATE"} => op[t].text \in Texts
         /\ op[t].kind \in {"UPDATE", "FORGET"} => op[t].row \in Rows
         /\ at[t] \in {"table", "upsert"} =>
              op[t].kind \in {"ADD", "UPDATE"} /\ op[t].row \in Rows
         /\ at[t] = "forget" => op[t].kind = "FORGET"

(* A rebuild has passed its drop, or its result is known to somebody.       *)
Renewed ==
    \/ identity = "arctic"
    \/ \E t \in Threads :
         \/ current[t]
         \/ at[t] \in {"create", "list", "next", "storing", "mark",
                       "table", "upsert"}

RepoInv == RepoTypes /\ OwnersOnly /\ TextsKnown
IndexInv == /\ JobsFresh
            /\ Renewed => AllFresh
            /\ saves = <<>> \/ AllFresh
IInv == StoreInv /\ RepoInv /\ IndexInv

LEMMA Types == StoreTypeOK /\ RepoTypes /\ OwnersOnly <=> TypeOK
BY DEF TypeOK, RepoTypes, OwnersOnly, Rebuilding

LEMMA InitHolds == Init => IInv
<1> SUFFICES ASSUME Init PROVE IInv
    OBVIOUS
<1>1. PICK old \in BOOLEAN, first \in Rows, text \in Texts :
         /\ identity = IF old THEN "old" ELSE "arctic"
         /\ room = [r \in Rows |-> IF r = first
                                   THEN Row(text, TRUE)
                                   ELSE Blank("unborn")]
         /\ view = [dim |-> Dim,
                    rows |-> [r \in Rows |-> IF r # first THEN None
                                             ELSE IF old THEN Stale ELSE text]]
    BY DEF Init
<1>2. /\ durable = view /\ saves = <<>> /\ failed = 0
      /\ pc = [t \in Threads |-> "idle"] /\ job = [t \in Threads |-> NoJob]
      /\ engine = FALSE /\ owner = None /\ todo = {} /\ item = None
      /\ at = [t \in Threads |-> "idle"] /\ op = [t \in Threads |-> NoOp]
      /\ current = [t \in Threads |-> FALSE]
      /\ created = FALSE /\ known = FALSE /\ calls = 0 /\ faults = 0
    BY DEF Init
<1>3. Inside = {} /\ Cardinality(Inside) = 0 /\ Len(saves) = 0
    BY <1>2, FS_EmptySet DEF Inside
<1>4. text \in Vectors /\ Dim \in Dims /\ None \notin Dims
    BY <1>1, TextsAssumption, DimAssumption, NoneAssumption
<1>5. view \in Tables
    BY <1>1, <1>4, TextsAssumption DEF Tables
<1>6. StoreInv
    BY <1>1, <1>2, <1>3, <1>4, <1>5
    DEF StoreInv, StoreTypeOK, SavepointsAreCounted, Sound
<1>7. RepoTypes
  <2>1. room \in [Rows -> Memory]
    BY <1>1 DEF Memory, Row, Blank
  <2>2. NoOp \in Ops
    BY DEF Ops, NoOp
  <2>3. 0 \in 0 .. MaxCalls /\ 0 \in 0 .. MaxFaults
    BY BoundsAssumption
  <2>4. identity \in {"old", "arctic"}
    BY <1>1
  <2>5. QED
    BY <1>2, <2>1, <2>2, <2>3, <2>4 DEF RepoTypes, Places
<1>8. OwnersOnly /\ TextsKnown
    BY <1>1, <1>2
    DEF OwnersOnly, Rebuilding, TextsKnown, Present, Row, Blank, NoOp
<1>9. Renewed => AllFresh
    BY <1>1, <1>2, TextsAssumption, NoneAssumption DEF Renewed, AllFresh, Fresh
<1>10. QED
    BY <1>2, <1>6, <1>7, <1>8, <1>9 DEF IInv, RepoInv, IndexInv, JobsFresh

-----------------------------------------------------------------------------
(* To the connection, every step of the index is a statement or nothing.    *)
LEMMA StepOfStore ==
    ASSUME IInv, [Next]_vars
    PROVE  [StoreNext]_storeVars
<1>1. ASSUME NEW t \in Threads, Run(t)
      PROVE  [StoreNext]_storeVars
  <2>1. CASE \/ EnsureCurrent(t) \/ ProbeEngine(t) \/ ListMemories(t)
             \/ EmbeddingFails(t) \/ MarkRebuilt(t) \/ SetIdentity(t)
             \/ BackfillBody(t) \/ AddBody(t) \/ UpdateBody(t) \/ ForgetBody(t)
             \/ MarkCall(t) \/ MarkAllUnvectorized(t)
    BY <2>1 DEF EnsureCurrent, ProbeEngine, ListMemories, EmbeddingFails, MarkRebuilt,
                SetIdentity, BackfillBody, AddBody, UpdateBody, ForgetBody,
                MarkCall, MarkAllUnvectorized, KeepStore
  <2>2. CASE DropIndex(t) \/ ResetBody(t)
    BY <2>2 DEF DropIndex, ResetBody, KeepStore, StoreNext, Step
  <2>3. CASE CreateIndex(t) \/ EnsureVecTable(t) \/ ResetCreate(t)
    <3>1. CreateTable(t, Dim) \/ UNCHANGED storeVars
      BY <2>3 DEF CreateIndex, EnsureVecTable, ResetCreate, KeepStore
    <3>2. QED
      BY <3>1, DimAssumption DEF StoreNext, Step
  <2>4. CASE StoreMemory(t)
    <3>1. PICK m \in todo : StartUpsert(t, [row |-> m.row, vec |-> m.text])
      BY <2>4 DEF StoreMemory
    <3>2. [row |-> m.row, vec |-> m.text] \in Jobs
      BY TextsAssumption DEF IInv, RepoInv, RepoTypes, Listed, Jobs
    <3>3. QED
      BY <3>1, <3>2 DEF StoreNext, Step
  <2>5. CASE StoreCall(t)
    <3>1. StartUpsert(t, [row |-> op[t].row, vec |-> op[t].text]) /\ at[t] = "upsert"
      BY <2>5 DEF StoreCall, At
    <3>2. [row |-> op[t].row, vec |-> op[t].text] \in Jobs
      BY <3>1, TextsAssumption DEF IInv, RepoInv, TextsKnown, Jobs
    <3>3. QED
      BY <3>1, <3>2 DEF StoreNext, Step
  <2>6. CASE InsideUpsert(t) \/ UpsertDone(t) \/ UpsertFailed(t)
    BY <2>6 DEF InsideUpsert, UpsertDone, UpsertFailed, StoreNext, Step
  <2>7. CASE ForgetVector(t)
    <3>1. op[t].row \in Rows
      BY <2>7 DEF ForgetVector, At, IInv, RepoInv, TextsKnown
    <3>2. QED
      BY <2>7, <3>1 DEF ForgetVector, KeepStore, StoreNext, Step
  <2>8. QED
    BY <1>1, <2>1, <2>2, <2>3, <2>4, <2>5, <2>6, <2>7 DEF Run
<1>2. ASSUME NEW t \in Threads, NEW o \in Requests, Call(t, o)
      PROVE  [StoreNext]_storeVars
    BY <1>2 DEF Call, KeepStore
<1>3. ASSUME NEW r \in Rows, DeleteMemory(r)
      PROVE  [StoreNext]_storeVars
    BY <1>3 DEF DeleteMemory, KeepStore
<1>4. CASE EngineReady \/ EngineLost
    BY <1>4 DEF EngineReady, EngineLost, KeepStore
<1>5. CASE Die
    BY <1>5 DEF Die, StoreNext
<1>6. ASSUME NEW t \in Threads, UpsertBreaks(t) \/ InspectionBreaks(t) \/ FinishBreaks(t)
      PROVE  [StoreNext]_storeVars
    BY <1>6 DEF UpsertBreaks, InspectionBreaks, FinishBreaks, KeepStore, StoreNext, Step
<1>7. CASE UNCHANGED vars
    BY <1>7 DEF vars
<1>8. QED
    BY <1>1, <1>2, <1>3, <1>4, <1>5, <1>6, <1>7 DEF Next

-----------------------------------------------------------------------------
(* What each step does to the repository's own state: types, the owner of   *)
(* the mutex and the known texts are kept.                                  *)
LEMMA EnsureCurrentKeeps ==
    ASSUME RepoInv, NEW t \in Threads,
           EnsureCurrent(t) \/ InspectionBreaks(t) \/ ProbeEngine(t)
    PROVE  RepoInv' /\ (Renewed' => Renewed)
<1>1. /\ at[t] \in {"ensure", "probe"} /\ owner \in {None, t}
      /\ room' = room /\ identity' = identity /\ todo' = todo /\ item' = item
      /\ op' = op /\ created' = created /\ known' = known /\ calls' = calls
      /\ engine' = engine /\ faults' \in 0 .. MaxFaults
  <2>1. faults \in 0 .. MaxFaults /\ MaxFaults \in Nat
    BY BoundsAssumption DEF RepoInv, RepoTypes
  <2>2. at[t] = "probe" => owner = t
    BY DEF RepoInv, OwnersOnly, Rebuilding
  <2>3. faults' \in {faults, faults + 1} /\ (faults' = faults \/ faults < MaxFaults)
    BY DEF EnsureCurrent, InspectionBreaks, ProbeEngine, KeepCall, CountFault
  <2>4. at[t] \in {"ensure", "probe"} /\ owner \in {None, t}
    BY <2>2 DEF EnsureCurrent, InspectionBreaks, ProbeEngine, At
  <2>5. UNCHANGED <<room, identity, todo, item, op, created, known, calls, engine>>
    BY DEF EnsureCurrent, InspectionBreaks, ProbeEngine, KeepCall, KeepRequest
  <2>6. QED
    BY <2>1, <2>3, <2>4, <2>5
<1>2. \/ /\ at' = [at EXCEPT ![t] = "body"] /\ owner' = None
         /\ \/ current' = [current EXCEPT ![t] = TRUE] /\ identity = "arctic"
            \/ current' = [current EXCEPT ![t] = FALSE]
      \/ /\ at' \in {[at EXCEPT ![t] = "probe"], [at EXCEPT ![t] = "drop"]}
         /\ owner' = t /\ current' = current
    BY <1>1, NobodyAssumption
    DEF EnsureCurrent, InspectionBreaks, ProbeEngine, Answer, Goto, At, RepoInv, OwnersOnly,
        Rebuilding
<1>3. RepoTypes'
    BY <1>1, <1>2 DEF RepoInv, RepoTypes, Places
<1>4. OwnersOnly'
    BY <1>1, <1>2, NobodyAssumption DEF RepoInv, RepoTypes, OwnersOnly, Rebuilding
<1>5. TextsKnown'
    BY <1>1, <1>2 DEF RepoInv, RepoTypes, TextsKnown, Present
<1>6. Renewed' => Renewed
    BY <1>1, <1>2 DEF RepoInv, RepoTypes, Renewed
<1>7. QED
    BY <1>3, <1>4, <1>5, <1>6 DEF RepoInv

(* Steps that move a thread on and touch at most the two flags of the       *)
(* tables.                                                                  *)
LEMMA MovesKeep ==
    ASSUME RepoInv, NEW t \in Threads, NEW p \in Places, Goto(t, p),
           p \in Rebuilding => at[t] \in Rebuilding \ {"probe"},
           p \notin {"table", "forget"}, p = "upsert" => at[t] = "table",
           created' \in BOOLEAN, known' \in BOOLEAN,
           UNCHANGED <<room, identity, engine, owner, todo, item, op, current,
                       calls, faults>>
    PROVE  RepoInv' /\ (Renewed' => Renewed \/ at[t] = "drop")
<1>1. at' = [at EXCEPT ![t] = p]
    BY DEF Goto
<1>2. RepoTypes'
    BY <1>1 DEF RepoInv, RepoTypes
<1>3. OwnersOnly'
    BY <1>1 DEF RepoInv, RepoTypes, OwnersOnly
<1>4. TextsKnown'
    BY <1>1 DEF RepoInv, RepoTypes, TextsKnown, Present
<1>5. Renewed' => Renewed \/ at[t] = "drop"
    BY <1>1 DEF RepoInv, RepoTypes, Renewed, Rebuilding
<1>6. QED
    BY <1>2, <1>3, <1>4, <1>5 DEF RepoInv

LEMMA TableStepsKeep ==
    ASSUME RepoInv, NEW t \in Threads,
           \/ DropIndex(t) \/ CreateIndex(t) \/ EnsureVecTable(t)
           \/ StoreCall(t) \/ ResetBody(t) \/ ResetCreate(t)
    PROVE  RepoInv' /\ (Renewed' => Renewed \/ at[t] = "drop")
<1>1. created \in BOOLEAN /\ known \in BOOLEAN
    BY DEF RepoInv, RepoTypes
<1>2. CASE DropIndex(t)
    BY <1>1, <1>2, MovesKeep DEF DropIndex, At, KeepCall, KeepRequest, Places, Rebuilding
<1>3. CASE CreateIndex(t)
    BY <1>1, <1>3, MovesKeep DEF CreateIndex, At, KeepCall, KeepRequest, Places, Rebuilding
<1>4. CASE EnsureVecTable(t)
    BY <1>1, <1>4, MovesKeep DEF EnsureVecTable, At, KeepIndex, Places, Rebuilding
<1>5. CASE StoreCall(t)
    BY <1>1, <1>5, MovesKeep DEF StoreCall, At, KeepIndex, Places, Rebuilding
<1>6. CASE ResetBody(t)
    BY <1>1, <1>6, MovesKeep DEF ResetBody, At, KeepIndex, Places, Rebuilding
<1>7. CASE ResetCreate(t)
    BY <1>1, <1>7, MovesKeep DEF ResetCreate, At, KeepIndex, Places, Rebuilding
<1>8. QED
    BY <1>2, <1>3, <1>4, <1>5, <1>6, <1>7

(* The steps of the rebuild that read or write the memories.                *)
LEMMA ListMemoriesKeeps ==
    ASSUME RepoInv, NEW t \in Threads, ListMemories(t)
    PROVE  RepoInv' /\ (Renewed' => Renewed)
<1>1. /\ at[t] = "list" /\ at' = [at EXCEPT ![t] = "next"]
      /\ todo' = {[row |-> r, text |-> room[r].text] : r \in Present}
      /\ UNCHANGED <<room, identity, engine, owner, item, op, current, created,
                     known, calls, faults>>
    BY DEF ListMemories, At, Goto, KeepCall, KeepRequest
<1>2. todo' \subseteq Listed
    BY <1>1 DEF RepoInv, TextsKnown, Present, Listed
<1>3. RepoTypes'
    BY <1>1, <1>2 DEF RepoInv, RepoTypes, Places
<1>4. OwnersOnly'
    BY <1>1 DEF RepoInv, RepoTypes, OwnersOnly, Rebuilding
<1>5. TextsKnown'
    BY <1>1 DEF RepoInv, RepoTypes, TextsKnown, Present
<1>6. Renewed' => Renewed
    BY <1>1 DEF RepoInv, RepoTypes, Renewed
<1>7. QED
    BY <1>3, <1>4, <1>5, <1>6 DEF RepoInv

LEMMA StoreMemoryKeeps ==
    ASSUME RepoInv, NEW t \in Threads, StoreMemory(t)
    PROVE  RepoInv' /\ (Renewed' => Renewed)
<1>1. /\ at[t] = "next" /\ at' = [at EXCEPT ![t] = "storing"]
      /\ todo' \subseteq todo /\ item' \in todo
      /\ UNCHANGED <<room, identity, engine, owner, op, current, created,
                     known, calls, faults>>
    BY DEF StoreMemory, At, Goto, KeepCall, KeepRequest
<1>2. RepoTypes'
    BY <1>1 DEF RepoInv, RepoTypes, Places
<1>3. OwnersOnly'
    BY <1>1 DEF RepoInv, RepoTypes, OwnersOnly, Rebuilding
<1>4. TextsKnown'
    BY <1>1 DEF RepoInv, RepoTypes, TextsKnown, Present
<1>5. Renewed' => Renewed
    BY <1>1 DEF RepoInv, RepoTypes, Renewed
<1>6. QED
    BY <1>2, <1>3, <1>4, <1>5 DEF RepoInv

LEMMA SameFaults ==
    ASSUME RepoInv, faults' = faults
    PROVE  faults' \in 0 .. MaxFaults
BY DEF RepoInv, RepoTypes

(* A rebuild that ends, by an exception or with the new identity.           *)
LEMMA RebuildEndsKeep ==
    ASSUME RepoInv, NEW t \in Threads, at[t] \in {"next", "storing"},
           faults' \in 0 .. MaxFaults,
           \/ RebuildFails(t)
           \/ SetIdentity(t)
    PROVE  RepoInv' /\ (Renewed' => Renewed)
<1>1. /\ at' = [at EXCEPT ![t] = "body"] /\ owner' = None
      /\ todo' \subseteq todo /\ item' \in {item, None}
      /\ current' \in {[current EXCEPT ![t] = TRUE], [current EXCEPT ![t] = FALSE]}
      /\ identity' \in {identity, "arctic"}
      /\ UNCHANGED <<room, engine, op, created, known, calls>>
    BY DEF RebuildFails, SetIdentity, Answer, Goto, KeepCall, KeepRequest
<1>2. RepoTypes'
    BY <1>1 DEF RepoInv, RepoTypes, Places
<1>3. \A u \in Threads \ {t} : at[u] \notin Rebuilding
    BY DEF RepoInv, OwnersOnly, Rebuilding
<1>4. OwnersOnly'
    BY <1>1, <1>3 DEF RepoInv, RepoTypes, OwnersOnly, Rebuilding
<1>5. TextsKnown'
    BY <1>1 DEF RepoInv, RepoTypes, TextsKnown, Present
<1>6. Renewed
    BY DEF Renewed
<1>7. QED
    BY <1>2, <1>4, <1>5, <1>6 DEF RepoInv

(* A flag is set on a memory that is there.                                 *)
LEMMA MarkKeeps ==
    ASSUME RepoInv, NEW r
    PROVE  /\ MarkVectorized(r) \in [Rows -> Memory]
           /\ \A q \in Rows : /\ MarkVectorized(r)[q].state = room[q].state
                              /\ MarkVectorized(r)[q].text = room[q].text
BY DEF RepoInv, RepoTypes, MarkVectorized, Present, Memory

(* Memories whose texts are known.                                          *)
KnownRoom(m) == /\ m \in [Rows -> Memory]
                /\ \A r \in Rows : m[r].state = "row" => m[r].text \in Texts

(* A thread at place p in call o.                                           *)
KnownCall(p, o) ==
    /\ o \in Ops
    /\ o.kind \in {"ADD", "UPDATE"} => o.text \in Texts
    /\ o.kind \in {"UPDATE", "FORGET"} => o.row \in Rows
    /\ p = "table" => o.kind \in {"ADD", "UPDATE"} /\ o.row \in Rows
    /\ p = "forget" => o.kind = "FORGET"

(* Steps of a call that write a memory, or end the call.                    *)
LEMMA CallStepsKeep ==
    ASSUME RepoInv, NEW t \in Threads, NEW p \in Places, NEW o, KnownCall(p, o),
           KnownRoom(room'), at' = [at EXCEPT ![t] = p],
           op' = [op EXCEPT ![t] = o],
           p \notin Rebuilding \cup {"upsert"}, p = "table" => current[t],
           calls' \in 0 .. MaxCalls, item' \in {item, None},
           created' \in BOOLEAN, known' \in BOOLEAN,
           UNCHANGED <<identity, engine, owner, todo, current, faults>>
    PROVE  RepoInv' /\ (Renewed' => Renewed)
<1>1. RepoTypes'
    BY DEF RepoInv, RepoTypes, KnownRoom, KnownCall
<1>2. OwnersOnly'
    BY DEF RepoInv, RepoTypes, OwnersOnly
<1>3. TextsKnown'
  <2>1. \A r \in Present' : room'[r].text \in Texts
    BY DEF KnownRoom, Present
  <2>2. op'[t] = o /\ at'[t] = p
    BY DEF RepoInv, RepoTypes
  <2>3. \A u \in Threads \ {t} : op'[u] = op[u] /\ at'[u] = at[u]
    BY DEF RepoInv, RepoTypes
  <2>4. QED
    BY <2>1, <2>2, <2>3 DEF RepoInv, TextsKnown, KnownCall
<1>4. Renewed' => Renewed
    BY DEF RepoInv, RepoTypes, Renewed, Rebuilding
<1>5. QED
    BY <1>1, <1>2, <1>3, <1>4 DEF RepoInv

LEMMA RoomKnown == RepoInv => KnownRoom(room)
BY DEF RepoInv, RepoTypes, TextsKnown, KnownRoom, Present

LEMMA CallKnown ==
    ASSUME RepoInv, NEW t \in Threads, NEW p, p \notin {"table", "forget"}
    PROVE  KnownCall(p, op[t]) /\ KnownCall(p, NoOp)
BY DEF RepoInv, RepoTypes, TextsKnown, KnownCall, NoOp, Ops

LEMMA SameCall ==
    ASSUME RepoInv, NEW t \in Threads, UNCHANGED op
    PROVE  op' = [op EXCEPT ![t] = op[t]]
BY DEF RepoInv, RepoTypes

LEMMA BackfillBodyKeeps ==
    ASSUME RepoInv, NEW t \in Threads,
           \/ BackfillBody(t) \/ ForgetVector(t)
           \/ ReturnError(t) /\ UpsertFailed(t) /\ at[t] # "storing"
    PROVE  RepoInv' /\ (Renewed' => Renewed)
<1>1. /\ at' = [at EXCEPT ![t] = "idle"] /\ op' = [op EXCEPT ![t] = NoOp]
      /\ room' = room
      /\ UNCHANGED <<identity, engine, owner, todo, item, current, calls, faults,
                     created, known>>
    BY DEF BackfillBody, ForgetVector, UpsertFailed, Return, Goto, KeepIndex
<1>2. created \in BOOLEAN /\ known \in BOOLEAN /\ calls \in 0 .. MaxCalls
    BY DEF RepoInv, RepoTypes
<1>3. KnownCall("idle", NoOp) /\ KnownRoom(room')
    BY <1>1, RoomKnown, CallKnown
<1>4. "idle" \in Places /\ "idle" \notin Rebuilding \cup {"upsert"}
    BY DEF Places, Rebuilding
<1>5. QED
    BY <1>1, <1>2, <1>3, <1>4, CallStepsKeep

LEMMA AddBodyKeeps ==
    ASSUME RepoInv, NEW t \in Threads, AddBody(t)
    PROVE  RepoInv' /\ (Renewed' => Renewed)
<1>1. PICK r \in Rows :
         /\ room' = [room EXCEPT ![r] = Row(op[t].text, FALSE)]
         /\ IF current[t] /\ op[t].vec
            THEN /\ op' = [op EXCEPT ![t].row = r]
                 /\ at' = [at EXCEPT ![t] = "table"]
            ELSE /\ op' = [op EXCEPT ![t] = NoOp]
                 /\ at' = [at EXCEPT ![t] = "ensure"]
    BY DEF AddBody, Goto
<1>2. /\ op[t].kind = "ADD"
      /\ UNCHANGED <<identity, engine, owner, todo, item, current, calls, faults,
                     created, known>>
    BY DEF AddBody, KeepIndex
<1>3. op[t].text \in Texts
    BY <1>2 DEF RepoInv, TextsKnown
<1>4. KnownRoom(room')
    BY <1>1, <1>3, RoomKnown DEF KnownRoom, Row, Memory
<1>5. created \in BOOLEAN /\ known \in BOOLEAN /\ calls \in 0 .. MaxCalls
    BY DEF RepoInv, RepoTypes
<1>6. {"table", "ensure"} \subseteq Places \ (Rebuilding \cup {"upsert"})
    BY DEF Places, Rebuilding
<1>7. CASE current[t] /\ op[t].vec
  <2> DEFINE o == [op[t] EXCEPT !.row = r]
  <2>1. op' = [op EXCEPT ![t] = o] /\ at' = [at EXCEPT ![t] = "table"]
    BY <1>1, <1>7
  <2>2. KnownCall("table", o)
    BY <1>2, <1>3 DEF RepoInv, RepoTypes, KnownCall, Ops
  <2> HIDE DEF o
  <2>3. QED
    BY <1>2, <1>4, <1>5, <1>6, <1>7, <2>1, <2>2, CallStepsKeep
<1>8. CASE ~(current[t] /\ op[t].vec)
    BY <1>1, <1>2, <1>4, <1>5, <1>6, <1>8, CallKnown, CallStepsKeep
<1>9. QED
    BY <1>7, <1>8

LEMMA UpdateBodyKeeps ==
    ASSUME RepoInv, NEW t \in Threads, UpdateBody(t) \/ ForgetBody(t)
    PROVE  RepoInv' /\ (Renewed' => Renewed)
<1>1. UNCHANGED <<identity, engine, owner, todo, item, current, calls, faults,
                  created, known>>
    BY DEF UpdateBody, ForgetBody, KeepIndex
<1>2. /\ op[t].kind \in {"UPDATE", "FORGET"}
      /\ op[t].row \in Rows /\ op[t] \in Ops
      /\ op[t].kind = "UPDATE" => op[t].text \in Texts
    BY DEF RepoInv, RepoTypes, TextsKnown, UpdateBody, ForgetBody
<1>3. \/ room' = room
      \/ room' = [room EXCEPT ![op[t].row] = Row(op[t].text, FALSE)]
           /\ op[t].kind = "UPDATE"
      \/ room' = [room EXCEPT ![op[t].row] = Blank("gone")]
    BY DEF UpdateBody, ForgetBody
<1>4. KnownRoom(room')
  <2>1. CASE room' = room
    BY <2>1, RoomKnown
  <2>2. CASE /\ room' = [room EXCEPT ![op[t].row] = Row(op[t].text, FALSE)]
             /\ op[t].kind = "UPDATE"
    <3>1. Row(op[t].text, FALSE) \in Memory
      BY <1>2, <2>2 DEF Row, Memory
    <3>2. QED
      BY <1>2, <2>2, <3>1, RoomKnown DEF KnownRoom, Row
  <2>3. CASE room' = [room EXCEPT ![op[t].row] = Blank("gone")]
    <3>1. Blank("gone") \in Memory /\ Blank("gone").state # "row"
      BY DEF Blank, Memory
    <3>2. QED
      BY <1>2, <2>3, <3>1, RoomKnown DEF KnownRoom
  <2>4. QED
    BY <1>3, <2>1, <2>2, <2>3
<1>5. created \in BOOLEAN /\ known \in BOOLEAN /\ calls \in 0 .. MaxCalls
    BY DEF RepoInv, RepoTypes
<1>6. {"table", "idle", "forget"} \subseteq Places \ (Rebuilding \cup {"upsert"})
    BY DEF Places, Rebuilding
<1>7. \/ at' = [at EXCEPT ![t] = "idle"] /\ op' = [op EXCEPT ![t] = NoOp]
      \/ /\ at' = [at EXCEPT ![t] = "table"] /\ op' = op
         /\ current[t] /\ op[t].kind = "UPDATE"
      \/ /\ at' = [at EXCEPT ![t] = "forget"] /\ op' = op
         /\ op[t].kind = "FORGET"
    BY DEF UpdateBody, ForgetBody, Return, Goto
<1>8. CASE at' = [at EXCEPT ![t] = "idle"] /\ op' = [op EXCEPT ![t] = NoOp]
    BY <1>1, <1>4, <1>5, <1>6, <1>8, CallKnown, CallStepsKeep
<1>9. CASE /\ at' = [at EXCEPT ![t] = "table"] /\ op' = op
           /\ current[t] /\ op[t].kind = "UPDATE"
  <2>1. KnownCall("table", op[t])
    BY <1>2, <1>9 DEF KnownCall
  <2>2. QED
    BY <1>1, <1>4, <1>5, <1>6, <1>9, <2>1, SameCall, CallStepsKeep
<1>10. CASE /\ at' = [at EXCEPT ![t] = "forget"] /\ op' = op
            /\ op[t].kind = "FORGET"
  <2>1. KnownCall("forget", op[t])
    BY <1>2, <1>10 DEF KnownCall
  <2>2. QED
    BY <1>1, <1>4, <1>5, <1>6, <1>10, <2>1, SameCall, CallStepsKeep
<1>11. QED
    BY <1>7, <1>8, <1>9, <1>10

LEMMA FlagsKeep ==
    ASSUME RepoInv, NEW t \in Threads,
           MarkCall(t) \/ MarkAllUnvectorized(t)
    PROVE  RepoInv' /\ (Renewed' => Renewed)
<1>1. UNCHANGED <<identity, engine, owner, todo, item, current, calls, faults,
                  created, known>>
    BY DEF MarkCall, MarkAllUnvectorized, KeepIndex
<1>2. /\ room' \in [Rows -> Memory]
      /\ \A q \in Rows : room'[q].state = room[q].state /\ room'[q].text = room[q].text
  <2>1. CASE MarkCall(t)
    BY <2>1, MarkKeeps DEF MarkCall
  <2>2. CASE MarkAllUnvectorized(t)
    BY <2>2 DEF MarkAllUnvectorized, RepoInv, RepoTypes, Memory
  <2>3. QED
    BY <2>1, <2>2
<1>3. KnownRoom(room')
    BY <1>2, RoomKnown DEF KnownRoom
<1>4. created \in BOOLEAN /\ known \in BOOLEAN /\ calls \in 0 .. MaxCalls
    BY DEF RepoInv, RepoTypes
<1>5. {"ensure", "idle"} \subseteq Places \ (Rebuilding \cup {"upsert"})
    BY DEF Places, Rebuilding
<1>6. /\ op' = [op EXCEPT ![t] = NoOp]
      /\ at' = [at EXCEPT ![t] = "idle"] \/ at' = [at EXCEPT ![t] = "ensure"]
    BY DEF MarkCall, MarkAllUnvectorized, Return, Goto
<1>7. QED
    BY <1>1, <1>3, <1>4, <1>5, <1>6, CallKnown, CallStepsKeep

(* The native upsert of a rebuild or of a call ends.                        *)
LEMMA UpsertDoneKeeps ==
    ASSUME RepoInv, NEW t \in Threads, UpsertDone(t), pc[t] # "idle"
    PROVE  RepoInv' /\ (Renewed' => Renewed)
<1>1. UNCHANGED <<identity, engine, owner, todo, item, current, calls, faults,
                  created, known, room, op>>
    BY DEF UpsertDone, KeepIndex
<1>2. created \in BOOLEAN /\ known \in BOOLEAN
    BY DEF RepoInv, RepoTypes
<1>3. CASE at[t] = "storing"
  <2>1. Goto(t, "mark")
    BY <1>3 DEF UpsertDone
  <2>2. QED
    BY <1>1, <1>2, <1>3, <2>1, MovesKeep DEF Places, Rebuilding
<1>4. CASE at[t] # "storing"
  <2>1. Goto(t, "opmark")
    BY <1>4 DEF UpsertDone
  <2>2. at' = [at EXCEPT ![t] = "opmark"]
    BY <2>1 DEF Goto
  <2>3. /\ KnownCall("opmark", op[t]) /\ KnownRoom(room')
        /\ op' = [op EXCEPT ![t] = op[t]] /\ calls' \in 0 .. MaxCalls
    BY <1>1, CallKnown, RoomKnown, SameCall DEF RepoInv, RepoTypes
  <2>4. "opmark" \in Places \ (Rebuilding \cup {"upsert"})
    BY DEF Places, Rebuilding
  <2>5. QED
    BY <1>1, <1>2, <2>2, <2>3, <2>4, CallStepsKeep
<1>5. QED
    BY <1>3, <1>4

LEMMA UpsertFailedKeeps ==
    ASSUME RepoInv, NEW t \in Threads, UpsertFailed(t)
    PROVE  RepoInv' /\ (Renewed' => Renewed)
<1>1. CASE at[t] = "storing"
    BY <1>1, RebuildEndsKeep, SameFaults DEF UpsertFailed
<1>2. CASE at[t] # "storing"
    BY <1>2, BackfillBodyKeeps DEF UpsertFailed
<1>3. QED
    BY <1>1, <1>2

LEMMA MarkRebuiltKeeps ==
    ASSUME RepoInv, NEW t \in Threads, MarkRebuilt(t)
    PROVE  RepoInv' /\ (Renewed' => Renewed)
<1>1. /\ at[t] = "mark" /\ at' = [at EXCEPT ![t] = "next"]
      /\ room' = MarkVectorized(item.row) /\ item' = None
      /\ UNCHANGED <<identity, engine, owner, todo, op, current, created,
                     known, calls, faults>>
    BY DEF MarkRebuilt, At, Goto, KeepCall, KeepRequest
<1>2. /\ room' \in [Rows -> Memory]
      /\ \A q \in Rows : room'[q].state = room[q].state /\ room'[q].text = room[q].text
    BY <1>1, MarkKeeps
<1>3. RepoTypes'
    BY <1>1, <1>2 DEF RepoInv, RepoTypes, Places
<1>4. OwnersOnly'
    BY <1>1 DEF RepoInv, RepoTypes, OwnersOnly, Rebuilding
<1>5. TextsKnown'
    BY <1>1, <1>2 DEF RepoInv, RepoTypes, TextsKnown, Present
<1>6. Renewed' => Renewed
    BY <1>1 DEF RepoInv, RepoTypes, Renewed
<1>7. QED
    BY <1>3, <1>4, <1>5, <1>6 DEF RepoInv

(* A call begins with what a screen offers.                                 *)
LEMMA CallKeeps ==
    ASSUME RepoInv, NEW t \in Threads, NEW o \in Requests, Call(t, o)
    PROVE  RepoInv' /\ (Renewed' => Renewed)
<1>1. /\ at' = [at EXCEPT ![t] = "ensure"] /\ op' = [op EXCEPT ![t] = o]
      /\ UNCHANGED <<room, identity, engine, owner, todo, item, current, created,
                     known, faults>>
    BY DEF Call, Goto
<1>2. calls' \in 0 .. MaxCalls
    BY BoundsAssumption DEF Call, RepoInv, RepoTypes
<1>3. KnownCall("ensure", o)
  <2>1. Present \subseteq Rows
    BY DEF Present
  <2>2. CASE \E k \in {"BACKFILL", "RESET"} :
               o = [kind |-> k, row |-> None, text |-> None, vec |-> FALSE]
    BY <2>2 DEF Ops, KnownCall
  <2>3. CASE o \in [kind: {"ADD"}, row: {None}, text: Texts, vec: BOOLEAN]
    BY <2>3 DEF Ops, KnownCall
  <2>4. CASE o \in [kind: {"UPDATE"}, row: Present, text: Texts, vec: BOOLEAN]
    BY <2>1, <2>4 DEF Ops, KnownCall
  <2>5. CASE o \in [kind: {"FORGET"}, row: Present, text: {None}, vec: {FALSE}]
    BY <2>1, <2>5 DEF Ops, KnownCall
  <2>6. QED
    BY <2>2, <2>3, <2>4, <2>5 DEF Requests
<1>4. /\ KnownRoom(room') /\ created \in BOOLEAN /\ known \in BOOLEAN
      /\ "ensure" \in Places \ (Rebuilding \cup {"upsert"})
    BY <1>1, RoomKnown DEF RepoInv, RepoTypes, Places, Rebuilding
<1>5. QED
    BY <1>1, <1>2, <1>3, <1>4, CallStepsKeep

LEMMA DeleteMemoryKeeps ==
    ASSUME RepoInv, NEW r \in Rows, DeleteMemory(r)
    PROVE  RepoInv' /\ (Renewed' => Renewed)
<1>1. /\ room' = [room EXCEPT ![r] = Blank("gone")] /\ calls' = calls + 1
      /\ calls < MaxCalls
      /\ UNCHANGED <<identity, engine, owner, todo, item, at, op, current,
                     created, known, faults>>
    BY DEF DeleteMemory
<1>2. room' \in [Rows -> Memory] /\ calls' \in 0 .. MaxCalls
    BY <1>1, BoundsAssumption DEF RepoInv, RepoTypes, Blank, Memory
<1>3. RepoTypes'
    BY <1>1, <1>2 DEF RepoInv, RepoTypes
<1>4. OwnersOnly' /\ (Renewed' => Renewed)
    BY <1>1 DEF RepoInv, OwnersOnly, Renewed
<1>5. TextsKnown'
    BY <1>1 DEF RepoInv, RepoTypes, TextsKnown, Present, Blank
<1>6. QED
    BY <1>3, <1>4, <1>5 DEF RepoInv

(* What happens around the calls: the engine, a failing disk, the death of  *)
(* the process.                                                             *)
LEMMA SurroundingsKeep ==
    ASSUME RepoInv,
           \/ EngineReady \/ EngineLost
           \/ \E t \in Threads : UpsertBreaks(t) \/ InsideUpsert(t)
           \/ UNCHANGED vars
    PROVE  RepoInv' /\ (Renewed' => Renewed)
<1>1. /\ UNCHANGED <<room, identity, owner, todo, item, at, op, current,
                     created, known, calls>>
      /\ engine' \in BOOLEAN
    BY DEF EngineReady, EngineLost, UpsertBreaks, InsideUpsert, repoVars, vars,
           RepoInv, RepoTypes
<1>2. faults' \in 0 .. MaxFaults
    BY BoundsAssumption
    DEF EngineReady, EngineLost, UpsertBreaks, InsideUpsert, CountFault, repoVars, vars,
        RepoInv, RepoTypes
<1>3. QED
    BY <1>1, <1>2
    DEF RepoInv, RepoTypes, OwnersOnly, TextsKnown, Present, Renewed

LEMMA DieKeeps ==
    ASSUME RepoInv, Die
    PROVE  RepoInv' /\ (Renewed' => Renewed)
<1>1. /\ engine' = FALSE /\ owner' = None /\ todo' = {} /\ item' = None
      /\ at' = [t \in Threads |-> "idle"] /\ op' = [t \in Threads |-> NoOp]
      /\ current' = [t \in Threads |-> FALSE]
      /\ created' = FALSE /\ known' = FALSE
      /\ UNCHANGED <<room, identity, calls>>
    BY DEF Die
<1>2. faults' \in 0 .. MaxFaults /\ NoOp \in Ops
    BY BoundsAssumption DEF Die, CountFault, RepoInv, RepoTypes, NoOp, Ops
<1>3. RepoTypes'
    BY <1>1, <1>2 DEF RepoInv, RepoTypes, Places
<1>4. OwnersOnly' /\ (Renewed' => Renewed)
    BY <1>1 DEF OwnersOnly, Rebuilding, Renewed
<1>5. TextsKnown'
    BY <1>1 DEF RepoInv, TextsKnown, Present, NoOp
<1>6. QED
    BY <1>3, <1>4, <1>5 DEF RepoInv

(* Every step keeps the repository's state in order, and only the drop of   *)
(* a rebuild begins to renew the index.                                     *)
LEMMA RepoStep ==
    ASSUME IInv, [Next]_vars
    PROVE  /\ RepoInv'
           /\ Renewed' => Renewed \/ \E t \in Threads : DropIndex(t)
<1>1. RepoInv /\ StoreInv
    BY DEF IInv
<1>2. ASSUME NEW t \in Threads, Run(t)
      PROVE  RepoInv' /\ (Renewed' => Renewed \/ DropIndex(t))
  <2>1. CASE DropIndex(t) \/ CreateIndex(t) \/ EnsureVecTable(t)
             \/ StoreCall(t) \/ ResetBody(t) \/ ResetCreate(t)
    BY <1>1, <2>1, TableStepsKeep
    DEF CreateIndex, EnsureVecTable, StoreCall, ResetBody, ResetCreate, At
  <2>2. CASE EmbeddingFails(t) \/ SetIdentity(t)
    BY <1>1, <2>2, RebuildEndsKeep, SameFaults DEF EmbeddingFails, SetIdentity, At, KeepCall
  <2>3. CASE UpsertDone(t)
    BY <1>1, <2>3, UpsertDoneKeeps DEF UpsertDone, ReturnDone
  <2>4. QED
    BY <1>1, <1>2, <2>1, <2>2, <2>3, EnsureCurrentKeeps, ListMemoriesKeeps,
       StoreMemoryKeeps, MarkRebuiltKeeps, SurroundingsKeep, UpsertFailedKeeps,
       BackfillBodyKeeps, AddBodyKeeps, UpdateBodyKeeps, FlagsKeep
    DEF Run
<1>3. ASSUME NEW t \in Threads, InspectionBreaks(t) \/ FinishBreaks(t)
      PROVE  RepoInv' /\ (Renewed' => Renewed)
  <2>1. CountFault
    BY <1>3 DEF InspectionBreaks, FinishBreaks
  <2>2. faults' \in 0 .. MaxFaults
    BY <1>1, <2>1, BoundsAssumption DEF CountFault, RepoInv, RepoTypes
  <2>3. QED
    BY <1>1, <1>3, <2>2, EnsureCurrentKeeps, RebuildEndsKeep DEF FinishBreaks, At
<1>4. QED
    BY <1>1, <1>2, <1>3, CallKeeps, DeleteMemoryKeeps, SurroundingsKeep, DieKeeps DEF Next

-----------------------------------------------------------------------------
(* The drop of a rebuild that is the first to touch the connection reaches  *)
(* the file.                                                                *)
LEMMA DropRenews ==
    ASSUME IInv, NEW t \in Threads, DropIndex(t)
    PROVE  saves = <<>> => AllFresh'
<1> SUFFICES ASSUME saves = <<>> PROVE AllFresh'
    OBVIOUS
<1>1. view = durable /\ Sound(view) /\ Len(saves) = 0
    BY DEF IInv, StoreInv
<1>2. Stale # None
    BY TextsAssumption, NoneAssumption
<1>3. CASE view.dim = None
  <2>1. UNCHANGED storeVars
    BY <1>3 DEF DropIndex, KeepStore
  <2>2. QED
    BY <1>1, <1>2, <1>3, <2>1 DEF storeVars, AllFresh, Fresh, Sound
<1>4. CASE view.dim # None
  <2>1. Write(NoTable)
    BY <1>4 DEF DropIndex, DropTable
  <2>2. view' = NoTable /\ durable' = NoTable /\ saves' = saves
    BY <2>1 DEF Write
  <2>3. QED
    BY <1>1, <1>2, <2>2 DEF AllFresh, Fresh, NoTable
<1>5. QED
    BY <1>3, <1>4

(* An upsert begins only with the text of a memory, and only when the index *)
(* has been renewed.                                                        *)
LEMMA UpsertsAreFresh ==
    ASSUME IInv, [Next]_vars
    PROVE  /\ JobsFresh'
           /\ saves = <<>> /\ saves' # <<>> => Renewed
<1>1. JobsFresh /\ StoreInv /\ RepoInv
    BY DEF IInv, IndexInv
<1>2. ASSUME NEW t \in Threads, NEW j, j.vec \in Texts, StartUpsert(t, j)
      PROVE  JobsFresh'
    BY <1>1, <1>2 DEF StartUpsert, JobsFresh, StoreInv, StoreTypeOK
<1>3. ASSUME NEW t \in Threads, StoreMemory(t)
      PROVE  JobsFresh' /\ Renewed
  <2>1. PICK m \in todo : StartUpsert(t, [row |-> m.row, vec |-> m.text])
    BY <1>3 DEF StoreMemory
  <2>2. m.text \in Texts
    BY <1>1 DEF RepoInv, RepoTypes, Listed
  <2>3. Renewed
    BY <1>3 DEF StoreMemory, At, Renewed
  <2>4. QED
    BY <1>2, <2>1, <2>2, <2>3
<1>4. ASSUME NEW t \in Threads, StoreCall(t)
      PROVE  JobsFresh' /\ Renewed
  <2>1. StartUpsert(t, [row |-> op[t].row, vec |-> op[t].text]) /\ at[t] = "upsert"
    BY <1>4 DEF StoreCall, At
  <2>2. op[t].text \in Texts
    BY <1>1, <2>1 DEF RepoInv, TextsKnown
  <2>3. Renewed
    BY <2>1 DEF Renewed
  <2>4. QED
    BY <1>2, <2>1, <2>2, <2>3
<1>5. ASSUME NEW t \in Threads, DeleteOld(t) \/ InsertNew(t) \/ InsertBreaks(t)
      PROVE  JobsFresh' /\ saves' = saves
    BY <1>1, <1>5
    DEF DeleteOld, InsertNew, InsertBreaks, Write, JobsFresh, StoreInv, StoreTypeOK
<1>6. ASSUME NEW t \in Threads, ReturnDone(t) \/ ReturnError(t)
      PROVE  JobsFresh' /\ (saves = <<>> => saves' = <<>>)
  <2>1. JobsFresh'
    BY <1>1, <1>6
    DEF ReturnDone, ReturnError, Finish, JobsFresh, StoreInv, StoreTypeOK
  <2>2. saves # <<>>
    <3>1. t \in Inside
      BY <1>6 DEF ReturnDone, ReturnError, Inside
    <3>2. Cardinality(Inside) \in Nat \ {0} /\ failed \in Nat
      BY <1>1, <3>1, InsideCount DEF StoreInv, StoreTypeOK
    <3>3. Len(saves) # 0
      BY <1>1, <3>2 DEF StoreInv, SavepointsAreCounted
    <3>4. QED
      BY <3>3
  <2>3. QED
    BY <2>1, <2>2
<1>7. ASSUME UNCHANGED <<pc, job, saves>>
      PROVE  JobsFresh'
    BY <1>1, <1>7 DEF JobsFresh
<1>8. ASSUME Crash
      PROVE  JobsFresh' /\ saves' = <<>>
    BY <1>8 DEF Crash, JobsFresh
<1>9. ASSUME NEW t \in Threads,
             \/ \E r \in Rows : DeleteRow(t, r)
             \/ \E d \in Dims : CreateTable(t, d)
             \/ DropTable(t)
             \/ CreateTable(t, Dim)
             \/ UNCHANGED storeVars
      PROVE  UNCHANGED <<pc, job, saves>>
    BY <1>9 DEF DeleteRow, CreateTable, DropTable, Write, storeVars
<1>10. ASSUME NEW t \in Threads, Run(t)
       PROVE  JobsFresh' /\ (saves = <<>> /\ saves' # <<>> => Renewed)
  <2>1. CASE InsideUpsert(t) \/ UpsertDone(t) \/ UpsertFailed(t)
    BY <1>5, <1>6, <2>1 DEF InsideUpsert, UpsertDone, UpsertFailed
  <2>2. CASE \/ EnsureCurrent(t) \/ ProbeEngine(t) \/ ListMemories(t)
             \/ EmbeddingFails(t) \/ MarkRebuilt(t) \/ SetIdentity(t)
             \/ BackfillBody(t) \/ AddBody(t) \/ UpdateBody(t) \/ ForgetBody(t)
             \/ MarkCall(t) \/ MarkAllUnvectorized(t)
    <3>1. UNCHANGED storeVars
      BY <2>2 DEF EnsureCurrent, ProbeEngine, ListMemories, EmbeddingFails, MarkRebuilt,
                  SetIdentity, BackfillBody, AddBody, UpdateBody, ForgetBody,
                  MarkCall, MarkAllUnvectorized, KeepStore
    <3>2. QED
      BY <1>7, <1>9, <3>1
  <2>3. CASE \/ DropIndex(t) \/ ResetBody(t) \/ CreateIndex(t)
             \/ EnsureVecTable(t) \/ ResetCreate(t)
    <3>1. DropTable(t) \/ CreateTable(t, Dim) \/ UNCHANGED storeVars
      BY <2>3 DEF DropIndex, ResetBody, CreateIndex, EnsureVecTable, ResetCreate,
                  KeepStore
    <3>2. QED
      BY <1>7, <1>9, <3>1
  <2>4. CASE ForgetVector(t)
    <3>1. op[t].row \in Rows
      BY <1>1, <2>4 DEF ForgetVector, At, RepoInv, TextsKnown
    <3>2. (\E r \in Rows : DeleteRow(t, r)) \/ UNCHANGED storeVars
      BY <2>4, <3>1 DEF ForgetVector, KeepStore
    <3>3. QED
      BY <1>7, <1>9, <3>2
  <2>5. QED
    BY <1>3, <1>4, <1>10, <2>1, <2>2, <2>3, <2>4 DEF Run
<1>11. ASSUME \/ \E t \in Threads, o \in Requests : Call(t, o)
              \/ \E r \in Rows : DeleteMemory(r)
              \/ EngineReady \/ EngineLost \/ UNCHANGED vars
              \/ \E t \in Threads : InspectionBreaks(t) \/ FinishBreaks(t)
       PROVE  UNCHANGED storeVars
    BY <1>11 DEF InspectionBreaks, FinishBreaks, Call, DeleteMemory, EngineReady,
                 EngineLost, KeepStore, vars
<1>12. CASE UNCHANGED storeVars
    BY <1>7, <1>12 DEF storeVars
<1>13. QED
    BY <1>5, <1>8, <1>10, <1>11, <1>12 DEF Next, Die, UpsertBreaks

LEMMA StepHolds == IInv /\ [Next]_vars => IInv'
<1> SUFFICES ASSUME IInv, [Next]_vars PROVE IInv'
    OBVIOUS
<1>1. [StoreNext]_storeVars
    BY StepOfStore
<1>2. StoreInv'
    BY <1>1, StoreStep DEF IInv
<1>3. AllFresh => AllFresh'
    BY <1>1, FreshStays DEF IInv, IndexInv
<1>4. Renewed' => AllFresh'
  <2>1. ASSUME NEW t \in Threads, DropIndex(t)
        PROVE  AllFresh'
    BY <1>3, <2>1, DropRenews DEF IInv, IndexInv
  <2>2. QED
    BY <1>3, <2>1, RepoStep DEF IInv, IndexInv
<1>5. saves' = <<>> \/ AllFresh'
    BY <1>3, UpsertsAreFresh DEF IInv, IndexInv
<1>6. QED
    BY <1>2, <1>4, <1>5, RepoStep, UpsertsAreFresh DEF IInv, IndexInv

(* The inductive invariant of the index and its store.                      *)
THEOREM IndexInvariant == Spec => []IInv
BY InitHolds, StepHolds, PTL DEF Spec

(* The repository, the migration and the store keep their types, and only   *)
(* the holder of its mutex rebuilds (ensureCurrent).                        *)
THEOREM IndexTypes == Spec => []TypeOK
<1>1. IInv => TypeOK
    BY Types DEF IInv, StoreInv, RepoInv
<1>2. QED
    BY <1>1, IndexInvariant, PTL

(* Whatever the number of threads that share the connection, each open      *)
(* savepoint is that of a running or of a failed upsert (upsert).           *)
THEOREM SavepointsStayCounted == Spec => []SavepointsAreCounted
<1>1. IInv => SavepointsAreCounted
    BY DEF IInv, StoreInv
<1>2. QED
    BY <1>1, IndexInvariant, PTL

(* The file never takes over a half-done upsert (upsert, OP_Savepoint).     *)
THEOREM WholeUpsertsAreCommitted == Spec => CommitsWholeUpserts
<1>1. IInv /\ [Next]_vars =>
        [durable' # durable => \A t \in Threads : pc'[t] = "idle"]_storeVars
    BY StepOfStore, StoreStepCommitsWhole DEF IInv
<1>2. QED
    BY <1>1, IndexInvariant, PTL DEF Spec, CommitsWholeUpserts

(* Without a failed upsert, what the connection shows between upserts is    *)
(* what a restart finds (upsert).                                           *)
THEOREM NothingIsPending == Spec => []NothingPendingWhenQuiet
<1>1. IInv => NothingPendingWhenQuiet
  <2> SUFFICES ASSUME IInv, failed = 0, Inside = {} PROVE view = durable
      BY DEF NothingPendingWhenQuiet
  <2>1. Cardinality(Inside) = 0
      BY FS_EmptySet
  <2>2. Len(saves) = 0 /\ saves \in Seq(Tables)
      BY <2>1 DEF IInv, StoreInv, StoreTypeOK, SavepointsAreCounted
  <2>3. saves = <<>>
      BY <2>2
  <2>4. QED
      BY <2>3 DEF IInv, StoreInv
<1>2. QED
    BY <1>1, IndexInvariant, PTL

(* No vector of the old model is searched as one of the new, in whatever    *)
(* order rebuilds, calls, failures and restarts come (ensureCurrent).       *)
THEOREM IdentityIsNeverAhead == Spec => []IdentityNeverAhead
<1>1. IInv => IdentityNeverAhead
  <2> SUFFICES ASSUME IInv, identity = "arctic" PROVE IdentityNeverAhead
      BY DEF IdentityNeverAhead
  <2>1. AllFresh
      BY DEF IInv, IndexInv, Renewed
  <2>2. QED
      BY <2>1 DEF AllFresh, Fresh, IdentityNeverAhead
<1>2. QED
    BY <1>1, IndexInvariant, PTL
=============================================================================
