------------------------- MODULE NativeVectorStore -------------------------
(* kernel_vectors.db as the app writes it: every thread that calls          *)
(* SqliteVecStore uses the one connection that openDatabase returned, and   *)
(* neither Kotlin nor the native code takes a lock.  An upsert is four      *)
(* statements, SAVEPOINT, DELETE, INSERT and RELEASE or ROLLBACK TO, all    *)
(* savepoints have the same name, and a transaction belongs to the          *)
(* connection and not to the thread.                                        *)
(*                                                                          *)
(* A statement is one step.  The library is built with SQLITE_THREADSAFE=2, *)
(* so two statements that really overlap are a data race whose outcome is   *)
(* undefined; the interleavings below are the outcomes in which no          *)
(* statement is torn.  The contents of a table are a map (Vec0Table shows   *)
(* why that is enough), and one table stands for the four of the app.       *)
EXTENDS Integers, Sequences, FiniteSets

CONSTANTS Threads, Rows, Vectors, None,
          Dims,              \* the lengths of embeddings
          DimOf              \* the length of each vector

ASSUME ThreadsAssumption == IsFiniteSet(Threads)
ASSUME NoneAssumption == None \notin Vectors \cup Dims
ASSUME DimOfAssumption == DimOf \in [Vectors -> Dims]

VARIABLES view,      \* what a statement on the connection sees
          durable,   \* what the file holds after a restart
          saves,     \* the open savepoints, each with the view it began with
          pc, job,   \* of each thread: the next statement, and its upsert
          failed     \* history: upserts that failed in this process

storeVars == <<view, durable, saves, pc, job, failed>>

Tables == [dim: Dims \cup {None}, rows: [Rows -> Vectors \cup {None}]]
Jobs == [row: Rows, vec: Vectors]
NoJob == [row |-> None]
NoTable == [dim |-> None, rows |-> [r \in Rows |-> None]]

(* The connection shows and saves whole tables, and a thread is between two *)
(* statements of an upsert (upsert).                                        *)
StoreTypeOK ==
    /\ view \in Tables /\ durable \in Tables
    /\ saves \in Seq(Tables)
    /\ pc \in [Threads -> {"idle", "delete", "insert", "release", "rollback"}]
    /\ job \in [Threads -> Jobs \cup {NoJob}]
    /\ failed \in Nat

Inside == {t \in Threads : pc[t] # "idle"}

StoreInit ==
    /\ view = NoTable /\ durable = NoTable
    /\ saves = <<>>
    /\ pc = [t \in Threads |-> "idle"]
    /\ job = [t \in Threads |-> NoJob]
    /\ failed = 0

(* Mutant: every statement commits by itself.                               *)
WriteThrough(db) ==
    /\ view' = db
    /\ durable' = db
    /\ UNCHANGED saves

(* A statement that writes commits by itself when no savepoint is open.     *)
Write(db) ==
    /\ view' = db
    /\ durable' = IF saves = <<>> THEN db ELSE durable
    /\ UNCHANGED saves

(***************************************************************************)
(* The savepoint statements of SQLite (OP_Savepoint).                      *)
(***************************************************************************)
OpenSavepoint ==
    /\ saves' = Append(saves, view)
    /\ UNCHANGED <<view, durable>>

(* Mutants: RELEASE closes every savepoint of that name, or does not commit.*)
ReleaseEvery ==
    /\ saves' = <<>>
    /\ durable' = view
    /\ UNCHANGED view

ReleaseUncommitted ==
    /\ saves' = SubSeq(saves, 1, Len(saves) - 1)
    /\ UNCHANGED <<view, durable>>

(* RELEASE closes the innermost savepoint of that name, and commits when it *)
(* is the one that began the transaction.                                   *)
ReleaseSavepoint ==
    /\ saves' = SubSeq(saves, 1, Len(saves) - 1)
    /\ durable' = IF Len(saves) = 1 THEN view ELSE durable
    /\ UNCHANGED view

(* ROLLBACK TO restores the view of the innermost savepoint of that name    *)
(* and leaves it open.                                                      *)
RollbackToSavepoint ==
    /\ view' = saves[Len(saves)]
    /\ UNCHANGED <<saves, durable>>

(***************************************************************************)
(* upsert                                                                  *)
(***************************************************************************)
StartUpsert(t, j) ==
    /\ pc[t] = "idle"
    /\ OpenSavepoint
    /\ pc' = [pc EXCEPT ![t] = "delete"]
    /\ job' = [job EXCEPT ![t] = j]
    /\ UNCHANGED failed

(* The DELETE is prepared only if the table is there, and is not checked.   *)
DeleteOld(t) ==
    /\ pc[t] = "delete"
    /\ IF view.dim = None THEN UNCHANGED <<view, durable, saves>>
       ELSE Write([view EXCEPT !.rows[job[t].row] = None])
    /\ pc' = [pc EXCEPT ![t] = "insert"]
    /\ UNCHANGED <<job, failed>>

(* The INSERT is refused without a table, for an embedding of another       *)
(* length, and for a row id that is there.                                  *)
Accepted(j) == view.dim = DimOf[j.vec] /\ view.rows[j.row] = None

InsertNew(t) ==
    /\ pc[t] = "insert"
    /\ IF Accepted(job[t])
       THEN /\ Write([view EXCEPT !.rows[job[t].row] = job[t].vec])
            /\ pc' = [pc EXCEPT ![t] = "release"]
       ELSE /\ pc' = [pc EXCEPT ![t] = "rollback"]
            /\ UNCHANGED <<view, durable, saves>>
    /\ UNCHANGED <<job, failed>>

(* An INSERT can fail for a reason of its own: a full disk, an I/O error.   *)
InsertBreaks(t) ==
    /\ pc[t] = "insert"
    /\ pc' = [pc EXCEPT ![t] = "rollback"]
    /\ UNCHANGED <<view, durable, saves, job, failed>>

Finish(t) ==
    /\ pc' = [pc EXCEPT ![t] = "idle"]
    /\ job' = [job EXCEPT ![t] = NoJob]

ReturnDone(t) ==
    /\ pc[t] = "release"
    /\ ReleaseSavepoint
    /\ Finish(t)
    /\ UNCHANGED failed

ReturnError(t) ==
    /\ pc[t] = "rollback"
    /\ RollbackToSavepoint
    /\ Finish(t)
    /\ failed' = failed + 1

(***************************************************************************)
(* The other calls, one statement each.                                    *)
(***************************************************************************)
DeleteRow(t, r) ==
    /\ pc[t] = "idle"
    /\ view.rows[r] # None
    /\ Write([view EXCEPT !.rows[r] = None])
    /\ UNCHANGED <<pc, job, failed>>

CreateTable(t, d) ==
    /\ pc[t] = "idle"
    /\ view.dim = None
    /\ Write([view EXCEPT !.dim = d])
    /\ UNCHANGED <<pc, job, failed>>

DropTable(t) ==
    /\ pc[t] = "idle"
    /\ view.dim # None
    /\ Write(NoTable)
    /\ UNCHANGED <<pc, job, failed>>

(* The process dies: what was not committed is gone, and openDatabase opens *)
(* a new connection.                                                        *)
Crash ==
    /\ view' = durable
    /\ saves' = <<>>
    /\ pc' = [t \in Threads |-> "idle"]
    /\ job' = [t \in Threads |-> NoJob]
    /\ failed' = 0
    /\ UNCHANGED durable

Step(t) ==
    \/ \E j \in Jobs : StartUpsert(t, j)
    \/ DeleteOld(t) \/ InsertNew(t) \/ InsertBreaks(t)
    \/ ReturnDone(t) \/ ReturnError(t)
    \/ \E r \in Rows : DeleteRow(t, r)
    \/ \E d \in Dims : CreateTable(t, d)
    \/ DropTable(t)

StoreNext == (\E t \in Threads : Step(t)) \/ Crash

StoreSpec == StoreInit /\ [][StoreNext]_storeVars

-----------------------------------------------------------------------------
(* Every open savepoint belongs to an upsert that is running, or was left   *)
(* by one that failed: a thread that releases "its" savepoint may close     *)
(* that of another, but never one too many, and no statement runs outside   *)
(* the transaction of an upsert that is running (upsert, OP_Savepoint).     *)
SavepointsAreCounted == Len(saves) = Cardinality(Inside) + failed

(* The file never takes over a half-done upsert: it changes only when no    *)
(* other thread is between SAVEPOINT and RELEASE, although the savepoints   *)
(* of all threads have one name and one stack (upsert, OP_Savepoint).       *)
CommitsWholeUpserts ==
    [][durable' # durable => \A t \in Threads : pc'[t] = "idle"]_storeVars

(* As long as no upsert has failed in this process, what the connection     *)
(* shows between upserts is what a restart would find.                      *)
NothingPendingWhenQuiet ==
    failed = 0 /\ Inside = {} => view = durable
=============================================================================
