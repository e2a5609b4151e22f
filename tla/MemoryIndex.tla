---------------------------- MODULE MemoryIndex ----------------------------
(* The semantic index of the memories: rows of Room, the vectors derived    *)
(* from them in kernel_vectors.db, and the calls that keep the two in step. *)
(* Every call first asks EmbeddingIndexMigration.ensureCurrent, which       *)
(* rebuilds the index under a mutex when the embedding model has changed or *)
(* a row has no vector; the calls themselves take no lock, and every native *)
(* statement goes through the shared connection of NativeVectorStore.       *)
(*                                                                          *)
(* One table stands for the three tables of memories that have a vectorized *)
(* flag.  The embedding of a text is the text itself; Stale is the vector   *)
(* that the previous embedding model left for a row.                        *)
EXTENDS NativeVectorStore

CONSTANTS Texts, Stale,
          Dim,               \* DIMENSIONS, the length of every vector
          Operations,        \* the calls that are made
          MaxCalls,          \* bound on the calls that change memories
          MaxFaults          \* bound on the times the engine goes away, the
                             \* queries, INSERTs and deletions of files that
                             \* break and the deaths of the process, together

ASSUME TextsAssumption == Texts \subseteq Vectors /\ Stale \in Vectors \ Texts
ASSUME NobodyAssumption == None \notin Threads
ASSUME DimAssumption == Dims = {Dim}
ASSUME BoundsAssumption == {MaxCalls, MaxFaults} \subseteq Nat

VARIABLES room,        \* the memories, by rowId
          identity,    \* the index identity among the preferences
          engine,      \* the embedding engine is available
          owner,       \* the thread that holds the mutex of ensureCurrent
          todo,        \* memories the rebuild has still to embed
          item,        \* the memory it is storing
          at, op,      \* of each thread: where it is, and in which call
          current,     \* of each thread: what ensureCurrent answered
          created,     \* the flag that the table exists
          known,       \* the dimensions the repository has seen are known
          calls, faults

repoVars == <<room, identity, engine, owner, todo, item, at, op, current,
              created, known, calls, faults>>
vars == <<storeVars, repoVars>>

(* A rowId is unborn until Room gives it out, and is never given out again. *)
Memory == [state: {"unborn", "row", "gone"}, text: Texts \cup {None},
           vectorized: BOOLEAN]
Blank(state) == [state |-> state, text |-> None, vectorized |-> FALSE]
Row(text, vectorized) ==
    [state |-> "row", text |-> text, vectorized |-> vectorized]
Present == {r \in Rows : room[r].state = "row"}
Unvectorized == {r \in Present : ~room[r].vectorized}

Places == {"idle", "ensure", "probe", "drop", "create", "list", "next", "storing",
           "mark", "body", "table", "upsert", "upserting",
           "opmark", "forget", "rcreate", "unmark"}
Ops == [kind: {"ADD", "UPDATE", "FORGET", "RESET", "BACKFILL"},
        row: Rows \cup {None}, text: Texts \cup {None}, vec: BOOLEAN]
Listed == [row: Rows, text: Texts]
NoOp == [kind |-> "BACKFILL", row |-> None, text |-> None, vec |-> FALSE]

(* The repository's own state is well formed, and only the holder of the    *)
(* mutex rebuilds (EmbeddingIndexMigration, MemoryRepositoryImpl).          *)
TypeOK ==
    /\ StoreTypeOK
    /\ room \in [Rows -> Memory]
    /\ identity \in {"old", "arctic"} /\ engine \in BOOLEAN
    /\ owner \in Threads \cup {None}
    /\ todo \subseteq Listed /\ item \in Listed \cup {None}
    /\ at \in [Threads -> Places] /\ op \in [Threads -> Ops]
    /\ current \in [Threads -> BOOLEAN]
    /\ created \in BOOLEAN /\ known \in BOOLEAN
    /\ calls \in 0 .. MaxCalls /\ faults \in 0 .. MaxFaults
    /\ \A t \in Threads :
         at[t] \in {"probe", "drop", "create", "list", "next", "storing", "mark"}
           => owner = t

(* After an update of the app: memories whose vectors the old model made,   *)
(* or an index that is current.                                             *)
Init ==
    /\ \E old \in BOOLEAN, first \in Rows, text \in Texts :
         /\ identity = IF old THEN "old" ELSE "arctic"
         /\ room = [r \in Rows |-> IF r = first
                                   THEN Row(text, TRUE)
                                   ELSE Blank("unborn")]
         /\ view = [dim |-> Dim,
                    rows |-> [r \in Rows |-> IF r # first THEN None
                                             ELSE IF old THEN Stale ELSE text]]
    /\ durable = view
    /\ saves = <<>>
    /\ pc = [t \in Threads |-> "idle"]
    /\ job = [t \in Threads |-> NoJob]
    /\ failed = 0
    /\ engine = FALSE
    /\ owner = None
    /\ todo = {} /\ item = None
    /\ at = [t \in Threads |-> "idle"]
    /\ op = [t \in Threads |-> NoOp]
    /\ current = [t \in Threads |-> FALSE]
    /\ created = FALSE /\ known = FALSE
    /\ calls = 0 /\ faults = 0

Goto(t, place) == at' = [at EXCEPT ![t] = place]
At(t, place) == at[t] = place /\ pc[t] = "idle"

(* What a step of ensureCurrent and of a call leave alone.                  *)
KeepRequest == UNCHANGED <<op, created, known, calls, engine>>
KeepCall == KeepRequest /\ UNCHANGED faults
KeepIndex == UNCHANGED <<identity, owner, todo, item, current, engine,
                         calls, faults>>
KeepStore == UNCHANGED storeVars
CountFault == faults < MaxFaults /\ faults' = faults + 1

MarkVectorized(r) ==
    IF r \in Present THEN [room EXCEPT ![r].vectorized = TRUE] ELSE room

(***************************************************************************)
(* ensureCurrent                                                           *)
(***************************************************************************)
Answer(t, answer) ==
    /\ current' = [current EXCEPT ![t] = answer]
    /\ Goto(t, "body")

(* Mutant: the mutex is not taken.                                          *)
EnsureCurrentUnlocked(t) ==
    /\ At(t, "ensure")
    /\ IF identity = "arctic" /\ Unvectorized = {}
       THEN Answer(t, TRUE) /\ UNCHANGED owner
       ELSE Goto(t, "probe") /\ owner' = t /\ UNCHANGED current
    /\ KeepStore /\ KeepCall /\ UNCHANGED <<room, identity, todo, item>>

(* Under the mutex: is the index current?  If not, the mutex is kept.       *)
EnsureCurrent(t) ==
    /\ At(t, "ensure")
    /\ owner = None
    /\ IF identity = "arctic" /\ Unvectorized = {}
       THEN Answer(t, TRUE) /\ UNCHANGED owner
       ELSE Goto(t, "probe") /\ owner' = t /\ UNCHANGED current
    /\ KeepStore /\ KeepCall /\ UNCHANGED <<room, identity, todo, item>>

(* A query for the rows without a vector that throws leaves all as it is.   *)
InspectionBreaks(t) ==
    /\ At(t, "ensure")
    /\ owner = None
    /\ identity = "arctic"
    /\ CountFault
    /\ Answer(t, FALSE)
    /\ KeepStore /\ KeepRequest /\ UNCHANGED <<room, identity, owner, todo, item>>

(* Without the engine nothing is touched and the index is not current.      *)
ProbeEngine(t) ==
    /\ At(t, "probe")
    /\ IF engine
       THEN Goto(t, "drop") /\ UNCHANGED <<owner, current>>
       ELSE Answer(t, FALSE) /\ owner' = None
    /\ KeepStore /\ KeepCall /\ UNCHANGED <<room, identity, todo, item>>

(* Mutant: the tables are kept, and their rows written over.                *)
DropIndexSkipped(t) ==
    /\ At(t, "drop")
    /\ KeepStore
    /\ Goto(t, "create")
    /\ KeepCall /\ UNCHANGED <<room, identity, owner, todo, item, current>>

DropIndex(t) ==
    /\ At(t, "drop")
    /\ IF view.dim = None THEN KeepStore ELSE DropTable(t)
    /\ Goto(t, "create")
    /\ KeepCall /\ UNCHANGED <<room, identity, owner, todo, item, current>>

CreateIndex(t) ==
    /\ At(t, "create")
    /\ IF view.dim = None THEN CreateTable(t, Dim) ELSE KeepStore
    /\ Goto(t, "list")
    /\ KeepCall /\ UNCHANGED <<room, identity, owner, todo, item, current>>

(* getAll reads every memory once, before the first is embedded.            *)
ListMemories(t) ==
    /\ At(t, "list")
    /\ todo' = {[row |-> r, text |-> room[r].text] : r \in Present}
    /\ Goto(t, "next")
    /\ KeepStore /\ KeepCall /\ UNCHANGED <<room, identity, owner, item, current>>

StoreMemory(t) ==
    /\ At(t, "next")
    /\ engine
    /\ \E m \in todo : /\ StartUpsert(t, [row |-> m.row, vec |-> m.text])
                      /\ item' = m
                      /\ todo' = todo \ {m}
    /\ Goto(t, "storing")
    /\ KeepCall /\ UNCHANGED <<room, identity, owner, current>>

(* Mutant: the mutex is not released by an exception.                       *)
RebuildFailsLocked(t) ==
    /\ UNCHANGED owner
    /\ todo' = {} /\ item' = None
    /\ Answer(t, FALSE)
    /\ KeepRequest /\ UNCHANGED <<room, identity>>

RebuildFails(t) ==
    /\ owner' = None
    /\ todo' = {} /\ item' = None
    /\ Answer(t, FALSE)
    /\ KeepRequest /\ UNCHANGED <<room, identity>>

(* requireEmbedding throws when the engine has gone away.                   *)
EmbeddingFails(t) ==
    /\ At(t, "next")
    /\ todo # {} /\ ~engine
    /\ RebuildFails(t)
    /\ KeepStore /\ UNCHANGED faults

MarkRebuilt(t) ==
    /\ At(t, "mark")
    /\ room' = MarkVectorized(item.row)
    /\ item' = None
    /\ Goto(t, "next")
    /\ KeepStore /\ KeepCall /\ UNCHANGED <<identity, owner, todo, current>>

(* deleteLegacyEmbeddingGemmaAssets throws for a file that stays, and the   *)
(* write of the identity may fail as well.                                  *)
FinishBreaks(t) ==
    /\ At(t, "next")
    /\ todo = {}
    /\ CountFault
    /\ RebuildFails(t)
    /\ KeepStore

SetIdentity(t) ==
    /\ At(t, "next")
    /\ todo = {}
    /\ identity' = "arctic"
    /\ owner' = None
    /\ Answer(t, TRUE)
    /\ KeepStore /\ KeepCall /\ UNCHANGED <<room, todo, item>>

(***************************************************************************)
(* The native upsert, of the rebuild and of a call.                        *)
(***************************************************************************)
InsideUpsert(t) ==
    /\ DeleteOld(t) \/ InsertNew(t)
    /\ UNCHANGED repoVars

UpsertBreaks(t) ==
    /\ CountFault
    /\ InsertBreaks(t)
    /\ UNCHANGED <<room, identity, engine, owner, todo, item, at, op, current,
                   created, known, calls>>

UpsertDone(t) ==
    /\ ReturnDone(t)
    /\ Goto(t, IF at[t] = "storing" THEN "mark" ELSE "opmark")
    /\ KeepIndex /\ UNCHANGED <<room, op, created, known>>

(* The exception of a failed upsert ends the rebuild, or the call.          *)
UpsertFailed(t) ==
    /\ ReturnError(t)
    /\ IF at[t] = "storing"
       THEN RebuildFails(t) /\ UNCHANGED faults
       ELSE /\ Goto(t, "idle")
            /\ op' = [op EXCEPT ![t] = NoOp]
            /\ KeepIndex /\ UNCHANGED <<room, created, known>>

(***************************************************************************)
(* The calls                                                               *)
(***************************************************************************)
Call(t, o) ==
    /\ At(t, "idle")
    /\ o.kind \in Operations
    /\ o.kind # "BACKFILL" => calls < MaxCalls
    /\ calls' = IF o.kind = "BACKFILL" THEN calls ELSE calls + 1
    /\ op' = [op EXCEPT ![t] = o]
    /\ Goto(t, "ensure")
    /\ KeepStore
    /\ UNCHANGED <<room, identity, engine, owner, todo, item, current, created,
                   known, faults>>

Return(t) ==
    /\ Goto(t, "idle")
    /\ op' = [op EXCEPT ![t] = NoOp]

(* MemoryEmbeddingWorker, a search, and prune below its limits: only        *)
(* ensureCurrent.                                                           *)
BackfillBody(t) ==
    /\ At(t, "body") /\ op[t].kind = "BACKFILL"
    /\ Return(t)
    /\ KeepStore /\ KeepIndex /\ UNCHANGED <<room, created, known>>

(* addCoreMemory: the row first, then its vector when there is one, and at  *)
(* the end prune, which asks ensureCurrent again.                           *)
AddBody(t) ==
    /\ At(t, "body") /\ op[t].kind = "ADD"
    /\ \E r \in Rows :
         /\ room[r].state = "unborn"
         /\ \A q \in Rows : room[q].state = "unborn" => r <= q
         /\ room' = [room EXCEPT ![r] = Row(op[t].text, FALSE)]
         /\ IF current[t] /\ op[t].vec
            THEN /\ op' = [op EXCEPT ![t].row = r]
                 /\ Goto(t, "table")
            ELSE /\ op' = [op EXCEPT ![t] = NoOp]
                 /\ Goto(t, "ensure")
    /\ KeepStore /\ KeepIndex /\ UNCHANGED <<created, known>>

(* updateCoreMemory: the text, which clears the flag, and then the vector.  *)
UpdateBody(t) ==
    /\ At(t, "body") /\ op[t].kind = "UPDATE"
    /\ LET r == op[t].row IN
       IF r \in Present
       THEN /\ room' = [room EXCEPT ![r] = Row(op[t].text, FALSE)]
            /\ IF current[t] /\ op[t].vec
               THEN Goto(t, "table") /\ UNCHANGED op
               ELSE Return(t)
       ELSE Return(t) /\ UNCHANGED room
    /\ KeepStore /\ KeepIndex /\ UNCHANGED <<created, known>>

(* ensureCoreVecTable: the flag is read first, and the table is created     *)
(* under the mutex that a reset holds from its drop to its flag.            *)
EnsureVecTable(t) ==
    /\ At(t, "table")
    /\ IF created
       THEN KeepStore /\ UNCHANGED <<created, known>>
       ELSE /\ \A u \in Threads : at[u] # "rcreate"
            /\ IF view.dim = None THEN CreateTable(t, Dim) ELSE KeepStore
            /\ created' = TRUE /\ known' = TRUE
    /\ Goto(t, "upsert")
    /\ KeepIndex /\ UNCHANGED <<room, op>>

StoreCall(t) ==
    /\ At(t, "upsert")
    /\ StartUpsert(t, [row |-> op[t].row, vec |-> op[t].text])
    /\ Goto(t, "upserting")
    /\ KeepIndex /\ UNCHANGED <<room, op, created, known>>

MarkCall(t) ==
    /\ At(t, "opmark")
    /\ room' = MarkVectorized(op[t].row)
    /\ IF op[t].kind = "ADD"
       THEN /\ op' = [op EXCEPT ![t] = NoOp]
            /\ Goto(t, "ensure")
       ELSE Return(t)
    /\ KeepStore /\ KeepIndex /\ UNCHANGED <<created, known>>

(* deleteEpisodicMemory: the row, and then its vector; a failure of the     *)
(* native delete is caught.                                                 *)
ForgetBody(t) ==
    /\ At(t, "body") /\ op[t].kind = "FORGET"
    /\ LET r == op[t].row IN
       /\ room' = IF r \in Present THEN [room EXCEPT ![r] = Blank("gone")] ELSE room
       /\ IF r \in Present /\ current[t] THEN Goto(t, "forget") /\ UNCHANGED op
          ELSE Return(t)
    /\ KeepStore /\ KeepIndex /\ UNCHANGED <<created, known>>

ForgetVector(t) ==
    /\ At(t, "forget")
    /\ IF view.rows[op[t].row] = None THEN KeepStore ELSE DeleteRow(t, op[t].row)
    /\ Return(t)
    /\ KeepIndex /\ UNCHANGED <<room, created, known>>

(* deleteCoreMemory leaves the vector and asks nothing.                     *)
DeleteMemory(r) ==
    /\ "DELETE" \in Operations
    /\ calls < MaxCalls
    /\ r \in Present
    /\ room' = [room EXCEPT ![r] = Blank("gone")]
    /\ calls' = calls + 1
    /\ KeepStore
    /\ UNCHANGED <<identity, engine, owner, todo, item, at, op, current,
                   created, known, faults>>

(* resetKiwiVecTable: drop, create when the dimensions are known, and mark  *)
(* every row as in need of a vector; without an index only the last.        *)
ResetBody(t) ==
    /\ At(t, "body") /\ op[t].kind = "RESET"
    /\ IF current[t]
       THEN /\ \A u \in Threads : at[u] # "rcreate"
            /\ Goto(t, "rcreate")
            /\ IF view.dim = None THEN KeepStore ELSE DropTable(t)
       ELSE /\ Goto(t, "unmark")
            /\ KeepStore
    /\ KeepIndex /\ UNCHANGED <<room, op, created, known>>

ResetCreate(t) ==
    /\ At(t, "rcreate")
    /\ IF known /\ view.dim = None THEN CreateTable(t, Dim) ELSE KeepStore
    /\ created' = known
    /\ Goto(t, "unmark")
    /\ KeepIndex /\ UNCHANGED <<room, op, known>>

MarkAllUnvectorized(t) ==
    /\ At(t, "unmark")
    /\ room' = [r \in Rows |-> IF r \in Present
                               THEN [room[r] EXCEPT !.vectorized = FALSE]
                               ELSE room[r]]
    /\ Return(t)
    /\ KeepStore /\ KeepIndex /\ UNCHANGED <<created, known>>

(***************************************************************************)
(* The embedding engine, and the process                                   *)
(***************************************************************************)
EngineReady ==
    /\ ~engine
    /\ engine' = TRUE
    /\ KeepStore
    /\ UNCHANGED <<room, identity, owner, todo, item, at, op, current, created,
                   known, calls, faults>>

EngineLost ==
    /\ engine
    /\ CountFault
    /\ engine' = FALSE
    /\ KeepStore
    /\ UNCHANGED <<room, identity, owner, todo, item, at, op, current, created,
                   known, calls>>

(* The process dies: Room, the preferences and the committed vectors stay.  *)
Die ==
    /\ CountFault
    /\ Crash
    /\ engine' = FALSE
    /\ owner' = None
    /\ todo' = {} /\ item' = None
    /\ at' = [t \in Threads |-> "idle"]
    /\ op' = [t \in Threads |-> NoOp]
    /\ current' = [t \in Threads |-> FALSE]
    /\ created' = FALSE /\ known' = FALSE
    /\ UNCHANGED <<room, identity, calls>>

(* The screens offer what is there when the call is made.                   *)
Requests ==
    {[kind |-> k, row |-> None, text |-> None, vec |-> FALSE] :
        k \in {"BACKFILL", "RESET"}}
    \cup [kind: {"ADD"}, row: {None}, text: Texts, vec: BOOLEAN]
    \cup [kind: {"UPDATE"}, row: Present, text: Texts, vec: BOOLEAN]
    \cup [kind: {"FORGET"}, row: Present, text: {None}, vec: {FALSE}]

Run(t) ==
    \/ EnsureCurrent(t) \/ ProbeEngine(t) \/ DropIndex(t) \/ CreateIndex(t) \/ ListMemories(t)
    \/ StoreMemory(t) \/ EmbeddingFails(t) \/ MarkRebuilt(t) \/ SetIdentity(t)
    \/ InsideUpsert(t) \/ UpsertDone(t) \/ UpsertFailed(t)
    \/ BackfillBody(t) \/ AddBody(t) \/ UpdateBody(t)
    \/ ForgetBody(t) \/ ForgetVector(t)
    \/ EnsureVecTable(t) \/ StoreCall(t) \/ MarkCall(t)
    \/ ResetBody(t) \/ ResetCreate(t) \/ MarkAllUnvectorized(t)

Next ==
    \/ \E t \in Threads : Run(t) \/ \E o \in Requests : Call(t, o)
    \/ \E r \in Rows : DeleteMemory(r)
    \/ EngineReady \/ EngineLost \/ Die
    \/ \E t \in Threads : UpsertBreaks(t) \/ InspectionBreaks(t) \/ FinishBreaks(t)

Spec == Init /\ [][Next]_vars

(* Coroutines run on, the engine is loaded in the end, and every start of   *)
(* the app and every message asks ensureCurrent again.                      *)
FairSpec ==
    /\ Spec
    /\ \A t \in Threads : WF_vars(Run(t)) /\ WF_vars(Call(t, NoOp))
    /\ WF_vars(EngineReady)

-----------------------------------------------------------------------------
(* Nothing the old model made is ever searched as the new: once the         *)
(* identity is written no stale vector is in the table, in the file, or in  *)
(* a savepoint that a failed upsert could go back to, however rebuilds,     *)
(* calls and deaths of the process interleave (ensureCurrent drops the      *)
(* tables first and writes the identity last).                              *)
IdentityNeverAhead ==
    identity = "arctic" =>
      \A db \in {view, durable} \cup {saves[i] : i \in 1 .. Len(saves)} :
        \A r \in Rows : db.rows[r] # Stale

(* As long as calls come in, nothing fails for ever: with the engine there, *)
(* the index identity is written and every memory is marked vectorized,     *)
(* after outages, failed rebuilds, failed upserts and deaths that end.      *)
IndexBecomesCurrent == <>[](identity = "arctic" /\ Unvectorized = {})

(* When ensureCurrent would answer that the index is current, and no call   *)
(* is in the middle of its work, every memory has a vector.  The code       *)
(* breaks this: a rebuild that fails under the current identity leaves      *)
(* rows marked vectorized whose vectors it dropped (ensureCurrent).         *)
CurrentIndexIsComplete ==
    /\ identity = "arctic" /\ Unvectorized = {}
    /\ \A t \in Threads : at[t] = "idle"
    => \A r \in Present : view.rows[r] # None
=============================================================================
