# Formal models of Kernel AI Assistant

TLA+ models of the parts of this repository in which several actors change the
same data, the TLC instances that check them, and proofs of what holds for every
instance. Four parts are modelled: the replicated store behind the shared lists
(`ListStore`), its synchronization with a Nextcloud Tasks collection
(`NextcloudSync`), the semantic index of the memories with the native vector store
below it (`MemoryIndex`, `NativeVectorStore`, `Vec0Table`), and the alarms of the
clock (`ClockSchedule`).

Abbreviations for source files used below:

| short | file |
|---|---|
| LMR | `src/core/memory/src/main/java/com/kernel/ai/core/memory/repository/ListMutationRepository.kt` |
| LSM | `src/core/memory/src/main/java/com/kernel/ai/core/memory/lists/ListSyncModels.kt` |
| AD | `src/core/memory/src/main/java/com/kernel/ai/core/memory/nextcloud/NextcloudSyncAdapter.kt` |
| DAV | `src/core/memory/src/main/java/com/kernel/ai/core/memory/nextcloud/NextcloudCalDavClient.kt` |
| CLK | `src/core/memory/src/main/java/com/kernel/ai/core/memory/clock/ClockRepositoryImpl.kt` |
| EIM | `src/core/memory/src/main/java/com/kernel/ai/core/memory/vector/EmbeddingIndexMigration.kt` |
| MRI | `src/core/memory/src/main/java/com/kernel/ai/core/memory/repository/MemoryRepositoryImpl.kt` |
| JNI | `src/core/memory/src/main/cpp/kernel_vec_jni.cpp` |
| VEC | `src/core/memory/src/main/cpp/sqlite-vec.c` |
| SQL | `src/core/memory/src/main/cpp/sqlite3.c` |
| LRT | `src/core/inference/src/main/java/com/kernel/ai/core/inference/LiteRtInferenceEngine.kt` |

Contents: 1 the system; 2 the modules and how they correspond to the code;
3 properties and runs; 4 bounds; 5 fairness; 6 proofs; 7 what the checks found;
8 what is not modelled; 9 the plan; 10 how to run it.

## 1. The system

The application is an assistant that runs on an Android device: a language model
in a native engine, skills that act on the user's lists, clocks, memories and
meal plans, voice input and output, and screens for each. State lives in Room
tables (`core/memory`), in Android services (AlarmManager, WorkManager,
foreground services), in native objects (the engine, the vector store) and, for
shared lists, on a CalDAV server.

### Components

**List store** (LMR, LSM). *State*: `ListItemEntity` rows whose every field has a
Lamport stamp (clock, actor); `ListChangeEntity`, the record of local changes;
`ListActorStateEntity`, the device's clock; `ListSourceSequenceEntity` and
`ListCheckpointEntity`, how far a device has followed each source.
*Operations*: add, edit, check, move, delete, restore; `applyRemote` for one
foreign change; `exportSnapshot` and `importSnapshot` for a whole collection.
Each is one Room transaction. *Hard*: changes and packages arrive in any order,
repeatedly or never; a two-level hierarchy is derived from placements requested
on several devices; a parent's completion follows its children. *Correct when*:
stamps are unique and dominate what a device stores, no field goes back to an
older stamp, a deletion is only undone by a restore, the checkpoint never runs
ahead of the state, devices that received the same changes show the same list,
the forest has two levels and the completions agree with it.

**Nextcloud Tasks synchronization** (AD, DAV, `NextcloudSyncWorker`). *State*:
one collection binding (enabled, writable, available, blocked, clock), one item
binding per row (UID, ETag, last document seen, deleted on the server), and the
local variables of whoever is synchronizing. *Operations*: discover and refresh
access, quarantine, push with `If-Match`/`If-None-Match`, pull and merge by
stamp, retry once after a conflict, stop and resume, share, publish, make a
local copy, keep or discard stranded work. *Interactions*: reads and writes the
list store through `importSnapshot` and the outbox; `syncMutex` serializes
synchronizations but neither the user's edits nor the sharing calls take it; HTTP
requests suspend between a read and the write that depends on it. *Hard*:
interleaving with edits and other clients, revoked and returned access, lost
replies, missing ETags, the end of the process between any two writes. *Correct
when*: items and tasks stay one to one, each local change is written once, other
people's edits are not overwritten unseen, stranded work is neither pushed nor
lost, a stop holds, and once everybody is quiet both sides agree.

**Clock repository** (CLK, `AlarmManagerClockScheduler`, `AlarmBroadcastReceiver`,
`core/memory/.../alarm/BootCompletedReceiver.kt`). *State*: `ScheduledAlarmEntity`
rows; the triggers armed in AlarmManager, which are lost on reboot; the
stopwatch. *Operations*: create, update, enable, cancel, skip, snooze, handle a
trigger, restore after boot. No transaction and no lock spans a table write and
the scheduler call. *Hard*: a trigger handled on `Dispatchers.IO` re-inserts the
row it read at the start (CLK 507) while the user cancels it; the process ends
between cancelling one trigger and arming the next (CLK 529); results of
scheduling are ignored (CLK 360, 439). *Correct when*: a cancelled alarm stays
cancelled, an enabled or snoozed one is armed, a repeating one never dies.

**Clock alert service** (`ClockAlertService`, `ClockAlertLifecyclePolicy`,
`ClockAlertVoiceCommand`). *State*: the alert that rings, its timeouts.
*Operations*: ring, dismiss, snooze (button or voice), time out. *Hard*: the
alert starts before the table is consulted; a timeout races with an answer.
*Correct when*: one alert rings at a time, each ends in exactly one way.

**Inference engine** (LRT, `InferenceGenerationService`). *State*: the native
engine and conversation, `generationMutex`, the flags of one generation.
*Operations*: initialize, generate, cancel, reset the conversation, shut down,
continue after a tool call. *Hard*: native callbacks, the collector's
cancellation and the abort before a tool continuation finish one generation
concurrently (LRT 984); a reset that fails releases the mutex and then shuts the
engine down (LRT 1198). *Correct when*: a conversation is closed once, the mutex
released once, no generation uses a closed engine.

**Model downloads** (`ModelDownloadManager`, `ModelDownloadWorker`). *State*: a
download state per model, WorkManager's unique work, partial files. *Operations*:
start, cancel, retry, observe. *Hard*: the state is checked before and written
after the work is enqueued. *Correct when*: one worker per model, a cancelled
download ends cancelled, a complete state means a complete file.

**Meal plan sessions** (`MealPlanSessionRepository`, `MealPlannerCoordinator`).
*State*: a persisted session with its phase, preferences and days. *Operations*:
start, answer, generate a day, accept, regenerate, cancel. *Hard*: a session is
read, the model generates, the result is written. *Correct when*: a result lands
only in the session and the phase it was generated for.

**Slot filling** (`SlotFillerManager`). *State*: one pending request. Sequential.

**Memory and vector index** (MRI, EIM, `RagRepository`). *State*: Room rows with a
`vectorized` flag; the identity of the index among the preferences; flags that a
table exists. *Operations*: add, update, forget, delete and reset memories; every
call first asks `ensureCurrent`, which drops and rebuilds all vector tables when
the embedding model has changed or a row has no vector. *Interactions*: the
embedding engine, and the native store, which is not written in one transaction
with Room. *Hard*: the rebuild holds a mutex that the rest of a call does not; the
engine can be absent or go away; the process dies between any two writes. *Correct
when*: no vector of an old model is searched as one of the new, and the index
becomes current in the end.

**Native vector store** (`VectorStore`, `SqliteVecStore`, JNI, vendored VEC and
SQL). *State*: `kernel_vectors.db`, four vec0 tables, each of them three shadow
tables; one connection for all threads, its savepoints and its transaction.
*Operations*: create, drop, upsert (SAVEPOINT, DELETE, INSERT, RELEASE or ROLLBACK
TO), delete, search. *Hard*: no lock anywhere (`SQLITE_THREADSAFE=2`), all
savepoints have one name, any step of a statement can fail. *Correct when*: a table
is a map that each call changes as a whole or not at all, a search finds the
nearest rows, and the file never takes over half an upsert.

**List packages** (`ListPackageModels`, `ListPackageExchange`,
`ListPackageCrypto`): text form and encryption of an exported snapshot.
**VTODO documents** (`VTodoDocument`): iCalendar text. **Nextcloud account and
login**: the login flow, credentials, addresses. **Notifications**
(`ListNotificationScheduler`, `ImportantDateNotificationScheduler`): one alarm per
due item, recomputed from the tables. **Intent routing and skills**
(`QuickIntentRouter`, `NativeIntentHandler`, `KernelAIToolSet`): from words to
calls. **Conversation** (`ChatViewModel`, `ActionsViewModel`). **Voice input and
output**, **wake word service**: threads around native libraries. **Other screens,
widget, permissions, shortcuts**.

### How they interact

```
 screens, widget, skills                 other devices        other CalDAV clients
        |  edits                              |  packages              |
        v                                     v                        v
   List store  <--- importSnapshot ---  list packages           CalDAV server
        ^  ^------- importSnapshot, outbox --------- Nextcloud sync ---^
        |                                                ^
   notifications                             WorkManager worker, sharing screens

 skills, clock screens ---> Clock repository <---> AlarmManager ---> receiver ---> alert service
 chat ---> inference engine ---> tools (skills)
 chat, skills, workers ---> memory and vector index ---> SqliteVecStore ---> sqlite-vec ---> SQLite
 meal plan coordinator ---> inference engine, meal plan sessions
```

## 2. The modules

| module | models | lines of the code |
|---|---|---|
| `ListStamps` | `VersionStamp`, its order, observing a clock | LSM, LMR |
| `ListHierarchy` | `EffectiveHierarchyNormalizer.derive` as a recursive function | LSM |
| `ListStore` | the list store on several devices | LMR, LSM |
| `MCListStore` | operation sets for its three runs | |
| `ListStoreProofs`, `ListHierarchyProofs`, `ListExchangeProofs`, `ListGroupsProofs` | theorems: stamps; the derived hierarchy; history and exchange between devices; completion of parents | |
| `NextcloudSync` | one list bound to one collection | AD, DAV |
| `MCNextcloudSync`, `NextcloudSyncProofs` | operation sets and hierarchies for its four runs; theorems | |
| `VectorMap` | what `VectorStore` promises: a map whose calls take effect at once (abstract) | `VectorStore.kt` |
| `Vec0Table` | one vec0 table, in the steps of its DELETE and INSERT | VEC, JNI |
| `Vec0Search` | the search over the chunks, and the refinement of `VectorMap` | VEC |
| `MCVec0Table`, `Vec0Proofs` | instance, theorems | |
| `NativeVectorStore` | the connection that all threads share, statement by statement | JNI, SQL, `SqliteVecStore.kt` |
| `MemoryIndex` | memories in Room, `ensureCurrent` and the calls; EXTENDS `NativeVectorStore` | MRI, EIM |
| `MCMemoryIndex`, `MemoryIndexProofs` | instance, theorems | |
| `ClockSchedule` | alarms in Room and in AlarmManager | CLK, receivers |
| `MCClockSchedule`, `ClockScheduleProofs` | operations of its runs; theorems | |

### ListStore

`rows[d][i]` is the `ListItemEntity` of item `i` on device `d`: the values of four
fields (`text`, `checked`, `parent`, `life`) and the stamp of each. `known[d]` are
the items the device has a row for; a deleted item keeps its row. `changes` are
all `ListChangeEntity` rows ever recorded by any device, which are also the
messages in transit: `ApplyRemote(d, c)` may take any of them at any time, in any
order, and a change that is never taken is lost. `packages` are the exported
snapshots; reading one twice, or long after, is possible at any time.

Every user operation is one transaction and so one action:

| action | code | what belongs to it |
|---|---|---|
| `AddItem` | `addItem`, `addSubItem` | the creation, and the completion of the new parent |
| `SetText` | `setItemText`; `setItemDescription` and `setItemDueAt` behave alike | no write if the value is the same |
| `SetChecked` | `setItemsChecked` | the children follow the item, then every parent is recomputed |
| `MoveItem` | `moveItem` | the new parent is shown at top level and the item has no children; the old and the new parent are recomputed |
| `DeleteItems` | `deleteItems` | children that survive are promoted first, then the tombstones, then the groups are recomputed |
| `RestoreItem` | `restoreItem` | the requested parent is recomputed |
| `ApplyRemote` | `applyRemote` | observe the clock, insert an unknown row, overwrite by stamp, mark applied, advance the checkpoint, recompute parents |
| `Export`, `Import` | `exportSnapshot`, `importSnapshot` | merge field by field, take the checkpoints, recompute parents |
| `EditElsewhere` | any edit of another list | the clock is shared by all lists of a device |

`Commit` is the common end of a transaction: the writes draw one stamp each
(`nextStamp`), the rows and the changes are written, and then
`recomputeParentCompletionInternal` (`Flips`) draws further stamps for the
parents that must follow.

Abstractions: `text` stands for text, description and due date. Actor identities
are numbers because the code only compares them. `applyRemote` has no caller in
production code yet, only in tests: production exchanges packages and Nextcloud
snapshots, both through `importSnapshot`. It is modelled because it is the
documented incremental protocol and shares the stamps and tables with the rest.

### NextcloudSync

The tables are `rows`, `pending` (the outbox), `bound` (item bindings) and `coll`
(the collection binding). The server is `tasks`, `access` and `etags`. The local
variables of the adapter are `copy` (the binding row a caller holds), `view` (the
rows a push has read), `todo`, `fetched` and `merge`; `pc` and `stage` say where a
caller is. A crash resets exactly these and the mutex.

One action is one stretch of code between two points where others can run: a
suspension at a request, at a Room call, or at the mutex.

| actions | code |
|---|---|
| `Sync` (of the worker and of the screen), `Publish`, `Share`, `LocalCopy`, `Keep`, `Discard`, `Resume` | the public functions up to the mutex: each reads the binding row first and keeps its copy |
| `Stop` | `stopSync` |
| `Begin` | taking `syncMutex`; the binding is read again by a synchronization, but not by a publication |
| `Discover`, `Quarantine` | `refreshCollectionAccess`, `quarantineUnsyncedWork`, the branches of `syncBoundCollection` |
| `Push`, `Put`, `Delete`, `Store`, `Acknowledge` | `pushCollection`: rows that differ from the retained document, requests with preconditions, the item binding stored after each reply, then the outbox. A DELETE answered 404 counts as done (AD 674), whether the task is gone or only the access to it |
| `Fetch`, `Prepare`, `Import`, `Bind`, `Pulled` | `pullCollection`: fetch, snapshots with provider stamps, `importSnapshot`, item bindings one by one, then the collection binding |
| `Listed`, `Shared` | the end of `listShares`, `setShare`, `removeShare`: the reply, then `persistWritable`, without the mutex |
| `Resolve`, `Revert`, `Drop`, `Clear`, `ReleaseItems`, `Release` | `createLocalCopy`, `resolveLocalWork`, `revertStrandedLocalWork`, `releaseBinding` |
| `AddItem` … `RestoreItem` | edits of the user, refused by `requireContentMutationAllowed` when the list is not editable |
| `RemoteAdd`, `RemoteSet`, `RemoteDelete`, `Reshare` | other clients and the owner |
| `RequestFails`, `ReplyLost` in `Put`/`Delete`, a reply without an ETag, `Crash` | faults |

Abstractions, beyond those of the store: the hierarchy is fixed (`Children`), and
`text` also stands for the placement; items with children are not deleted,
restored or checked directly (ListStore does that), but their completion follows
their children as in the code. Identities are random and never reused; they are
taken in order, which is sound because the code never compares them. The UID of a
task is a VTODO identity and the resource name at once. `Prepare` is one step:
between the read of the rows and the transaction of `Import` an edit can come, and
does; edits in the middle of the loop that builds the snapshots are not
distinguished from edits before or after it. The discovery reply and the row it
updates are one step, and so are the collection binding that ends a pull and the
re-read that follows. The title of the list is taken to be set. `lastFailureCode` and
its message are not modelled: the adapter reads them only to clear them (AD 765).
What a push compares is the values of a task; the code compares the rendered document
(AD 650), so a task in which another client left out a property is PUT once more, with
the values it has. A copied list is
represented by `saved`, the local changes it contains.

`origin`, `delivered` and `saved` are history: they are read by properties only,
with one exception that has no counterpart in behaviour (an identity counts as
fresh only if no history refers to it, so that identities are never reused).

### Vec0Table, Vec0Search and VectorMap

`content` is the three shadow tables of a vec0 table: `rowids` (`_rowids`: the chunk
and offset of each row), `chunks`, `valid` and `owner` (`_chunks`: ids, validity
bits, row ids of the slots) and `data` (`_vector_chunks`). The blobs are flattened
to functions of positions. `base` is the content when the statement began, to which
SQLite goes back when it fails.

| action | code |
|---|---|
| `Begin` | `upsert` and `deleteRow` of JNI, up to the DELETE |
| `FindRow`, `ClearSlot`, `DeleteRowid`, `ReclaimChunk` | `vec0Update_Delete`: look up, clear validity, row id and vector, delete from `_rowids`, delete the chunk if it is empty |
| `DeleteFails` | any of them fails: `upsert` does not look and goes on to the INSERT, `deleteRow` answers with an error |
| `InsertRowid`, `UseLatestChunk`, `UseNewChunk`, `WriteSlot` | `vec0Update_Insert`: `_rowids`, the first free slot of the latest chunk or a new chunk, and the slot |
| `InsertFails` | any of them fails: ROLLBACK TO |
| `Release` | RELEASE, and the answer |

`Search` is `vec0Filter_knn_chunks_iter` as a recursive function over the chunks with
`MinIdx` and `Merge` for `min_idx` and `merge_sorted_lists`; distances are natural
numbers. `Vec0Search` instantiates `VectorMap` with what a search sees
(`Stored(content)` between calls, `Stored(base)` during one): each call takes effect
when it returns. Left out: partition keys, metadata and auxiliary columns, text
primary keys, other element types and distances, none of which the app's tables
have.

### NativeVectorStore and MemoryIndex

`Vec0Table` shows that one thread's table is a map, so here a table is a map and a
SQL statement is one step. `view` is what the connection shows, `durable` what the
file holds after a restart, `saves` the stack of savepoints (all of one name, with
the view each began with), `pc[t]` the statement a thread is at inside `upsert`.
`ReleaseSavepoint` and `RollbackToSavepoint` act on the innermost savepoint whoever
opened it, as `OP_Savepoint` does for equal names; RELEASE commits when it closes the
first one. Statements that overlap in time are a data race (the library is built
with `SQLITE_THREADSAFE=2` and nobody locks); the model has the outcomes in which
no statement is torn.

| actions of `MemoryIndex` | code |
|---|---|
| `EnsureCurrent`, `ProbeEngine`, `DropIndex` … `SetIdentity`, `EmbeddingFails` | `ensureCurrent`, one action per call of Room, preferences, engine or native store; `owner` is its mutex |
| `InspectionBreaks`, `FinishBreaks` | the query for unvectorized rows throws (EIM 44), or the deletion of a legacy file or the write of the identity does (EIM 96): not current |
| `AddBody`, `UpdateBody`, `EnsureVecTable`, `StoreCall`, `MarkCall` | `addCoreMemory`, `addEpisodicMemory`, `updateCoreMemory`, `updateEpisodicMemory`; an addition ends in `prune`, which asks `ensureCurrent` again |
| `ForgetBody`, `ForgetVector` | `deleteEpisodicMemory` |
| `DeleteMemory` | `deleteCoreMemory`: the vector stays |
| `ResetBody`, `ResetCreate`, `MarkAllUnvectorized` | `resetCoreVecTable`, `resetKiwiVecTable` |
| `BackfillBody` | `MemoryEmbeddingWorker`, and searches as far as they ask `ensureCurrent` |
| `EngineReady`, `EngineLost`, `UpsertBreaks`, `Die` | the engine, a full disk, the end of the process |

The embedding of a text is the text; `Stale` is the vector that the previous model
left. One table stands for the tables of core, episodic and cultural memories, which
are handled alike; message embeddings have no flag and are left out, as are the
memories with a blank text, which a rebuild marks without embedding them (EIM 76), and the
deletions in a loop (`clearEpisodicMemories`, `deleteAll…BySource`, the overflow of
`prune`), each a sequence of `ForgetVector`.

### ClockSchedule

`row` is the table, `armed` what AlarmManager holds per alarm (the ring and the
snooze), `job[p]` the coroutine `p`: an operation reads the row once, and from what
it has read follows the list `todo` of calls of the scheduler and the DAO that it
will make; `undo` is its compensation, run when the insert throws. That is how the
code is written: `ClockRepositoryImpl` reads, then cancels, schedules and inserts
in a fixed order, with a `catch` that cancels and schedules back. A restart works
through all rows: `todo` is the plan for the alarm it is at, and `rest` the plans of
the alarms it has still to come to. The code takes expired rows before future ones;
the model takes them in any order, because no plan reads what another writes.

| action | code |
|---|---|
| `CreateAlarm` … `SnoozeAlarm` | the public operations, with their early returns |
| `Ring`, `ReadAfterRing` | `AlarmBroadcastReceiver.onReceive` shows the alert; its coroutine reads the row in `handleScheduledEvent` |
| `Reboot`, `ReadAfterBoot` | AlarmManager forgets everything; `restoreScheduledEntries` |
| `StepCancel`, `StepArm`, `StepStore`, `StepFire`, `StepDelete` | `cancelAlarmEvents`, `scheduleAlarmEvents`, the statements of the DAO |
| `StoreFails` | the insert throws and the operation takes back what it did |
| `Die`, `RevokeExact`, `NotificationsOff` and their ends | the platform |

The inserts of `handleScheduledEvent` and `restoreScheduledEntries` have no
compensation. If one throws, nothing catches it: the receivers start their
coroutines without a handler, so the process ends, which is `Die`.

`apart` is history: the alarms on which two calls overlapped, whose event was
cancelled at the moment it was due, whose scheduling was refused or whose call was
killed. It is read by properties, and by `CreateAlarm`, which uses an identity
without such a past because the code draws a new random one.

### Composition

`MemoryIndex` EXTENDS `NativeVectorStore`: each of its steps that touches the native
store is a step of that module for the same thread, so savepoints of different
callers meet on one connection. `Vec0Table` is the level below: `Vec0Search` shows
that it implements `VectorMap`, the map that `NativeVectorStore` uses for a table.

`NextcloudSync` composes the adapter, the outbox and the merge of the list store
with a server. It has its own, smaller row (two fields, no placements) instead of
an instance of `ListStore`: the operations it needs are `importSnapshot`
(`Imported`, `Merged`, `MergedRow`), single edits and the completion cascade, and
`ListStamps` is the part both share.

## 3. Properties and runs

Each run asks one question. Every property has a mutant beside the definition it
changes (marked `Mutant:`), a plausible bug with which TLC finds the property
violated under the same configuration.

### ListStore

| run | question | properties |
|---|---|---|
| `store_all` | Every operation, packages and single changes, two devices: are the stamps sound? | `TypeOK`, `StampIdentifiesWrite`, `ClockDominatesRows`, `FieldsNeverRegress`, `OnlyRestoreRevives` |
| `store_content` | Two devices exchange single changes in any order, nothing is deleted: do they agree, is the derived forest two-level and maximal, and is the checkpoint honest? | `Convergence`, `TwoLevelForest`, `CheckpointCoversState` |
| `store_hierarchy` | Long sequences of additions, moves, checks and deletions on one device: does completion stay consistent? | `ParentsAgreeWithChildren` |

* `StampIdentifiesWrite`: two rows anywhere, in tables or in packages, with the
  same stamp for a field have the same value there. Dropping the incoming side of
  a tie, as the code does, is safe only because of it.
* `ClockDominatesRows`: the next stamp a device draws wins over everything it
  stores. It fails if an import, or an application of a change, forgets to observe.
* `FieldsNeverRegress`: no step takes a stored field back to an older stamp.
* `OnlyRestoreRevives`: a tombstone disappears only on the strength of a newer,
  explicit restore, also when it arrives inside a package.
* `CheckpointCoversState`: a sender may forget what lies below the checkpoint.
* `Convergence`: devices that received all changes show the same items and values.
* `ParentsAgreeWithChildren`: a shown parent is checked exactly when all its shown
  children are.
* `TwoLevelForest`: no accepted child has an accepted child, and no suppressed
  request could have been granted.

### NextcloudSync

| run | question | properties |
|---|---|---|
| `merge` | The user and another client edit the same list while the worker synchronizes, a screen publishes and shares, and the owner takes the share back and returns it; no request fails. Is every edit delivered once and none lost unseen? | `TypeOK`, `OneToOne`, `ChangesDeliveredOnce`, `DeletionHolds`, `UnconflictedEditsSurvive` |
| `access` | The owner changes the share, the user edits, deletes, stops, copies, keeps and discards, worker and screen synchronize, requests fail, the process ends. Is stranded work safe? | `StrandedWorkStays`, `QuarantineHolds`, `StopHolds`, `KeptWorkSurvives` |
| `progress` | A parent and a child, edits on both sides, then a failed request, a lost reply, a reply without an ETag or a crash. Do both sides agree in the end? | `EventuallyInStep` |
| `lost_reply` | Do items and tasks stay one to one when a reply is lost? No (finding 1). | `OneToOne` |

* `OneToOne`: no two tasks, and no two active items, go back to the same item or
  task (`origin`).
* `ChangesDeliveredOnce`: a PUT that changes a field on the server carries a local
  change the server has never had, so a repeated push cannot put an old value
  back over another client's.
* `DeletionHolds`: a newer task does not revive what the user deleted.
* `UnconflictedEditsSurvive`: a pull replaces a local text only if the server's
  text changed since the last synchronization. It relates the snapshot prepared
  before the transaction to the rows at the transaction, between which the user
  can edit.
* `StrandedWorkStays`: nothing is written to the server while the list is blocked.
* `QuarantineHolds`: only the end of the user's decision lifts the quarantine.
* `StopHolds`: only `resumeSync` starts a stopped list again.
* `KeptWorkSurvives`: what keeping takes out of the list is on the server or in
  the copy.
* `EventuallyInStep`: with the fairness of section 5, a bound, enabled, editable
  list and its collection come to agree and stay so. Both are read as follows:
  edits and faults are finite in the model, so the formula says that nothing is
  left behind once they stop.

Some runs leave operations out on purpose, because with them the property is known
not to hold and the fact is recorded as a hazard: `store_hierarchy` leaves out
`restoreItem` (it recomputes only the requested parent, and the restored item's own
children may have changed meanwhile); `store_content` leaves out deletions and
restores (a restore that overtakes its item, LMR 1568, and a field change that arrives
while the item is deleted, LMR 1523, are marked applied and lost); `access` leaves out
the publishing and sharing screens, which act on a binding read before the mutex (AD
259) and write it back without (AD 811-814); `progress` leaves out the owner's changes
of the share, after which item and task may stay apart (section 7). The deaths of
`progress` come also between an import and the bindings of what it brought, but
`merge`, which checks `OneToOne`, has no faults: with them it is false as in
`lost_reply`.

### Vector store and memory index

| run | question | properties |
|---|---|---|
| `map` | Does a vec0 table, any step of which may fail, behave as the map that its interface promises? | `TypeOK`, `PositionsAgree`, `NoEmptyChunk`, `SearchFindsTheNearest`, `ImplementsVectorMap` |
| `index` | Two callers on one connection, rebuilds, outages, a failing query, insert or file deletion, a death: is the index sound, and does it become current? | `TypeOK`, `SavepointsAreCounted`, `NothingPendingWhenQuiet`, `IdentityNeverAhead`, `CommitsWholeUpserts`, `IndexBecomesCurrent` |
| `retry` | Does an index that counts as current have every vector? No (finding 2). | `CurrentIndexIsComplete` |

* `ImplementsVectorMap`: the refinement. An upsert or a delete changes its row when
  it returns "done" and nothing when it returns "error", and no other row ever,
  although DELETE and INSERT write three tables and the failure of the DELETE inside
  an upsert is not looked at.
* `PositionsAgree`: `_rowids` and the chunks name each other between calls; otherwise
  a delete would clear one slot while a search finds another.
* `NoEmptyChunk`: nothing is left of what was deleted.
* `SearchFindsTheNearest`: a top list per chunk, merged, loses no nearer row.
* `SavepointsAreCounted`: savepoints of different threads have one name, and each may
  close another's, but the stack always has one per running upsert and one per
  failed one. It is what the next two rest on.
* `CommitsWholeUpserts`: the file changes only when no other thread is inside an
  upsert, so a restart finds no half of one.
* `NothingPendingWhenQuiet`: until an upsert fails, what is shown is what is saved.
  After a failure the transaction stays open, because ROLLBACK TO is not followed by
  RELEASE (JNI 116): the condition `failed = 0` is needed, and the rest is a hazard.
* `IdentityNeverAhead`: no stale vector is visible, saved, or in a savepoint once the
  new identity is written. It relates the preferences, the tables, the file and the
  stack over a rebuild of many steps, any of which can be the last.
* `IndexBecomesCurrent`: after faults end, the identity is written and every memory is
  marked.

### ClockSchedule

| run | question | properties |
|---|---|---|
| `clock` | Two coroutines, every operation, failing inserts, reboots, deaths and lost permissions: do table and AlarmManager agree? | `TypeOK`, `AlarmsAgree`, `RepeatingAlarmGoesOn` |
| `armed` | Is an enabled repeating alarm armed? No (finding 3). | `EnabledMeansArmed` |

* `AlarmsAgree`: an alarm that nothing has happened to (`apart`) is armed exactly as
  its row says, whenever no call is at work on it. It fails if an operation forgets
  one event, arms before it cancels, or compensates the wrong way.
* `RepeatingAlarmGoesOn`: every occurrence of a repeating alarm is left behind.

CHECK_DEADLOCK is FALSE throughout: edits, faults, clocks and packages are bounded,
time runs out, and a system in which nobody does anything is quiet, not stuck. That
nobody waits for the mutex forever follows from `EventuallyInStep` (the mutant
`LeaveLocked`, which keeps the mutex, is caught by `TypeOK`).

## 4. Bounds and why they are enough

| run | bound | what it still contains |
|---|---|---|
| `store_all` | 2 devices, 1 item, 2 texts, clock ≤ 4, 1 package | concurrent writes with equal clocks, a stale package read after a deletion and a restore, a clock ahead of the other |
| `store_content` | 2 devices, 3 items, 1 text, clock ≤ 4 | creation and edit in either order, gaps in the sequence of a source, chains and cycles of concurrent placements that only arise by merging |
| `store_hierarchy` | 1 device, 3 items, clock ≤ 7 | a parent with two children, moves between parents, deletion of a parent, the flips these cause (each takes a clock value of its own) |
| `merge` | worker and screen, 4 items and UIDs, 2 texts, 3 edits | edit/edit, edit/delete and delete/edit conflicts, both before and during a push or pull, a conflict and its retry, a DELETE sent while the share is away |
| `access` | worker and screen, 2 items, 3 edits, 1 fault | loss and return of access around an edit, decisions taken while the worker waits for the mutex, a decision cut short after the copy |
| `progress` | 6 items and UIDs, 2 initial, parent and child, 2 edits, 1 fault | each fault at each step |
| `lost_reply` | the smallest that shows the behaviour | |
| `map` | 3 rows, 2 vectors, chunks of 2 slots, chunk ids ≤ 3 | a full chunk and a second one, a chunk emptied and reclaimed, reuse of a slot, a failure at each step, a search that merges two chunks |
| `index` | 2 threads, 2 rows, 1 text and the stale vector, 2 calls besides rebuilds, 1 fault | a rebuild against an upsert, two upserts interleaved, a failed one below a running one, a death at each step |
| `clock` | 1 alarm, 2 coroutines, a period of 2, time ≤ 3, 2 calls, 2 faults | two calls that overlap, a ring during a call, a reboot past a trigger, with a snooze pending |
| `retry`, `armed` | the smallest that show the behaviour | |

`MaxChunk` ends a run of `Vec0Table` before an AUTOINCREMENT id beyond it is needed
(`Begin` requires `content.last < MaxChunk`; a call makes at most one chunk), and the
proofs are for every value of it. `MaxCalls` bounds the calls of users that change
memories or alarms (`BACKFILL` is not bounded), `MaxFaults` the outages, failing
inserts, deaths, reboots and lost permissions, `MaxTime` the ticks of the clock.
Alarms do not influence one another in the code, so one is enough.
`MaxClock` bounds the Lamport clocks (every local write draws a value), `MaxPackages`
the packages written, `MaxEdits` the edits of users and other clients including
changes of the share, `MaxFaults` failed requests, lost replies and crashes. `Text`
needs two values where an edit must change something. The pools `Item` and `Uid`
hide nothing in the progress runs: six suffice for two initial items, two
additions and the duplicates one fault can make, so `Put` and `Prepare` never wait
for an identity.

Conflicts between fields need two fields (`text`, `checked`), one of which stands
for all fields that behave alike. Two devices suffice for stamps because the merge
of a field is pairwise. For every property that section 6 proves, the theorem removes
the bounds: on devices, items and clocks of the list store, on callers, items, edits
and faults of the synchronization, on alarms and coroutines of the clock, on rows,
chunks and results of a search.

## 5. Fairness

`FairSpec` of `NextcloudSync` assumes

* `WF(Continue(p))`: whoever has called the adapter goes on. The HTTP client has
  timeouts, so each request ends, and nothing else suspends but the mutex;
* `SF(Begin(p) \/ Resolve(p))`: a caller that waits for `syncMutex` gets it in the
  end. The mutex is released and taken again and again, so weak fairness would not
  do; `kotlinx.coroutines.sync.Mutex` is fair (first in, first out);
* `WF(Sync(Worker))`: `NextcloudSyncWorker` is periodic work (15 minutes, with the
  network as its constraint), so a synchronization begins again and again while
  the list is bound and enabled.

`FairSpec` of `MemoryIndex` assumes `WF(Run(t))` (coroutines go on; native calls and
the mutex end), `WF(Call(t, NoOp))` (`ensureCurrent` is asked again: every start of
the app enqueues `MemoryEmbeddingWorker`, which returns `Result.retry()` until it
succeeds, and every message searches) and `WF(EngineReady)` (the model is loaded in
the end; without it nothing can be embedded, by design). `FairSpec` of
`ClockSchedule` assumes that coroutines run (`WF(Step(p))`), AlarmManager delivers
what is due (`WF(Ring(p))`), an alert ends (it has a timeout) and time passes.

Nothing is assumed of the user, of other clients, of the owner or of faults, and
the screens need never call. A fault is bounded by `MaxFaults`, not by fairness: a
network that always fails delivers nothing.

## 6. Proofs

Eight modules hold the proofs. Each theorem about a behaviour rests on an inductive
invariant that TLC had checked, as an invariant of the run of that part, before it
was proved. The invariants are in the modules of the components, after the
properties, or at the head of the proof module.

Where a theorem has a hypothesis besides the named assumptions, the property is
known to be false of the code without it: a small instance shows how. The
hypothesis leaves out nothing that the run of the property covers, and the behaviour
that breaks it is a hazard in `PROJECT.json` (section 7) or told below.

### ListStore: stamps

`ListStoreProofs` proves, for every finite set of devices and items, every set of
texts and all bounds:

| theorem | states |
|---|---|
| `Invariance` | `Spec => []IInv` |
| `TypeCorrect` | `Spec => []TypeOK` |
| `ClockDominates` | `Spec => []ClockDominatesRows` |
| `StampsIdentifyWrites` | `Spec => []StampIdentifiesWrite` |
| `NeverRegress` | `Spec => FieldsNeverRegress` |

Assumptions: `DeviceAssumption` and `ItemAssumption` (finite sets of positive
numbers; 0 stands for "nobody" and "no item") and `BoundAssumption`. TLC evaluates
them in every run.

**The inductive invariant.** `StampIdentifiesWrite` is not inductive: a stamp in a
row says nothing of who else holds it. `IInv` adds what makes it so:

```
IInv == TypeOK /\ StampsDrawn /\ FieldsBacked /\ ClockDominatesRows
```

* `StampsDrawn`: every recorded change carries the identity of its own actor and a
  clock value that actor has already passed, and two changes with one stamp are
  one change. Preserved because a transaction numbers its writes above the clock.
* `FieldsBacked`: every field of every row, in tables and packages, is either
  untouched or holds what the change with its stamp put there. Preserved because a
  write records its change in the same transaction and a merge copies value and
  stamp together.
* `ClockDominatesRows`, needed for `StampsDrawn`'s use: what a device observes lifts
  its clock above it first.

`StampIdentifiesWrite` follows: equal non-zero stamps are backed by the same
change. `FieldsNeverRegress` follows because a local write draws a stamp above the
clock, which dominates the row, and a merge takes a field only if its stamp is
later.

**The layout.** Lemmas about stamps (`AfterOrder`, `ObservedAbove`), about rows and
transactions (`WrittenRows`, `FlipsType`, `RowCopy`) and about merging (`TakenType`,
`MergedRowType`) come first. `CommitPreserves` states once what any transaction
preserves, given rows that are typed, backed and dominated by the base clock;
`CommittedNeverRegresses` states the step property for it. Each action then has a
lemma that shows it to be such a transaction (`AddItemPreserves` …
`ImportPreserves`); `ApplyRemote` and `Import` need `RemoteCommittable` and
`ImportCommittable`, that the merged rows meet those conditions after the clock has
observed. `NextPreserves` collects them, and the theorems apply temporal logic.

### ListStore: the derived hierarchy

| theorem | states |
|---|---|
| `AcceptedIsMaximal` (`ListHierarchyProofs`) | for any placements, `derive` accepts a maximal set of candidates with no accepted parent |
| `ForestHasTwoLevels` (`ListExchangeProofs`) | `Spec => []TwoLevelForest` |

`derive` goes through the candidates from the latest placement to the earliest and is
a recursive function over finite sets. The induction is done by hand: strict inclusion
is well founded on the subsets of a finite set (`FS_StrictSubsetOrderingWellFounded`),
so if some set of candidates went wrong there would be a smallest one
(`SmallestSet`), and for that one the recursive step applies to a smaller set that
did not. It needs the placements to be ordered strictly (`Placements`); in a
reachable state they are, because ties of stamps are broken by the item.

### ListStore: history and exchange

`ListExchangeProofs` proves:

| theorem | states | hypothesis |
|---|---|---|
| `HistoryInvariant` | `Spec => []HistoryInv` | |
| `RestoreRevives` | `Spec => OnlyRestoreRevives` | |
| `ExchangeInvariant` | `Spec => []ExchangeInv` | no `DELETE_ITEM` |
| `CheckpointsCoverState` | `Spec => []CheckpointCoversState` | no `DELETE_ITEM` |
| `DevicesConverge` | `Spec => []Convergence` | no `DELETE_ITEM` |

`HistoryInv` adds to `IInv` what the record of changes says: rows that devices and
packages know are of items that a change has named (`KnownRecorded`); changes are
numbered per actor, each number once, what is marked applied was recorded, and
checkpoints stay behind the numbering (`Numbered`); only deletions and restores put a
lifecycle, each its own (`LifecyclePut`). `RestoreRevives` follows: a field that was
overwritten holds what the change with its stamp put there, the stamp is later than
that of the tombstone, and the only change that puts `ACTIVE` is a restore.

`ExchangeInv` says, of a history without deletions, that a device holds what it has
received, in the version the change gave or a later one (`ReceivedHeld`), up to its
checkpoints also without having marked it (`CheckpointCoversState`), and that a
package covers what its checkpoints claim (`PackagesCoverState`). The three depend on
each other: a checkpoint advances over marked changes, an import takes over the
package's checkpoints, an export turns checkpoints into claims. Two devices that have
received everything then hold, for each field, the change with the greatest stamp;
since stamps identify writes they show the same list, whatever the order of arrival
and however often a change or a package came. With deletions this is false:
`applyRemote` marks a field change of a deleted item applied without storing it
(LMR 1523), so a later restore shows different values on different devices.

### ListStore: completion of parents

| theorem (`ListGroupsProofs`) | states | hypotheses |
|---|---|---|
| `ParentsFollowChildren` | `Spec => []ParentsAgreeWithChildren` | no `RESTORE_ITEM`, one device |

`GroupsInv` adds that every placement request is granted (`RequestsGranted`), so the
parent that is asked for is the one that is shown, and that a package of the device
itself is never newer than its rows (`PackagesOld`). Every operation recomputes the
parents it may have disturbed: the lemmas say which those are, and that the flips
of one parent disturb no other. With restores it is false, because `restoreItem`
recomputes only the requested parent and only if it is active (LMR 744); with two
devices because `applyRemote` recomputes nothing for creations, deletions and
restores.

### The vec0 table

`Vec0Proofs` proves, for any sets of rows and vectors, any chunk size and any bound on
chunk ids:

| theorem | states |
|---|---|
| `TableInvariant` | `Spec => []IInv` |
| `TableTypes` | `Spec => []TypeOK` |
| `PositionsAlwaysAgree` | `Spec => []PositionsAgree` |
| `ChunksAreReclaimed` | `Spec => []NoEmptyChunk` |
| `TableImplementsMap` | `Spec => ImplementsVectorMap` |
| `SearchIsExact` | `Spec => []SearchFindsTheNearest` |

Assumptions: `ChunkSizeAssumption`, `MaxChunkAssumption`, `NoRowAssumption` (0 is no
row id), `NoneAssumption`, `DistanceAssumption` (distances are natural numbers).
`PositionsAgree` is not inductive: it says nothing while a call runs. `IInv` adds, for
each step, what holds before it (`AtStep`: which row may be out of place, which chunk
may be empty) and that every other row still is where it was, with its vector and its
validity bit (`Frame`). A failure goes back to `base`, of which agreement is known
because it was a table between calls; the case that needs care is the DELETE of an
upsert, which fails alone while the INSERT goes on.
`TableImplementsMap` then maps `Release` to `Succeed`, the two failures that answer
to `Refuse`, `Begin` to `Ask` and everything else to a stutter: by `Frame`, `Stored`
changes at most at the row of the call.

`SearchIsExact` is about three nested iterations. Each is a recursive function on
`0 .. n`; `IterationExists` shows that such a function exists, and `HandedOn` that what
holds at 0 and is handed on holds at n. `Tops` says what `MinIdx` has after i rounds: i
offsets by distance, and none that is left is nearer. `Midway` says what the merge has
after i rounds: the front parts of both lists, in order, none of them farther than what
is still to come. `Nearest` says what a list of hits is: the n nearest of a set of rows.
`ChunkNearest` gets it from `Tops` (when the list is cut to the size of the chunk,
`WholeChunk` counts that no slot is left out), `MergeNearest` says that merging two
such lists of disjoint sets of rows gives one of the union, and `OneMoreChunk` adds
chunk after chunk. That the sets are disjoint, and that each row has the distance of its
slot, is `PositionsAgree`; that every valid slot has a vector at all is one more
invariant (`AlwaysFilled`).

### The memory index

`MemoryIndexProofs` proves, for any finite set of threads, any rows and texts and any
bounds:

| theorem | states |
|---|---|
| `IndexInvariant` | `Spec => []IInv` |
| `IndexTypes` | `Spec => []TypeOK` |
| `SavepointsStayCounted` | `Spec => []SavepointsAreCounted` |
| `WholeUpsertsAreCommitted` | `Spec => CommitsWholeUpserts` |
| `NothingIsPending` | `Spec => []NothingPendingWhenQuiet` |
| `IdentityIsNeverAhead` | `Spec => []IdentityNeverAhead` |

Assumptions: `ThreadsAssumption` (finite, for `Cardinality`), `NoneAssumption`,
`DimOfAssumption`, `TextsAssumption`, `NobodyAssumption`, `DimAssumption` and
`BoundsAssumption`. `IInv` is `StoreInv /\ RepoInv /\ IndexInv`.

* `StoreInv`: savepoints are counted, no savepoint means nothing is pending, and a
  view without a table is empty. A thread adds one to the stack and to the threads
  inside, or takes one from both, or turns a running one into a failed one.
  `CommitsWholeUpserts` follows: a commit needs a stack of one, so the count leaves
  room for the committing thread alone.
* `RepoInv`: types, the owner of the mutex, and that what is embedded is a text of the
  new model.
* `IndexInv`: once a rebuild has passed its drop (`Renewed`: the identity is written,
  or some thread is past the drop, or has been told that the index is current) there
  is no stale vector in view, file or savepoints (`AllFresh`); and as long as a
  savepoint is open there is none either, because no upsert begins before that. The
  second part is what makes the drop itself sound: a drop commits at once when no
  savepoint is open, and when one is open everything was fresh already. Only
  vectors of texts are ever stored (`JobsFresh`), so nothing stale comes back.

### The synchronization

`NextcloudSyncProofs` proves, for any callers, items, identities, hierarchies, edits and
faults:

| theorem | states | hypotheses |
|---|---|---|
| `TypeCorrect` | `Spec => []TypeOK` | |
| `EditsSurvivePulls` | `Spec => UnconflictedEditsSurvive` | |
| `NoTaskIsShared` | `Spec => []Paired`: no task belongs to two items | |
| `ItemsMatchTasks` | `Spec => []OneToOne` | `Faultless`, `Undecided` |
| `DeletionsLast` | `Spec => DeletionHolds` | `Certain` or `Undecided` |
| `ChangesSentOnce` | `Spec => ChangesDeliveredOnce` | `Faultless` |
| `StoppedStaysStopped` | `Spec => StopHolds` | `NobodyShares` |
| `QuarantineIsDurable` | `Spec => QuarantineHolds` | `NobodyShares` |
| `StrandedWorkWaits` | `Spec => StrandedWorkStays` | `NobodyShares` |
| `KeptWorkIsCopied` | `Spec => KeptWorkSurvives` | `NobodyShares`, `OneScreen` |

Assumptions: `IdentityAssumption`, `HierarchyAssumption` (two levels),
`ProcAssumption`, `TextAssumption` (there is a text), `LimitAssumption`.

* `TypeInv` adds to the types what the local variables of the adapter are at each
  point, and that whoever is past the mutex holds it. Everything else rests on that
  mutual exclusion: what a holder has read of the list cannot change below it, except
  through edits, `stopSync` and whoever writes without the mutex.
* `AccessInv` adds that a running synchronization goes on with the access, the stop
  and the quarantine that the tables show (`CopiesAgree`), and is past the check for a
  quarantine only if there is none. `NobodyShares` excludes the two callers that break
  this: a publication acts on a binding read before the mutex (AD 259), and the sharing
  screens write theirs back without it (AD 811-814).
* `DecisionInv` adds that from the user's decision until the rows are reverted the list
  stays quarantined, so that nobody edits it between the copy and the revert.
  `OneScreen` is needed for that: of two decisions taken at once, the first lifts the
  quarantine, and an edit can come before the second reverts.
* `PullInv` adds that the clock dominates the rows, and that a pull, between its
  preparation and its transaction, holds nothing that would overwrite a text unless the
  server's text changed (`PullPrepared`). An edit in between draws a stamp above the
  clock, which only makes it safer; that is why this one needs no hypothesis.

The last four theorems need to know what each step does to rows, bindings, tasks and to
what a push or pull has in hand. `StepKinds` sorts the steps once: an edit, a change by
another client, a step of a synchronization (`OwnStep`: `Pushed`, `Written`, `Erased`,
`Kept`, `Fetched`, `Compared`, `Taken`, `Linked`, or one that touches none of this), a
fault or a decision (`Reverted`, `Released`). The invariants then have a lemma for each
kind. `Faultless` says that no answer of the server is lost once the request has been
carried out and no process ends (requests may still fail before they arrive);
`Certain` adds that the owner leaves the share alone; `Undecided` says that nobody decides about stranded work.

* `PairInv`: types, when a local variable is empty (`LocalsKept`), and `Paired`. The
  binding that counts for an item is the one about to be stored, or else the stored
  one (`Latest`). A binding about to be stored names the task of the one it replaces, a
  push takes a new task for an item without one, and a pull a new item for a task
  without one; that holds through faults and decisions, because what is forgotten
  leaves the stored bindings, which are a part.
* `LinkInv` adds `Traceable`: whatever carries content, here, on the server, as a copy
  that a push has read or a pull has fetched or prepared, goes back to that item or to
  its task. `OneToOne` follows. A lost answer to a first PUT leaves a task
  that no item is bound to (finding 1), and so does the end of a process there; and a
  list that was released while a synchronization waited is pushed again under new
  identities (AD 572). `NoTaskIsShared` holds even then: the duplicates are of items,
  never of bindings.
* `DeleteInv` adds what makes deletions last: the clock dominates the life stamps
  (`LifeDominated`); an item that is deleted because its task was has no task, and, if
  `Certain`, neither has a binding that is marked `gone` (`GoneStays`); and a
  pull brings no life newer than a deletion it finds (`LivesPrepared`). With a lost
  answer, or after a DELETE that was answered 404 because the share was away, `gone` may
be wrong about a task that is there, and giving up the
  local changes may then mark the item as deleted by the server while its task is
  there. If the user restores and deletes it again while a pull holds that
  task, two stamps above the clock may still be below the provider's: TLC finds this
  in an instance with three tasks that is led through it step by step. Either
  cause alone is harmless, which is what the disjunction says.
* `SendInv` adds that stamps of this device are not shared and not ahead (`Stamped`),
  that an ETag tells what the task says (`EtagsTell`), and that a row which differs from
  its binding has a change the server has not had (`ChangesUnsent`), with the same for
  what a push has read (`ViewOf`) and a pull will leave behind (`MergeUnsent`). A PUT
  passes its precondition only if the task says what the binding says, so what it changes
  is unsent. Decisions do no harm: what they revert to is what the bindings say. A lost
  answer does: the binding still shows the task as it was before the PUT, so if another
  client undoes the change, the next pull sees nothing new and the change is sent again
  over it.

### The clock

`ClockScheduleProofs` proves, for any alarms, any number of coroutines, and any period,
time and number of calls and faults:

| theorem | states |
|---|---|
| `TypeCorrect` | `Spec => []TypeOK` |
| `TableAndEventsAgree` | `Spec => []AlarmsAgree` |

Assumptions: `ProcAssumption`, `PeriodAssumption` (the next occurrence of a repeating
alarm is at least two ticks away: a snooze or a call lasts one, days pass between two
rings), `BoundsAssumption`, `NoneAssumption`.

`AgreeInv` is `TypeInv` and, for each alarm that nothing has collided on, `AlarmInv`:
at most one coroutine is busy with it; if none is, events and row are in step; and if
one is, what is left of its plan ends with them in step (`Settles`, one disjunct per
point of each operation, with what its compensation needs: `Undoes`, `Rearmable`). A ring
in between is the ring of the event that the row shows (`Rung`), and no event is held
past its time (`NotLate`). An operation has then to be shown to begin with a plan that
settles, and a step to leave a rest that settles; both concern one alarm, and all
other alarms keep what they have (`OthersAgree`). TLC checked `AgreeInv` with one alarm
and two coroutines (725 thousand states), two alarms (714 thousand, fewer calls) and
three coroutines (1.2 million).

### What stays with TLC

`EventuallyInStep`, `IndexBecomesCurrent` and `RepeatingAlarmGoesOn` are liveness
properties under fairness, which are out of the prover's reach, as is ENABLED. Every
safety property of a passing run is stated by a theorem. The library's induction
theorems cannot be used because they take an operator as a parameter; the proofs above
do without, through least elements of finite sets. No module has a RECURSIVE operator.

## 7. What the checks found

1. **A lost reply duplicates a new task** (`lost_reply`, AD 651). The UID of a new
   task is drawn in memory and stored after the PUT has returned. If the reply is
   lost, or the process ends in between, the next push PUTs the item under a new
   UID and the pull imports the first task as a second item
   (`docs/specs/nextcloud-tasks-sync.md:40` and `:141`).
2. **A failed rebuild can leave memories without vectors for good** (`retry`, EIM 61).
   When one row is unvectorized, `ensureCurrent` drops every table and rebuilds from
   Room. If that fails, rows that were vectorized before keep their mark; the
   rebuild is tried again only as long as some row is unmarked. When that row gets
   its vector from its own call, or is deleted, the index counts as current and the
   dropped vectors never come back, against `docs/SPECIFICATION.md:200` ("failed
   rebuilds remain retryable").
3. **A repeating alarm that rings while notifications are off dies silently**
   (`armed`, CLK 547). The next occurrence is refused by
   `AlarmManagerClockScheduler.schedule`, the result is ignored, the row stays enabled
   with a trigger in the future, and only a reboot arms it again
   (`docs/research/clock-system-spec.md:399-400`).

Behaviours that the models show too, but that no run of their own states, are
hazards with notes in `PROJECT.json`:

* a restore that arrives before the change that creates its item is marked applied
  and lost (LMR 1568; `docs/specs/shared-lists-sync.md:447` says that transport order
  never overrides the stamps), and so is a field change that arrives while its item
  is deleted (LMR 1523);
* an edit made while a push waits for the server leaves the outbox unsent (AD 678);
  the next push still sends it, but if access is lost first it is not stranded
  (`docs/specs/nextcloud-tasks-sync.md:84-86`);
* a sharing screen writes back the binding it read before its request, over a stop or
  a quarantine (AD 811-814; `docs/specs/nextcloud-tasks-sync.md:60`);
* a DELETE that is answered 404 because the share was taken back is counted as done
  (AD 675) although the owner's task is still there. Once the share is given back, item
  and task disagree until another client edits the task, because a pull passes over
  tasks with a known ETag; and if the user restores the item, its first PUT
  (`If-None-Match`) meets that task, so that every synchronization ends in a conflict.
  `EventuallyInStep` fails in TLC with `SYNC`, `DELETE` and `RESHARE` alone and three
  edits;
* a publication uses a binding read before the mutex (AD 259), completions derived by
  a pull count as the user's stranded work (AD 867), a restore leaves a parent out of
  step (LMR 744), a synchronization goes on with a released binding (AD 572), a
  DELETE without an ETag has no precondition (`NextcloudCalDavClient.kt:457`);
* after a lost answer to a PUT, a change that another client undoes is sent again over
  it, and with a decision about stranded work besides, a pull may revive a deleted item
  (AD 651; section 6);
* a failed upsert leaves the transaction open (JNI 116), and an update during a
  rebuild may end with the vector of the old text (EIM 75);
* an alarm that is cancelled while its trigger is handled is inserted again (CLK 507).

## 8. What is not modelled

In the **list store**: order keys and sibling order (`reorderItems`,
`applyVisibleHierarchyOrder`, the new order key of a move under the same parent, LMR
1333, the order in `makeSubItem` and `moveToTopLevel`), the
title, names and lifecycle of a collection, `copyListAsLocal` except where
Nextcloud uses it, `pruneLocalItems`.

In the **vector store**: everything of SQLite but the savepoint stack, and everything
of sqlite-vec but the insertion, deletion and search of a plain vec0 table. Both are
vendored libraries in the source tree; their parser, virtual machine, B-tree, pager,
extensions and SQL functions are a quarter of a million lines that this app only
uses, and a model of them would say nothing of the app. By lines they are nearly all
of the C code of the repository, so the share of it that these modules cover is
small and stays small. Also left out: data races of overlapping statements, the
result of RELEASE (JNI ignores it, so a commit that fails for lack of space is
answered with "done"), search results beyond the order of distances.

In the **memory index**: section 2. In the **clock**: timers, the pre-alarm
notification, the stopwatch, world clocks, calendar arithmetic and time zones, the
life of an alert, and the length of a snooze (a setting, CLK 429): in the model a snooze
lasts one tick and ends before the next ring.

In the **synchronization**: `publishNewBinding`, `importCollection` and
`rollbackNewItemBindings`; several lists in one pass, which share only the mutex
and the clock; the server's side of sharing; accounts and login; redirects,
paging, and the text of documents.

Whole components, with the reason:

| component | reason |
|---|---|
| alert service, inference engine, model downloads, meal plan sessions, slot filling | planned, section 9 |
| list packages, VTODO documents | encoding and encryption of data: no states to explore; `ListStore` and `NextcloudSync` model what they carry |
| Nextcloud account and login, notifications, intent routing, screens | input and output of the platform, or pattern matching, without shared state of their own |
| conversation, voice, wake word | threads around native libraries, whose behaviour is not in this repository; the conversation is considered after the engine |

## 9. Plan

In order of importance; each stage adds a module, its instance, its runs and, where
marked, its proofs.

1. **`ClockSchedule`, extended**: the life of an alert (`ClockAlertService`) with its
   timeouts, and the timers. `AlarmsAgree` is proved.
2. **`NextcloudSync`, extended**: `publishNewBinding` with its rollback, and
   properties for the hazards that have none yet: releasing a list, publishing
   after a quarantine, completions in the quarantine. The safety properties it
   has are proved; `StepKinds` is where a new step enters the proofs.
3. **`ListStore`, extended**: sibling order and `restoreItem` in the hierarchy; an
   abstract `LwwRegister` (a map from field to the greatest stamp written that has
   arrived) that `ListStore` without lifecycles implements. `DevicesConverge` states
   its consequence already.
4. **`GenerationLifecycle`** (LRT): one generation, its callback, collector and
   aborter, the mutex, reset and shutdown. Properties: the conversation is closed
   once, the mutex is released once, no use after shutdown, a waiting generation
   runs in the end. *Theorem*: mutual exclusion and single release.
5. **`MealPlanSession`**: a coordinator with generation between read and write,
   cancellation and a restart. Property: a result lands only where it belongs.
6. **`ModelDownload`**: manager, WorkManager, observers. Property: one worker, a
   cancellation that lasts, completion means a file.
7. **`SlotFilling`**, if the earlier stages leave room.

The project keeps the number of runs small: a new component gets one run for safety
and liveness, and takes the place of a run whose question is answered elsewhere.

## 10. Running it

```
tlc -workers 2 -config ListStore_all.cfg MCListStore.tla
tlc -workers 2 -config NextcloudSync_merge.cfg MCNextcloudSync.tla
tlc -workers 2 -config Vec0Table_map.cfg MCVec0Table.tla
tlc -workers 2 -config MemoryIndex_index.cfg MCMemoryIndex.tla
tlc -workers 2 -config ClockSchedule_clock.cfg MCClockSchedule.tla
for m in ListStore ListHierarchy ListExchange ListGroups NextcloudSync \
         Vec0 MemoryIndex ClockSchedule; do tlapm ${m}Proofs.tla; done
```

The largest runs are `merge` (4.9 million distinct states), `index` (2.9 million) and
`access` (2.6 million); each ends within three minutes on two workers. The proofs are
about 17,450 obligations: `NextcloudSyncProofs` 7,300, `ClockScheduleProofs` 3,150,
`Vec0Proofs` 1,930, `ListExchangeProofs` 1,750, `MemoryIndexProofs` 1,140,
`ListStoreProofs` 1,030, `ListGroupsProofs` 930, `ListHierarchyProofs` 230. The largest
take some minutes each.
