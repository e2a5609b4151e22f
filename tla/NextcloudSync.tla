---------------------------- MODULE NextcloudSync ----------------------------
(***************************************************************************)
(* NextcloudSyncAdapter: one shared list bound to one CalDAV collection.   *)
(*                                                                         *)
(* A synchronization refreshes the access the server grants, pushes the    *)
(* rows that differ from the last representation seen (PUT and DELETE with *)
(* preconditions), pulls the collection, merges it by version stamp and    *)
(* pushes again.  It holds syncMutex throughout, but the user's edits and  *)
(* the sharing screen do not take it, other clients change the collection  *)
(* at any time, requests fail, and Android may end the process between any *)
(* two steps; only the Room tables survive that.                           *)
(*                                                                         *)
(* A row's `text` stands for its text, description, due date and placement.*)
(* The hierarchy is fixed here (Children); ListStore models its changes.   *)
(***************************************************************************)
EXTENDS ListStamps, FiniteSets

CONSTANTS
    Nobody,     \* no holder of the mutex
    Proc,       \* callers of the adapter: the sync worker and the screens
    Worker,     \* the sync worker, which does nothing but synchronize
    Item,       \* item identities of the list
    Uid,        \* VTODO identities in the collection
    Text,       \* texts of items and tasks
    Children,   \* the items shown under each item
    Initial,    \* the items of the list when it was bound
    Operations, \* what the user, other clients and the environment do
    MaxEdits,   \* bound on the changes users and other clients make
    MaxFaults   \* bound on failed requests and ended processes

ASSUME IdentityAssumption ==
    /\ Item \subseteq Nat \ {0} /\ IsFiniteSet(Item)
    /\ Uid \subseteq Nat \ {0} /\ IsFiniteSet(Uid) /\ Item \intersect Uid = {}
    /\ Initial \subseteq Item /\ Cardinality(Initial) <= Cardinality(Uid)
ASSUME HierarchyAssumption ==
    /\ Children \in [Item -> SUBSET Item]
    /\ \A i \in Item : \A c \in Children[i] : Children[c] = {}
ASSUME ProcAssumption == Worker \in Proc /\ Nobody \notin Proc
ASSUME TextAssumption == Text # {}
ASSUME LimitAssumption == MaxEdits \in Nat /\ MaxFaults \in Nat

VARIABLES
    clock,      \* ListActorStateEntity.logicalClock
    rows,       \* ListItemEntity of the list, NoRow where there is none
    pending,    \* ListChangeEntity with isPending = 1
    bound,      \* NextcloudItemBindingEntity, NoTask where there is none
    coll,       \* NextcloudCollectionBindingEntity
    tasks,      \* the VTODOs of the collection on the server
    access,     \* what the owner grants this account
    etags,      \* the last ETag the server issued
    mutex,      \* syncMutex: its holder, or Nobody
    pc,         \* where each caller of the adapter is
    copy,       \* the binding row each caller holds in a local variable
    stage,      \* which push or pull of the synchronization is running
    view,       \* the rows that push has read
    todo,       \* the items that push or pull still has to handle
    fetched,    \* the tasks that pull has fetched
    merge,      \* the snapshot and the item bindings that pull has prepared
    edits,      \* changes made so far by users and other clients
    faults,     \* failed requests and ended processes so far
    delivered,  \* history: clocks of the local changes the server has had
    saved       \* history: clocks of the local changes copied to another list

device == <<clock, rows, pending>>
server == <<tasks, access, etags>>
progress == <<stage, view, todo, fetched, merge>>
history == <<delivered, saved>>
vars == <<device, bound, coll, server, mutex, pc, copy, progress, edits, faults, history>>
-----------------------------------------------------------------------------
Field == {"text", "checked"}
Values == [text : Text, checked : BOOLEAN]

Device == 1     \* this device's actor identity, a hexadecimal UUID, and
Provider == 2   \* PROVIDER_ACTOR, "nextcloud-caldav", which compares greater

\* `origin` is history: the item or task a row or a task was first made as.
Row == [life : {"NONE", "ACTIVE", "DELETED"}, lifeAt : Stamp,
        val : Values, at : [Field -> Stamp], origin : Item \union Uid]
Task == [etag : Nat, val : Values, origin : Item \union Uid]
ItemBinding == [uid : Uid \union {0}, etag : Nat, base : Values, gone : BOOLEAN]
Binding == [bound : BOOLEAN, enabled : BOOLEAN, writable : BOOLEAN,
            available : BOOLEAN, blocked : BOOLEAN, clock : Nat]
LocalChange == [item : Item, clock : Nat]

NoValue == CHOOSE v \in Values : TRUE
NoRow(i) == [life |-> "NONE", lifeAt |-> Zero, val |-> NoValue,
             at |-> [f \in Field |-> Zero], origin |-> i]
NoTask == [uid |-> 0, etag |-> 0, base |-> NoValue, gone |-> FALSE]
Unbound == [bound |-> FALSE, enabled |-> FALSE, writable |-> FALSE,
            available |-> FALSE, blocked |-> FALSE, clock |-> 0]
Active(r) == {i \in Item : r[i].life = "ACTIVE"}
OnServer == {u \in Uid : tasks[u].etag # 0}

\* newestLocalClock: the newest stamp in the list, deleted rows included.
Newest(r) ==
    LET clocks == {0} \union {r[i].lifeAt.clock : i \in Item}
                      \union {r[i].at[f].clock : i \in Item, f \in Field}
    IN  CHOOSE n \in clocks : \A m \in clocks : m <= n
-----------------------------------------------------------------------------
(* The user's edits (ListMutationRepository).                              *)

\* requireContentMutationAllowed.
Allowed(c) == ~c.bound \/ (c.available /\ c.writable /\ ~c.blocked)

\* Parents whose completion differs from that of their active children.
OutOfStep(r) ==
    {p \in Active(r) : LET shown == Children[p] \intersect Active(r)
                       IN  /\ shown # {}
                           /\ r[p].val.checked # \A c \in shown : r[c].val.checked}

\* recomputeParentCompletionInternal: such a parent follows its children,
\* with a stamp and a change record of its own.
Cascade(r, base) ==
    LET stamp(p) == base + Cardinality({q \in OutOfStep(r) : q <= p})
    IN  [rows |-> [i \in Item |-> IF i \in OutOfStep(r)
                     THEN [r[i] EXCEPT !.val.checked = ~@,
                                       !.at["checked"] = [clock |-> stamp(i), actor |-> Device]]
                     ELSE r[i]],
         changes |-> {[item |-> p, clock |-> stamp(p)] : p \in OutOfStep(r)},
         clock |-> base + Cardinality(OutOfStep(r))]

\* One edit of item i to row r, stamped `now`, and the cascade it causes.
Edit(op, i, r) ==
    LET cascade == Cascade([rows EXCEPT ![i] = r], clock + 1)
    IN  /\ op \in Operations /\ edits < MaxEdits /\ edits' = edits + 1
        /\ Allowed(coll)
        /\ rows' = cascade.rows
        /\ clock' = cascade.clock
        /\ pending' = pending \union cascade.changes
                        \union {[item |-> i, clock |-> clock + 1]}
        /\ UNCHANGED <<bound, coll, server, mutex, pc, copy, progress, faults, history>>

Now == [clock |-> clock + 1, actor |-> Device]

\* Identities are random and never used twice; they are taken in order.
Fresh(i) == /\ rows[i].life = "NONE" /\ bound[i] = NoTask /\ merge.rows[i].life = "NONE"
            /\ i \notin {tasks[u].origin : u \in Uid} \union {rows[j].origin : j \in Item \ {i}}
Unused(u) == /\ u \notin OnServer /\ fetched[u].etag = 0
             /\ \A i \in Item : u \notin {bound[i].uid, merge.bound[i].uid, rows[i].origin}
First(S) == {x \in S : \A y \in S : x <= y}
NextItem == First({i \in Item : Fresh(i)})
NextUid == First({u \in Uid : Unused(u)})

AddItem ==
    \E i \in NextItem, t \in Text :
        Edit("ADD", i, [NoRow(i) EXCEPT !.life = "ACTIVE",
                !.val = [text |-> t, checked |-> FALSE], !.at = [f \in Field |-> Now]])

SetText ==
    \E i \in Active(rows) : \E t \in Text \ {rows[i].val.text} :
        Edit("SET_TEXT", i, [rows[i] EXCEPT !.val.text = t, !.at["text"] = Now])

\* setItemsChecked on an item without children (with children, ListStore).
SetChecked ==
    \E i \in Active(rows) :
        /\ Children[i] = {}
        /\ Edit("SET_CHECKED", i, [rows[i] EXCEPT !.val.checked = ~@, !.at["checked"] = Now])

\* deleteItems on an item without children (with children, ListStore).
DeleteItem ==
    \E i \in Active(rows) :
        /\ Children[i] = {}
        /\ Edit("DELETE", i, [rows[i] EXCEPT !.life = "DELETED", !.lifeAt = Now])

RestoreItem ==
    \E i \in Item :
        /\ rows[i].life = "DELETED" /\ Children[i] = {}
        /\ Edit("RESTORE", i, [rows[i] EXCEPT !.life = "ACTIVE", !.lifeAt = Now])
-----------------------------------------------------------------------------
(* Other clients and the owner of the collection.                          *)

OtherClient(op, u, task) ==
    /\ op \in Operations /\ edits < MaxEdits /\ edits' = edits + 1
    /\ tasks' = [tasks EXCEPT ![u] = task]
    /\ etags' = etags + 1
    /\ UNCHANGED <<device, bound, coll, access, mutex, pc, copy, progress, faults, history>>

RemoteAdd == \E u \in NextUid, t \in Text :
    OtherClient("REMOTE_ADD", u,
        [etag |-> etags + 1, val |-> [text |-> t, checked |-> FALSE], origin |-> u])

RemoteSet == \E u \in OnServer, v \in Values :
    /\ v # tasks[u].val
    /\ OtherClient("REMOTE_SET", u, [tasks[u] EXCEPT !.etag = etags + 1, !.val = v])

RemoteDelete == \E u \in OnServer :
    OtherClient("REMOTE_DELETE", u, [tasks[u] EXCEPT !.etag = 0])

\* The owner changes the share: editable, read-only or removed.
Reshare ==
    /\ "RESHARE" \in Operations /\ edits < MaxEdits /\ edits' = edits + 1
    /\ access' \in {"writable", "readonly", "gone"} \ {access}
    /\ UNCHANGED <<device, bound, coll, tasks, etags, mutex, pc, copy, progress,
                   faults, history>>
-----------------------------------------------------------------------------
(* Synchronization.                                                        *)

NoMerge == [rows |-> [i \in Item |-> NoRow(i)], bound |-> [i \in Item |-> NoTask], clock |-> 0]
NoView == [i \in Item |-> NoRow(i)]
NoFetch == [u \in Uid |-> [etag |-> 0, val |-> NoValue, origin |-> u]]

Goto(p, label) == pc' = [pc EXCEPT ![p] = label]

\* Mutant: the mutex is kept.
LeaveLocked(p) ==
    /\ Goto(p, "idle") /\ copy' = [copy EXCEPT ![p] = Unbound] /\ mutex' = mutex
    /\ stage' = "none" /\ view' = NoView /\ todo' = {} /\ fetched' = NoFetch /\ merge' = NoMerge

\* The synchronization of p ends, normally or with an exception: the mutex
\* is released and its local variables are gone.
Leave(p) ==
    /\ Goto(p, "idle")
    /\ copy' = [copy EXCEPT ![p] = Unbound]
    /\ mutex' = Nobody
    /\ stage' = "none" /\ view' = NoView /\ todo' = {} /\ fetched' = NoFetch /\ merge' = NoMerge

\* syncAll, syncCollection, publishCollection, createLocalCopy,
\* resolveLocalWork and the sharing calls read the binding row first.  The
\* worker only synchronizes; a screen that does so is "REFRESH".
Call(p, op, label) ==
    /\ op \in Operations
    /\ p = Worker => op = "SYNC"
    /\ pc[p] = "idle"
    /\ coll.bound
    /\ copy' = [copy EXCEPT ![p] = coll]
    /\ Goto(p, label)
    /\ UNCHANGED <<device, bound, coll, server, mutex, progress, edits, faults, history>>

Sync(p) == coll.enabled /\ Call(p, IF p = Worker THEN "SYNC" ELSE "REFRESH", "queued")
Publish(p) == Call(p, "PUBLISH", "publishing")
Share(p) == Call(p, "SHARE", "sharing")
LocalCopy(p) == /\ ~(coll.writable /\ coll.available /\ ~coll.blocked)
                /\ Call(p, "LOCAL_COPY", "copying")
Keep(p) == coll.blocked /\ Call(p, "KEEP", "keeping")
Discard(p) == coll.blocked /\ Call(p, "DISCARD", "discarding")

\* Mutant: the list is stopped without the mutex.
StopUnlocked ==
    /\ "STOP" \in Operations /\ coll.bound /\ coll.enabled
    /\ coll' = [coll EXCEPT !.enabled = FALSE]
    /\ UNCHANGED <<device, bound, server, mutex, pc, copy, progress, edits, faults, history>>

\* stopSync, under the mutex.
Stop ==
    /\ "STOP" \in Operations
    /\ mutex = Nobody /\ coll.bound /\ coll.enabled
    /\ coll' = [coll EXCEPT !.enabled = FALSE]
    /\ UNCHANGED <<device, bound, server, mutex, pc, copy, progress, edits, faults, history>>

\* resumeSync: the flag is set without the mutex, then the list is synced.
Resume(p) ==
    /\ "STOP" \in Operations
    /\ p # Worker /\ pc[p] = "idle" /\ coll.bound
    /\ coll' = [coll EXCEPT !.enabled = TRUE]
    /\ copy' = [copy EXCEPT ![p] = coll']
    /\ Goto(p, "queued")
    /\ UNCHANGED <<device, bound, server, mutex, progress, edits, faults, history>>

\* Mutant: the binding is not read again under the mutex.
PersistedUnread(p) == copy[p]

\* What a synchronization goes on with once it has the mutex.
Persisted(p) == IF coll.bound THEN coll ELSE copy[p]

Begin(p) ==
    /\ mutex = Nobody
    /\ \/ /\ pc[p] = "queued"
          /\ copy' = [copy EXCEPT ![p] = IF Persisted(p).enabled THEN Persisted(p) ELSE Unbound]
          /\ IF Persisted(p).enabled
             THEN mutex' = p /\ Goto(p, "discover") /\ stage' = "sync"
             ELSE UNCHANGED <<mutex, stage>> /\ Goto(p, "idle")
       \/ /\ pc[p] = "publishing"
          /\ mutex' = p /\ Goto(p, "discover") /\ stage' = "publish"
          /\ UNCHANGED copy
    /\ UNCHANGED <<device, bound, coll, server, view, todo, fetched, merge, edits, faults,
                   history>>

\* Mutant: write access that comes back lifts the quarantine.
RefreshedLifts(c) ==
    IF access = "gone" THEN [c EXCEPT !.available = FALSE]
    ELSE [c EXCEPT !.available = TRUE, !.writable = (access = "writable"),
                   !.blocked = @ /\ access # "writable"]

\* refreshCollectionAccess: the row is rewritten from the caller's copy.
Refreshed(c) ==
    IF access = "gone" THEN [c EXCEPT !.available = FALSE]
    ELSE [c EXCEPT !.available = TRUE, !.writable = (access = "writable")]

Discover(p) ==
    /\ pc[p] = "discover"
    /\ copy' = [copy EXCEPT ![p] = Refreshed(@)]
    /\ coll' = IF Refreshed(copy[p]) # copy[p] THEN Refreshed(copy[p]) ELSE coll
    /\ Goto(p, "quarantine")
    /\ UNCHANGED <<device, bound, server, mutex, progress, edits, faults, history>>

\* quarantineUnsyncedWork.
Quarantined(c) == c.blocked \/ (~(c.available /\ c.writable) /\ pending # {})

\* Quarantine, and the branches of syncBoundCollection after it.
Quarantine(p) ==
    /\ pc[p] = "quarantine"
    /\ LET c == [copy[p] EXCEPT !.blocked = Quarantined(copy[p])]
       IN  /\ coll' = IF c # copy[p] THEN c ELSE coll
           /\ IF ~c.available \/ (stage = "publish" /\ (c.blocked \/ ~c.writable))
              THEN Leave(p)
              ELSE /\ mutex' = mutex
                   /\ copy' = [copy EXCEPT ![p] = c]
                   /\ stage' = CASE c.blocked -> "blockedPull"
                                 [] ~c.blocked /\ ~c.writable -> "readOnlyPull"
                                 [] ~c.blocked /\ c.writable ->
                                      IF stage = "publish" THEN "publish" ELSE "push"
                   /\ Goto(p, IF c.blocked \/ ~c.writable THEN "fetch" ELSE "push")
                   /\ UNCHANGED <<view, todo, fetched, merge>>
    /\ UNCHANGED <<device, bound, server, edits, faults, history>>
-----------------------------------------------------------------------------
(* pushCollection.                                                         *)

\* Rows that differ from the representation the item binding retains.
NeedsPut(r, b) == r.life = "ACTIVE" /\ (b = NoTask \/ b.base # r.val \/ b.gone)
NeedsDelete(r, b) == r.life = "DELETED" /\ b # NoTask /\ ~b.gone

Push(p) ==
    /\ pc[p] = "push"
    /\ view' = rows
    /\ todo' = {i \in Item : NeedsPut(rows[i], bound[i]) \/ NeedsDelete(rows[i], bound[i])}
    /\ Goto(p, "put")
    /\ UNCHANGED <<device, bound, coll, server, mutex, copy, stage, fetched, merge,
                   edits, faults, history>>

\* Mutant: PUT without a precondition.
UnconditionalPut(b, u) == TRUE

\* putTask: If-Match with a known ETag, If-None-Match: * otherwise.
PutPrecondition(b, u) ==
    tasks[u].etag = IF b.gone THEN 0 ELSE b.etag

\* The UID of a new task is random.
TaskOf(i) ==
    IF bound[i] # NoTask THEN bound[i].uid
    ELSE CHOOSE u \in NextUid : TRUE

\* Mutant: a precondition that fails is only reported.
ConflictReported(p) == Leave(p)

\* A precondition fails: the first push pulls and is tried once more.
Conflict(p) ==
    IF stage = "push"
    THEN /\ stage' = "retryPull" /\ view' = NoView /\ todo' = {}
         /\ Goto(p, "fetch")
         /\ UNCHANGED <<mutex, copy, fetched, merge>>
    ELSE Leave(p)

\* The answer of the server is lost: the connection ends after the request.
ReplyLost(p) ==
    /\ "LOST_REPLY" \in Operations /\ faults < MaxFaults /\ faults' = faults + 1
    /\ Leave(p)

\* Mutant: the item binding is not stored.
ReplyForgotten(p, i, b) ==
    /\ todo' = todo \ {i}
    /\ Goto(p, "put")
    /\ UNCHANGED <<mutex, copy, stage, view, fetched, merge, faults>>

\* The request succeeded and row i is to be stored with item binding b.
Reply(p, i, b) ==
    /\ merge' = [merge EXCEPT !.bound[i] = b]
    /\ Goto(p, "store")
    /\ UNCHANGED <<mutex, copy, stage, view, todo, fetched, faults>>

DeviceClocks(r, i) == {r[i].at[f].clock : f \in {g \in Field : r[i].at[g].actor = Device}}

\* An ACTIVE row is PUT; the server answers with an ETag or without.
Put(p) ==
    /\ pc[p] = "put"
    /\ \E i \in todo :
        LET b == bound[i]
            u == TaskOf(i)
            etag == etags + 1
            Stored(e) == [uid |-> u, etag |-> e, base |-> view[i].val, gone |-> FALSE]
        IN  /\ view[i].life = "ACTIVE"
            /\ b = NoTask => NextUid # {}
            /\ \/ /\ access # "writable"
                  /\ Leave(p) /\ UNCHANGED <<server, faults, delivered>>
               \/ /\ access = "writable" /\ ~PutPrecondition(b, u)
                  /\ Conflict(p) /\ UNCHANGED <<server, faults, delivered>>
               \/ /\ access = "writable" /\ PutPrecondition(b, u)
                  /\ tasks' = [tasks EXCEPT ![u] = [etag |-> etag, val |-> view[i].val,
                                                    origin |-> view[i].origin]]
                  /\ etags' = etag
                  /\ delivered' = delivered \union DeviceClocks(view, i)
                  /\ UNCHANGED access
                  /\ \/ Reply(p, i, Stored(etag))
                     \/ "NO_ETAG" \in Operations /\ Reply(p, i, Stored(b.etag))
                     \/ ReplyLost(p)
    /\ UNCHANGED <<device, bound, coll, edits, saved>>

\* A tombstone is DELETEd, once every ACTIVE row is done.  404 is success:
\* the task is gone, or this account cannot see the collection any more.
Delete(p) ==
    /\ pc[p] = "put"
    /\ \A i \in todo : view[i].life = "DELETED"
    /\ \E i \in todo :
        LET b == bound[i]
            missing == access = "gone" \/ tasks[b.uid].etag = 0
            matches == b.etag = 0 \/ tasks[b.uid].etag = b.etag
        IN  \/ /\ access = "readonly"
               /\ Leave(p) /\ UNCHANGED <<tasks, faults>>
            \/ /\ access # "readonly" /\ ~missing /\ ~matches
               /\ Conflict(p) /\ UNCHANGED <<tasks, faults>>
            \/ /\ access # "readonly" /\ (missing \/ matches)
               /\ tasks' = IF missing THEN tasks ELSE [tasks EXCEPT ![b.uid].etag = 0]
               /\ \/ Reply(p, i, [b EXCEPT !.gone = TRUE])
                  \/ ReplyLost(p)
    /\ UNCHANGED <<device, bound, coll, access, etags, edits, history>>

\* The item binding is stored after the request it describes.
Store(p) ==
    /\ pc[p] = "store"
    /\ LET done == {i \in Item : merge.bound[i] # NoTask}
       IN  /\ bound' = [i \in Item |-> IF i \in done THEN merge.bound[i] ELSE bound[i]]
           /\ todo' = todo \ done
    /\ merge' = NoMerge
    /\ Goto(p, "put")
    /\ UNCHANGED <<device, coll, server, mutex, copy, stage, view, fetched, edits, faults,
                   history>>

\* The changes pushCollection acknowledges when all rows are handled: every
\* change that is pending by then.
Acknowledged == pending

Acknowledge(p) ==
    /\ pc[p] = "put" /\ todo = {}
    /\ pending' = pending \ Acknowledged
    /\ IF stage \in {"push", "retryPush"}
       THEN /\ stage' = "pull"
            /\ copy' = [copy EXCEPT ![p] = IF coll.bound THEN coll ELSE @]
            /\ view' = NoView
            /\ Goto(p, "fetch")
            /\ UNCHANGED <<mutex, todo, fetched, merge>>
       ELSE Leave(p)
    /\ UNCHANGED <<clock, rows, bound, coll, server, edits, faults, history>>
-----------------------------------------------------------------------------
(* pullCollection.                                                         *)

Fetch(p) ==
    /\ pc[p] = "fetch"
    /\ IF access = "gone" THEN Leave(p)
       ELSE /\ fetched' = tasks
            /\ Goto(p, "prepare")
            /\ UNCHANGED <<mutex, copy, stage, view, todo, merge>>
    /\ UNCHANGED <<device, bound, coll, server, edits, faults, history>>

\* Mutant: a field counts as changed even if the server did not change it.
ChangedAlways(i, u, f) == TRUE

\* The server changed field f of task u since item i was last synchronized.
RemotelyChanged(i, u, f) ==
    \/ bound[i] = NoTask
    \/ rows[i].life = "NONE"
    \/ bound[i].base[f] # fetched[u].val[f]

\* Mutant: a document on the server always revives the item.
RevivedAlways(i) == TRUE

\* A document on the server revives an item only if the server deleted it.
Revived(i) ==
    \/ rows[i].life = "NONE"
    \/ rows[i].life = "DELETED" /\ rows[i].lifeAt.actor = Provider

\* toSnapshot of a fetched task: fields the server changed carry the
\* provider's stamp, the others keep the local value and stamp.
TaskSnapshot(i, u, stamp) ==
    [life |-> "ACTIVE",
     lifeAt |-> IF Revived(i) THEN stamp ELSE rows[i].lifeAt,
     val |-> [text |-> IF RemotelyChanged(i, u, "text") THEN fetched[u].val.text
                       ELSE rows[i].val.text,
              checked |-> IF RemotelyChanged(i, u, "checked") THEN fetched[u].val.checked
                          ELSE rows[i].val.checked],
     at |-> [f \in Field |-> IF RemotelyChanged(i, u, f) THEN stamp ELSE rows[i].at[f]],
     origin |-> IF rows[i].life = "NONE" THEN fetched[u].origin ELSE rows[i].origin]

\* toSnapshot of an item whose task is gone.
GoneSnapshot(i, stamp) ==
    [rows[i] EXCEPT !.life = "DELETED", !.lifeAt = stamp, !.at = [f \in Field |-> stamp]]

\* The stamps of a pull start above every stamp in the list.
RevisionBase(c) == IF Newest(rows) >= c.clock THEN Newest(rows) ELSE c.clock

\* pullCollection up to its transaction: identities for new tasks, and a
\* snapshot and an item binding for each task that changed or went away.
Prepare(p) ==
    /\ pc[p] = "prepare"
    /\ LET present == {u \in Uid : fetched[u].etag # 0}
           new == {u \in present : \A i \in Item : bound[i].uid # u}
           free == {i \in Item : Fresh(i)}
       IN  \E id \in [new -> free] :
            /\ \A u, w \in new : u < w => id[u] < id[w]
            /\ \A u \in new, i \in free : i < id[u] => \E w \in new : id[w] = i
            /\ LET itemOf(u) == IF u \in new THEN id[u]
                                ELSE CHOOSE i \in Item : bound[i].uid = u
                   changed == {u \in present : LET i == itemOf(u) IN
                                 bound[i].etag # fetched[u].etag \/ rows[i].life = "NONE"}
                   lost == {i \in Item : /\ bound[i] # NoTask /\ ~bound[i].gone
                                         /\ bound[i].uid \notin present
                                         /\ rows[i].life # "NONE"}
                   base == RevisionBase(copy[p])
                   nth(n) == [clock |-> base + n, actor |-> Provider]
                   order(u) == Cardinality({w \in changed : w <= u})
                   last(i) == Cardinality(changed) + Cardinality({j \in lost : j <= i})
                   source(i) == {u \in changed : itemOf(u) = i}
                   task(i) == CHOOSE u \in source(i) : TRUE
               IN  merge' =
                    [rows |-> [i \in Item |->
                        IF source(i) # {} THEN TaskSnapshot(i, task(i), nth(order(task(i))))
                        ELSE IF i \in lost THEN GoneSnapshot(i, nth(last(i)))
                        ELSE NoRow(i)],
                     bound |-> [i \in Item |->
                        IF source(i) # {}
                        THEN [uid |-> task(i), etag |-> fetched[task(i)].etag,
                              base |-> fetched[task(i)].val, gone |-> FALSE]
                        ELSE IF i \in lost THEN [bound[i] EXCEPT !.gone = TRUE]
                        ELSE NoTask],
                     clock |-> base + Cardinality(changed) + Cardinality(lost)]
    /\ fetched' = NoFetch
    /\ Goto(p, "import")
    /\ UNCHANGED <<device, bound, coll, server, mutex, copy, stage, view, todo, edits, faults,
                   history>>

\* mergeImportedItem: field by field, whichever side has the greater stamp.
MergedRow(mine, theirs) ==
    [life |-> IF After(theirs.lifeAt, mine.lifeAt) THEN theirs.life ELSE mine.life,
     lifeAt |-> IF After(theirs.lifeAt, mine.lifeAt) THEN theirs.lifeAt ELSE mine.lifeAt,
     val |-> [text |-> IF After(theirs.at["text"], mine.at["text"])
                       THEN theirs.val.text ELSE mine.val.text,
              checked |-> IF After(theirs.at["checked"], mine.at["checked"])
                          THEN theirs.val.checked ELSE mine.val.checked],
     at |-> [f \in Field |-> IF After(theirs.at[f], mine.at[f]) THEN theirs.at[f]
                             ELSE mine.at[f]],
     origin |-> mine.origin]

\* importSnapshot of the snapshots in s: one transaction.
Merged(s) ==
    [i \in Item |-> IF s[i].life = "NONE" THEN rows[i]
                    ELSE IF rows[i].life = "NONE" THEN s[i]
                    ELSE MergedRow(rows[i], s[i])]

Imported(r, seen) ==
    LET cascade == Cascade(r, Observed(clock, seen))
    IN  IF r # rows
        THEN /\ rows' = cascade.rows /\ clock' = cascade.clock
             /\ pending' = pending \union cascade.changes
        ELSE /\ clock' = Observed(clock, seen) /\ UNCHANGED <<rows, pending>>

Import(p) ==
    /\ pc[p] = "import"
    /\ IF merge.rows = NoView THEN UNCHANGED device
       ELSE Imported(Merged(merge.rows), Newest(merge.rows))
    /\ todo' = {i \in Item : merge.bound[i] # NoTask}
    /\ Goto(p, "bind")
    /\ UNCHANGED <<bound, coll, server, mutex, copy, stage, view, fetched, merge,
                   edits, faults, history>>

\* The item bindings are stored one at a time after the transaction ...
Bind(p) ==
    /\ pc[p] = "bind"
    /\ \E i \in todo :
        /\ \A j \in todo : i <= j
        /\ bound' = [bound EXCEPT ![i] = merge.bound[i]]
        /\ todo' = todo \ {i}
    /\ UNCHANGED <<device, coll, server, mutex, pc, copy, stage, view, fetched, merge,
                   edits, faults, history>>

\* ... and then the collection binding, from the caller's copy.
Pulled(p) ==
    /\ pc[p] = "bind" /\ todo = {}
    /\ coll' = [copy[p] EXCEPT !.clock = merge.clock]
    /\ IF stage = "retryPull" \/ (stage = "pull" /\ coll'.writable /\ ~coll'.blocked)
       THEN /\ stage' = IF stage = "retryPull" THEN "retryPush" ELSE "repush"
            /\ copy' = [copy EXCEPT ![p] = IF stage = "pull" THEN coll' ELSE @]
            /\ merge' = NoMerge
            /\ Goto(p, "push")
            /\ UNCHANGED <<mutex, view, todo, fetched>>
       ELSE Leave(p)
    /\ UNCHANGED <<device, bound, server, edits, faults, history>>
-----------------------------------------------------------------------------
(* Sharing, and the user's decisions about stranded work.                  *)

\* listShares, setShare and removeShare ask the server what is granted ...
Listed(p) ==
    /\ pc[p] = "sharing"
    /\ LET writable == access = "writable"
       IN  IF access = "gone" \/ copy[p].writable = writable
           THEN Goto(p, "idle") /\ copy' = [copy EXCEPT ![p] = Unbound]
           ELSE Goto(p, "persisting") /\ copy' = [copy EXCEPT ![p].writable = writable]
    /\ UNCHANGED <<device, bound, coll, server, mutex, progress, edits, faults, history>>

\* ... and persistWritable, which takes no mutex, writes the row back from
\* the caller's copy.
Shared(p) ==
    /\ pc[p] = "persisting"
    /\ coll' = copy[p]
    /\ Goto(p, "idle")
    /\ copy' = [copy EXCEPT ![p] = Unbound]
    /\ UNCHANGED <<device, bound, server, mutex, progress, edits, faults, history>>

\* Mutant: only the items the server knows are copied.
CopiedBound(r) == UNION {DeviceClocks(r, i) : i \in {j \in Active(r) : bound[j] # NoTask}}

\* copyListAsLocal copies the visible items to a new list.
Copied(r) == UNION {DeviceClocks(r, i) : i \in Active(r)}

\* createLocalCopy and resolveLocalWork take the mutex and act on the copy
\* they read before: a removed share is released, a reachable one is copied
\* to a new local list and reverted.
Resolve(p) ==
    /\ pc[p] \in {"copying", "keeping", "discarding"}
    /\ mutex = Nobody
    /\ LET keep == pc[p] # "discarding"
           copied == keep /\ copy[p].available
           revert == pc[p] # "copying" \/ copy[p].blocked
       IN  /\ saved' = IF copied THEN saved \union Copied(rows) ELSE saved
           /\ IF copied /\ ~revert THEN Leave(p)
              ELSE /\ mutex' = p
                   /\ stage' = IF keep THEN "keep" ELSE "discard"
                   /\ Goto(p, IF keep /\ ~copied THEN "drop" ELSE "revert")
                   /\ UNCHANGED <<copy, view, todo, fetched, merge>>
    /\ UNCHANGED <<device, bound, coll, server, edits, faults, delivered>>

\* providerRepresentation: the last document seen of every bound item, newer
\* than every local stamp.  The rows without one are pruned by the import.
Revert(p) ==
    /\ pc[p] = "revert"
    /\ LET stamp == [clock |-> RevisionBase(copy[p]) + 1, actor |-> Provider]
           seen(i) == [life |-> IF bound[i].gone THEN "DELETED" ELSE "ACTIVE",
                       lifeAt |-> stamp, val |-> bound[i].base,
                       at |-> [f \in Field |-> stamp], origin |-> rows[i].origin]
       IN  Imported([i \in Item |-> IF bound[i] # NoTask THEN seen(i) ELSE NoRow(i)], stamp.clock)
    /\ Goto(p, "drop")
    /\ UNCHANGED <<bound, coll, server, mutex, copy, progress, edits, faults, history>>

\* discardPendingChanges.
Drop(p) ==
    /\ pc[p] = "drop"
    /\ pending' = {}
    /\ Goto(p, IF stage = "keep" /\ ~copy[p].available THEN "releaseItems" ELSE "clear")
    /\ UNCHANGED <<clock, rows, bound, coll, server, mutex, copy, progress, edits, faults, history>>

\* The end of revertStrandedLocalWork, on the binding read again.
Clear(p) ==
    /\ pc[p] = "clear"
    /\ coll' = [coll EXCEPT !.blocked = FALSE]
    /\ IF stage = "discard" /\ ~copy[p].available
       THEN Goto(p, "releaseItems") /\ UNCHANGED <<mutex, copy, progress>>
       ELSE Leave(p)
    /\ UNCHANGED <<device, bound, server, edits, faults, history>>

\* releaseBinding: the item bindings, then the collection binding.
ReleaseItems(p) ==
    /\ pc[p] = "releaseItems"
    /\ bound' = [i \in Item |-> NoTask]
    /\ Goto(p, "release")
    /\ UNCHANGED <<device, coll, server, mutex, copy, progress, edits, faults, history>>

Release(p) ==
    /\ pc[p] = "release"
    /\ coll' = Unbound
    /\ Leave(p)
    /\ UNCHANGED <<device, bound, server, edits, faults, history>>
-----------------------------------------------------------------------------
(* Faults.                                                                 *)

\* A request fails before it reaches the server.
RequestFails(p) ==
    /\ pc[p] \in {"discover", "put", "fetch"}
    /\ "NO_NETWORK" \in Operations /\ faults < MaxFaults /\ faults' = faults + 1
    /\ Leave(p)
    /\ UNCHANGED <<device, bound, coll, server, edits, history>>

\* Android ends the process: only the tables are left.
Crash ==
    /\ "CRASH" \in Operations /\ faults < MaxFaults /\ faults' = faults + 1
    /\ \E p \in Proc : pc[p] # "idle"
    /\ pc' = [p \in Proc |-> "idle"]
    /\ copy' = [p \in Proc |-> Unbound]
    /\ mutex' = Nobody
    /\ stage' = "none" /\ view' = NoView /\ todo' = {} /\ fetched' = NoFetch /\ merge' = NoMerge
    /\ UNCHANGED <<device, bound, coll, server, edits, history>>
-----------------------------------------------------------------------------
\* A list that is bound and in step with the collection: the n-th item of
\* Initial is the n-th task.
Init ==
    LET place(S, x) == Cardinality({y \in S : y <= x})
        uid(i) == CHOOSE u \in Uid : place(Uid, u) = place(Initial, i)
        one == [clock |-> 1, actor |-> Device]
        value == NoValue
    IN  /\ clock = 1
        /\ rows = [i \in Item |-> IF i \notin Initial THEN NoRow(i) ELSE
                [NoRow(i) EXCEPT !.life = "ACTIVE", !.val = [value EXCEPT !.checked = FALSE],
                                 !.at = [f \in Field |-> one]]]
        /\ pending = {}
        /\ tasks = [u \in Uid |-> IF \E i \in Initial : uid(i) = u
                THEN [etag |-> 1, val |-> [value EXCEPT !.checked = FALSE],
                      origin |-> CHOOSE i \in Initial : uid(i) = u]
                ELSE [etag |-> 0, val |-> value, origin |-> u]]
        /\ bound = [i \in Item |-> IF i \notin Initial THEN NoTask ELSE
                [uid |-> uid(i), etag |-> 1, base |-> [value EXCEPT !.checked = FALSE],
                 gone |-> FALSE]]
        /\ coll = [bound |-> TRUE, enabled |-> TRUE, writable |-> TRUE, available |-> TRUE,
                   blocked |-> FALSE, clock |-> 0]
        /\ access = "writable" /\ etags = 1
        /\ mutex = Nobody
        /\ pc = [p \in Proc |-> "idle"] /\ copy = [p \in Proc |-> Unbound]
        /\ stage = "none" /\ view = NoView /\ todo = {} /\ fetched = NoFetch /\ merge = NoMerge
        /\ edits = 0 /\ faults = 0 /\ delivered = {1} /\ saved = {}

\* What a caller of the adapter does once it has been called.
Continue(p) ==
    \/ Begin(p) \/ Discover(p) \/ Quarantine(p)
    \/ Push(p) \/ Put(p) \/ Delete(p) \/ Store(p) \/ Acknowledge(p)
    \/ Fetch(p) \/ Prepare(p) \/ Import(p) \/ Bind(p) \/ Pulled(p)
    \/ Listed(p) \/ Shared(p) \/ Resolve(p) \/ Revert(p) \/ Drop(p) \/ Clear(p)
    \/ ReleaseItems(p) \/ Release(p)

User == AddItem \/ SetText \/ SetChecked \/ DeleteItem \/ RestoreItem \/ Stop

Others == RemoteAdd \/ RemoteSet \/ RemoteDelete \/ Reshare

Next ==
    \/ User
    \/ Others
    \/ Crash
    \/ \E p \in Proc :
        \/ Sync(p) \/ Publish(p) \/ Share(p) \/ LocalCopy(p) \/ Keep(p) \/ Discard(p)
        \/ Resume(p)
        \/ Continue(p)
        \/ RequestFails(p)

Spec == Init /\ [][Next]_vars

\* Every request ends (the client has timeouts), syncMutex is fair, and
\* WorkManager runs the worker again and again.
Fairness ==
    /\ \A p \in Proc : WF_vars(Continue(p)) /\ SF_vars(Begin(p) \/ Resolve(p))
    /\ WF_vars(Sync(Worker))

FairSpec == Spec /\ Fairness
-----------------------------------------------------------------------------
(* Properties.                                                             *)

\* Labels of callers that do not hold the mutex, of a synchronization that
\* does, and of a decision about stranded work that does.
Waiting == {"idle", "queued", "publishing", "sharing", "persisting", "copying", "keeping",
            "discarding"}
Syncing == {"discover", "quarantine", "push", "put", "store", "fetch", "prepare", "import",
            "bind"}
Resolving == {"revert", "drop", "clear", "releaseItems", "release"}
Labels == Waiting \union Syncing \union Resolving

\* Tables and local variables hold what they can hold, and whoever is past
\* the point where the mutex is taken holds it.
TypeOK ==
    /\ clock \in Nat
    /\ rows \in [Item -> Row]
    /\ pending \subseteq LocalChange
    /\ bound \in [Item -> ItemBinding]
    /\ coll \in Binding
    /\ tasks \in [Uid -> Task]
    /\ access \in {"writable", "readonly", "gone"}
    /\ etags \in Nat
    /\ mutex \in Proc \union {Nobody}
    /\ pc \in [Proc -> Labels]
    /\ copy \in [Proc -> Binding]
    /\ \A p \in Proc : pc[p] \in Waiting <=> mutex # p
    /\ edits \in 0 .. MaxEdits /\ faults \in 0 .. MaxFaults

\* Work that is quarantined reaches the server only after the user decided:
\* no synchronization writes to the collection while the list is blocked.
StrandedWorkStays ==
    [][coll.bound /\ coll.blocked /\ pc' # pc => tasks' = tasks]_vars

\* The quarantine is durable: nothing but the end of the user's decision
\* lifts it, neither access that comes back nor any other write of the row.
QuarantineHolds ==
    [][coll.bound /\ coll.blocked /\ ~(coll'.bound /\ coll'.blocked)
        => \E p \in Proc : mutex = p /\ pc[p] \in {"clear", "release"}]_vars

\* After stopSync the list stays stopped until the user resumes it.
StopHolds ==
    [][coll.bound /\ ~coll.enabled /\ coll'.bound /\ coll'.enabled
        => \E p \in Proc : pc[p] = "idle" /\ pc'[p] = "queued"]_vars

\* Items and tasks correspond one to one: neither two tasks nor two items of
\* the list go back to the same item or task.
OneToOne ==
    /\ \A u, w \in OnServer : tasks[u].origin = tasks[w].origin => u = w
    /\ \A i, j \in Active(rows) : rows[i].origin = rows[j].origin => i = j

\* A local change is written to the server at most once: a PUT never puts
\* back, over what another client wrote, a change the server already had.
ChangesDeliveredOnce ==
    [][\A p \in Proc, u \in OnServer, i \in todo, f \in Field :
        pc[p] = "put" /\ pc'[p] # "put" /\ bound[i].uid = u /\ tasks'[u] # tasks[u]
            /\ tasks'[u].etag # 0 /\ tasks'[u].val[f] # tasks[u].val[f]
            => view[i].at[f].actor = Device /\ view[i].at[f].clock \notin delivered]_vars

\* An item the user deleted comes back only if the user restores it or
\* gives up the local changes; a newer task on the server does not revive it.
DeletionHolds ==
    [][\A i \in Item :
        rows[i].life = "DELETED" /\ rows[i].lifeAt.actor = Device /\ rows'[i].life = "ACTIVE"
            => edits' # edits \/ \E p \in Proc : pc[p] = "revert"]_vars

\* A pull replaces a local value only where the server's value changed since
\* the item was last synchronized, or where the task was deleted.
UnconflictedEditsSurvive ==
    [][\A p \in Proc, i \in Active(rows) :
        pc[p] = "import" /\ pc'[p] = "bind" /\ rows'[i].life = "ACTIVE"
            /\ rows'[i].val.text # rows[i].val.text
            => merge.bound[i].base.text # bound[i].base.text \/ merge.bound[i].gone]_vars

\* Keeping a local copy loses nothing: what it takes out of the list and the
\* server never had is in the copy.
KeptWorkSurvives ==
    [][\A p \in Proc : pc[p] = "revert" /\ pc'[p] = "drop" /\ stage = "keep"
        => \A i \in Active(rows) : DeviceClocks(rows, i) \subseteq delivered \union saved]_vars

\* Once edits and faults end, a list that is bound, enabled and editable and
\* the collection agree for good.
InStep ==
    /\ \A i \in Active(rows) : /\ bound[i] # NoTask /\ ~bound[i].gone
                               /\ bound[i].uid \in OnServer
                               /\ tasks[bound[i].uid].val = rows[i].val
    /\ \A u \in OnServer : \E i \in Active(rows) : bound[i].uid = u

EventuallyInStep ==
    <>[](coll.bound /\ coll.enabled /\ ~coll.blocked /\ access = "writable" => InStep)
-----------------------------------------------------------------------------
(* What makes them hold at every step.                                     *)

\* The local variables of the holder of the mutex.
LocalsOK ==
    /\ stage \in {"none", "sync", "publish", "push", "pull", "repush", "retryPull", "retryPush",
                  "blockedPull", "readOnlyPull", "keep", "discard"}
    /\ view \in [Item -> Row] /\ todo \subseteq Item /\ fetched \in [Uid -> Task]
    /\ merge \in [rows : [Item -> Row], bound : [Item -> ItemBinding], clock : Nat]

TypeInv == TypeOK /\ LocalsOK

\* As long as nobody shares or publishes, a synchronization goes on with what
\* the tables say about the list, and pushes only what is not quarantined.
SameAccess(c, b) ==
    /\ c.bound = b.bound /\ c.enabled = b.enabled /\ c.writable = b.writable
    /\ c.available = b.available /\ c.blocked = b.blocked

CopyAgrees(p) ==
    /\ pc[p] \notin {"publishing", "sharing", "persisting"}
    /\ pc[p] \in Syncing =>
          /\ copy[p].enabled
          /\ coll.bound => SameAccess(copy[p], coll)
          /\ pc[p] \in {"push", "put", "store"} \/ stage = "retryPull" => ~copy[p].blocked

CopiesAgree == \A p \in Proc : CopyAgrees(p)

AccessInv == TypeInv /\ CopiesAgree

\* With one screen, work stays quarantined from the moment the user is asked
\* until the rows are reverted, and what is to be kept has been copied.
DecisionsHold ==
    /\ pc[Worker] \in {"idle", "queued"} \union Syncing
    /\ \A p \in Proc :
        /\ pc[p] \in {"keeping", "discarding"} \/ (pc[p] = "copying" /\ copy[p].blocked)
              => coll.bound /\ coll.blocked
        /\ pc[p] = "revert" /\ stage = "keep"
              => coll.bound /\ coll.blocked /\ Copied(rows) \subseteq saved

DecisionInv == AccessInv /\ DecisionsHold

\* The clock dominates the stamps of the list, and what a pull is about to
\* import is newer than a text it finds only if the server changed the text.
ClockDominates == \A i \in Item, f \in Field : rows[i].at[f].clock <= clock

PullPrepared ==
    (\E p \in Proc : pc[p] = "import") =>
        \A i \in Item :
            \/ merge.rows[i].life = "NONE" \/ rows[i].life = "NONE"
            \/ merge.bound[i].base.text # bound[i].base.text
            \/ merge.bound[i].gone
            \/ ~After(merge.rows[i].at["text"], rows[i].at["text"])

PullInv == TypeInv /\ ClockDominates /\ PullPrepared
=============================================================================
