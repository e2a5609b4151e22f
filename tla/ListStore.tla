------------------------------ MODULE ListStore ------------------------------
(***************************************************************************)
(* ListMutationRepository: the replicated store behind one shared list.    *)
(*                                                                         *)
(* Every device keeps a row per item whose fields are last-writer-wins     *)
(* registers, each with its own version stamp.  A user operation is one    *)
(* Room transaction: it draws stamps, writes rows and records one change   *)
(* per written field.  Changes reach the other devices one at a time       *)
(* (applyRemote), in any order, any number of times or never; whole        *)
(* collections reach them as packages (exportSnapshot, importSnapshot)     *)
(* that may be read long after they were written.                          *)
(*                                                                         *)
(* The description and the due date of an item behave exactly as its text, *)
(* so `text` stands for the three.  The sibling order inside a placement   *)
(* is left out: a placement is the requested parent.                       *)
(***************************************************************************)
EXTENDS ListHierarchy, FiniteSets, Sequences, SequencesExt

CONSTANTS
    Device,         \* the devices, named by their actor identities
    Item,           \* identities items may be created with
    Text,           \* item texts
    Operations,     \* the user operations of this instance
    MaxClock,       \* bound on the Lamport clock of a device
    MaxPackages     \* bound on the packages written

ASSUME DeviceAssumption == Device \subseteq Nat \ {0} /\ IsFiniteSet(Device)
ASSUME ItemAssumption == Item \subseteq Nat \ {NoItem} /\ IsFiniteSet(Item)
ASSUME BoundAssumption == MaxClock \in Nat /\ MaxPackages \in Nat

VARIABLES
    clock,      \* ListActorStateEntity.logicalClock, per device
    seq,        \* ListSourceSequenceEntity.sourceSequence, per device
    known,      \* the items a device has a row for
    rows,       \* the fields of those rows; Blank for the others
    changes,    \* every change recorded by any device, in ListChangeEntity
    applied,    \* ListAppliedChangeEntity: the foreign changes applied
    checkpoint, \* ListCheckpointEntity, per device and source actor
    packages    \* the shared-collection packages written so far

vars == <<clock, seq, known, rows, changes, applied, checkpoint, packages>>
-----------------------------------------------------------------------------
Field == {"text", "checked", "parent", "life"}

Lifecycle == {"ACTIVE", "DELETED"}

\* The fields of a row; "" is the text of a row nobody has named yet.
Values == [text : Text \union {""}, checked : BOOLEAN,
           parent : Item \union {NoItem}, life : Lifecycle]

\* A row is its fields and the stamp of each of them.
Row == [val : Values, at : [Field -> Stamp]]

\* A row as ensureRemoteItem inserts it: defaults that nobody has stamped.
Blank == [val |-> [text |-> "", checked |-> FALSE, parent |-> NoItem, life |-> "ACTIVE"],
          at  |-> [f \in Field |-> Zero]]

Operation == {"CREATE_ITEM", "SET_ITEM_TEXT", "SET_ITEM_CHECKED",
              "SET_ITEM_PLACEMENT", "DELETE_ITEM", "RESTORE_ITEM"}

\* What one change does: the payload names the fields it puts.
Payload == {[f \in F |-> v[f]] : F \in SUBSET Field, v \in Values}
Write == [op : Operation, target : Item, puts : Payload]

Change == [op : Operation, target : Item, puts : Payload,
           actor : Device, seq : Nat, stamp : Stamp]

Put(op, i, f, v) == [op |-> op, target |-> i, puts |-> [g \in {f} |-> v]]

\* The same put for every item of S.
PutAll(op, S, f, v) == SetToSeq({Put(op, i, f, v) : i \in S})
-----------------------------------------------------------------------------
(* Views of one device's rows `r` over the known items `k`.                *)

Active(k, r) == {i \in k : r[i].val["life"] = "ACTIVE"}
Parent(r) == [i \in Item |-> r[i].val["parent"]]
PlacedAt(r) == [i \in Item |-> r[i].at["parent"]]
Children(k, r, p) == ChildrenOf(Parent(r), PlacedAt(r), Active(k, r), p)
Parents(k, r) == {p \in Active(k, r) : Children(k, r, p) # {}}
Shown(k, r) == TopLevel(Parent(r), PlacedAt(r), Active(k, r))
OldParent(k, r, i) == {p \in Parents(k, r) : i \in Children(k, r, p)}
-----------------------------------------------------------------------------
(* One local transaction: nextStamp and recordLocal for each write.        *)

\* Mutant: the incremented clock is not stored.
ClockForgotten(base, n) == base

\* nextStamp: the clock after a transaction has drawn n stamps from `base`.
ClockAfter(base, n) == base + n

\* The writes of ws that put field f of item i; a transaction puts a field
\* of an item at most once.
Puts(ws, i, f) == {n \in DOMAIN ws : ws[n].target = i /\ f \in DOMAIN ws[n].puts}

\* The rows after the writes, the n-th stamped base + n by actor d.
Written(r, ws, d, base) ==
    [i \in Item |->
        [val |-> [f \in Field |-> IF Puts(ws, i, f) = {} THEN r[i].val[f]
                    ELSE ws[CHOOSE n \in Puts(ws, i, f) : TRUE].puts[f]],
         at  |-> [f \in Field |-> IF Puts(ws, i, f) = {} THEN r[i].at[f]
                    ELSE [clock |-> base + (CHOOSE n \in Puts(ws, i, f) : TRUE),
                          actor |-> d]]]]

\* The changes recorded for those writes.
Recorded(ws, d, base, sq) ==
    {[op |-> ws[n].op, target |-> ws[n].target, puts |-> ws[n].puts,
      actor |-> d, seq |-> sq + n, stamp |-> [clock |-> base + n, actor |-> d]]
        : n \in DOMAIN ws}

\* Mutant: a parent is reopened with its children but never completed.
FlipsReopenOnly(k, r, P) ==
    LET flipping == {p \in P \intersect Parents(k, r) :
            r[p].val["checked"] /\ ~\A c \in Children(k, r, p) : r[c].val["checked"]}
    IN  SetToSeq({Put("SET_ITEM_CHECKED", p, "checked", FALSE) : p \in flipping})

\* recomputeParentCompletionInternal for every parent in P: a parent whose
\* effective children are all checked, or not all, follows them.
Flips(k, r, P) ==
    LET flipping == {p \in P \intersect Parents(k, r) :
            r[p].val["checked"] # \A c \in Children(k, r, p) : r[c].val["checked"]}
    IN  SetToSeq({Put("SET_ITEM_CHECKED", p, "checked", ~r[p].val["checked"])
                    : p \in flipping})

\* Commit the writes ws, and then the completion cascade they cause among
\* the parents P(k, r), on top of the rows r and the clock base.
Commit(d, base, k, r, ws, P) ==
    LET mid == Written(r, ws, d, base)
        all == ws \o Flips(k, mid, P)
    IN  /\ base + Len(all) <= MaxClock
        /\ clock' = [clock EXCEPT ![d] = ClockAfter(base, Len(all))]
        /\ seq' = [seq EXCEPT ![d] = @ + Len(all)]
        /\ known' = [known EXCEPT ![d] = k]
        /\ rows' = [rows EXCEPT ![d] = Written(r, all, d, base)]
        /\ changes' = changes \union Recorded(all, d, base, seq[d])

\* A user operation: every write it makes starts from the device's own state.
Local(d, op, k, ws, P) ==
    /\ op \in Operations
    /\ ws # <<>>
    /\ Commit(d, clock[d], k, rows[d], ws, P)
    /\ UNCHANGED <<applied, checkpoint, packages>>
-----------------------------------------------------------------------------
(* User operations.                                                        *)

\* addItem and addSubItem: a fresh identity, at top level or under an
\* effective top-level item, whose completion is then recomputed.
AddItem(d) ==
    \E i \in Item, t \in Text, p \in Item \union {NoItem} :
        /\ \A c \in changes : c.target # i
        /\ p # NoItem => p \in Shown(known[d], rows[d])
        /\ Local(d, "CREATE_ITEM", known[d] \union {i},
                 <<[op |-> "CREATE_ITEM", target |-> i,
                    puts |-> [text |-> t, checked |-> FALSE, parent |-> p]]>>,
                 {p})

\* setItemText (setItemDescription and setItemDueAt are the same).
SetText(d) ==
    \E i \in Active(known[d], rows[d]), t \in Text :
        /\ t # rows[d][i].val["text"]
        /\ Local(d, "SET_ITEM_TEXT", known[d], <<Put("SET_ITEM_TEXT", i, "text", t)>>, {})

\* setItemsChecked on one item: its children follow it, and then every
\* parent of the list is recomputed.
SetChecked(d) ==
    \E i \in Active(known[d], rows[d]), b \in BOOLEAN :
        LET changed == {j \in {i} \union Children(known[d], rows[d], i) :
                          rows[d][j].val["checked"] # b}
        IN  Local(d, "SET_ITEM_CHECKED", known[d],
                  PutAll("SET_ITEM_CHECKED", changed, "checked", b),
                  Parents(known[d], rows[d]))

\* moveItem: the new parent must be shown at top level and the item must
\* have no children; the old and the new parent are recomputed.
MoveItem(d) ==
    \E i \in Active(known[d], rows[d]), p \in Item \union {NoItem} :
        /\ p # i
        /\ p # rows[d][i].val["parent"]
        /\ p # NoItem => /\ p \in Shown(known[d], rows[d])
                         /\ Children(known[d], rows[d], i) = {}
        /\ Local(d, "SET_ITEM_PLACEMENT", known[d],
                 <<Put("SET_ITEM_PLACEMENT", i, "parent", p)>>,
                 OldParent(known[d], rows[d], i) \union {p})

\* deleteItems: the surviving children of a deleted parent are promoted to
\* top level first, then the targets get their tombstones, and the rows
\* that were in a group are recomputed.
DeleteItems(d) ==
    \E targets \in SUBSET Active(known[d], rows[d]) \ {{}} :
        LET orphans == UNION {Children(known[d], rows[d], p) : p \in targets} \ targets
            parents == Parents(known[d], rows[d])
            grouped == parents \union UNION {Children(known[d], rows[d], p) : p \in parents}
        IN  Local(d, "DELETE_ITEM", known[d],
                  PutAll("SET_ITEM_PLACEMENT", orphans, "parent", NoItem)
                  \o PutAll("DELETE_ITEM", targets, "life", "DELETED"),
                  grouped \ targets)

\* restoreItem: the lifecycle alone is put; the requested parent, if it was
\* active, is recomputed.
RestoreItem(d) ==
    \E i \in known[d] \ Active(known[d], rows[d]) :
        Local(d, "RESTORE_ITEM", known[d], <<Put("RESTORE_ITEM", i, "life", "ACTIVE")>>,
              {rows[d][i].val["parent"]})

\* Work on another collection draws stamps from the same clock.
EditElsewhere(d) ==
    /\ "ELSEWHERE" \in Operations
    /\ clock[d] < MaxClock
    /\ clock' = [clock EXCEPT ![d] = @ + 1]
    /\ UNCHANGED <<seq, known, rows, changes, applied, checkpoint, packages>>
-----------------------------------------------------------------------------
(* Incremental exchange: applyRemote.                                      *)

\* Mutant: the stamp of the field is not consulted.
OverwritesAlways(k, r, c) ==
    {f \in DOMAIN c.puts :
        /\ c.op \in {"SET_ITEM_TEXT", "SET_ITEM_CHECKED", "SET_ITEM_PLACEMENT"}
             => r[c.target].val["life"] = "ACTIVE"
        /\ c.op = "RESTORE_ITEM" => c.target \in k}

\* The fields of the target that change c overwrites on a device that knows
\* the items k with the rows r.  A field of a deleted item is left alone.
Overwrites(k, r, c) ==
    {f \in DOMAIN c.puts :
        /\ After(c.stamp, r[c.target].at[f])
        /\ c.op \in {"SET_ITEM_TEXT", "SET_ITEM_CHECKED", "SET_ITEM_PLACEMENT"}
             => r[c.target].val["life"] = "ACTIVE"
        /\ c.op = "RESTORE_ITEM" => c.target \in k}

\* The row with the given fields taken from `val` and `at`.
Taken(row, fields, val, at) ==
    [val |-> [f \in Field |-> IF f \in fields THEN val[f] ELSE row.val[f]],
     at  |-> [f \in Field |-> IF f \in fields THEN at[f] ELSE row.at[f]]]

\* The row of the target after the change.
Merged(row, c, fields) == Taken(row, fields, c.puts, [f \in Field |-> c.stamp])

\* Mutant: no row is inserted for an unknown target.
KnownUnchanged(k, c) == k

\* ensureRemoteItem and applyCreateItem insert an unknown target; a restore
\* of an unknown item does not.
KnownAfter(k, c) == IF c.op = "RESTORE_ITEM" THEN k ELSE k \union {c.target}

\* applyItemField recomputes the old and the new effective parent of a
\* target it changed; the other operations recompute nothing.
Recomputed(k, r, r2, c, fields) ==
    IF c.op \in {"CREATE_ITEM", "DELETE_ITEM", "RESTORE_ITEM"} \/ fields = {} THEN {}
    ELSE OldParent(k, r, c.target) \union OldParent(k, r2, c.target)

\* Mutant: the checkpoint jumps to the greatest sequence applied.
AdvancedToLast(current, seen) ==
    CHOOSE n \in seen \union {current} : \A m \in seen \union {current} : m <= n

\* advanceCheckpoint: across the contiguous sequences applied from a source.
Advanced(current, seen) ==
    current + Cardinality({n \in seen : /\ n > current
                                        /\ \A m \in (current + 1) .. n : m \in seen})

\* applyRemote.  A change of the device itself is in its log already, and one
\* that is in the log is passed over.
ApplyRemote(d, c) ==
    /\ c.actor # d
    /\ c \notin applied[d]
    /\ LET k == KnownAfter(known[d], c)
           fields == Overwrites(known[d], rows[d], c)
           r == [rows[d] EXCEPT ![c.target] = Merged(@, c, fields)]
       IN  Commit(d, Observed(clock[d], c.stamp.clock), k, r, <<>>,
                  Recomputed(k, rows[d], r, c, fields))
    /\ applied' = [applied EXCEPT ![d] = @ \union {c}]
    /\ checkpoint' = [checkpoint EXCEPT ![d][c.actor] =
            Advanced(@, {o.seq : o \in {x \in applied'[d] : x.actor = c.actor}})]
    /\ UNCHANGED packages
-----------------------------------------------------------------------------
(* Packages: exportSnapshot and importSnapshot.                            *)

\* A package carries every row, tombstones included, and the checkpoints of
\* the exporting device with its own source sequence among them.
Export(d) ==
    /\ Cardinality(packages) < MaxPackages
    /\ packages' = packages \union {[known |-> known[d], rows |-> rows[d],
            checkpoint |-> [checkpoint[d] EXCEPT ![d] = IF @ >= seq[d] THEN @ ELSE seq[d]]]}
    /\ UNCHANGED <<clock, seq, known, rows, changes, applied, checkpoint>>

\* Mutant: the lifecycle of the package is taken as it is.
MergedRowWithLifecycle(mine, theirs) ==
    Taken(mine, {"life"} \union {f \in Field : After(theirs.at[f], mine.at[f])},
          theirs.val, theirs.at)

\* Field by field, whichever side has the greater stamp.
MergedRow(mine, theirs) ==
    Taken(mine, {f \in Field : After(theirs.at[f], mine.at[f])}, theirs.val, theirs.at)

\* The clock values a package shows to its reader.
PackageClocks(pkg) == {0} \union {pkg.rows[i].at[f].clock : i \in pkg.known, f \in Field}

Import(d, pkg) ==
    /\ \E seen \in PackageClocks(pkg) :
        LET k == known[d] \union pkg.known
            r == [i \in Item |-> IF i \in pkg.known
                                 THEN MergedRow(rows[d][i], pkg.rows[i]) ELSE rows[d][i]]
            changed == k # known[d] \/ r # rows[d]
        IN  /\ \A n \in PackageClocks(pkg) : n <= seen
            /\ Commit(d, Observed(clock[d], seen), k, r, <<>>,
                      IF changed THEN Parents(known[d], rows[d]) \union Parents(k, r) ELSE {})
    /\ checkpoint' = [checkpoint EXCEPT ![d] =
            [a \in Device |-> IF pkg.checkpoint[a] > @[a] THEN pkg.checkpoint[a] ELSE @[a]]]
    /\ UNCHANGED <<applied, packages>>
-----------------------------------------------------------------------------
Init ==
    /\ clock = [d \in Device |-> 0]
    /\ seq = [d \in Device |-> 0]
    /\ known = [d \in Device |-> {}]
    /\ rows = [d \in Device |-> [i \in Item |-> Blank]]
    /\ changes = {}
    /\ applied = [d \in Device |-> {}]
    /\ checkpoint = [d \in Device |-> [a \in Device |-> 0]]
    /\ packages = {}

Next ==
    \E d \in Device :
        \/ AddItem(d)
        \/ SetText(d)
        \/ SetChecked(d)
        \/ MoveItem(d)
        \/ DeleteItems(d)
        \/ RestoreItem(d)
        \/ EditElsewhere(d)
        \/ \E c \in changes : ApplyRemote(d, c)
        \/ Export(d)
        \/ \E pkg \in packages : Import(d, pkg)

Spec == Init /\ [][Next]_vars
-----------------------------------------------------------------------------
(* Properties.                                                             *)

\* Every variable holds the kind of value its table can hold, and only the
\* items a device has a row for have fields.
TypeOK ==
    /\ clock \in [Device -> Nat]
    /\ seq \in [Device -> Nat]
    /\ known \in [Device -> SUBSET Item]
    /\ rows \in [Device -> [Item -> Row]]
    /\ \A d \in Device : \A i \in Item \ known[d] : rows[d][i] = Blank
    /\ changes \subseteq Change
    /\ applied \in [Device -> SUBSET Change]
    /\ \A d \in Device : IsFiniteSet(applied[d])
    /\ checkpoint \in [Device -> [Device -> Nat]]
    /\ packages \subseteq [known : SUBSET Item, rows : [Item -> Row],
                            checkpoint : [Device -> Nat]]

\* A stamp names one write.  Two rows, on any devices or in any packages,
\* that carry the same stamp for a field hold the same value there, so the
\* comparison of stamps in applyRemote and importSnapshot, which drops the
\* incoming side of a tie, never drops a value the device does not hold.
AllRows == {rows[d] : d \in Device} \union {pkg.rows : pkg \in packages}

StampIdentifiesWrite ==
    \A r, s \in AllRows : \A i \in Item, f \in Field :
        r[i].at[f] = s[i].at[f] => r[i].val[f] = s[i].val[f]

\* A device's clock is not behind any stamp it stores, so that the stamp
\* nextStamp draws for the next edit wins over whatever the edit replaces.
ClockDominatesRows ==
    \A d \in Device, i \in Item, f \in Field :
        rows[d][i].at[f].clock <= clock[d]

\* What makes the two hold at every step.  A stamp is drawn once ...
StampsDrawn ==
    /\ \A c \in changes : /\ c.stamp.actor = c.actor
                          /\ c.stamp.clock \in 1 .. clock[c.actor]
    /\ \A c1, c2 \in changes : c1.stamp = c2.stamp => c1 = c2

\* ... and a stamped field is backed by the change that drew the stamp.
Backed(r) ==
    \A i \in Item, f \in Field :
        \/ r[i].at[f] = Zero /\ r[i].val[f] = Blank.val[f]
        \/ \E c \in changes : /\ c.target = i /\ f \in DOMAIN c.puts
                             /\ c.stamp = r[i].at[f] /\ c.puts[f] = r[i].val[f]

FieldsBacked == \A r \in AllRows : Backed(r)

IInv == TypeOK /\ StampsDrawn /\ FieldsBacked /\ ClockDominatesRows

\* No step takes a stored field back to an older stamp: a repeated or late
\* change or package never undoes newer work, and a local edit always counts
\* as newer than everything the device had merged before it.
NoFieldRegresses ==
    \A d \in Device, i \in Item, f \in Field :
        \/ /\ rows'[d][i].val[f] = rows[d][i].val[f]
           /\ rows'[d][i].at[f] = rows[d][i].at[f]
        \/ After(rows'[d][i].at[f], rows[d][i].at[f])

FieldsNeverRegress == [][NoFieldRegresses]_vars

\* Deletion is sticky: a tombstone goes away only on the strength of an
\* explicit restore that is newer than it, not because of any field change,
\* creation or package that arrives late.
OnlyRestoreRevives ==
    [][\A d \in Device, i \in Item :
          rows[d][i].val["life"] = "DELETED" /\ rows'[d][i].val["life"] = "ACTIVE"
            => \E c \in changes' : /\ c.op = "RESTORE_ITEM" /\ c.target = i
                                   /\ c.stamp = rows'[d][i].at["life"]
                                   /\ After(c.stamp, rows[d][i].at["life"])]_vars

\* The rows r hold the effect of change c: in every field that it puts they
\* have its value or one with a greater stamp.
Covers(r, c) == \A f \in DOMAIN c.puts : ~After(c.stamp, r[c.target].at[f])

\* What a checkpoint promises a sender: the device has the effect of every
\* change of that source up to the checkpoint, so none needs sending again.
CheckpointCoversState ==
    \A d \in Device : \A c \in changes :
        c.seq <= checkpoint[d][c.actor] => Covers(rows[d], c)

\* Devices that have received every change show the same items with the
\* same fields, whatever order the changes came in.
Received(d) == applied[d] \union {c \in changes : c.actor = d}

Visible(d) == [i \in Active(known[d], rows[d]) |-> rows[d][i].val]

Convergence ==
    \A d, e \in Device :
        Received(d) = changes /\ Received(e) = changes => Visible(d) = Visible(e)

\* A parent is checked exactly when all the children shown under it are,
\* whatever sequence of additions, moves, checks and deletions came before.
ParentsAgreeWithChildren ==
    \A d \in Device : \A p \in Parents(known[d], rows[d]) :
        rows[d][p].val["checked"] <=>
            \A c \in Children(known[d], rows[d], p) : rows[d][c].val["checked"]

\* The forest a device shows has two levels, and no request it suppresses
\* could be granted without breaking that.
TwoLevelForest ==
    \A d \in Device :
        LET par == Parent(rows[d])
            act == Active(known[d], rows[d])
            acc == AcceptedChildren(par, PlacedAt(rows[d]), act)
        IN  /\ \A c \in acc : par[c] \in act \ acc
            /\ \A c \in Candidates(par, act) \ acc : ~Acceptable(par, acc, c)
-----------------------------------------------------------------------------
(* What makes the properties of the exchange hold at every step.           *)

\* Rows, and the rows of packages, are of items some change has named.
KnownRecorded ==
    LET targets == {c.target : c \in changes}
    IN  /\ \A d \in Device : known[d] \subseteq targets
        /\ \A pkg \in packages :
              /\ pkg.known \subseteq targets
              /\ \A i \in Item \ pkg.known : pkg.rows[i] = Blank

\* A device numbers its changes; nobody has seen a number not yet given out.
Numbered ==
    /\ \A d \in Device : applied[d] \subseteq changes
    /\ \A c \in changes : c.seq \in 1 .. seq[c.actor]
    /\ \A c1, c2 \in changes : c1.actor = c2.actor /\ c1.seq = c2.seq => c1 = c2
    /\ \A d, a \in Device : checkpoint[d][a] <= seq[a]
    /\ \A pkg \in packages : \A a \in Device : pkg.checkpoint[a] <= seq[a]

\* Only deletions and restores put a lifecycle, each its own.
LifecyclePut(w) ==
    /\ "life" \in DOMAIN w.puts <=> w.op \in {"DELETE_ITEM", "RESTORE_ITEM"}
    /\ w.op = "DELETE_ITEM" => w.puts["life"] = "DELETED"
    /\ w.op = "RESTORE_ITEM" => w.puts["life"] = "ACTIVE"

HistoryInv ==
    IInv /\ KnownRecorded /\ Numbered /\ \A c \in changes : LifecyclePut(c)

\* Without deletions, what a device has received it holds, and what a package
\* says its writer had received its rows hold.
NothingDeleted == \A c \in changes : "life" \notin DOMAIN c.puts

ReceivedHeld ==
    \A d \in Device : \A c \in Received(d) :
        c.target \in known[d] /\ Covers(rows[d], c)

PackagesCoverState ==
    \A pkg \in packages : \A c \in changes :
        c.seq <= pkg.checkpoint[c.actor] => Covers(pkg.rows, c)

ExchangeInv ==
    /\ HistoryInv /\ NothingDeleted
    /\ ReceivedHeld /\ CheckpointCoversState /\ PackagesCoverState

\* On one device without restores, every request is granted, and a package
\* is as old as the rows of its reader.
RequestsGranted(k, r) ==
    /\ \A i \in Item : r[i].val["parent"] \in k \union {NoItem}
    /\ LET cands == Candidates(Parent(r), Active(k, r))
       IN  \A c \in cands : Parent(r)[c] \notin cands

PackagesOld ==
    \A d \in Device, pkg \in packages :
        /\ pkg.known \subseteq known[d]
        /\ \A i \in Item, f \in Field : ~After(pkg.rows[i].at[f], rows[d][i].at[f])

GroupsInv ==
    /\ HistoryInv /\ ParentsAgreeWithChildren /\ PackagesOld
    /\ \A d \in Device : RequestsGranted(known[d], rows[d])
=============================================================================
