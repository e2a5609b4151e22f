------------------------- MODULE NextcloudSyncProofs -------------------------
(***************************************************************************)
(* Theorems about the synchronization of one list with one collection, for *)
(* any items, tasks, callers, edits and faults: what the tables hold, that *)
(* no two items share a task, that a quarantine and a stop survive every   *)
(* synchronization, that what is kept is copied before it is reverted, and *)
(* that a pull replaces a text only if the server changed it.  As long as  *)
(* no answer is lost and no process ends, a change is sent once and no     *)
(* pull revives a deleted item; if besides nobody decides about stranded   *)
(* work, items and tasks correspond one to one.  The argument about finite *)
(* sets of clocks uses SmallestSet of ListHierarchyProofs.                 *)
(***************************************************************************)
EXTENDS NextcloudSync, ListHierarchyProofs

-----------------------------------------------------------------------------
(* Finite sets of numbers.                                                 *)

\* A finite set of clocks has a greatest one (maxOf).
LEMMA GreatestExists ==
    ASSUME NEW S, S \subseteq Nat, IsFiniteSet(S), S # {}
    PROVE  \E n \in S : \A m \in S : m <= n
<1> DEFINE B == {X \in SUBSET S : X # {} /\ ~ \E n \in X : \A m \in X : m <= n}
<1>1. ASSUME B # {}
      PROVE  FALSE
    <2>0. B \subseteq SUBSET S /\ IsFiniteSet(S)
        OBVIOUS
    <2> HIDE DEF B
    <2>1. PICK X \in B : \A Y \in B : Y \subseteq X => Y = X
        <3>1. B # {}
            BY <1>1
        <3> HIDE <1>1
        <3>2. QED
            BY ONLY <3>1, <2>0, SmallestSet
    <2> USE DEF B
    <2>2. PICK x \in X : TRUE
        OBVIOUS
    <2>3. CASE X = {x}
        BY <2>3
    <2>4. CASE X # {x}
        <3>1. X \ {x} \in SUBSET S /\ X \ {x} # {} /\ X \ {x} \notin B
            BY <2>1, <2>2, <2>4
        <3>2. PICK y \in X \ {x} : \A m \in X \ {x} : m <= y
            BY <3>1
        <3>3. x \in Nat /\ y \in Nat
            BY <2>2, <3>2
        <3>4. CASE x <= y
            BY <3>2, <3>4
        <3>5. CASE y <= x
            <4>1. \A m \in X : m <= x
                BY <3>2, <3>3, <3>5
            <4>2. QED
                BY <2>2, <4>1
        <3>6. QED
            BY <3>3, <3>4, <3>5
    <2>5. QED
        BY <2>3, <2>4
<1>2. QED
    BY <1>1

\* The image of a finite set.
LEMMA ImageFinite ==
    ASSUME NEW S, IsFiniteSet(S), NEW g
    PROVE  IsFiniteSet({g[x] : x \in S})
<1> DEFINE T == {g[x] : x \in S}
           h == [x \in S |-> g[x]]
<1>1. h \in Surjection(S, T)
    BY DEF Surjection
<1>2. QED
    BY <1>1, FS_Surjection
-----------------------------------------------------------------------------
(* What the operators of the model return.                                 *)

\* Rows, tasks and bindings that stand for none.
LEMMA NothingTypes ==
    /\ NoValue \in Values
    /\ \A i \in Item : NoRow(i) \in Row
    /\ NoTask \in ItemBinding
    /\ Unbound \in Binding
    /\ NoView \in [Item -> Row]
    /\ NoFetch \in [Uid -> Task]
    /\ NoMerge \in [rows : [Item -> Row], bound : [Item -> ItemBinding], clock : Nat]
<1>1. NoValue \in Values
    <2>1. \E t \in Text : [text |-> t, checked |-> FALSE] \in Values
        BY TextAssumption DEF Values
    <2>2. QED
        BY <2>1 DEF NoValue
<1>2. Zero \in Stamp
    BY DEF Zero, Stamp
<1>3. \A i \in Item : NoRow(i) \in Row
    BY <1>1, <1>2 DEF NoRow, Row
<1>4. NoTask \in ItemBinding
    BY <1>1 DEF NoTask, ItemBinding
<1>5. Unbound \in Binding
    BY DEF Unbound, Binding
<1>6. NoFetch \in [Uid -> Task]
    BY <1>1 DEF NoFetch, Task
<1>7. QED
    BY <1>1, <1>3, <1>4, <1>5, <1>6 DEF NoView, NoMerge

\* newestLocalClock is the greatest clock of a row.
LEMMA NewestBounds ==
    ASSUME NEW r \in [Item -> Row]
    PROVE  /\ Newest(r) \in Nat
           /\ \A i \in Item : r[i].lifeAt.clock <= Newest(r)
           /\ \A i \in Item, f \in Field : r[i].at[f].clock <= Newest(r)
<1> DEFINE lives == [i \in Item |-> r[i].lifeAt.clock]
           texts == [i \in Item |-> r[i].at["text"].clock]
           marks == [i \in Item |-> r[i].at["checked"].clock]
           A == {lives[i] : i \in Item}
           B == {texts[i] : i \in Item}
           C == {marks[i] : i \in Item}
           clocks == {0} \union {r[i].lifeAt.clock : i \in Item}
                         \union {r[i].at[f].clock : i \in Item, f \in Field}
<1>1. \A i \in Item : /\ r[i].lifeAt \in Stamp /\ r[i].at["text"] \in Stamp
                      /\ r[i].at["checked"] \in Stamp
    BY DEF Row, Field
<1>2. clocks \subseteq Nat
    BY <1>1 DEF Stamp, Field
<1>3. clocks = {0} \union A \union B \union C
    <2>1. {r[i].lifeAt.clock : i \in Item} = A
        OBVIOUS
    <2> DEFINE D == {r[i].at[f].clock : i \in Item, f \in Field}
    <2>2. ASSUME NEW n
          PROVE  n \in D <=> n \in B \union C
        <3>1. n \in D <=> \E i \in Item, f \in Field : n = r[i].at[f].clock
            OBVIOUS
        <3>2. n \in B \union C
                <=> \E i \in Item : n = r[i].at["text"].clock \/ n = r[i].at["checked"].clock
            OBVIOUS
        <3>3. QED
            BY <3>1, <3>2 DEF Field
    <2>3. D = B \union C
        <3> HIDE DEF B, C, D
        <3>1. QED
            BY <2>2
    <2>4. clocks = {0} \union {r[i].lifeAt.clock : i \in Item} \union D
        OBVIOUS
    <2> HIDE DEF A, B, C, D, clocks
    <2>5. QED
        BY <2>1, <2>3, <2>4
<1>4. IsFiniteSet(clocks)
    <2>1. IsFiniteSet(Item)
        BY IdentityAssumption
    <2> HIDE DEF lives, texts, marks
    <2>2. IsFiniteSet(A) /\ IsFiniteSet(B) /\ IsFiniteSet(C)
        BY <2>1, ImageFinite
    <2> HIDE DEF A, B, C, clocks
    <2>3. IsFiniteSet({0})
        BY FS_Singleton
    <2>4. QED
        BY <1>3, <2>2, <2>3, FS_Union
<1>5. \E n \in clocks : \A m \in clocks : m <= n
    <2>1. 0 \in clocks
        OBVIOUS
    <2> HIDE DEF clocks
    <2>2. clocks \in SUBSET Nat /\ clocks # {}
        BY <1>2, <2>1
    <2>3. QED
        BY <1>4, <2>2, GreatestExists
<1>6. Newest(r) \in clocks /\ \A m \in clocks : m <= Newest(r)
    <2>1. Newest(r) = CHOOSE n \in clocks : \A m \in clocks : m <= n
        BY DEF Newest
    <2> HIDE DEF clocks
    <2>2. QED
        BY <1>5, <2>1
<1>7. \A i \in Item, f \in Field : /\ r[i].lifeAt.clock \in clocks
                                     /\ r[i].at[f].clock \in clocks
    OBVIOUS
<1> HIDE DEF clocks
<1>8. Newest(r) \in Nat
    BY <1>2, <1>6
<1>9. ASSUME NEW i \in Item
      PROVE  r[i].lifeAt.clock <= Newest(r)
    BY <1>6, <1>7 DEF Field
<1>10. ASSUME NEW i \in Item, NEW f \in Field
       PROVE  r[i].at[f].clock <= Newest(r)
    <2>1. r[i].at[f].clock \in clocks
        BY <1>7
    <2>2. QED
        BY <1>6, <2>1
<1>11. QED
    BY <1>8, <1>9, <1>10

\* The rows after the completion cascade are rows, and their clock is not
\* behind it.
LEMMA CascadeType ==
    ASSUME NEW r \in [Item -> Row], NEW base \in Nat
    PROVE  /\ Cascade(r, base).rows \in [Item -> Row]
           /\ Cascade(r, base).changes \subseteq LocalChange
           /\ Cascade(r, base).clock \in Nat /\ base <= Cascade(r, base).clock
           /\ \A i \in Item :
                 /\ Cascade(r, base).rows[i].life = r[i].life
                 /\ Cascade(r, base).rows[i].lifeAt = r[i].lifeAt
                 /\ Cascade(r, base).rows[i].origin = r[i].origin
                 /\ Cascade(r, base).rows[i].val.text = r[i].val.text
                 /\ Cascade(r, base).rows[i].at["text"] = r[i].at["text"]
                 /\ \/ Cascade(r, base).rows[i] = r[i]
                    \/ /\ i \in OutOfStep(r)
                       /\ Cascade(r, base).rows[i].at["checked"].clock <= Cascade(r, base).clock
<1> DEFINE out == OutOfStep(r)
           stamp(p) == base + Cardinality({q \in out : q <= p})
           row(i) == IF i \in out
                     THEN [r[i] EXCEPT !.val.checked = ~@,
                                       !.at["checked"] = [clock |-> stamp(i), actor |-> Device]]
                     ELSE r[i]
<1>1. out \subseteq Item /\ IsFiniteSet(out)
    BY IdentityAssumption, FS_Subset DEF OutOfStep, Active
<1>2. Cardinality(out) \in Nat
    BY <1>1, FS_CardinalityType
<1>3. ASSUME NEW p
      PROVE  stamp(p) \in Nat /\ stamp(p) <= base + Cardinality(out)
    <2> DEFINE S == {q \in out : q <= p}
    <2>1. S \in SUBSET out
        OBVIOUS
    <2>2. IsFiniteSet(S) /\ Cardinality(S) <= Cardinality(out)
        BY <1>1, <2>1, FS_Subset
    <2>3. Cardinality(S) \in Nat
        BY <2>2, FS_CardinalityType
    <2> HIDE DEF S
    <2>4. QED
        BY <1>2, <2>2, <2>3 DEF S
<1>4. /\ Cascade(r, base).rows = [i \in Item |-> row(i)]
      /\ Cascade(r, base).changes = {[item |-> p, clock |-> stamp(p)] : p \in out}
      /\ Cascade(r, base).clock = base + Cardinality(out)
    BY DEF Cascade
<1> HIDE DEF out, stamp
<1>5. ASSUME NEW i \in Item
      PROVE  /\ row(i) \in Row
             /\ row(i).life = r[i].life /\ row(i).lifeAt = r[i].lifeAt
             /\ row(i).origin = r[i].origin
             /\ row(i).val.text = r[i].val.text /\ row(i).at["text"] = r[i].at["text"]
             /\ \/ row(i) = r[i]
                \/ i \in out /\ row(i).at["checked"].clock <= base + Cardinality(out)
    <2>1. CASE i \notin out
        BY <2>1
    <2>2. CASE i \in out
        <3>1. [clock |-> stamp(i), actor |-> Device] \in Stamp
            BY <1>3 DEF Stamp, Device
        <3>2. r[i].val.checked \in BOOLEAN /\ r[i] \in Row
            BY DEF Row, Values
        <3>3. QED
            BY <1>3, <2>2, <3>1, <3>2 DEF Row, Values, Field
    <2>3. QED
        BY <2>1, <2>2
<1>6. {[item |-> p, clock |-> stamp(p)] : p \in out} \subseteq LocalChange
    BY <1>1, <1>3 DEF LocalChange
<1> HIDE DEF row
<1>7. QED
    BY <1>1, <1>2, <1>4, <1>5, <1>6 DEF out
-----------------------------------------------------------------------------
(* The parts of the type invariant.                                        *)

Tables ==
    /\ clock \in Nat
    /\ rows \in [Item -> Row]
    /\ pending \subseteq LocalChange
    /\ bound \in [Item -> ItemBinding]
    /\ coll \in Binding

Server ==
    /\ tasks \in [Uid -> Task]
    /\ access \in {"writable", "readonly", "gone"}
    /\ etags \in Nat

Locked ==
    /\ mutex \in Proc \union {Nobody}
    /\ pc \in [Proc -> Labels]
    /\ \A p \in Proc : pc[p] \in Waiting <=> mutex # p

Bounded == edits \in 0 .. MaxEdits /\ faults \in 0 .. MaxFaults

LEMMA TypeParts ==
    /\ TypeInv <=> Tables /\ Server /\ Locked /\ copy \in [Proc -> Binding] /\ LocalsOK /\ Bounded
    /\ TypeInv' <=> /\ Tables' /\ Server' /\ Locked' /\ (copy \in [Proc -> Binding])'
                    /\ LocalsOK' /\ Bounded'
BY DEF TypeInv, TypeOK, Tables, Server, Locked, Bounded

\* Whoever is past the point where the mutex is taken holds it, and whoever
\* holds it is past that point.
LEMMA Holder ==
    ASSUME Locked, NEW p \in Proc
    PROVE  /\ pc[p] \in Labels
           /\ pc[p] \notin Waiting => mutex = p
           /\ pc[p] \in Syncing \union Resolving => mutex = p
           /\ mutex = p => pc[p] \in Syncing \union Resolving
           /\ mutex = Nobody => pc[p] \in Waiting
           /\ \A q \in Proc : q # p /\ pc[p] \notin Waiting => pc[q] \in Waiting
BY ProcAssumption DEF Locked, Labels, Waiting, Syncing, Resolving

\* The mutex is kept, taken, or not concerned.
LEMMA LockMoves ==
    ASSUME Locked, NEW p \in Proc, NEW l \in Labels, Goto(p, l),
           \/ mutex = p /\ mutex' = p /\ l \in Syncing \union Resolving
           \/ mutex = Nobody /\ mutex' = p /\ l \in Syncing \union Resolving
           \/ pc[p] \in Waiting /\ mutex' = mutex /\ l \in Waiting
    PROVE  Locked'
<1>1. pc' \in [Proc -> Labels] /\ mutex' \in Proc \union {Nobody}
    BY DEF Locked, Goto
<1>2. ASSUME NEW q \in Proc
      PROVE  pc'[q] \in Waiting <=> mutex' # q
    <2>1. l \in Syncing \union Resolving => l \notin Waiting
        BY DEF Syncing, Resolving, Waiting
    <2>2. pc'[q] = IF q = p THEN l ELSE pc[q]
        BY DEF Locked, Goto
    <2>3. QED
        BY <2>1, <2>2, ProcAssumption DEF Locked
<1>3. QED
    BY <1>1, <1>2 DEF Locked

\* The end of a synchronization.
LEMMA LeaveTypes ==
    ASSUME Locked, copy \in [Proc -> Binding], NEW p \in Proc, mutex \in {p, Nobody}, Leave(p)
    PROVE  Locked' /\ (copy \in [Proc -> Binding])' /\ LocalsOK'
<1>1. copy' \in [Proc -> Binding]
    BY NothingTypes DEF Leave
<1>2. LocalsOK'
    BY NothingTypes DEF Leave, LocalsOK
<1>3. pc' \in [Proc -> Labels] /\ mutex' = Nobody
    BY DEF Leave, Goto, Locked, Labels, Waiting
<1>4. ASSUME NEW q \in Proc
      PROVE  pc'[q] \in Waiting /\ mutex' # q
    <2>1. pc'[q] = IF q = p THEN "idle" ELSE pc[q]
        BY DEF Locked, Goto, Leave
    <2>2. QED
        BY <1>3, <2>1, ProcAssumption DEF Locked, Waiting
<1>5. QED
    BY <1>1, <1>2, <1>3, <1>4 DEF Locked
-----------------------------------------------------------------------------
(* The edits.                                                              *)

\* One edit and its cascade; the clock advances past every stamp it draws.
LEMMA EditTypes ==
    ASSUME TypeInv, NEW op, NEW i \in Item, NEW r \in Row, Edit(op, i, r)
    PROVE  /\ TypeInv'
           /\ clock + 1 <= clock'
<1> DEFINE all == [rows EXCEPT ![i] = r]
<1>1. all \in [Item -> Row] /\ clock + 1 \in Nat
    BY TypeParts DEF Tables
<1>2. /\ rows' = Cascade(all, clock + 1).rows
      /\ clock' = Cascade(all, clock + 1).clock
      /\ pending' = pending \union Cascade(all, clock + 1).changes
                            \union {[item |-> i, clock |-> clock + 1]}
    BY DEF Edit
<1> HIDE DEF all
<1>3. /\ rows' \in [Item -> Row] /\ clock' \in Nat /\ clock + 1 <= clock'
      /\ Cascade(all, clock + 1).changes \subseteq LocalChange
    BY <1>1, <1>2, CascadeType
<1>4. [item |-> i, clock |-> clock + 1] \in LocalChange
    BY <1>1 DEF LocalChange
<1>5. pending' \subseteq LocalChange
    BY <1>2, <1>3, <1>4, TypeParts DEF Tables
<1>6. /\ UNCHANGED <<bound, coll, server, mutex, pc, copy, progress, faults>>
      /\ edits < MaxEdits /\ edits' = edits + 1
    BY DEF Edit
<1>7. Tables'
    BY <1>3, <1>5, <1>6, TypeParts DEF Tables
<1>8. Server' /\ Locked' /\ (copy \in [Proc -> Binding])'
    BY <1>6, TypeParts DEF Server, Locked, server
<1>9. LocalsOK'
    BY <1>6, TypeParts DEF LocalsOK, progress
<1>10. Bounded'
    BY <1>6, TypeParts, LimitAssumption DEF Bounded
<1>11. QED
    BY <1>3, <1>7, <1>8, <1>9, <1>10, TypeParts

\* Each edit changes one row, and stamps what it changes with the next clock;
\* the row it leaves is on the list or deleted.
EditOf(i, r) == \E op : Edit(op, i, r)

Edited(i, r) ==
    /\ \A f \in Field : r.at[f] = Now \/ r.at[f] = rows[i].at[f]
    /\ r.val.text = rows[i].val.text \/ r.at["text"] = Now
    /\ r.val.checked = rows[i].val.checked \/ r.at["checked"] = Now
    /\ r.life # "NONE"
    /\ \/ Fresh(i) /\ r.life = "ACTIVE" /\ r.lifeAt = Zero
       \/ r.life = rows[i].life /\ r.lifeAt = rows[i].lifeAt
       \/ r.lifeAt = Now
    /\ \/ Fresh(i) /\ r.origin = i /\ r.at["text"] = Now /\ r.at["checked"] = Now
       \/ rows[i].life # "NONE" /\ r.origin = rows[i].origin

LEMMA EditCases ==
    ASSUME TypeInv, AddItem \/ SetText \/ SetChecked \/ DeleteItem \/ RestoreItem
    PROVE  \E i \in Item : \E r \in Row : EditOf(i, r) /\ Edited(i, r)
<1>1. Now \in Stamp /\ rows \in [Item -> Row]
    BY TypeParts DEF Now, Stamp, Device, Tables
<1>2. CASE AddItem
    <2>1. PICK i \in NextItem, t \in Text :
            Edit("ADD", i, [NoRow(i) EXCEPT !.life = "ACTIVE",
                    !.val = [text |-> t, checked |-> FALSE], !.at = [f \in Field |-> Now]])
        BY <1>2 DEF AddItem
    <2> DEFINE r == [NoRow(i) EXCEPT !.life = "ACTIVE",
                    !.val = [text |-> t, checked |-> FALSE], !.at = [f \in Field |-> Now]]
    <2>2. i \in Item
        BY DEF NextItem, First
    <2>3. NoRow(i) \in Row
        BY <2>2, NothingTypes
    <2>4. r \in Row /\ \A f \in Field : r.at[f] = Now
        BY <2>3, <1>1 DEF Row, Values, Field
    <2>5. EditOf(i, r)
        BY <2>1 DEF EditOf
    <2>6. /\ r.at["text"] = Now /\ r.at["checked"] = Now /\ r.origin = i /\ Fresh(i)
          /\ r.life = "ACTIVE" /\ r.lifeAt = Zero
        BY <2>4 DEF Field, NoRow, NextItem, First
    <2> HIDE DEF r
    <2>7. Edited(i, r)
        BY <2>4, <2>6 DEF Edited
    <2>8. QED
        BY <2>2, <2>4, <2>5, <2>7
<1>3. CASE SetText
    <2>1. PICK i \in Active(rows) : \E t \in Text \ {rows[i].val.text} :
            Edit("SET_TEXT", i, [rows[i] EXCEPT !.val.text = t, !.at["text"] = Now])
        BY <1>3 DEF SetText
    <2>2. PICK t \in Text \ {rows[i].val.text} :
            Edit("SET_TEXT", i, [rows[i] EXCEPT !.val.text = t, !.at["text"] = Now])
        BY <2>1
    <2> DEFINE r == [rows[i] EXCEPT !.val.text = t, !.at["text"] = Now]
    <2>3. i \in Item /\ rows[i] \in Row /\ rows[i].life # "NONE"
        BY <1>1 DEF Active
    <2>4. r \in Row /\ (\A f \in Field : r.at[f] = Now \/ r.at[f] = rows[i].at[f])
              /\ r.at["text"] = Now /\ r.origin = rows[i].origin
              /\ r.val.checked = rows[i].val.checked
              /\ r.life = rows[i].life /\ r.lifeAt = rows[i].lifeAt
        BY <2>3, <1>1 DEF Row, Values, Field
    <2>5. EditOf(i, r)
        BY <2>2 DEF EditOf
    <2> HIDE DEF r
    <2>6. Edited(i, r)
        BY <2>3, <2>4 DEF Edited
    <2>7. QED
        BY <2>3, <2>4, <2>5, <2>6
<1>4. CASE SetChecked
    <2>1. PICK i \in Active(rows) :
            Edit("SET_CHECKED", i, [rows[i] EXCEPT !.val.checked = ~@, !.at["checked"] = Now])
        BY <1>4 DEF SetChecked
    <2> DEFINE r == [rows[i] EXCEPT !.val.checked = ~@, !.at["checked"] = Now]
    <2>2. i \in Item /\ rows[i] \in Row /\ rows[i].life # "NONE"
        BY <1>1 DEF Active
    <2>3. r \in Row /\ (\A f \in Field : r.at[f] = Now \/ r.at[f] = rows[i].at[f])
              /\ r.val.text = rows[i].val.text /\ r.origin = rows[i].origin
              /\ r.at["checked"] = Now
              /\ r.life = rows[i].life /\ r.lifeAt = rows[i].lifeAt
        BY <2>2, <1>1 DEF Row, Values, Field
    <2>4. EditOf(i, r)
        BY <2>1 DEF EditOf
    <2> HIDE DEF r
    <2>5. Edited(i, r)
        BY <2>2, <2>3 DEF Edited
    <2>6. QED
        BY <2>2, <2>3, <2>4, <2>5
<1>5. CASE DeleteItem
    <2>1. PICK i \in Active(rows) :
            Edit("DELETE", i, [rows[i] EXCEPT !.life = "DELETED", !.lifeAt = Now])
        BY <1>5 DEF DeleteItem
    <2> DEFINE r == [rows[i] EXCEPT !.life = "DELETED", !.lifeAt = Now]
    <2>2. i \in Item /\ rows[i] \in Row /\ rows[i].life # "NONE"
        BY <1>1 DEF Active
    <2>3. r \in Row /\ (\A f \in Field : r.at[f] = rows[i].at[f])
              /\ r.val.text = rows[i].val.text /\ r.origin = rows[i].origin
              /\ r.val.checked = rows[i].val.checked
              /\ r.life # "NONE" /\ r.lifeAt = Now
        BY <2>2, <1>1 DEF Row
    <2>4. EditOf(i, r)
        BY <2>1 DEF EditOf
    <2> HIDE DEF r
    <2>5. Edited(i, r)
        BY <2>2, <2>3 DEF Edited
    <2>6. QED
        BY <2>2, <2>3, <2>4, <2>5
<1>6. CASE RestoreItem
    <2>1. PICK i \in Item :
            /\ rows[i].life = "DELETED"
            /\ Edit("RESTORE", i, [rows[i] EXCEPT !.life = "ACTIVE", !.lifeAt = Now])
        BY <1>6 DEF RestoreItem
    <2> DEFINE r == [rows[i] EXCEPT !.life = "ACTIVE", !.lifeAt = Now]
    <2>2. rows[i] \in Row /\ rows[i].life # "NONE"
        BY <1>1, <2>1
    <2>3. r \in Row /\ (\A f \in Field : r.at[f] = rows[i].at[f])
              /\ r.val.text = rows[i].val.text /\ r.origin = rows[i].origin
              /\ r.val.checked = rows[i].val.checked
              /\ r.life # "NONE" /\ r.lifeAt = Now
        BY <2>2, <1>1 DEF Row
    <2>4. EditOf(i, r)
        BY <2>1 DEF EditOf
    <2> HIDE DEF r
    <2>5. Edited(i, r)
        BY <2>2, <2>3 DEF Edited
    <2>6. QED
        BY <2>3, <2>4, <2>5
<1>7. QED
    BY <1>2, <1>3, <1>4, <1>5, <1>6
-----------------------------------------------------------------------------
(* Each step keeps the type invariant.                                     *)

\* What a step leaves alone keeps its part.
LEMMA SameParts ==
    /\ Tables /\ UNCHANGED <<device, bound, coll>> => Tables'
    /\ Server /\ UNCHANGED server => Server'
    /\ Locked /\ UNCHANGED <<mutex, pc>> => Locked'
    /\ LocalsOK /\ UNCHANGED progress => LocalsOK'
    /\ Bounded /\ UNCHANGED <<edits, faults>> => Bounded'
BY DEF Tables, Server, Locked, LocalsOK, Bounded, device, server, progress

LEMMA OtherClientTypes ==
    ASSUME TypeInv, NEW op, NEW u \in Uid, NEW task \in Task, OtherClient(op, u, task)
    PROVE  TypeInv'
<1>1. /\ UNCHANGED <<device, bound, coll, access, mutex, pc, copy, progress, faults>>
      /\ tasks' = [tasks EXCEPT ![u] = task] /\ etags' = etags + 1
      /\ edits < MaxEdits /\ edits' = edits + 1
    BY DEF OtherClient
<1>2. Server'
    BY <1>1, TypeParts DEF Server
<1>3. Bounded'
    BY <1>1, TypeParts, LimitAssumption DEF Bounded
<1>4. QED
    BY <1>1, <1>2, <1>3, TypeParts, SameParts

LEMMA OthersTypes ==
    ASSUME TypeInv, Others
    PROVE  TypeInv'
<1>0. tasks \in [Uid -> Task] /\ etags \in Nat
    BY TypeParts DEF Server
<1>1. CASE RemoteAdd
    <2>1. PICK u \in NextUid, t \in Text :
            OtherClient("REMOTE_ADD", u,
                [etag |-> etags + 1, val |-> [text |-> t, checked |-> FALSE], origin |-> u])
        BY <1>1 DEF RemoteAdd
    <2> DEFINE task == [etag |-> etags + 1, val |-> [text |-> t, checked |-> FALSE], origin |-> u]
    <2>2. u \in Uid
        BY DEF NextUid, First
    <2>3. task \in Task
        BY <2>2, <1>0 DEF Task, Values
    <2>4. QED
        BY <2>1, <2>2, <2>3, OtherClientTypes
<1>2. CASE RemoteSet
    <2>1. PICK u \in OnServer, v \in Values :
            OtherClient("REMOTE_SET", u, [tasks[u] EXCEPT !.etag = etags + 1, !.val = v])
        BY <1>2 DEF RemoteSet
    <2> DEFINE task == [tasks[u] EXCEPT !.etag = etags + 1, !.val = v]
    <2>2. u \in Uid /\ tasks[u] \in Task /\ etags + 1 \in Nat
        BY <1>0 DEF OnServer
    <2>3. task \in Task
        BY <2>2 DEF Task
    <2>4. QED
        BY <2>1, <2>2, <2>3, OtherClientTypes
<1>3. CASE RemoteDelete
    <2>1. PICK u \in OnServer : OtherClient("REMOTE_DELETE", u, [tasks[u] EXCEPT !.etag = 0])
        BY <1>3 DEF RemoteDelete
    <2>2. u \in Uid
        BY DEF OnServer
    <2>3. [tasks[u] EXCEPT !.etag = 0] \in Task
        BY <2>2, <1>0 DEF Task
    <2>4. QED
        BY <2>1, <2>2, <2>3, OtherClientTypes
<1>4. CASE Reshare
    <2>1. Server'
        BY <1>0, <1>4 DEF Server, Reshare
    <2>2. Bounded'
        BY <1>4, TypeParts, LimitAssumption DEF Bounded, Reshare
    <2>3. UNCHANGED <<device, bound, coll, mutex, pc, copy, progress>>
        BY <1>4 DEF Reshare
    <2>4. QED
        BY <2>1, <2>2, <2>3, TypeParts, SameParts
<1>5. QED
    BY <1>1, <1>2, <1>3, <1>4 DEF Others

\* The calls of the adapter, up to the point where they wait for the mutex.
Calls(p) == Sync(p) \/ Publish(p) \/ Share(p) \/ LocalCopy(p) \/ Keep(p) \/ Discard(p)

CallLabels == {"queued", "publishing", "sharing", "copying", "keeping", "discarding"}

LEMMA CallCases ==
    ASSUME NEW p, Calls(p)
    PROVE  \E op, l : l \in CallLabels /\ Call(p, op, l)
<1>1. /\ "queued" \in CallLabels /\ "publishing" \in CallLabels /\ "sharing" \in CallLabels
      /\ "copying" \in CallLabels /\ "keeping" \in CallLabels /\ "discarding" \in CallLabels
    BY DEF CallLabels
<1>2. CASE Sync(p)
    <2>1. PICK op : Call(p, op, "queued")
        BY <1>2 DEF Sync
    <2>2. QED
        BY <1>1, <2>1
<1>3. CASE Publish(p)
    <2>1. PICK op : Call(p, op, "publishing")
        BY <1>3 DEF Publish
    <2>2. QED
        BY <1>1, <2>1
<1>4. CASE Share(p)
    <2>1. PICK op : Call(p, op, "sharing")
        BY <1>4 DEF Share
    <2>2. QED
        BY <1>1, <2>1
<1>5. CASE LocalCopy(p)
    <2>1. PICK op : Call(p, op, "copying")
        BY <1>5 DEF LocalCopy
    <2>2. QED
        BY <1>1, <2>1
<1>6. CASE Keep(p)
    <2>1. PICK op : Call(p, op, "keeping")
        BY <1>6 DEF Keep
    <2>2. QED
        BY <1>1, <2>1
<1>7. CASE Discard(p)
    <2>1. PICK op : Call(p, op, "discarding")
        BY <1>7 DEF Discard
    <2>2. QED
        BY <1>1, <2>1
<1>8. QED
    BY <1>2, <1>3, <1>4, <1>5, <1>6, <1>7 DEF Calls

LEMMA CallTypes ==
    ASSUME TypeInv, NEW p \in Proc, Calls(p)
    PROVE  TypeInv'
<1>1. PICK op, l : l \in CallLabels /\ Call(p, op, l)
    BY CallCases
<1>2. /\ pc[p] = "idle" /\ Goto(p, l) /\ copy' = [copy EXCEPT ![p] = coll]
      /\ UNCHANGED <<device, bound, coll, server, mutex, progress, edits, faults>>
    BY <1>1 DEF Call
<1>3. pc[p] \in Waiting /\ l \in Waiting /\ l \in Labels
    BY <1>1, <1>2 DEF Waiting, CallLabels, Labels
<1>4. Locked'
    BY <1>2, <1>3, TypeParts, LockMoves
<1>5. copy' \in [Proc -> Binding]
    BY <1>2, TypeParts DEF Tables
<1>6. QED
    BY <1>2, <1>4, <1>5, TypeParts, SameParts

LEMMA StopTypes ==
    ASSUME TypeInv, Stop
    PROVE  TypeInv'
<1>1. UNCHANGED <<device, bound, server, mutex, pc, copy, progress, edits, faults>>
    BY DEF Stop
<1>2. Tables'
    BY <1>1, TypeParts DEF Stop, Tables, device, Binding
<1>3. QED
    BY <1>1, <1>2, TypeParts, SameParts

LEMMA ResumeTypes ==
    ASSUME TypeInv, NEW p \in Proc, Resume(p)
    PROVE  TypeInv'
<1>1. /\ UNCHANGED <<device, bound, server, mutex, progress, edits, faults>>
      /\ pc[p] = "idle" /\ Goto(p, "queued")
    BY DEF Resume
<1>2. Tables'
    BY <1>1, TypeParts DEF Resume, Tables, device, Binding
<1>3. Locked'
    <2>1. "idle" \in Waiting /\ "queued" \in Waiting /\ "queued" \in Labels
        BY DEF Waiting, Labels
    <2>2. QED
        BY <1>1, <2>1, TypeParts, LockMoves
<1>4. copy' \in [Proc -> Binding]
    BY <1>2, TypeParts DEF Resume, Tables
<1>5. QED
    BY <1>1, <1>2, <1>3, <1>4, TypeParts, SameParts

LEMMA BeginTypes ==
    ASSUME TypeInv, NEW p \in Proc, Begin(p)
    PROVE  TypeInv'
<1>1. /\ UNCHANGED <<device, bound, coll, server, view, todo, fetched, merge, edits, faults>>
      /\ mutex = Nobody
    BY DEF Begin
<1>2. "discover" \in Labels /\ "discover" \in Syncing /\ "idle" \in Labels /\ "idle" \in Waiting
    BY DEF Labels, Syncing, Waiting
<1>3. pc[p] \in Waiting
    BY <1>1, TypeParts, Holder
<1>4. Persisted(p) \in Binding
    BY TypeParts DEF Persisted, Tables
<1>5. Locked'
    BY <1>1, <1>2, <1>3, TypeParts, LockMoves DEF Begin
<1>6. (copy \in [Proc -> Binding])'
    BY <1>4, TypeParts, NothingTypes DEF Begin
<1>7. stage' \in {"sync", "publish", stage}
    BY DEF Begin
<1>8. LocalsOK'
    BY <1>1, <1>7, TypeParts DEF LocalsOK
<1>9. QED
    BY <1>1, <1>5, <1>6, <1>8, TypeParts, SameParts

LEMMA RefreshedType ==
    ASSUME NEW c \in Binding
    PROVE  Refreshed(c) \in Binding
BY DEF Refreshed, Binding

LEMMA DiscoverTypes ==
    ASSUME TypeInv, NEW p \in Proc, Discover(p)
    PROVE  TypeInv'
<1>1. /\ UNCHANGED <<device, bound, server, mutex, progress, edits, faults>>
      /\ pc[p] = "discover" /\ Goto(p, "quarantine")
    BY DEF Discover
<1>2. mutex = p /\ "quarantine" \in Labels /\ "quarantine" \in Syncing
    BY <1>1, TypeParts, Holder DEF Syncing, Labels
<1>3. Locked'
    BY <1>1, <1>2, TypeParts, LockMoves
<1>4. copy[p] \in Binding /\ Refreshed(copy[p]) \in Binding
    BY TypeParts, RefreshedType
<1>5. (copy \in [Proc -> Binding])'
    BY <1>4, TypeParts DEF Discover
<1>6. Tables'
    BY <1>1, <1>4, TypeParts DEF Discover, Tables, device
<1>7. QED
    BY <1>1, <1>3, <1>5, <1>6, TypeParts, SameParts

LEMMA QuarantineTypes ==
    ASSUME TypeInv, NEW p \in Proc, Quarantine(p)
    PROVE  TypeInv'
<1> DEFINE c == [copy[p] EXCEPT !.blocked = Quarantined(copy[p])]
<1>1. /\ UNCHANGED <<device, bound, server, edits, faults>> /\ pc[p] = "quarantine"
      /\ coll' = IF c # copy[p] THEN c ELSE coll
    BY DEF Quarantine
<1>2. c \in Binding
    <2>1. copy[p] \in Binding
        BY TypeParts
    <2>2. Quarantined(copy[p]) \in BOOLEAN
        BY <2>1 DEF Quarantined, Binding
    <2>3. QED
        BY <2>1, <2>2 DEF Binding
<1>3. Tables'
    BY <1>1, <1>2, TypeParts DEF Tables, device
<1>4. mutex = p
    BY <1>1, TypeParts, Holder DEF Syncing
<1>5. Locked' /\ (copy \in [Proc -> Binding])' /\ LocalsOK'
    <2>1. CASE Leave(p)
        BY <1>4, <2>1, TypeParts, LeaveTypes
    <2>2. CASE ~Leave(p)
        <3>1. /\ mutex' = mutex
              /\ copy' = [copy EXCEPT ![p] = c]
              /\ stage' = CASE c.blocked -> "blockedPull"
                            [] ~c.blocked /\ ~c.writable -> "readOnlyPull"
                            [] ~c.blocked /\ c.writable ->
                                 IF stage = "publish" THEN "publish" ELSE "push"
              /\ Goto(p, IF c.blocked \/ ~c.writable THEN "fetch" ELSE "push")
              /\ UNCHANGED <<view, todo, fetched, merge>>
            BY <2>2 DEF Quarantine
        <3>2. /\ "fetch" \in Labels /\ "push" \in Labels
              /\ "fetch" \in Syncing /\ "push" \in Syncing
            BY DEF Labels, Syncing
        <3>3. Locked'
            BY <1>4, <3>1, <3>2, TypeParts, LockMoves
        <3>4. copy' \in [Proc -> Binding]
            BY <1>2, <3>1, TypeParts
        <3>5. stage' \in {"blockedPull", "readOnlyPull", "publish", "push"}
            BY <1>2, <3>1 DEF Binding
        <3>6. QED
            BY <3>1, <3>3, <3>4, <3>5, TypeParts DEF LocalsOK
    <2>3. QED
        BY <2>1, <2>2
<1>6. QED
    BY <1>1, <1>3, <1>5, TypeParts, SameParts

LEMMA PushTypes ==
    ASSUME TypeInv, NEW p \in Proc, Push(p)
    PROVE  TypeInv'
<1>1. /\ UNCHANGED <<device, bound, coll, server, mutex, copy, stage, fetched, merge, edits, faults>>
      /\ pc[p] = "push" /\ Goto(p, "put") /\ view' = rows /\ todo' \subseteq Item
    BY DEF Push
<1>2. mutex = p /\ "put" \in Labels /\ "put" \in Syncing
    BY <1>1, TypeParts, Holder DEF Syncing, Labels
<1>3. Locked'
    BY <1>1, <1>2, TypeParts, LockMoves
<1>4. LocalsOK'
    BY <1>1, TypeParts DEF LocalsOK, Tables
<1>5. QED
    BY <1>1, <1>3, <1>4, TypeParts, SameParts

\* A conflict goes back to a pull or ends the synchronization.
LEMMA ConflictTypes ==
    ASSUME TypeInv, NEW p \in Proc, mutex = p, Conflict(p)
    PROVE  Locked' /\ (copy \in [Proc -> Binding])' /\ LocalsOK'
<1>1. CASE stage = "push"
    <2>1. /\ stage' = "retryPull" /\ view' = NoView /\ todo' = {} /\ Goto(p, "fetch")
          /\ UNCHANGED <<mutex, copy, fetched, merge>>
        BY <1>1 DEF Conflict
    <2>2. "fetch" \in Labels /\ "fetch" \in Syncing
        BY DEF Labels, Syncing
    <2>3. Locked'
        BY <2>1, <2>2, TypeParts, LockMoves
    <2>4. QED
        BY <2>1, <2>3, TypeParts, NothingTypes DEF LocalsOK
<1>2. CASE stage # "push"
    <2>1. Leave(p)
        BY <1>2 DEF Conflict
    <2>2. QED
        BY <2>1, TypeParts, LeaveTypes
<1>3. QED
    BY <1>1, <1>2

\* A reply is stored next.
LEMMA ReplyTypes ==
    ASSUME TypeInv, NEW p \in Proc, mutex = p, NEW i \in Item, NEW b \in ItemBinding,
           Reply(p, i, b)
    PROVE  /\ Locked' /\ (copy \in [Proc -> Binding])' /\ LocalsOK'
           /\ UNCHANGED <<stage, copy, faults>> /\ pc' = [pc EXCEPT ![p] = "store"]
<1>1. /\ merge' = [merge EXCEPT !.bound[i] = b] /\ Goto(p, "store")
      /\ UNCHANGED <<mutex, copy, stage, view, todo, fetched, faults>>
    BY DEF Reply
<1>2. "store" \in Labels /\ "store" \in Syncing
    BY DEF Labels, Syncing
<1>3. Locked'
    BY <1>1, <1>2, TypeParts, LockMoves
<1>4. LocalsOK'
    <2>1. merge \in [rows : [Item -> Row], bound : [Item -> ItemBinding], clock : Nat]
        BY TypeParts DEF LocalsOK
    <2>2. merge' \in [rows : [Item -> Row], bound : [Item -> ItemBinding], clock : Nat]
        BY <1>1, <2>1
    <2>3. QED
        BY <1>1, <2>2, TypeParts DEF LocalsOK
<1>5. QED
    BY <1>1, <1>3, <1>4, TypeParts DEF Goto

LEMMA ReplyLostTypes ==
    ASSUME TypeInv, NEW p \in Proc, mutex = p, ReplyLost(p)
    PROVE  Locked' /\ (copy \in [Proc -> Binding])' /\ LocalsOK' /\ faults' \in 0 .. MaxFaults
<1>1. faults' \in 0 .. MaxFaults /\ Leave(p)
    BY TypeParts, LimitAssumption DEF ReplyLost, Bounded
<1>2. QED
    BY <1>1, TypeParts, LeaveTypes

\* The task a row is written to.
LEMMA TaskOfType ==
    ASSUME TypeInv, NEW i \in Item, bound[i] = NoTask => NextUid # {}
    PROVE  TaskOf(i) \in Uid \union {0} /\ (bound[i] = NoTask => TaskOf(i) \in Uid)
<1>1. NextUid \subseteq Uid
    BY DEF NextUid, First
<1>2. bound[i] \in ItemBinding
    BY TypeParts DEF Tables
<1>3. QED
    BY <1>1, <1>2 DEF TaskOf, ItemBinding

\* What a PUT or a DELETE does.
Answer(p, i) ==
    \/ Leave(p) /\ UNCHANGED <<tasks, etags, access, faults>>
    \/ Conflict(p) /\ UNCHANGED <<tasks, etags, access, faults>>
    \/ /\ tasks' \in [Uid -> Task] /\ etags' \in Nat /\ access' = access
       /\ (\E b \in ItemBinding : Reply(p, i, b)) \/ ReplyLost(p)

LEMMA AnswerTypes ==
    ASSUME TypeInv, NEW p \in Proc, mutex = p, NEW i \in Item, Answer(p, i),
           UNCHANGED <<device, bound, coll, edits>>
    PROVE  TypeInv'
<1>1. Tables'
    BY TypeParts, SameParts
<1>2. Server'
    BY TypeParts DEF Server, Answer
<1>3. /\ Locked' /\ (copy \in [Proc -> Binding])' /\ LocalsOK'
      /\ faults' \in 0 .. MaxFaults
    <2>1. faults \in 0 .. MaxFaults
        BY TypeParts DEF Bounded
    <2>2. CASE Leave(p) /\ faults' = faults
        BY <2>1, <2>2, TypeParts, LeaveTypes
    <2>3. CASE Conflict(p) /\ faults' = faults
        BY <2>1, <2>3, ConflictTypes
    <2>4. ASSUME NEW b \in ItemBinding, Reply(p, i, b)
          PROVE  /\ Locked' /\ (copy \in [Proc -> Binding])' /\ LocalsOK'
                 /\ faults' \in 0 .. MaxFaults
        BY <2>1, <2>4, ReplyTypes
    <2>5. CASE ReplyLost(p)
        BY <2>5, ReplyLostTypes
    <2>6. QED
        BY <2>2, <2>3, <2>4, <2>5 DEF Answer
<1>4. Bounded'
    BY <1>3, TypeParts DEF Bounded
<1>5. QED
    BY <1>1, <1>2, <1>3, <1>4, TypeParts

\* A PUT answers one row.
LEMMA PutAnswers ==
    ASSUME TypeInv, NEW p \in Proc, Put(p)
    PROVE  /\ pc[p] = "put" /\ UNCHANGED <<device, bound, coll, edits>>
           /\ \E i \in todo : Answer(p, i)
<1>1. pc[p] = "put" /\ UNCHANGED <<device, bound, coll, edits>>
    BY DEF Put
<1>2. /\ view \in [Item -> Row] /\ todo \subseteq Item /\ tasks \in [Uid -> Task] /\ etags \in Nat
      /\ bound \in [Item -> ItemBinding]
    BY TypeParts DEF LocalsOK, Server, Tables
<1> DEFINE Stored(i, e) == [uid |-> TaskOf(i), etag |-> e, base |-> view[i].val, gone |-> FALSE]
           written(i) == [etag |-> etags + 1, val |-> view[i].val, origin |-> view[i].origin]
<1>3. PICK i \in todo :
        /\ bound[i] = NoTask => NextUid # {}
        /\ \/ Leave(p) /\ UNCHANGED <<server, faults, delivered>>
           \/ Conflict(p) /\ UNCHANGED <<server, faults, delivered>>
           \/ /\ tasks' = [tasks EXCEPT ![TaskOf(i)] = written(i)]
              /\ etags' = etags + 1 /\ UNCHANGED access
              /\ \/ Reply(p, i, Stored(i, etags + 1))
                 \/ Reply(p, i, Stored(i, bound[i].etag))
                 \/ ReplyLost(p)
    BY DEF Put
<1>4. /\ i \in Item /\ view[i] \in Row /\ bound[i] \in ItemBinding
      /\ TaskOf(i) \in Uid \union {0}
    BY <1>2, <1>3, TaskOfType
<1>5. view[i].val \in Values /\ view[i].origin \in Item \union Uid /\ bound[i].etag \in Nat
    BY <1>4 DEF Row, ItemBinding
<1>6. Stored(i, etags + 1) \in ItemBinding /\ Stored(i, bound[i].etag) \in ItemBinding
    BY <1>2, <1>4, <1>5 DEF ItemBinding
<1>7. [tasks EXCEPT ![TaskOf(i)] = written(i)] \in [Uid -> Task]
    <2>1. written(i) \in Task
        BY <1>2, <1>5 DEF Task
    <2> HIDE DEF written
    <2>2. QED
        BY <1>2, <2>1
<1> HIDE DEF Stored, written
<1>8. Answer(p, i)
    <2>1. CASE Leave(p) /\ UNCHANGED <<server, faults, delivered>>
        BY <2>1 DEF Answer, server
    <2>2. CASE Conflict(p) /\ UNCHANGED <<server, faults, delivered>>
        BY <2>2 DEF Answer, server
    <2>3. CASE /\ tasks' = [tasks EXCEPT ![TaskOf(i)] = written(i)]
               /\ etags' = etags + 1 /\ UNCHANGED access
               /\ \/ Reply(p, i, Stored(i, etags + 1))
                  \/ Reply(p, i, Stored(i, bound[i].etag))
                  \/ ReplyLost(p)
        <3>1. tasks' \in [Uid -> Task] /\ etags' \in Nat /\ access' = access
            BY <1>2, <1>7, <2>3
        <3>2. (\E b \in ItemBinding : Reply(p, i, b)) \/ ReplyLost(p)
            BY <1>6, <2>3
        <3>3. QED
            BY <3>1, <3>2 DEF Answer
    <2>4. QED
        BY <1>3, <2>1, <2>2, <2>3
<1>9. QED
    BY <1>1, <1>3, <1>8

\* A DELETE answers one row.
LEMMA DeleteAnswers ==
    ASSUME TypeInv, NEW p \in Proc, Delete(p)
    PROVE  /\ pc[p] = "put" /\ UNCHANGED <<device, bound, coll, edits>>
           /\ \E i \in todo : Answer(p, i)
<1>1. pc[p] = "put" /\ UNCHANGED <<device, bound, coll, access, etags, edits>>
    BY DEF Delete
<1>2. /\ todo \subseteq Item /\ tasks \in [Uid -> Task] /\ etags \in Nat
      /\ bound \in [Item -> ItemBinding]
    BY TypeParts DEF LocalsOK, Server, Tables
<1>3. PICK i \in todo :
        \/ Leave(p) /\ UNCHANGED <<tasks, faults>>
        \/ Conflict(p) /\ UNCHANGED <<tasks, faults>>
        \/ /\ tasks' \in {tasks, [tasks EXCEPT ![bound[i].uid].etag = 0]}
           /\ Reply(p, i, [bound[i] EXCEPT !.gone = TRUE]) \/ ReplyLost(p)
    BY DEF Delete
<1>4. i \in Item /\ bound[i] \in ItemBinding
    BY <1>2, <1>3
<1>5. [bound[i] EXCEPT !.gone = TRUE] \in ItemBinding
    BY <1>4 DEF ItemBinding
<1>6. [tasks EXCEPT ![bound[i].uid].etag = 0] \in [Uid -> Task]
    <2>1. ASSUME NEW w \in Uid
          PROVE  [tasks[w] EXCEPT !.etag = 0] \in Task
        BY <1>2 DEF Task
    <2>2. QED
        BY <1>2, <2>1
<1>7. Answer(p, i)
    <2>1. CASE Leave(p) /\ UNCHANGED <<tasks, faults>>
        BY <1>1, <2>1 DEF Answer
    <2>2. CASE Conflict(p) /\ UNCHANGED <<tasks, faults>>
        BY <1>1, <2>2 DEF Answer
    <2>3. CASE /\ tasks' \in {tasks, [tasks EXCEPT ![bound[i].uid].etag = 0]}
               /\ Reply(p, i, [bound[i] EXCEPT !.gone = TRUE]) \/ ReplyLost(p)
        <3>1. tasks' \in [Uid -> Task] /\ etags' \in Nat /\ access' = access
            BY <1>1, <1>2, <1>6, <2>3
        <3>2. QED
            BY <1>5, <2>3, <3>1 DEF Answer
    <2>4. QED
        BY <1>3, <2>1, <2>2, <2>3
<1>8. QED
    BY <1>1, <1>3, <1>7

LEMMA PutDeleteTypes ==
    ASSUME TypeInv, NEW p \in Proc, Put(p) \/ Delete(p)
    PROVE  TypeInv'
<1>1. pc[p] = "put" /\ UNCHANGED <<device, bound, coll, edits>> /\ \E i \in todo : Answer(p, i)
    BY PutAnswers, DeleteAnswers
<1>2. PICK i \in todo : Answer(p, i)
    BY <1>1
<1>3. i \in Item
    BY <1>2, TypeParts DEF LocalsOK
<1>4. mutex = p
    BY <1>1, TypeParts, Holder DEF Syncing
<1>5. QED
    BY <1>1, <1>2, <1>3, <1>4, AnswerTypes

LEMMA StoreTypes ==
    ASSUME TypeInv, NEW p \in Proc, Store(p)
    PROVE  TypeInv'
<1> DEFINE done == {i \in Item : merge.bound[i] # NoTask}
<1>1. /\ UNCHANGED <<device, coll, server, mutex, copy, stage, view, fetched, edits, faults>>
      /\ pc[p] = "store" /\ Goto(p, "put") /\ merge' = NoMerge /\ todo' = todo \ done
      /\ bound' = [i \in Item |-> IF i \in done THEN merge.bound[i] ELSE bound[i]]
    BY DEF Store
<1>2. mutex = p /\ "put" \in Labels /\ "put" \in Syncing
    BY <1>1, TypeParts, Holder DEF Syncing, Labels
<1>3. Locked'
    BY <1>1, <1>2, TypeParts, LockMoves
<1>4. bound' \in [Item -> ItemBinding]
    <2>1. merge.bound \in [Item -> ItemBinding] /\ bound \in [Item -> ItemBinding]
        BY TypeParts DEF LocalsOK, Tables
    <2>2. QED
        BY <1>1, <2>1
<1>5. Tables'
    BY <1>1, <1>4, TypeParts DEF Tables, device
<1>6. LocalsOK'
    BY <1>1, TypeParts, NothingTypes DEF LocalsOK
<1>7. QED
    BY <1>1, <1>3, <1>5, <1>6, TypeParts, SameParts

LEMMA AcknowledgeTypes ==
    ASSUME TypeInv, NEW p \in Proc, Acknowledge(p)
    PROVE  TypeInv'
<1>1. /\ UNCHANGED <<clock, rows, bound, coll, server, edits, faults>>
      /\ pc[p] = "put" /\ pending' \subseteq pending
    BY DEF Acknowledge
<1>2. mutex = p /\ "fetch" \in Labels /\ "fetch" \in Syncing
    BY <1>1, TypeParts, Holder DEF Syncing, Labels
<1>3. Tables'
    BY <1>1, TypeParts DEF Tables
<1>4. Locked' /\ (copy \in [Proc -> Binding])' /\ LocalsOK'
    <2>1. CASE stage \in {"push", "retryPush"}
        <3>1. /\ stage' = "pull" /\ view' = NoView /\ Goto(p, "fetch")
              /\ copy' = [copy EXCEPT ![p] = IF coll.bound THEN coll ELSE @]
              /\ UNCHANGED <<mutex, todo, fetched, merge>>
            BY <2>1 DEF Acknowledge
        <3>2. Locked'
            BY <1>2, <3>1, TypeParts, LockMoves
        <3>3. copy' \in [Proc -> Binding]
            BY <3>1, TypeParts DEF Tables
        <3>4. QED
            BY <3>1, <3>2, <3>3, TypeParts, NothingTypes DEF LocalsOK
    <2>2. CASE stage \notin {"push", "retryPush"}
        <3>1. Leave(p)
            BY <2>2 DEF Acknowledge
        <3>2. QED
            BY <1>2, <3>1, TypeParts, LeaveTypes
    <2>3. QED
        BY <2>1, <2>2
<1>5. QED
    BY <1>1, <1>3, <1>4, TypeParts, SameParts

LEMMA FetchTypes ==
    ASSUME TypeInv, NEW p \in Proc, Fetch(p)
    PROVE  TypeInv'
<1>1. UNCHANGED <<device, bound, coll, server, edits, faults>> /\ pc[p] = "fetch"
    BY DEF Fetch
<1>2. mutex = p /\ "prepare" \in Labels /\ "prepare" \in Syncing
    BY <1>1, TypeParts, Holder DEF Syncing, Labels
<1>3. Locked' /\ (copy \in [Proc -> Binding])' /\ LocalsOK'
    <2>1. CASE access = "gone"
        <3>1. Leave(p)
            BY <2>1 DEF Fetch
        <3>2. QED
            BY <1>2, <3>1, TypeParts, LeaveTypes
    <2>2. CASE access # "gone"
        <3>1. /\ fetched' = tasks /\ Goto(p, "prepare")
              /\ UNCHANGED <<mutex, copy, stage, view, todo, merge>>
            BY <2>2 DEF Fetch
        <3>2. Locked'
            BY <1>2, <3>1, TypeParts, LockMoves
        <3>3. QED
            BY <3>1, <3>2, TypeParts DEF LocalsOK, Server
    <2>3. QED
        BY <2>1, <2>2
<1>4. QED
    BY <1>1, <1>3, TypeParts, SameParts

\* What a pull prepares for one item: a snapshot of its task, a tombstone
\* because its task is gone, or nothing.  The stamps are the provider's.
ProviderStamp(n) == [clock |-> n, actor |-> Provider]

FromTask(i, u, n, row, b) ==
    /\ row = TaskSnapshot(i, u, ProviderStamp(n))
    /\ b = [uid |-> u, etag |-> fetched[u].etag, base |-> fetched[u].val, gone |-> FALSE]
    /\ rows[i].life = "NONE" \/ bound[i] # NoTask
    /\ bound[i].uid = u \/ (Fresh(i) /\ \A j \in Item : bound[j].uid # u)
    /\ fetched[u].etag # 0 /\ n > Newest(rows)

FromLoss(i, n, row, b) ==
    /\ row = GoneSnapshot(i, ProviderStamp(n))
    /\ b = [bound[i] EXCEPT !.gone = TRUE]
    /\ bound[i].gone = FALSE /\ rows[i].life # "NONE"
    /\ bound[i].uid \in Uid => fetched[bound[i].uid].etag = 0
    /\ n > Newest(rows)

FromNothing(i, row, b) == row = NoRow(i) /\ b = NoTask

LEMMA PreparedRows ==
    ASSUME TypeInv, NEW p \in Proc, Prepare(p)
    PROVE  /\ merge'.clock \in Nat
           /\ merge' = [rows |-> merge'.rows, bound |-> merge'.bound, clock |-> merge'.clock]
           /\ DOMAIN merge'.rows = Item /\ DOMAIN merge'.bound = Item
           /\ merge'.rows = [i \in Item |-> merge'.rows[i]]
           /\ merge'.bound = [i \in Item |-> merge'.bound[i]]
           /\ \A i \in Item :
                 \/ \E u \in Uid, n \in Nat : FromTask(i, u, n, merge'.rows[i], merge'.bound[i])
                 \/ \E n \in Nat : FromLoss(i, n, merge'.rows[i], merge'.bound[i])
                 \/ FromNothing(i, merge'.rows[i], merge'.bound[i])
           /\ \A i, j \in Item :
                 (\E u \in Uid, n, m \in Nat :
                     /\ FromTask(i, u, n, merge'.rows[i], merge'.bound[i])
                     /\ FromTask(j, u, m, merge'.rows[j], merge'.bound[j])) => i = j
<1> DEFINE present == {u \in Uid : fetched[u].etag # 0}
           new == {u \in present : \A i \in Item : bound[i].uid # u}
           free == {i \in Item : Fresh(i)}
           itemOf(id, u) == IF u \in new THEN id[u]
                            ELSE CHOOSE i \in Item : bound[i].uid = u
           changed(id) == {u \in present : bound[itemOf(id, u)].etag # fetched[u].etag
                                           \/ rows[itemOf(id, u)].life = "NONE"}
           lost == {i \in Item : /\ bound[i] # NoTask /\ ~bound[i].gone
                                 /\ bound[i].uid \notin present
                                 /\ rows[i].life # "NONE"}
           base == RevisionBase(copy[p])
           order(id, u) == Cardinality({w \in changed(id) : w <= u})
           last(id, i) == Cardinality(changed(id)) + Cardinality({j \in lost : j <= i})
           source(id, i) == {u \in changed(id) : itemOf(id, u) = i}
           task(id, i) == CHOOSE u \in source(id, i) : TRUE
           row(id, i) == IF source(id, i) # {}
                         THEN TaskSnapshot(i, task(id, i),
                                           ProviderStamp(base + order(id, task(id, i))))
                         ELSE IF i \in lost
                         THEN GoneSnapshot(i, ProviderStamp(base + last(id, i)))
                         ELSE NoRow(i)
           tie(id, i) == IF source(id, i) # {}
                         THEN [uid |-> task(id, i), etag |-> fetched[task(id, i)].etag,
                               base |-> fetched[task(id, i)].val, gone |-> FALSE]
                         ELSE IF i \in lost THEN [bound[i] EXCEPT !.gone = TRUE]
                         ELSE NoTask
           after(id) == base + Cardinality(changed(id)) + Cardinality(lost)
<1>1. PICK id \in [new -> free] :
        merge' = [rows |-> [i \in Item |-> row(id, i)], bound |-> [i \in Item |-> tie(id, i)],
                  clock |-> after(id)]
    BY DEF Prepare, ProviderStamp
<1>2. base \in Nat
    <2>1. copy[p] \in Binding /\ Newest(rows) \in Nat
        BY TypeParts, NewestBounds DEF Tables
    <2>2. QED
        BY <2>1 DEF RevisionBase, Binding
<1>3. /\ IsFiniteSet(changed(id)) /\ IsFiniteSet(lost)
      /\ \A u : IsFiniteSet({w \in changed(id) : w <= u})
      /\ \A i : IsFiniteSet({j \in lost : j <= i})
    <2>1. IsFiniteSet(Uid) /\ IsFiniteSet(Item)
        BY IdentityAssumption
    <2>2. changed(id) \subseteq Uid /\ lost \subseteq Item
        OBVIOUS
    <2> HIDE DEF changed, lost
    <2>3. /\ \A u : {w \in changed(id) : w <= u} \subseteq Uid
          /\ \A i : {j \in lost : j <= i} \subseteq Item
        BY <2>2
    <2>4. QED
        BY <2>1, <2>2, <2>3, FS_Subset
<1>4. ASSUME NEW i \in Item, source(id, i) # {}
      PROVE  /\ task(id, i) \in changed(id) /\ itemOf(id, task(id, i)) = i
             /\ task(id, i) \in Uid /\ (rows[i].life = "NONE" \/ bound[i] # NoTask)
             /\ fetched[task(id, i)].etag # 0
             /\ \/ bound[i].uid = task(id, i)
                \/ Fresh(i) /\ \A j \in Item : bound[j].uid # task(id, i)
    <2>1. source(id, i) \subseteq Uid
        OBVIOUS
    <2>2. task(id, i) \in source(id, i)
        BY <1>4
    <2> DEFINE u == task(id, i)
    <2>3. u \in present /\ itemOf(id, u) = i /\ u \in changed(id) /\ fetched[u].etag # 0
        BY <2>2
    <2> HIDE DEF source, task
    <2>4. CASE u \in new
        <3>1. id[u] \in free
            BY <2>4
        <3>2. id[u] = i
            BY <2>3, <2>4
        <3>3. QED
            BY <2>1, <2>2, <2>3, <2>4, <3>1, <3>2 DEF Fresh
    <2>5. CASE u \notin new
        <3>1. \E j \in Item : bound[j].uid = u
            BY <2>3, <2>5
        <3>2. i = CHOOSE j \in Item : bound[j].uid = u
            BY <2>3, <2>5
        <3>3. bound[i].uid = u
            BY <3>1, <3>2
        <3>4. u # 0
            BY <2>1, <2>2, IdentityAssumption
        <3>5. QED
            BY <2>1, <2>2, <2>3, <3>3, <3>4 DEF NoTask
    <2>6. QED
        BY <2>4, <2>5
<1>5. \A i \in lost : /\ bound[i].gone = FALSE /\ rows[i].life # "NONE"
                      /\ bound[i].uid \in Uid => fetched[bound[i].uid].etag = 0
    BY TypeParts DEF Tables, ItemBinding
<1>11. Newest(rows) \in Nat /\ Newest(rows) <= base
    <2>1. copy[p] \in Binding /\ Newest(rows) \in Nat
        BY TypeParts, NewestBounds DEF Tables
    <2>2. QED
        BY <2>1 DEF RevisionBase, Binding
<1>12. \A u \in Uid : u \notin present => fetched[u].etag = 0
    OBVIOUS
<1> HIDE DEF changed, lost, base, source, task
<1>13. /\ \A u \in changed(id) : u \in {w \in changed(id) : w <= u}
       /\ \A i \in lost : i \in {j \in lost : j <= i}
    <2>1. changed(id) \subseteq Nat /\ lost \subseteq Nat
        BY IdentityAssumption DEF changed, lost
    <2>2. \A n \in Nat : n <= n
        OBVIOUS
    <2>3. QED
        BY <2>1, <2>2
<1>14. ASSUME NEW S, IsFiniteSet(S), NEW x \in S
       PROVE  Cardinality(S) \in Nat \ {0}
    BY <1>14, FS_CardinalityType, FS_EmptySet
<1>6. after(id) \in Nat
    BY <1>2, <1>3, FS_CardinalityType
<1>7. ASSUME NEW i \in Item
      PROVE  \/ \E u \in Uid, n \in Nat : FromTask(i, u, n, row(id, i), tie(id, i))
             \/ \E n \in Nat : FromLoss(i, n, row(id, i), tie(id, i))
             \/ FromNothing(i, row(id, i), tie(id, i))
    <2>1. CASE source(id, i) # {}
        <3>1. order(id, task(id, i)) \in Nat \ {0}
            BY <1>3, <1>4, <1>13, <1>14, <2>1
        <3>4. /\ base + order(id, task(id, i)) \in Nat
              /\ base + order(id, task(id, i)) > Newest(rows)
            BY <1>2, <1>11, <3>1
        <3> HIDE DEF order
        <3>2. FromTask(i, task(id, i), base + order(id, task(id, i)), row(id, i), tie(id, i))
            BY <1>4, <2>1, <3>4 DEF FromTask
        <3> HIDE DEF row, tie
        <3>3. QED
            BY <1>4, <2>1, <3>4, <3>2
    <2>2. CASE source(id, i) = {} /\ i \in lost
        <3>1. last(id, i) \in Nat \ {0}
            <4>1. Cardinality({j \in lost : j <= i}) \in Nat \ {0}
                BY <1>3, <1>13, <1>14, <2>2
            <4>2. Cardinality(changed(id)) \in Nat
                BY <1>3, FS_CardinalityType
            <4>3. QED
                BY <4>1, <4>2
        <3>4. base + last(id, i) \in Nat /\ base + last(id, i) > Newest(rows)
            BY <1>2, <1>11, <3>1
        <3> HIDE DEF last
        <3>2. FromLoss(i, base + last(id, i), row(id, i), tie(id, i))
            BY <1>5, <2>2, <3>4 DEF FromLoss
        <3> HIDE DEF row, tie
        <3>3. QED
            BY <3>4, <3>2
    <2>3. CASE source(id, i) = {} /\ i \notin lost
        BY <2>3 DEF FromNothing
    <2>4. QED
        BY <2>1, <2>2, <2>3
<1>15. ASSUME NEW i \in Item, NEW u \in Uid, NEW n \in Nat,
              FromTask(i, u, n, row(id, i), tie(id, i))
       PROVE  itemOf(id, u) = i
    <2>1. tie(id, i).uid = u /\ fetched[u].etag # 0 /\ u # 0
        BY <1>15, IdentityAssumption DEF FromTask
    <2>2. source(id, i) # {}
        <3>1. CASE source(id, i) = {} /\ i \in lost
            <4>1. tie(id, i).uid = bound[i].uid
                BY <3>1, TypeParts DEF Tables, ItemBinding
            <4>2. QED
                BY <1>5, <2>1, <3>1, <4>1
        <3>2. CASE source(id, i) = {} /\ i \notin lost
            BY <2>1, <3>2 DEF NoTask
        <3>3. QED
            BY <3>1, <3>2
    <2>3. task(id, i) = u
        BY <2>1, <2>2
    <2>4. QED
        BY <1>4, <2>2, <2>3
<1> HIDE DEF row, tie, after
<1>8. \A i \in Item : merge'.rows[i] = row(id, i) /\ merge'.bound[i] = tie(id, i)
    BY <1>1
<1> HIDE DEF itemOf
<1>16. \A i, j \in Item :
          (\E u \in Uid, n, m \in Nat :
              /\ FromTask(i, u, n, merge'.rows[i], merge'.bound[i])
              /\ FromTask(j, u, m, merge'.rows[j], merge'.bound[j])) => i = j
    BY <1>8, <1>15
<1>9. QED
    BY <1>1, <1>6, <1>7, <1>8, <1>16

LEMMA SnapshotTypes ==
    ASSUME TypeInv, NEW i \in Item, NEW n \in Nat
    PROVE  /\ \A u \in Uid : TaskSnapshot(i, u, ProviderStamp(n)) \in Row
           /\ GoneSnapshot(i, ProviderStamp(n)) \in Row
<1>1. rows[i] \in Row /\ ProviderStamp(n) \in Stamp
    BY TypeParts DEF Tables, ProviderStamp, Stamp, Provider
<1>2. /\ rows[i].lifeAt \in Stamp /\ rows[i].val.text \in Text /\ rows[i].val.checked \in BOOLEAN
      /\ \A f \in Field : rows[i].at[f] \in Stamp
      /\ rows[i].origin \in Item \union Uid
    BY <1>1 DEF Row, Values
<1>3. GoneSnapshot(i, ProviderStamp(n)) \in Row
    BY <1>1 DEF GoneSnapshot, Row
<1>4. ASSUME NEW u \in Uid
      PROVE  TaskSnapshot(i, u, ProviderStamp(n)) \in Row
    <2>1. fetched[u] \in Task
        BY TypeParts DEF LocalsOK
    <2>2. /\ fetched[u].val.text \in Text /\ fetched[u].val.checked \in BOOLEAN
          /\ fetched[u].origin \in Item \union Uid
        BY <2>1 DEF Task, Values
    <2> DEFINE st == ProviderStamp(n)
               life == IF Revived(i) THEN st ELSE rows[i].lifeAt
               val == [text |-> IF RemotelyChanged(i, u, "text") THEN fetched[u].val.text
                                ELSE rows[i].val.text,
                       checked |-> IF RemotelyChanged(i, u, "checked") THEN fetched[u].val.checked
                                   ELSE rows[i].val.checked]
               at == [f \in Field |-> IF RemotelyChanged(i, u, f) THEN st ELSE rows[i].at[f]]
               from == IF rows[i].life = "NONE" THEN fetched[u].origin ELSE rows[i].origin
    <2>3. life \in Stamp /\ from \in Item \union Uid
        BY <1>1, <1>2, <2>2
    <2>4. val \in Values
        BY <1>2, <2>2 DEF Values
    <2>5. at \in [Field -> Stamp]
        BY <1>1, <1>2
    <2>6. TaskSnapshot(i, u, st)
            = [life |-> "ACTIVE", lifeAt |-> life, val |-> val, at |-> at, origin |-> from]
        BY DEF TaskSnapshot
    <2> HIDE DEF st, life, val, at, from
    <2>7. TaskSnapshot(i, u, st) \in Row
        BY <2>3, <2>4, <2>5, <2>6 DEF Row
    <2>8. QED
        BY <2>7 DEF st
<1>5. QED
    BY <1>3, <1>4

LEMMA PrepareTypes ==
    ASSUME TypeInv, NEW p \in Proc, Prepare(p)
    PROVE  TypeInv'
<1>1. /\ UNCHANGED <<device, bound, coll, server, mutex, copy, stage, view, todo, edits, faults>>
      /\ pc[p] = "prepare" /\ Goto(p, "import") /\ fetched' = NoFetch
    BY DEF Prepare
<1>2. mutex = p /\ "import" \in Labels /\ "import" \in Syncing
    BY <1>1, TypeParts, Holder DEF Syncing, Labels
<1>3. Locked'
    BY <1>1, <1>2, TypeParts, LockMoves
<1>4. ASSUME NEW i \in Item
      PROVE  merge'.rows[i] \in Row /\ merge'.bound[i] \in ItemBinding
    <2>0. bound[i] \in ItemBinding /\ fetched \in [Uid -> Task]
        BY TypeParts DEF Tables, LocalsOK
    <2>1. ASSUME NEW u \in Uid, NEW n \in Nat, FromTask(i, u, n, merge'.rows[i], merge'.bound[i])
          PROVE  merge'.rows[i] \in Row /\ merge'.bound[i] \in ItemBinding
        <3>1. merge'.rows[i] \in Row
            BY <2>1, SnapshotTypes DEF FromTask
        <3>2. fetched[u].etag \in Nat /\ fetched[u].val \in Values
            BY <2>0 DEF Task
        <3>3. QED
            BY <2>1, <3>1, <3>2 DEF FromTask, ItemBinding
    <2>2. ASSUME NEW n \in Nat, FromLoss(i, n, merge'.rows[i], merge'.bound[i])
          PROVE  merge'.rows[i] \in Row /\ merge'.bound[i] \in ItemBinding
        <3>1. merge'.rows[i] \in Row
            BY <2>2, SnapshotTypes DEF FromLoss
        <3>2. QED
            BY <2>0, <2>2, <3>1 DEF FromLoss, ItemBinding
    <2>3. CASE FromNothing(i, merge'.rows[i], merge'.bound[i])
        BY <2>3, NothingTypes DEF FromNothing
    <2>4. QED
        BY <2>1, <2>2, <2>3, PreparedRows
<1>5. merge' \in [rows : [Item -> Row], bound : [Item -> ItemBinding], clock : Nat]
    <2> DEFINE a == merge'.rows
               b == merge'.bound
               c == merge'.clock
    <2>1. /\ merge' = [rows |-> a, bound |-> b, clock |-> c] /\ c \in Nat
          /\ a = [i \in Item |-> a[i]] /\ b = [i \in Item |-> b[i]]
        BY PreparedRows
    <2>2. \A i \in Item : a[i] \in Row /\ b[i] \in ItemBinding
        BY <1>4
    <2> HIDE DEF a, b, c
    <2>3. a \in [Item -> Row] /\ b \in [Item -> ItemBinding]
        BY <2>1, <2>2
    <2>4. QED
        BY <2>1, <2>3
<1>6. LocalsOK'
    BY <1>1, <1>5, TypeParts, NothingTypes DEF LocalsOK
<1>7. QED
    BY <1>1, <1>3, <1>6, TypeParts, SameParts

\* Merging a snapshot gives rows, and whoever wins has the greater stamp.
LEMMA MergedTypes ==
    ASSUME rows \in [Item -> Row], NEW s \in [Item -> Row]
    PROVE  /\ Merged(s) \in [Item -> Row]
           /\ \A i \in Item, f \in Field :
                 Merged(s)[i].at[f] = rows[i].at[f] \/ Merged(s)[i].at[f] = s[i].at[f]
<1>1. ASSUME NEW i \in Item
      PROVE  /\ Merged(s)[i] \in Row
             /\ \A f \in Field : Merged(s)[i].at[f] = rows[i].at[f] \/ Merged(s)[i].at[f] = s[i].at[f]
    <2>1. rows[i] \in Row /\ s[i] \in Row
        OBVIOUS
    <2>2. CASE s[i].life # "NONE" /\ rows[i].life # "NONE"
        <3>1. Merged(s)[i] = MergedRow(rows[i], s[i])
            BY <2>2 DEF Merged
        <3>2. MergedRow(rows[i], s[i]) \in Row
            <4> DEFINE mine == rows[i]
                       theirs == s[i]
                       life == IF After(theirs.lifeAt, mine.lifeAt) THEN theirs.life ELSE mine.life
                       lifeAt == IF After(theirs.lifeAt, mine.lifeAt) THEN theirs.lifeAt
                                 ELSE mine.lifeAt
                       val == [text |-> IF After(theirs.at["text"], mine.at["text"])
                                        THEN theirs.val.text ELSE mine.val.text,
                               checked |-> IF After(theirs.at["checked"], mine.at["checked"])
                                           THEN theirs.val.checked ELSE mine.val.checked]
                       at == [f \in Field |-> IF After(theirs.at[f], mine.at[f]) THEN theirs.at[f]
                                              ELSE mine.at[f]]
            <4>1. life \in {"NONE", "ACTIVE", "DELETED"} /\ lifeAt \in Stamp
                BY <2>1 DEF Row
            <4>2. /\ mine.val.text \in Text /\ theirs.val.text \in Text
                  /\ mine.val.checked \in BOOLEAN /\ theirs.val.checked \in BOOLEAN
                BY <2>1 DEF Row, Values
            <4>3. val \in Values
                BY <4>2 DEF Values
            <4>4. at \in [Field -> Stamp]
                BY <2>1 DEF Row
            <4>5. mine.origin \in Item \union Uid
                BY <2>1 DEF Row
            <4>6. MergedRow(mine, theirs)
                    = [life |-> life, lifeAt |-> lifeAt, val |-> val, at |-> at,
                       origin |-> mine.origin]
                BY DEF MergedRow
            <4> HIDE DEF life, lifeAt, val, at
            <4>7. MergedRow(mine, theirs) \in Row
                BY <4>1, <4>3, <4>4, <4>5, <4>6 DEF Row
            <4>8. QED
                BY <4>7
        <3>3. QED
            BY <3>1, <3>2 DEF MergedRow
    <2>3. CASE ~(s[i].life # "NONE" /\ rows[i].life # "NONE")
        BY <2>1, <2>3 DEF Merged
    <2>4. QED
        BY <2>2, <2>3
<1>2. Merged(s) = [i \in Item |-> Merged(s)[i]]
    BY DEF Merged
<1>3. QED
    BY <1>1, <1>2

\* The transaction of an import; the clock passes every clock it has seen.
LEMMA ImportedTypes ==
    ASSUME TypeInv, NEW r \in [Item -> Row], NEW seen \in Nat, Imported(r, seen),
           UNCHANGED <<bound, coll>>
    PROVE  /\ Tables' /\ clock <= clock' /\ seen <= clock'
           /\ rows' \in {r, Cascade(r, Observed(clock, seen)).rows}
           /\ Cascade(r, Observed(clock, seen)).clock <= clock' \/ rows' = r
<1> DEFINE base == Observed(clock, seen)
<1>1. clock \in Nat /\ base \in Nat /\ clock <= base /\ seen <= base
    BY TypeParts DEF Tables, Observed
<1>2. CASE r # rows
    <2>1. /\ rows' = Cascade(r, base).rows /\ clock' = Cascade(r, base).clock
          /\ pending' = pending \union Cascade(r, base).changes
        BY <1>2 DEF Imported
    <2> HIDE DEF base
    <2>2. Tables' /\ base <= clock'
        BY <1>1, <2>1, CascadeType, TypeParts DEF Tables
    <2>3. clock' \in Nat
        BY <2>2 DEF Tables
    <2>4. clock <= clock' /\ seen <= clock'
        BY <1>1, <2>2, <2>3
    <2>5. QED
        BY <2>1, <2>2, <2>3, <2>4 DEF base
<1>3. CASE r = rows
    <2>1. clock' = base /\ rows' = rows /\ pending' = pending
        BY <1>3 DEF Imported
    <2>2. QED
        BY <1>1, <1>3, <2>1, TypeParts DEF Tables
<1>4. QED
    BY <1>2, <1>3

LEMMA ImportTypes ==
    ASSUME TypeInv, NEW p \in Proc, Import(p)
    PROVE  TypeInv'
<1>1. /\ UNCHANGED <<bound, coll, server, mutex, copy, stage, view, fetched, merge, edits, faults>>
      /\ pc[p] = "import" /\ Goto(p, "bind") /\ todo' \subseteq Item
    BY DEF Import
<1>2. mutex = p /\ "bind" \in Labels /\ "bind" \in Syncing
    BY <1>1, TypeParts, Holder DEF Syncing, Labels
<1>3. Locked'
    BY <1>1, <1>2, TypeParts, LockMoves
<1>4. Tables'
    <2>1. CASE merge.rows = NoView
        BY <1>1, <2>1, TypeParts, SameParts DEF Import
    <2>2. CASE merge.rows # NoView
        <3>1. Imported(Merged(merge.rows), Newest(merge.rows))
            BY <2>2 DEF Import
        <3>2. merge.rows \in [Item -> Row] /\ rows \in [Item -> Row]
            BY TypeParts DEF LocalsOK, Tables
        <3>3. Merged(merge.rows) \in [Item -> Row] /\ Newest(merge.rows) \in Nat
            BY <3>2, MergedTypes, NewestBounds
        <3>4. QED
            BY <1>1, <3>1, <3>3, ImportedTypes
    <2>3. QED
        BY <2>1, <2>2
<1>5. LocalsOK'
    BY <1>1, TypeParts DEF LocalsOK
<1>6. QED
    BY <1>1, <1>3, <1>4, <1>5, TypeParts, SameParts

LEMMA BindTypes ==
    ASSUME TypeInv, NEW p \in Proc, Bind(p)
    PROVE  TypeInv'
<1>1. /\ UNCHANGED <<device, coll, server, mutex, pc, copy, stage, view, fetched, merge, edits, faults>>
      /\ todo' \subseteq todo
    BY DEF Bind
<1>2. PICK i \in todo : bound' = [bound EXCEPT ![i] = merge.bound[i]]
    BY DEF Bind
<1>3. i \in Item /\ merge.bound[i] \in ItemBinding
    BY <1>2, TypeParts DEF LocalsOK
<1>4. Tables'
    BY <1>1, <1>2, <1>3, TypeParts DEF Tables, device
<1>5. LocalsOK'
    BY <1>1, TypeParts DEF LocalsOK
<1>6. QED
    BY <1>1, <1>4, <1>5, TypeParts, SameParts

LEMMA PulledTypes ==
    ASSUME TypeInv, NEW p \in Proc, Pulled(p)
    PROVE  TypeInv'
<1>1. /\ UNCHANGED <<device, bound, server, edits, faults>>
      /\ pc[p] = "bind" /\ coll' = [copy[p] EXCEPT !.clock = merge.clock]
    BY DEF Pulled
<1>2. mutex = p /\ "push" \in Labels /\ "push" \in Syncing
    BY <1>1, TypeParts, Holder DEF Syncing, Labels
<1>3. copy[p] \in Binding /\ merge.clock \in Nat
    BY TypeParts DEF LocalsOK
<1>4. coll' \in Binding
    BY <1>1, <1>3 DEF Binding
<1>5. Tables'
    BY <1>1, <1>4, TypeParts DEF Tables, device
<1>6. Locked' /\ (copy \in [Proc -> Binding])' /\ LocalsOK'
    <2>1. CASE Leave(p)
        BY <1>2, <2>1, TypeParts, LeaveTypes
    <2>2. CASE ~Leave(p)
        <3>1. /\ stage' = IF stage = "retryPull" THEN "retryPush" ELSE "repush"
              /\ copy' = [copy EXCEPT ![p] = IF stage = "pull" THEN coll' ELSE @]
              /\ merge' = NoMerge /\ Goto(p, "push")
              /\ UNCHANGED <<mutex, view, todo, fetched>>
            BY <2>2 DEF Pulled
        <3>2. Locked'
            BY <1>2, <3>1, TypeParts, LockMoves
        <3>3. copy' \in [Proc -> Binding]
            BY <1>4, <3>1, TypeParts
        <3>4. LocalsOK'
            BY <3>1, TypeParts, NothingTypes DEF LocalsOK
        <3>5. QED
            BY <3>2, <3>3, <3>4
    <2>3. QED
        BY <2>1, <2>2
<1>7. QED
    BY <1>1, <1>5, <1>6, TypeParts, SameParts

LEMMA ListedTypes ==
    ASSUME TypeInv, NEW p \in Proc, Listed(p)
    PROVE  TypeInv'
<1>1. UNCHANGED <<device, bound, coll, server, mutex, progress, edits, faults>>
    BY DEF Listed
<1>2. PICK l \in {"idle", "persisting"} : Goto(p, l)
    BY DEF Listed
<1>3. pc[p] \in Waiting /\ l \in Waiting /\ l \in Labels
    BY <1>2 DEF Listed, Waiting, Labels
<1>4. Locked'
    BY <1>1, <1>2, <1>3, TypeParts, LockMoves
<1>5. copy[p] \in Binding /\ (access = "writable") \in BOOLEAN
    BY TypeParts
<1>6. [copy[p] EXCEPT !.writable = (access = "writable")] \in Binding
    BY <1>5 DEF Binding
<1>7. copy' \in [Proc -> Binding]
    BY <1>6, TypeParts, NothingTypes DEF Listed
<1>8. QED
    BY <1>1, <1>4, <1>7, TypeParts, SameParts

LEMMA SharedTypes ==
    ASSUME TypeInv, NEW p \in Proc, Shared(p)
    PROVE  TypeInv'
<1>1. /\ UNCHANGED <<device, bound, server, mutex, progress, edits, faults>>
      /\ pc[p] = "persisting" /\ Goto(p, "idle") /\ copy' = [copy EXCEPT ![p] = Unbound]
      /\ coll' = copy[p]
    BY DEF Shared
<1>2. "persisting" \in Waiting /\ "idle" \in Waiting /\ "idle" \in Labels
    BY DEF Waiting, Labels
<1>3. Locked'
    BY <1>1, <1>2, TypeParts, LockMoves
<1>4. copy' \in [Proc -> Binding] /\ coll' \in Binding
    BY <1>1, TypeParts, NothingTypes
<1>5. Tables'
    BY <1>1, <1>4, TypeParts DEF Tables, device
<1>6. QED
    BY <1>1, <1>3, <1>4, <1>5, TypeParts, SameParts

LEMMA ResolveTypes ==
    ASSUME TypeInv, NEW p \in Proc, Resolve(p)
    PROVE  TypeInv'
<1>1. /\ UNCHANGED <<device, bound, coll, server, edits, faults>> /\ mutex = Nobody
    BY DEF Resolve
<1>2. Locked' /\ (copy \in [Proc -> Binding])' /\ LocalsOK'
    <2>1. CASE Leave(p)
        BY <1>1, <2>1, TypeParts, LeaveTypes
    <2>2. CASE ~Leave(p)
        <3>1. PICK l \in {"drop", "revert"} : Goto(p, l)
            BY <2>2 DEF Resolve
        <3>2. /\ mutex' = p /\ stage' \in {"keep", "discard"}
              /\ UNCHANGED <<copy, view, todo, fetched, merge>>
            BY <2>2 DEF Resolve
        <3>3. l \in Labels /\ l \in Resolving
            BY DEF Labels, Resolving
        <3>4. Locked'
            BY <1>1, <3>1, <3>2, <3>3, TypeParts, LockMoves
        <3>5. QED
            BY <3>2, <3>4, TypeParts DEF LocalsOK
    <2>3. QED
        BY <2>1, <2>2
<1>3. QED
    BY <1>1, <1>2, TypeParts, SameParts

\* What a revert imports: the last document seen of each bound item.
Seen(i, n) ==
    [life |-> IF bound[i].gone THEN "DELETED" ELSE "ACTIVE", lifeAt |-> ProviderStamp(n),
     val |-> bound[i].base, at |-> [f \in Field |-> ProviderStamp(n)], origin |-> rows[i].origin]
Retained(n) == [i \in Item |-> IF bound[i] # NoTask THEN Seen(i, n) ELSE NoRow(i)]

LEMMA RevertImports ==
    ASSUME TypeInv, NEW p \in Proc, Revert(p)
    PROVE  \E n \in Nat : /\ Retained(n) \in [Item -> Row]
                          /\ Imported(Retained(n), n)
<1> DEFINE n == RevisionBase(copy[p]) + 1
<1>1. n \in Nat
    <2>1. copy[p] \in Binding /\ Newest(rows) \in Nat
        BY TypeParts, NewestBounds DEF Tables
    <2>2. QED
        BY <2>1 DEF RevisionBase, Binding
<1>2. Imported(Retained(n), n)
    BY DEF Revert, Retained, Seen, ProviderStamp
<1> HIDE DEF n
<1>3. ASSUME NEW i \in Item
      PROVE  Seen(i, n) \in Row
    <2>1. rows[i] \in Row /\ bound[i] \in ItemBinding
        BY TypeParts DEF Tables
    <2>2. ProviderStamp(n) \in Stamp
        BY <1>1 DEF ProviderStamp, Stamp, Provider
    <2>3. QED
        BY <2>1, <2>2 DEF Seen, Row, ItemBinding
<1>4. Retained(n) \in [Item -> Row]
    BY <1>3, NothingTypes DEF Retained
<1>5. QED
    BY <1>1, <1>2, <1>4

LEMMA RevertTypes ==
    ASSUME TypeInv, NEW p \in Proc, Revert(p)
    PROVE  TypeInv'
<1>1. /\ UNCHANGED <<bound, coll, server, mutex, copy, progress, edits, faults>>
      /\ pc[p] = "revert" /\ Goto(p, "drop")
    BY DEF Revert
<1>2. mutex = p /\ "drop" \in Labels /\ "drop" \in Resolving
    BY <1>1, TypeParts, Holder DEF Resolving, Labels
<1>3. Locked'
    BY <1>1, <1>2, TypeParts, LockMoves
<1>4. Tables'
    BY <1>1, RevertImports, ImportedTypes
<1>5. QED
    BY <1>1, <1>3, <1>4, TypeParts, SameParts

LEMMA DropTypes ==
    ASSUME TypeInv, NEW p \in Proc, Drop(p)
    PROVE  TypeInv'
<1>1. /\ UNCHANGED <<clock, rows, bound, coll, server, mutex, copy, progress, edits, faults>>
      /\ pc[p] = "drop" /\ pending' = {}
    BY DEF Drop
<1>2. PICK l \in {"releaseItems", "clear"} : Goto(p, l)
    BY DEF Drop
<1>3. mutex = p /\ l \in Labels /\ l \in Resolving
    BY <1>1, <1>2, TypeParts, Holder DEF Resolving, Labels
<1>4. Locked'
    BY <1>1, <1>2, <1>3, TypeParts, LockMoves
<1>5. Tables'
    BY <1>1, TypeParts DEF Tables
<1>6. QED
    BY <1>1, <1>4, <1>5, TypeParts, SameParts

LEMMA ClearTypes ==
    ASSUME TypeInv, NEW p \in Proc, Clear(p)
    PROVE  TypeInv'
<1>1. /\ UNCHANGED <<device, bound, server, edits, faults>>
      /\ pc[p] = "clear" /\ coll' = [coll EXCEPT !.blocked = FALSE]
    BY DEF Clear
<1>2. mutex = p /\ "releaseItems" \in Labels /\ "releaseItems" \in Resolving
    BY <1>1, TypeParts, Holder DEF Resolving, Labels
<1>3. Tables'
    BY <1>1, TypeParts DEF Tables, device, Binding
<1>4. Locked' /\ (copy \in [Proc -> Binding])' /\ LocalsOK'
    <2>1. CASE Leave(p)
        BY <1>2, <2>1, TypeParts, LeaveTypes
    <2>2. CASE ~Leave(p)
        <3>1. Goto(p, "releaseItems") /\ UNCHANGED <<mutex, copy, progress>>
            BY <2>2 DEF Clear
        <3>2. Locked'
            BY <1>2, <3>1, TypeParts, LockMoves
        <3>3. QED
            BY <3>1, <3>2, TypeParts, SameParts
    <2>3. QED
        BY <2>1, <2>2
<1>5. QED
    BY <1>1, <1>3, <1>4, TypeParts, SameParts

LEMMA ReleaseTypes ==
    ASSUME TypeInv, NEW p \in Proc, ReleaseItems(p) \/ Release(p)
    PROVE  TypeInv'
<1>1. CASE ReleaseItems(p)
    <2>1. /\ UNCHANGED <<device, coll, server, mutex, copy, progress, edits, faults>>
          /\ pc[p] = "releaseItems" /\ Goto(p, "release") /\ bound' = [i \in Item |-> NoTask]
        BY <1>1 DEF ReleaseItems
    <2>2. mutex = p /\ "release" \in Labels /\ "release" \in Resolving
        BY <2>1, TypeParts, Holder DEF Resolving, Labels
    <2>3. Locked'
        BY <2>1, <2>2, TypeParts, LockMoves
    <2>4. Tables'
        BY <2>1, TypeParts, NothingTypes DEF Tables, device
    <2>5. QED
        BY <2>1, <2>3, <2>4, TypeParts, SameParts
<1>2. CASE Release(p)
    <2>1. /\ UNCHANGED <<device, bound, server, edits, faults>>
          /\ pc[p] = "release" /\ coll' = Unbound /\ Leave(p)
        BY <1>2 DEF Release
    <2>2. mutex = p
        BY <2>1, TypeParts, Holder DEF Resolving
    <2>3. Tables'
        BY <2>1, TypeParts, NothingTypes DEF Tables, device
    <2>4. QED
        BY <2>1, <2>2, <2>3, TypeParts, SameParts, LeaveTypes
<1>3. QED
    BY <1>1, <1>2

LEMMA RequestFailsTypes ==
    ASSUME TypeInv, NEW p \in Proc, RequestFails(p)
    PROVE  TypeInv'
<1>1. /\ UNCHANGED <<device, bound, coll, server, edits>> /\ Leave(p)
      /\ pc[p] \in {"discover", "put", "fetch"} /\ faults < MaxFaults /\ faults' = faults + 1
    BY DEF RequestFails
<1>2. mutex = p
    BY <1>1, TypeParts, Holder DEF Syncing
<1>3. Bounded'
    BY <1>1, TypeParts, LimitAssumption DEF Bounded
<1>4. QED
    BY <1>1, <1>2, <1>3, TypeParts, SameParts, LeaveTypes

LEMMA CrashTypes ==
    ASSUME TypeInv, Crash
    PROVE  TypeInv'
<1>1. /\ UNCHANGED <<device, bound, coll, server, edits>>
      /\ faults < MaxFaults /\ faults' = faults + 1
      /\ pc' = [p \in Proc |-> "idle"] /\ copy' = [p \in Proc |-> Unbound] /\ mutex' = Nobody
      /\ stage' = "none" /\ view' = NoView /\ todo' = {} /\ fetched' = NoFetch /\ merge' = NoMerge
    BY DEF Crash
<1>2. Bounded'
    BY <1>1, TypeParts, LimitAssumption DEF Bounded
<1>3. Locked'
    BY <1>1, ProcAssumption DEF Locked, Labels, Waiting
<1>4. copy' \in [Proc -> Binding] /\ LocalsOK'
    BY <1>1, NothingTypes DEF LocalsOK
<1>5. QED
    BY <1>1, <1>2, <1>3, <1>4, TypeParts, SameParts
-----------------------------------------------------------------------------
(* The list when it is bound.                                              *)

Rank(S, x) == Cardinality({y \in S : y <= x})

\* The ranks in a finite set of numbers are 1 .. its size, each once.
LEMMA Ranks ==
    ASSUME NEW S, S \subseteq Nat, IsFiniteSet(S)
    PROVE  /\ \A x \in S : Rank(S, x) \in 1 .. Cardinality(S)
           /\ \A x, y \in S : Rank(S, x) = Rank(S, y) => x = y
           /\ \A k \in 1 .. Cardinality(S) : \E x \in S : Rank(S, x) = k
<1> DEFINE N == Cardinality(S)
           Below(x) == {y \in S : y <= x}
<1>1. N \in Nat
    BY FS_CardinalityType
<1>2. ASSUME NEW x \in S
      PROVE  /\ IsFiniteSet(Below(x)) /\ Rank(S, x) = Cardinality(Below(x))
             /\ Rank(S, x) \in 1 .. N
    <2>1. Below(x) \in SUBSET S /\ x \in Below(x) /\ {x} \in SUBSET Below(x)
        BY <1>2
    <2>2. Rank(S, x) = Cardinality(Below(x))
        BY DEF Rank
    <2> HIDE DEF Below
    <2>3. IsFiniteSet(Below(x)) /\ Cardinality(Below(x)) <= N
        BY <2>1, FS_Subset
    <2>4. Cardinality({x}) = 1 /\ Cardinality({x}) <= Cardinality(Below(x))
        BY <2>1, <2>3, FS_Singleton, FS_Subset
    <2>5. Cardinality(Below(x)) \in Nat
        BY <2>3, FS_CardinalityType
    <2>6. QED
        BY <1>1, <2>2, <2>3, <2>4, <2>5
<1>3. ASSUME NEW x \in S, NEW y \in S, x < y
      PROVE  Rank(S, x) # Rank(S, y)
    <2>1. x \in Nat /\ y \in Nat
        OBVIOUS
    <2>2. Below(x) \in SUBSET Below(y)
        <3>1. \A z \in S : z <= x => z <= y
            BY <1>3, <2>1
        <3>2. QED
            BY <3>1
    <2>3. y \in Below(y) /\ y \notin Below(x)
        BY <1>3, <2>1
    <2> HIDE DEF Below
    <2>4. Cardinality(Below(x)) # Cardinality(Below(y))
        BY <1>2, <2>2, <2>3, FS_Subset
    <2>5. QED
        BY <1>2, <2>4
<1>4. \A x, y \in S : Rank(S, x) = Rank(S, y) => x = y
    <2>1. SUFFICES ASSUME NEW x \in S, NEW y \in S, Rank(S, x) = Rank(S, y), x # y
                   PROVE  FALSE
        OBVIOUS
    <2>2. x \in Nat /\ y \in Nat
        OBVIOUS
    <2>3. x < y \/ y < x
        BY <2>1, <2>2
    <2>4. QED
        BY <1>3, <2>1, <2>3
<1>5. \A k \in 1 .. N : \E x \in S : Rank(S, x) = k
    <2> DEFINE r == [x \in S |-> Rank(S, x)]
    <2>1. r \in [S -> 1 .. N]
        BY <1>2
    <2>2. \A x, y \in S : r[x] = r[y] => x = y
        BY <1>4
    <2> HIDE DEF r
    <2>3. r \in Injection(S, 1 .. N)
        BY <2>1, <2>2 DEF Injection, IsInjective
    <2>4. IsFiniteSet(1 .. N) /\ Cardinality(1 .. N) = N
        BY <1>1, FS_Interval
    <2>5. r \in Surjection(S, 1 .. N)
        BY <2>3, <2>4, FS_Injection
    <2>6. \A k \in 1 .. N : \E x \in S : r[x] = k
        BY <2>5 DEF Surjection
    <2>7. QED
        BY <2>6 DEF r
<1>6. QED
    BY <1>2, <1>4, <1>5

\* The task of the n-th item is the n-th task.
TaskAtFirst(i) == CHOOSE u \in Uid : Rank(Uid, u) = Rank(Initial, i)

LEMMA InitialTasks ==
    /\ \A i \in Initial : TaskAtFirst(i) \in Uid
    /\ \A i, j \in Initial : TaskAtFirst(i) = TaskAtFirst(j) => i = j
<1>1. /\ Uid \subseteq Nat /\ IsFiniteSet(Uid) /\ Initial \subseteq Nat /\ IsFiniteSet(Initial)
      /\ Cardinality(Initial) <= Cardinality(Uid)
    BY IdentityAssumption, FS_Subset
<1>2. Cardinality(Uid) \in Nat /\ Cardinality(Initial) \in Nat
    BY <1>1, FS_CardinalityType
<1>3. ASSUME NEW i \in Initial
      PROVE  TaskAtFirst(i) \in Uid /\ Rank(Uid, TaskAtFirst(i)) = Rank(Initial, i)
    <2>1. Rank(Initial, i) \in 1 .. Cardinality(Uid)
        <3>1. Rank(Initial, i) \in 1 .. Cardinality(Initial)
            BY <1>1, Ranks
        <3>2. QED
            BY <1>1, <1>2, <3>1
    <2>2. \E u \in Uid : Rank(Uid, u) = Rank(Initial, i)
        BY <1>1, <2>1, Ranks
    <2>3. QED
        BY <2>2 DEF TaskAtFirst
<1>4. \A i, j \in Initial : Rank(Initial, i) = Rank(Initial, j) => i = j
    BY <1>1, Ranks
<1>5. QED
    BY <1>3, <1>4

\* The tables of a list that is bound and in step.
FirstValue == [NoValue EXCEPT !.checked = FALSE]
FirstRow(i) == [NoRow(i) EXCEPT !.life = "ACTIVE", !.val = FirstValue,
                                !.at = [f \in Field |-> [clock |-> 1, actor |-> Device]]]

LEMMA InitTables ==
    ASSUME Init
    PROVE  /\ rows = [i \in Item |-> IF i \notin Initial THEN NoRow(i) ELSE FirstRow(i)]
           /\ tasks = [u \in Uid |-> IF \E i \in Initial : TaskAtFirst(i) = u
                        THEN [etag |-> 1, val |-> FirstValue,
                              origin |-> CHOOSE i \in Initial : TaskAtFirst(i) = u]
                        ELSE [etag |-> 0, val |-> NoValue, origin |-> u]]
           /\ bound = [i \in Item |-> IF i \notin Initial THEN NoTask ELSE
                        [uid |-> TaskAtFirst(i), etag |-> 1, base |-> FirstValue, gone |-> FALSE]]
           /\ coll = [bound |-> TRUE, enabled |-> TRUE, writable |-> TRUE, available |-> TRUE,
                      blocked |-> FALSE, clock |-> 0]
           /\ clock = 1 /\ pending = {} /\ access = "writable" /\ etags = 1 /\ mutex = Nobody
           /\ pc = [p \in Proc |-> "idle"] /\ copy = [p \in Proc |-> Unbound]
           /\ stage = "none" /\ view = NoView /\ todo = {} /\ fetched = NoFetch /\ merge = NoMerge
           /\ edits = 0 /\ faults = 0 /\ delivered = {1} /\ saved = {}
BY DEF Init, TaskAtFirst, Rank, FirstValue, FirstRow

LEMMA InitTypes ==
    ASSUME Init
    PROVE  TypeInv
<1>0. NoValue \in Values /\ FirstValue \in Values
    BY NothingTypes DEF FirstValue, Values
<1>1. rows \in [Item -> Row]
    <2>1. ASSUME NEW i \in Item
          PROVE  FirstRow(i) \in Row
        <3>1. [clock |-> 1, actor |-> Device] \in Stamp /\ NoRow(i) \in Row
            BY NothingTypes DEF Stamp, Device
        <3>2. QED
            BY <1>0, <3>1 DEF FirstRow, Row
    <2>2. QED
        BY <2>1, InitTables, NothingTypes
<1>2. tasks \in [Uid -> Task]
    <2>1. ASSUME NEW u \in Uid
          PROVE  tasks[u] \in Task
        <3>1. CASE \E i \in Initial : TaskAtFirst(i) = u
            <4> DEFINE j == CHOOSE i \in Initial : TaskAtFirst(i) = u
            <4>1. j \in Item
                BY <3>1, IdentityAssumption
            <4> HIDE DEF j
            <4>2. [etag |-> 1, val |-> FirstValue, origin |-> j] \in Task
                BY <1>0, <4>1 DEF Task
            <4> USE DEF j
            <4>3. tasks[u] = [etag |-> 1, val |-> FirstValue, origin |-> j]
                BY <3>1, InitTables
            <4> HIDE DEF j
            <4>4. QED
                BY <4>2, <4>3
        <3>2. CASE ~ \E i \in Initial : TaskAtFirst(i) = u
            <4>1. [etag |-> 0, val |-> NoValue, origin |-> u] \in Task
                BY <1>0 DEF Task
            <4>2. tasks[u] = [etag |-> 0, val |-> NoValue, origin |-> u]
                BY <3>2, InitTables
            <4>3. QED
                BY <4>1, <4>2
        <3>3. QED
            BY <3>1, <3>2
    <2>2. tasks = [u \in Uid |-> tasks[u]]
        BY InitTables
    <2>3. QED
        BY <2>1, <2>2
<1>3. bound \in [Item -> ItemBinding]
    <2>1. ASSUME NEW i \in Initial
          PROVE  [uid |-> TaskAtFirst(i), etag |-> 1, base |-> FirstValue, gone |-> FALSE]
                    \in ItemBinding
        BY <1>0, InitialTasks DEF ItemBinding
    <2>2. QED
        BY <2>1, InitTables, NothingTypes
<1>4. coll \in Binding
    <2>1. [bound |-> TRUE, enabled |-> TRUE, writable |-> TRUE, available |-> TRUE,
           blocked |-> FALSE, clock |-> 0] \in Binding
        BY DEF Binding
    <2>2. QED
        BY <2>1, InitTables
<1>5. Tables
    BY <1>1, <1>3, <1>4, InitTables DEF Tables
<1>6. Server
    BY <1>2, InitTables DEF Server
<1>7. Locked
    BY InitTables, ProcAssumption DEF Locked, Labels, Waiting
<1>8. copy \in [Proc -> Binding] /\ LocalsOK
    BY InitTables, NothingTypes DEF LocalsOK
<1>9. Bounded
    BY InitTables, LimitAssumption DEF Bounded
<1>10. QED
    BY <1>5, <1>6, <1>7, <1>8, <1>9, TypeParts
-----------------------------------------------------------------------------
(* The type invariant.                                                     *)

LEMMA SameTypes ==
    ASSUME TypeInv, UNCHANGED vars
    PROVE  TypeInv'
BY TypeParts, SameParts DEF vars

LEMMA ContinueTypes ==
    ASSUME TypeInv, NEW p \in Proc, Continue(p)
    PROVE  TypeInv'
<1>1. CASE Begin(p) \/ Discover(p) \/ Quarantine(p)
    BY <1>1, BeginTypes, DiscoverTypes, QuarantineTypes
<1>2. CASE Push(p) \/ Put(p) \/ Delete(p) \/ Store(p) \/ Acknowledge(p)
    BY <1>2, PushTypes, PutDeleteTypes, StoreTypes, AcknowledgeTypes
<1>3. CASE Fetch(p) \/ Prepare(p) \/ Import(p) \/ Bind(p) \/ Pulled(p)
    BY <1>3, FetchTypes, PrepareTypes, ImportTypes, BindTypes, PulledTypes
<1>4. CASE Listed(p) \/ Shared(p) \/ Resolve(p) \/ Revert(p) \/ Drop(p) \/ Clear(p)
              \/ ReleaseItems(p) \/ Release(p)
    BY <1>4, ListedTypes, SharedTypes, ResolveTypes, RevertTypes, DropTypes, ClearTypes, ReleaseTypes
<1>5. QED
    BY <1>1, <1>2, <1>3, <1>4 DEF Continue

LEMMA UserTypes ==
    ASSUME TypeInv, User
    PROVE  TypeInv'
<1>1. CASE AddItem \/ SetText \/ SetChecked \/ DeleteItem \/ RestoreItem
    <2>1. PICK i \in Item, r \in Row : EditOf(i, r)
        BY <1>1, EditCases
    <2>2. PICK op : Edit(op, i, r)
        BY <2>1 DEF EditOf
    <2>3. QED
        BY <2>2, EditTypes
<1>2. CASE Stop
    BY <1>2, StopTypes
<1>3. QED
    BY <1>1, <1>2 DEF User

LEMMA NextTypes ==
    ASSUME TypeInv, Next
    PROVE  TypeInv'
<1>1. CASE User \/ Others \/ Crash
    BY <1>1, UserTypes, OthersTypes, CrashTypes
<1>2. ASSUME NEW p \in Proc, Calls(p) \/ Resume(p) \/ Continue(p) \/ RequestFails(p)
      PROVE  TypeInv'
    BY <1>2, CallTypes, ResumeTypes, ContinueTypes, RequestFailsTypes
<1>3. QED
    BY <1>1, <1>2 DEF Next, Calls

LEMMA TypesHold == Spec => []TypeInv
<1>1. TypeInv /\ [Next]_vars => TypeInv'
    BY NextTypes, SameTypes
<1>2. QED
    BY InitTypes, <1>1, PTL DEF Spec

\* The tables and the local variables of every caller hold what they can
\* hold, and whoever is past the point where syncMutex is taken, and no one
\* else, holds it, whatever the callers, the other clients and faults do.
THEOREM TypeCorrect == Spec => []TypeOK
<1>1. TypeInv => TypeOK
    BY DEF TypeInv
<1>2. QED
    BY TypesHold, <1>1, PTL
-----------------------------------------------------------------------------
(* What a synchronization knows of the list while it holds the mutex.      *)

NobodyShares == "SHARE" \notin Operations /\ "PUBLISH" \notin Operations

\* A step of the caller that holds or takes the mutex: all others wait.
LEMMA OthersWait ==
    ASSUME TypeInv, CopiesAgree, NEW p \in Proc, mutex \in {p, Nobody},
           \A q \in Proc \ {p} : pc'[q] = pc[q], CopyAgrees(p)'
    PROVE  CopiesAgree'
<1>1. ASSUME NEW q \in Proc, q # p
      PROVE  CopyAgrees(q)'
    <2>1. pc[q] \in Waiting /\ pc'[q] = pc[q]
        BY <1>1, TypeParts, Holder, ProcAssumption DEF Locked
    <2>2. pc[q] \notin Syncing
        BY <2>1 DEF Waiting, Syncing
    <2>3. QED
        BY <2>1, <2>2 DEF CopiesAgree, CopyAgrees
<1>2. QED
    BY <1>1 DEF CopiesAgree

\* One that ends, waits, or decides on stranded work makes no claim.
LEMMA NotSyncing ==
    ASSUME NEW p \in Proc,
           pc'[p] \in Resolving \union {"idle", "queued", "copying", "keeping", "discarding"}
    PROVE  CopyAgrees(p)'
BY DEF CopyAgrees, Syncing, Resolving

LEMMA GotoOne ==
    ASSUME TypeInv, NEW p \in Proc, NEW l, Goto(p, l)
    PROVE  pc'[p] = l /\ \A q \in Proc \ {p} : pc'[q] = pc[q]
BY TypeParts DEF Goto, Locked

LEMMA LeaveAgrees ==
    ASSUME TypeInv, CopiesAgree, NEW p \in Proc, mutex \in {p, Nobody}, Leave(p)
    PROVE  CopiesAgree'
<1>1. pc'[p] = "idle" /\ \A q \in Proc \ {p} : pc'[q] = pc[q]
    BY GotoOne DEF Leave
<1>2. QED
    BY <1>1, NotSyncing, OthersWait

\* Calls wait with a copy of the binding; a list that is resumed while a
\* synchronization runs is enabled already.
LEMMA CallAgrees ==
    ASSUME TypeInv, CopiesAgree, NobodyShares, NEW p \in Proc, Calls(p) \/ Resume(p)
    PROVE  CopiesAgree'
<1>1. PICK l : Goto(p, l) /\ l \in {"queued", "copying", "keeping", "discarding"}
    <2>1. CASE Calls(p)
        BY <2>1 DEF Calls, Sync, Publish, Share, LocalCopy, Keep, Discard, Call, NobodyShares
    <2>2. CASE Resume(p)
        BY <2>2 DEF Resume
    <2>3. QED
        BY <2>1, <2>2
<1>2. CopyAgrees(p)'
    BY <1>1, GotoOne, NotSyncing
<1>3. ASSUME NEW q \in Proc, q # p
      PROVE  CopyAgrees(q)'
    <2>1. pc'[q] = pc[q] /\ stage' = stage
        BY <1>1, <1>3, GotoOne, CallCases DEF Resume, Call, progress
    <2>2. copy'[q] = copy[q]
        BY <1>3, CallCases, TypeParts DEF Resume, Call
    <2>3. coll' = coll \/ coll' = [coll EXCEPT !.enabled = TRUE]
        BY CallCases DEF Resume, Call
    <2>4. coll \in Binding
        BY TypeParts DEF Tables
    <2>5. CASE coll' = coll
        BY <2>1, <2>2, <2>5 DEF CopiesAgree, CopyAgrees
    <2>6. CASE coll' = [coll EXCEPT !.enabled = TRUE]
        <3>1. /\ coll'.bound = coll.bound /\ coll'.enabled /\ coll'.writable = coll.writable
              /\ coll'.available = coll.available /\ coll'.blocked = coll.blocked
            BY <2>4, <2>6 DEF Binding
        <3>2. copy[q] \in Binding
            BY TypeParts
        <3>3. copy[q].enabled => copy[q].enabled = TRUE
            BY <3>2 DEF Binding
        <3>4. coll'.enabled = TRUE
            BY <2>4, <2>6 DEF Binding
        <3>5. SameAccess(copy[q], coll) /\ copy[q].enabled => SameAccess(copy'[q], coll')
            BY <2>2, <3>1, <3>3, <3>4 DEF SameAccess
        <3>6. QED
            BY <2>1, <2>2, <3>1, <3>5 DEF CopiesAgree, CopyAgrees
    <2>7. QED
        BY <2>3, <2>5, <2>6
<1>4. QED
    BY <1>2, <1>3 DEF CopiesAgree

\* A synchronization begins with the binding it reads under the mutex.
LEMMA BeginAgrees ==
    ASSUME TypeInv, CopiesAgree, NEW p \in Proc, Begin(p)
    PROVE  CopiesAgree'
<1>1. mutex = Nobody /\ coll' = coll
    BY DEF Begin
<1>2. /\ pc[p] = "queued"
      /\ copy' = [copy EXCEPT ![p] = IF Persisted(p).enabled THEN Persisted(p) ELSE Unbound]
      /\ IF Persisted(p).enabled
         THEN mutex' = p /\ Goto(p, "discover") /\ stage' = "sync"
         ELSE UNCHANGED <<mutex, stage>> /\ Goto(p, "idle")
    BY DEF Begin, CopiesAgree, CopyAgrees
<1>3. CASE Persisted(p).enabled
    <2>1. copy'[p] = Persisted(p)
        BY <1>2, <1>3, TypeParts
    <2>2. pc'[p] = "discover" /\ stage' = "sync" /\ \A q \in Proc \ {p} : pc'[q] = pc[q]
        BY <1>2, <1>3, GotoOne
    <2>3. coll.bound => SameAccess(copy'[p], coll')
        BY <1>1, <2>1 DEF Persisted, SameAccess
    <2>4. CopyAgrees(p)'
        BY <1>1, <1>3, <2>1, <2>2, <2>3 DEF CopyAgrees
    <2>5. QED
        BY <1>1, <2>2, <2>4, OthersWait
<1>4. CASE ~Persisted(p).enabled
    <2>1. pc'[p] = "idle" /\ \A q \in Proc \ {p} : pc'[q] = pc[q]
        BY <1>2, <1>4, GotoOne
    <2>2. QED
        BY <1>1, <2>1, NotSyncing, OthersWait
<1>5. QED
    BY <1>3, <1>4

\* What a synchronizing caller knows of the list.
LEMMA Knows ==
    ASSUME TypeInv, CopiesAgree, NEW p \in Proc, pc[p] \in Syncing
    PROVE  /\ mutex = p /\ copy[p] \in Binding /\ coll \in Binding
           /\ copy[p].enabled
           /\ coll.bound => SameAccess(copy[p], coll)
           /\ pc[p] \in {"push", "put", "store"} \/ stage = "retryPull" => ~copy[p].blocked
BY TypeParts, Holder DEF CopiesAgree, CopyAgrees, Tables

LEMMA DiscoverAgrees ==
    ASSUME TypeInv, CopiesAgree, NEW p \in Proc, Discover(p)
    PROVE  CopiesAgree'
<1>1. /\ pc[p] = "discover" /\ Goto(p, "quarantine") /\ stage' = stage
      /\ copy' = [copy EXCEPT ![p] = Refreshed(copy[p])]
      /\ coll' = IF Refreshed(copy[p]) # copy[p] THEN Refreshed(copy[p]) ELSE coll
    BY DEF Discover, progress
<1>2. pc[p] \in Syncing
    BY <1>1 DEF Syncing
<1>3. copy'[p] = Refreshed(copy[p])
    BY <1>1, TypeParts
<1>4. pc'[p] = "quarantine" /\ \A q \in Proc \ {p} : pc'[q] = pc[q]
    BY <1>1, GotoOne
<1>5. Refreshed(copy[p]).enabled = copy[p].enabled /\ Refreshed(copy[p]).blocked = copy[p].blocked
    BY <1>2, Knows DEF Refreshed, Binding
<1>6. coll'.bound => SameAccess(copy'[p], coll')
    <2>1. CASE Refreshed(copy[p]) # copy[p]
        BY <1>1, <1>3, <2>1 DEF SameAccess
    <2>2. CASE Refreshed(copy[p]) = copy[p]
        BY <1>1, <1>2, <1>3, <2>2, Knows
    <2>3. QED
        BY <2>1, <2>2
<1>7. CopyAgrees(p)'
    BY <1>1, <1>2, <1>3, <1>4, <1>5, <1>6, Knows DEF CopyAgrees
<1>8. QED
    BY <1>2, <1>4, <1>7, Knows, OthersWait

LEMMA QuarantineAgrees ==
    ASSUME TypeInv, CopiesAgree, NEW p \in Proc, Quarantine(p)
    PROVE  CopiesAgree'
<1> DEFINE c == [copy[p] EXCEPT !.blocked = Quarantined(copy[p])]
<1>1. pc[p] = "quarantine" /\ coll' = IF c # copy[p] THEN c ELSE coll
    BY DEF Quarantine
<1>2. pc[p] \in Syncing
    BY <1>1 DEF Syncing
<1>3. CASE Leave(p)
    BY <1>2, <1>3, Knows, LeaveAgrees
<1>4. CASE ~Leave(p)
    <2>1. /\ copy' = [copy EXCEPT ![p] = c]
          /\ stage' = CASE c.blocked -> "blockedPull"
                        [] ~c.blocked /\ ~c.writable -> "readOnlyPull"
                        [] ~c.blocked /\ c.writable ->
                             IF stage = "publish" THEN "publish" ELSE "push"
          /\ Goto(p, IF c.blocked \/ ~c.writable THEN "fetch" ELSE "push")
        BY <1>4 DEF Quarantine
    <2>2. copy'[p] = c
        BY <2>1, TypeParts
    <2>3. /\ pc'[p] = (IF c.blocked \/ ~c.writable THEN "fetch" ELSE "push")
          /\ \A q \in Proc \ {p} : pc'[q] = pc[q]
        BY <2>1, GotoOne
    <2>4. c.enabled = copy[p].enabled
        BY <1>2, Knows DEF Binding
    <2>5. coll'.bound => SameAccess(copy'[p], coll')
        <3>1. CASE c # copy[p]
            BY <1>1, <2>2, <3>1 DEF SameAccess
        <3>2. CASE c = copy[p]
            BY <1>1, <1>2, <2>2, <3>2, Knows
        <3>3. QED
            BY <3>1, <3>2
    <2>6. c.blocked \in BOOLEAN /\ c.writable \in BOOLEAN
        BY <1>2, Knows DEF Binding, Quarantined
    <2>7. stage' # "retryPull"
        BY <2>1, <2>6
    <2> HIDE DEF c
    <2>8. CopyAgrees(p)'
        BY <1>2, <2>2, <2>3, <2>4, <2>5, <2>6, <2>7, Knows DEF CopyAgrees
    <2>9. QED
        BY <1>2, <2>3, <2>8, Knows, OthersWait
<1>5. QED
    BY <1>3, <1>4

\* Steps that keep the copy and the binding, and do not begin a push.
LEMMA GoesOn ==
    ASSUME TypeInv, CopiesAgree, NEW p \in Proc, NEW l, pc[p] \in Syncing, Goto(p, l),
           UNCHANGED <<coll, copy>>, l \notin {"publishing", "sharing", "persisting"},
           \/ stage' = stage /\ l \notin {"push", "put", "store"}
           \/ pc[p] \in {"push", "put", "store"}
    PROVE  CopiesAgree'
<1>1. pc'[p] = l /\ \A q \in Proc \ {p} : pc'[q] = pc[q]
    BY GotoOne
<1>2. CopyAgrees(p)'
    BY <1>1, Knows DEF CopyAgrees
<1>3. QED
    BY <1>1, <1>2, Knows, OthersWait

LEMMA PutDeleteAgrees ==
    ASSUME TypeInv, CopiesAgree, NEW p \in Proc, Put(p) \/ Delete(p)
    PROVE  CopiesAgree'
<1>1. pc[p] = "put" /\ UNCHANGED coll
    BY PutAnswers, DeleteAnswers
<1>2. PICK i \in todo : Answer(p, i)
    BY PutAnswers, DeleteAnswers
<1>3. pc[p] \in Syncing
    BY <1>1 DEF Syncing
<1>4. CASE Leave(p)
    BY <1>3, <1>4, Knows, LeaveAgrees
<1>5. CASE Conflict(p) /\ ~Leave(p)
    <2>1. Goto(p, "fetch") /\ UNCHANGED copy
        BY <1>5 DEF Conflict
    <2>2. QED
        BY <1>1, <1>3, <2>1, GoesOn
<1>6. ASSUME NEW b \in ItemBinding, Reply(p, i, b)
      PROVE  CopiesAgree'
    <2>1. Goto(p, "store") /\ UNCHANGED copy
        BY <1>6 DEF Reply
    <2>2. QED
        BY <1>1, <1>3, <2>1, GoesOn
<1>7. QED
    BY <1>2, <1>4, <1>5, <1>6 DEF Answer, ReplyLost

LEMMA AcknowledgeAgrees ==
    ASSUME TypeInv, CopiesAgree, NEW p \in Proc, Acknowledge(p)
    PROVE  CopiesAgree'
<1>1. pc[p] = "put" /\ UNCHANGED coll
    BY DEF Acknowledge
<1>2. pc[p] \in Syncing
    BY <1>1 DEF Syncing
<1>3. CASE Leave(p)
    BY <1>2, <1>3, Knows, LeaveAgrees
<1>4. CASE ~Leave(p)
    <2>1. /\ stage' = "pull" /\ Goto(p, "fetch")
          /\ copy' = [copy EXCEPT ![p] = IF coll.bound THEN coll ELSE copy[p]]
        BY <1>4 DEF Acknowledge
    <2>2. copy'[p] = IF coll.bound THEN coll ELSE copy[p]
        BY <2>1, TypeParts
    <2>3. pc'[p] = "fetch" /\ \A q \in Proc \ {p} : pc'[q] = pc[q]
        BY <2>1, GotoOne
    <2>4. copy'[p].enabled
        BY <1>2, <2>2, Knows DEF SameAccess
    <2>5. coll'.bound => SameAccess(copy'[p], coll')
        BY <1>1, <2>2 DEF SameAccess
    <2>6. CopyAgrees(p)'
        BY <2>1, <2>3, <2>4, <2>5 DEF CopyAgrees
    <2>7. QED
        BY <1>2, <2>3, <2>6, Knows, OthersWait
<1>5. QED
    BY <1>3, <1>4

LEMMA PulledAgrees ==
    ASSUME TypeInv, CopiesAgree, NEW p \in Proc, Pulled(p)
    PROVE  CopiesAgree'
<1>1. pc[p] = "bind" /\ coll' = [copy[p] EXCEPT !.clock = merge.clock]
    BY DEF Pulled
<1>2. pc[p] \in Syncing
    BY <1>1 DEF Syncing
<1>3. SameAccess(copy[p], coll')
    BY <1>1, <1>2, Knows DEF SameAccess, Binding
<1>4. CASE Leave(p)
    BY <1>2, <1>4, Knows, LeaveAgrees
<1>5. CASE ~Leave(p)
    <2>1. /\ stage = "retryPull" \/ (stage = "pull" /\ coll'.writable /\ ~coll'.blocked)
          /\ stage' = IF stage = "retryPull" THEN "retryPush" ELSE "repush"
          /\ copy' = [copy EXCEPT ![p] = IF stage = "pull" THEN coll' ELSE copy[p]]
          /\ Goto(p, "push")
        BY <1>5 DEF Pulled
    <2>2. copy'[p] = IF stage = "pull" THEN coll' ELSE copy[p]
        BY <2>1, TypeParts
    <2>3. pc'[p] = "push" /\ \A q \in Proc \ {p} : pc'[q] = pc[q]
        BY <2>1, GotoOne
    <2>4. SameAccess(copy'[p], coll') /\ copy'[p].enabled
        BY <1>2, <1>3, <2>2, Knows DEF SameAccess
    <2>5. ~copy'[p].blocked
        BY <1>2, <2>1, <2>2, Knows
    <2>6. CopyAgrees(p)'
        BY <2>3, <2>4, <2>5 DEF CopyAgrees
    <2>7. QED
        BY <1>2, <2>3, <2>6, Knows, OthersWait
<1>6. QED
    BY <1>4, <1>5

\* The other steps of a synchronization.
LEMMA PullAgrees ==
    ASSUME TypeInv, CopiesAgree, NEW p \in Proc,
           Push(p) \/ Store(p) \/ Fetch(p) \/ Prepare(p) \/ Import(p) \/ Bind(p)
    PROVE  CopiesAgree'
<1>1. /\ pc[p] \in {"push", "store", "fetch", "prepare", "import", "bind"}
      /\ UNCHANGED coll
    BY DEF Push, Store, Fetch, Prepare, Import, Bind
<1>2. pc[p] \in Syncing
    BY <1>1 DEF Syncing
<1>3. CASE Push(p) \/ Store(p)
    <2>1. Goto(p, "put") /\ UNCHANGED copy /\ pc[p] \in {"push", "store"}
        BY <1>3 DEF Push, Store
    <2>2. QED
        BY <1>1, <1>2, <2>1, GoesOn
<1>4. CASE Leave(p)
    BY <1>2, <1>4, Knows, LeaveAgrees
<1>5. CASE Fetch(p) /\ ~Leave(p)
    <2>1. Goto(p, "prepare") /\ UNCHANGED <<copy, stage>>
        BY <1>5 DEF Fetch
    <2>2. QED
        BY <1>1, <1>2, <2>1, GoesOn
<1>6. CASE Prepare(p)
    <2>1. Goto(p, "import") /\ UNCHANGED <<copy, stage>>
        BY <1>6 DEF Prepare
    <2>2. QED
        BY <1>1, <1>2, <2>1, GoesOn
<1>7. CASE Import(p)
    <2>1. Goto(p, "bind") /\ UNCHANGED <<copy, stage>>
        BY <1>7 DEF Import
    <2>2. QED
        BY <1>1, <1>2, <2>1, GoesOn
<1>8. CASE Bind(p)
    BY <1>1, <1>8 DEF Bind, CopiesAgree, CopyAgrees
<1>9. QED
    BY <1>3, <1>4, <1>5, <1>6, <1>7, <1>8

\* Decisions on stranded work: whoever takes one holds the mutex.
LEMMA DecisionAgrees ==
    ASSUME TypeInv, CopiesAgree, NEW p \in Proc,
           Resolve(p) \/ Revert(p) \/ Drop(p) \/ Clear(p) \/ ReleaseItems(p) \/ Release(p)
    PROVE  CopiesAgree'
<1>1. mutex \in {p, Nobody}
    <2>1. mutex = Nobody \/ pc[p] \in Resolving
        BY DEF Resolve, Revert, Drop, Clear, ReleaseItems, Release, Resolving
    <2>2. QED
        BY <2>1, TypeParts, Holder
<1>2. CASE Leave(p)
    BY <1>1, <1>2, LeaveAgrees
<1>3. CASE ~Leave(p)
    <2>1. PICK l : Goto(p, l) /\ l \in Resolving
        BY <1>3 DEF Resolve, Revert, Drop, Clear, ReleaseItems, Release, Resolving
    <2>2. QED
        BY <1>1, <2>1, GotoOne, NotSyncing, OthersWait
<1>4. QED
    BY <1>2, <1>3

LEMMA ContinueAgrees ==
    ASSUME TypeInv, CopiesAgree, NEW p \in Proc, Continue(p)
    PROVE  CopiesAgree'
<1>1. CASE Begin(p) \/ Discover(p) \/ Quarantine(p)
    BY <1>1, BeginAgrees, DiscoverAgrees, QuarantineAgrees
<1>2. CASE Put(p) \/ Delete(p) \/ Acknowledge(p) \/ Pulled(p)
    BY <1>2, PutDeleteAgrees, AcknowledgeAgrees, PulledAgrees
<1>3. CASE Push(p) \/ Store(p) \/ Fetch(p) \/ Prepare(p) \/ Import(p) \/ Bind(p)
    BY <1>3, PullAgrees
<1>4. CASE Listed(p) \/ Shared(p)
    BY <1>4 DEF Listed, Shared, CopiesAgree, CopyAgrees
<1>5. CASE Resolve(p) \/ Revert(p) \/ Drop(p) \/ Clear(p) \/ ReleaseItems(p) \/ Release(p)
    BY <1>5, DecisionAgrees
<1>6. QED
    BY <1>1, <1>2, <1>3, <1>4, <1>5 DEF Continue

LEMMA NextAgrees ==
    ASSUME TypeInv, CopiesAgree, NobodyShares, [Next]_vars
    PROVE  CopiesAgree'
<1>1. CASE UNCHANGED vars
    BY <1>1 DEF CopiesAgree, CopyAgrees, vars, progress
<1>2. CASE AddItem \/ SetText \/ SetChecked \/ DeleteItem \/ RestoreItem
    <2>1. UNCHANGED <<coll, pc, copy, progress>>
        BY <1>2, EditCases DEF EditOf, Edit
    <2>2. QED
        BY <2>1 DEF CopiesAgree, CopyAgrees, progress
<1>3. CASE Others
    <2>1. UNCHANGED <<coll, pc, copy, progress>>
        BY <1>3 DEF Others, RemoteAdd, RemoteSet, RemoteDelete, OtherClient, Reshare
    <2>2. QED
        BY <2>1 DEF CopiesAgree, CopyAgrees, progress
<1>4. CASE Stop
    <2>1. UNCHANGED pc /\ mutex = Nobody
        BY <1>4 DEF Stop
    <2>2. \A p \in Proc : pc[p] \notin Syncing
        BY <2>1, TypeParts, Holder DEF Waiting, Syncing
    <2>3. QED
        BY <2>1, <2>2 DEF CopiesAgree, CopyAgrees
<1>5. CASE Crash
    <2>1. \A p \in Proc : pc'[p] = "idle"
        BY <1>5 DEF Crash
    <2>2. QED
        BY <2>1, NotSyncing DEF CopiesAgree
<1>6. ASSUME NEW p \in Proc, Calls(p) \/ Resume(p)
      PROVE  CopiesAgree'
    BY <1>6, CallAgrees
<1>7. ASSUME NEW p \in Proc, Continue(p)
      PROVE  CopiesAgree'
    BY <1>7, ContinueAgrees
<1>8. ASSUME NEW p \in Proc, RequestFails(p)
      PROVE  CopiesAgree'
    <2>1. pc[p] \in Syncing /\ Leave(p)
        BY <1>8 DEF RequestFails, Syncing
    <2>2. QED
        BY <2>1, Knows, LeaveAgrees
<1>9. QED
    BY <1>1, <1>2, <1>3, <1>4, <1>5, <1>6, <1>7, <1>8 DEF Next, User, Calls

LEMMA InitAgrees ==
    ASSUME Init
    PROVE  CopiesAgree
<1>1. \A p \in Proc : pc[p] = "idle"
    BY InitTables
<1>2. QED
    BY <1>1 DEF CopiesAgree, CopyAgrees, Syncing

LEMMA AccessHolds ==
    ASSUME NobodyShares
    PROVE  Spec => []AccessInv
<1>1. Init => AccessInv
    BY InitTypes, InitAgrees DEF AccessInv
<1>2. AccessInv /\ [Next]_vars => AccessInv'
    BY NextTypes, SameTypes, NextAgrees DEF AccessInv
<1>3. QED
    BY <1>1, <1>2, PTL DEF Spec
-----------------------------------------------------------------------------
(* Every write of the binding of a list that is bound.                     *)

BySync == \E p \in Proc : /\ pc[p] \in Syncing /\ coll.enabled
                          /\ coll'.bound /\ coll'.enabled /\ (coll.blocked => coll'.blocked)
ByStop == coll' = [coll EXCEPT !.enabled = FALSE]
ByResume == /\ coll' = [coll EXCEPT !.enabled = TRUE]
            /\ \E p \in Proc : pc[p] = "idle" /\ pc'[p] = "queued"
ByDecision == \E p \in Proc : /\ mutex = p /\ pc[p] \in {"clear", "release"}
                              /\ coll'.bound => coll'.enabled = coll.enabled

LEMMA BindingWrites ==
    ASSUME TypeInv, CopiesAgree, Next, coll.bound
    PROVE  coll' = coll \/ BySync \/ ByStop \/ ByResume \/ ByDecision
<1>0. coll \in Binding
    BY TypeParts DEF Tables
<1>1. ASSUME NEW p \in Proc, pc[p] \in Syncing
      PROVE  coll.enabled /\ copy[p].bound /\ copy[p].enabled /\ copy[p].blocked = coll.blocked
    BY <1>1, Knows DEF SameAccess
<1>2. ASSUME NEW p \in Proc, Discover(p)
      PROVE  coll' = coll \/ BySync
    <2>1. pc[p] \in Syncing /\ coll' \in {Refreshed(copy[p]), coll}
        BY <1>2 DEF Discover, Syncing
    <2>2. LET c == Refreshed(copy[p])
          IN  c.bound = copy[p].bound /\ c.enabled = copy[p].enabled /\ c.blocked = copy[p].blocked
        BY <2>1, Knows DEF Refreshed, Binding
    <2>3. QED
        BY <1>1, <2>1, <2>2 DEF BySync
<1>3. ASSUME NEW p \in Proc, Quarantine(p)
      PROVE  coll' = coll \/ BySync
    <2> DEFINE c == [copy[p] EXCEPT !.blocked = Quarantined(copy[p])]
    <2>1. pc[p] \in Syncing /\ coll' \in {c, coll}
        BY <1>3 DEF Quarantine, Syncing
    <2>2. c.bound = copy[p].bound /\ c.enabled = copy[p].enabled /\ (copy[p].blocked => c.blocked)
        BY <2>1, Knows DEF Binding, Quarantined
    <2> HIDE DEF c
    <2>3. QED
        BY <1>1, <2>1, <2>2 DEF BySync
<1>4. ASSUME NEW p \in Proc, Pulled(p)
      PROVE  coll' = coll \/ BySync
    <2>1. pc[p] \in Syncing /\ coll' = [copy[p] EXCEPT !.clock = merge.clock]
        BY <1>4 DEF Pulled, Syncing
    <2>2. /\ coll'.bound = copy[p].bound /\ coll'.enabled = copy[p].enabled
          /\ coll'.blocked = copy[p].blocked
        BY <2>1, Knows DEF Binding
    <2>3. QED
        BY <1>1, <2>1, <2>2 DEF BySync
<1>5. ASSUME NEW p \in Proc, Clear(p) \/ Release(p)
      PROVE  ByDecision
    <2>1. /\ pc[p] \in {"clear", "release"}
          /\ coll' = [coll EXCEPT !.blocked = FALSE] \/ coll' = Unbound
        BY <1>5 DEF Clear, Release
    <2>2. mutex = p
        BY <2>1, TypeParts, Holder DEF Resolving
    <2>3. coll'.bound => coll'.enabled = coll.enabled
        BY <1>0, <2>1 DEF Binding, Unbound
    <2>4. QED
        BY <2>1, <2>2, <2>3 DEF ByDecision
<1>6. CASE Stop
    BY <1>6 DEF Stop, ByStop
<1>7. ASSUME NEW p \in Proc, Resume(p)
      PROVE  ByResume
    BY <1>7, GotoOne DEF Resume, ByResume
<1>8. ASSUME NEW p \in Proc, Listed(p) \/ Shared(p)
      PROVE  FALSE
    BY <1>8 DEF Listed, Shared, CopiesAgree, CopyAgrees
<1>9. CASE (User /\ ~Stop) \/ Others \/ Crash
    <2>1. User /\ ~Stop => coll' = coll
        BY EditCases DEF User, EditOf, Edit
    <2>2. Others \/ Crash => coll' = coll
        BY DEF Others, RemoteAdd, RemoteSet, RemoteDelete, OtherClient, Reshare, Crash
    <2>3. QED
        BY <1>9, <2>1, <2>2
<1>10. ASSUME NEW p \in Proc, Calls(p) \/ RequestFails(p)
       PROVE  coll' = coll
    BY <1>10, CallCases DEF Call, RequestFails
<1>11. ASSUME NEW p \in Proc, Put(p) \/ Delete(p)
       PROVE  coll' = coll
    BY <1>11, PutAnswers, DeleteAnswers
<1>12. ASSUME NEW p \in Proc,
              Begin(p) \/ Push(p) \/ Store(p) \/ Acknowledge(p) \/ Fetch(p) \/ Prepare(p)
              \/ Import(p) \/ Bind(p) \/ Resolve(p) \/ Revert(p) \/ Drop(p) \/ ReleaseItems(p)
       PROVE  coll' = coll
    BY <1>12 DEF Begin, Push, Store, Acknowledge, Fetch, Prepare, Import, Bind, Resolve,
                 Revert, Drop, ReleaseItems
<1>13. ASSUME NEW p \in Proc, Continue(p)
       PROVE  coll' = coll \/ BySync \/ ByDecision
    BY <1>2, <1>3, <1>4, <1>5, <1>8, <1>11, <1>12, <1>13 DEF Continue
<1>14. QED
    BY <1>6, <1>7, <1>9, <1>10, <1>13 DEF Next, Calls

\* After stopSync the list stays stopped until the user resumes it: no
\* synchronization that was on its way, whatever it read before, turns it on
\* again (sharing calls and first publications do; nobody makes them here).
THEOREM StoppedStaysStopped ==
    ASSUME NobodyShares
    PROVE  Spec => StopHolds
<1> DEFINE Step == coll.bound /\ ~coll.enabled /\ coll'.bound /\ coll'.enabled
                     => \E p \in Proc : pc[p] = "idle" /\ pc'[p] = "queued"
<1>1. AccessInv /\ [Next]_vars => [Step]_vars
    <2>1. SUFFICES ASSUME AccessInv, Next, coll.bound, ~coll.enabled, coll'.bound, coll'.enabled
                   PROVE  \E p \in Proc : pc[p] = "idle" /\ pc'[p] = "queued"
        OBVIOUS
    <2>2. coll' = coll \/ BySync \/ ByStop \/ ByResume \/ ByDecision
        BY <2>1, BindingWrites DEF AccessInv
    <2>3. coll \in Binding
        BY <2>1, TypeParts DEF AccessInv, Tables
    <2>4. QED
        BY <2>1, <2>2, <2>3 DEF BySync, ByStop, ByResume, ByDecision, Binding
<1>2. QED
    BY AccessHolds, <1>1, PTL DEF Spec, StopHolds

\* The quarantine is durable: nothing but the end of the user's decision
\* lifts it, neither access that comes back nor a synchronization that read
\* the binding before the list was quarantined.
THEOREM QuarantineIsDurable ==
    ASSUME NobodyShares
    PROVE  Spec => QuarantineHolds
<1> DEFINE Step == coll.bound /\ coll.blocked /\ ~(coll'.bound /\ coll'.blocked)
                     => \E p \in Proc : mutex = p /\ pc[p] \in {"clear", "release"}
<1>1. AccessInv /\ [Next]_vars => [Step]_vars
    <2>1. SUFFICES ASSUME AccessInv, Next, coll.bound, coll.blocked,
                          ~(coll'.bound /\ coll'.blocked)
                   PROVE  \E p \in Proc : mutex = p /\ pc[p] \in {"clear", "release"}
        OBVIOUS
    <2>2. coll' = coll \/ BySync \/ ByStop \/ ByResume \/ ByDecision
        BY <2>1, BindingWrites DEF AccessInv
    <2>3. coll \in Binding
        BY <2>1, TypeParts DEF AccessInv, Tables
    <2>4. QED
        BY <2>1, <2>2, <2>3 DEF BySync, ByStop, ByResume, ByDecision, Binding
<1>2. QED
    BY AccessHolds, <1>1, PTL DEF Spec, QuarantineHolds

\* No synchronization writes to the collection while the list is
\* quarantined: stranded work waits for the user's decision.
THEOREM StrandedWorkWaits ==
    ASSUME NobodyShares
    PROVE  Spec => StrandedWorkStays
<1> DEFINE Step == coll.bound /\ coll.blocked /\ pc' # pc => tasks' = tasks
<1>1. AccessInv /\ [Next]_vars => [Step]_vars
    <2>1. SUFFICES ASSUME AccessInv, Next, coll.bound, coll.blocked, pc' # pc
                   PROVE  tasks' = tasks
        OBVIOUS
    <2>2. ASSUME NEW p \in Proc, Put(p) \/ Delete(p)
          PROVE  FALSE
        <3>1. pc[p] = "put" /\ pc[p] \in Syncing
            BY <2>2 DEF Put, Delete, Syncing
        <3>2. QED
            BY <2>1, <3>1, Knows DEF AccessInv, SameAccess
    <2>3. User \/ Crash \/ Reshare => tasks' = tasks
        <3>1. User => UNCHANGED server
            BY <2>1, EditCases DEF AccessInv, User, EditOf, Edit, Stop
        <3>2. QED
            BY <3>1 DEF server, Crash, Reshare
    <2>4. RemoteAdd \/ RemoteSet \/ RemoteDelete => pc' = pc
        BY DEF RemoteAdd, RemoteSet, RemoteDelete, OtherClient
    <2>5. ASSUME NEW p \in Proc, Calls(p) \/ Resume(p) \/ RequestFails(p)
          PROVE  tasks' = tasks
        BY <2>5, CallCases DEF Call, Resume, RequestFails, server
    <2>6. ASSUME NEW p \in Proc, Continue(p)
          PROVE  tasks' = tasks
        <3>1. CASE Begin(p) \/ Discover(p) \/ Quarantine(p) \/ Push(p) \/ Store(p)
                    \/ Acknowledge(p)
            BY <3>1 DEF Begin, Discover, Quarantine, Push, Store, Acknowledge, server
        <3>2. CASE Fetch(p) \/ Prepare(p) \/ Import(p) \/ Bind(p) \/ Pulled(p)
                    \/ Listed(p) \/ Shared(p)
            BY <3>2 DEF Fetch, Prepare, Import, Bind, Pulled, Listed, Shared, server
        <3>3. CASE Resolve(p) \/ Revert(p) \/ Drop(p) \/ Clear(p) \/ ReleaseItems(p) \/ Release(p)
            BY <3>3 DEF Resolve, Revert, Drop, Clear, ReleaseItems, Release, server
        <3>4. QED
            BY <2>2, <2>6, <3>1, <3>2, <3>3 DEF Continue
    <2>7. QED
        BY <2>1, <2>3, <2>4, <2>5, <2>6 DEF Next, Others, Calls
<1>2. QED
    BY AccessHolds, <1>1, PTL DEF Spec, StrandedWorkStays
-----------------------------------------------------------------------------
(* The user's decision about stranded work, taken on one screen.           *)

OneScreen == \E s : Proc \subseteq {Worker, s}

\* Only the holder of the mutex, or who takes it, goes on.
LEMMA ContinueHolds ==
    ASSUME TypeInv, CopiesAgree, NEW p \in Proc, Continue(p)
    PROVE  mutex \in {p, Nobody}
<1>1. CASE Begin(p) \/ Resolve(p)
    BY <1>1 DEF Begin, Resolve
<1>2. CASE Put(p) \/ Delete(p) \/ Listed(p) \/ Shared(p)
    BY <1>2, TypeParts, Holder DEF Put, Delete, Listed, Shared, CopiesAgree, CopyAgrees, Syncing
<1>3. CASE Discover(p) \/ Quarantine(p) \/ Push(p) \/ Store(p) \/ Acknowledge(p) \/ Fetch(p)
            \/ Prepare(p) \/ Import(p) \/ Bind(p) \/ Pulled(p)
    <2>1. pc[p] \in Syncing
        BY <1>3 DEF Discover, Quarantine, Push, Store, Acknowledge, Fetch, Prepare, Import, Bind,
                    Pulled, Syncing
    <2>2. QED
        BY <2>1, TypeParts, Holder
<1>4. CASE Revert(p) \/ Drop(p) \/ Clear(p) \/ ReleaseItems(p) \/ Release(p)
    <2>1. pc[p] \in Resolving
        BY <1>4 DEF Revert, Drop, Clear, ReleaseItems, Release, Resolving
    <2>2. QED
        BY <2>1, TypeParts, Holder
<1>5. QED
    BY <1>1, <1>2, <1>3, <1>4 DEF Continue

\* Where a synchronizing caller goes next.
LEMMA SyncGoes ==
    ASSUME TypeInv, NEW p \in Proc, pc[p] \in {"idle", "queued"} \union Syncing, Continue(p)
    PROVE  pc'[p] \in {"idle"} \union Syncing
<1>1. CASE Leave(p)
    BY <1>1, GotoOne DEF Leave
<1>2. CASE Put(p) \/ Delete(p)
    <2>1. PICK i \in todo : Answer(p, i)
        BY <1>2, PutAnswers, DeleteAnswers
    <2>2. Leave(p) \/ Goto(p, "fetch") \/ Goto(p, "store")
        BY <2>1 DEF Answer, Conflict, Reply, ReplyLost
    <2>3. QED
        BY <1>1, <2>2, GotoOne DEF Syncing
<1>3. CASE ~Leave(p) /\ ~Put(p) /\ ~Delete(p) /\ ~Bind(p)
    <2>1. \E l \in {"idle"} \union Syncing : Goto(p, l)
        <3>1. CASE Begin(p)
            BY <3>1 DEF Begin, Syncing
        <3>2. CASE Discover(p) \/ Quarantine(p) \/ Push(p) \/ Store(p) \/ Acknowledge(p)
            BY <1>3, <3>2 DEF Discover, Quarantine, Push, Store, Acknowledge, Syncing
        <3>3. CASE Fetch(p) \/ Prepare(p) \/ Import(p) \/ Pulled(p)
            BY <1>3, <3>3 DEF Fetch, Prepare, Import, Pulled, Syncing
        <3>4. CASE Listed(p) \/ Shared(p) \/ Resolve(p) \/ Revert(p) \/ Drop(p) \/ Clear(p)
                    \/ ReleaseItems(p) \/ Release(p)
            BY <3>4 DEF Listed, Shared, Resolve, Revert, Drop, Clear, ReleaseItems, Release, Syncing
        <3>5. QED
            BY <1>3, <3>1, <3>2, <3>3, <3>4 DEF Continue
    <2>2. QED
        BY <2>1, GotoOne
<1>4. CASE Bind(p)
    BY <1>4 DEF Bind, Syncing
<1>5. QED
    BY <1>1, <1>2, <1>3, <1>4

\* A step of one caller moves no other.
LEMMA OneMoves ==
    ASSUME TypeInv, NEW p \in Proc, Calls(p) \/ Resume(p) \/ Continue(p) \/ RequestFails(p)
    PROVE  pc' = pc \/ \E l : Goto(p, l)
<1>1. CASE Calls(p) \/ Resume(p)
    BY <1>1, CallCases DEF Call, Resume
<1>2. CASE Put(p) \/ Delete(p)
    BY <1>2, PutAnswers, DeleteAnswers DEF Answer, Conflict, Reply, ReplyLost, Leave
<1>3. CASE Begin(p) \/ Discover(p) \/ Quarantine(p) \/ Push(p) \/ Store(p) \/ Acknowledge(p)
            \/ RequestFails(p)
    BY <1>3 DEF Begin, Discover, Quarantine, Push, Store, Acknowledge, RequestFails, Leave
<1>4. CASE Fetch(p) \/ Prepare(p) \/ Import(p) \/ Bind(p) \/ Pulled(p)
    BY <1>4 DEF Fetch, Prepare, Import, Bind, Pulled, Leave
<1>5. CASE Listed(p) \/ Shared(p) \/ Resolve(p) \/ Revert(p) \/ Drop(p) \/ Clear(p)
            \/ ReleaseItems(p) \/ Release(p)
    BY <1>5 DEF Listed, Shared, Resolve, Revert, Drop, Clear, ReleaseItems, Release, Leave
<1>6. QED
    BY <1>1, <1>2, <1>3, <1>4, <1>5 DEF Continue

\* The worker only synchronizes.
LEMMA WorkerSyncs ==
    ASSUME TypeInv, pc[Worker] \in {"idle", "queued"} \union Syncing, Next
    PROVE  pc'[Worker] \in {"idle", "queued"} \union Syncing
<1>0. Worker \in Proc
    BY ProcAssumption
<1>1. CASE User \/ Others
    <2>1. pc' = pc
        BY <1>1, EditCases DEF User, EditOf, Edit, Stop, Others, RemoteAdd, RemoteSet, RemoteDelete,
                               OtherClient, Reshare
    <2>2. QED
        BY <2>1
<1>2. CASE Crash
    BY <1>0, <1>2 DEF Crash
<1>3. ASSUME NEW p \in Proc, Calls(p) \/ Resume(p)
      PROVE  pc'[Worker] \in {"idle", "queued"} \union Syncing
    <2>1. CASE p = Worker
        <3>1. Sync(p)
            BY <1>3, <2>1 DEF Calls, Sync, Publish, Share, LocalCopy, Keep, Discard, Call, Resume
        <3>2. QED
            BY <2>1, <3>1, GotoOne DEF Sync, Call
    <2>2. CASE p # Worker
        <3>1. pc' = pc \/ \E l : Goto(p, l)
            BY <1>3, OneMoves
        <3>2. pc'[Worker] = pc[Worker]
            BY <1>0, <2>2, <3>1, GotoOne
        <3>3. QED
            BY <3>2
    <2>3. QED
        BY <2>1, <2>2
<1>4. ASSUME NEW p \in Proc, Continue(p) \/ RequestFails(p)
      PROVE  pc'[Worker] \in {"idle", "queued"} \union Syncing
    <2>1. CASE p = Worker
        <3>1. CASE RequestFails(p)
            BY <2>1, <3>1, GotoOne DEF RequestFails, Leave
        <3>2. QED
            BY <1>4, <2>1, <3>1, SyncGoes
    <2>2. CASE p # Worker
        <3>1. pc' = pc \/ \E l : Goto(p, l)
            BY <1>4, OneMoves
        <3>2. pc'[Worker] = pc[Worker]
            BY <1>0, <2>2, <3>1, GotoOne
        <3>3. QED
            BY <3>2
    <2>3. QED
        BY <2>1, <2>2
<1>5. QED
    BY <1>1, <1>2, <1>3, <1>4 DEF Next, Calls

\* Work stays quarantined while the one screen decides.
LEMMA BlockedStays ==
    ASSUME DecisionInv, OneScreen, Next, NEW p \in Proc, p # Worker,
           pc[p] \notin {"clear", "release"}, coll.bound, coll.blocked
    PROVE  coll'.bound /\ coll'.blocked
<1>1. ~ByDecision
    <2>1. \A q \in Proc : q = Worker \/ q = p
        BY DEF OneScreen
    <2>2. \A q \in Proc : pc[q] \in {"clear", "release"} => q = p
        BY <2>1 DEF DecisionInv, DecisionsHold, Syncing
    <2>3. QED
        BY <2>2 DEF ByDecision
<1>2. coll' = coll \/ BySync \/ ByStop \/ ByResume
    BY <1>1, BindingWrites DEF DecisionInv, AccessInv
<1>3. coll \in Binding
    BY TypeParts DEF DecisionInv, AccessInv, Tables
<1>4. QED
    BY <1>2, <1>3 DEF BySync, ByStop, ByResume, Binding

\* What a caller that waits to decide, or that is about to revert, relies on.
Decides(p) == pc[p] \in {"keeping", "discarding"} \/ (pc[p] = "copying" /\ copy[p].blocked)
HasCopied(p) == pc[p] = "revert" /\ stage = "keep"

LEMMA DecisionParts ==
    /\ DecisionsHold <=>
        /\ pc[Worker] \in {"idle", "queued"} \union Syncing
        /\ \A p \in Proc :
            /\ Decides(p) => coll.bound /\ coll.blocked
            /\ HasCopied(p) => coll.bound /\ coll.blocked /\ Copied(rows) \subseteq saved
    /\ DecisionsHold' <=>
        /\ pc'[Worker] \in {"idle", "queued"} \union Syncing
        /\ \A p \in Proc :
            /\ Decides(p)' => coll'.bound /\ coll'.blocked
            /\ HasCopied(p)' => coll'.bound /\ coll'.blocked /\ Copied(rows') \subseteq saved'
BY DEF DecisionsHold, Decides, HasCopied, Copied, DeviceClocks, Active

\* A caller comes to revert only by deciding, and to decide only by asking.
Elsewhere(p) == \E l : Goto(p, l) /\ l \notin {"keeping", "discarding", "copying", "revert"}

LEMMA ContinueGoes ==
    ASSUME TypeInv, NEW p \in Proc, Continue(p)
    PROVE  Bind(p) \/ Resolve(p) \/ Elsewhere(p)
<1>1. CASE Put(p) \/ Delete(p)
    <2>1. PICK i \in todo : Answer(p, i)
        BY <1>1, PutAnswers, DeleteAnswers
    <2>2. QED
        BY <2>1 DEF Answer, Conflict, Reply, ReplyLost, Leave, Elsewhere
<1>2. CASE Begin(p)
    BY <1>2 DEF Begin, Elsewhere
<1>3. CASE Leave(p)
    BY <1>3 DEF Leave, Elsewhere
<1>4. CASE ~Leave(p) /\ (Discover(p) \/ Quarantine(p) \/ Push(p) \/ Store(p) \/ Acknowledge(p))
    BY <1>4 DEF Discover, Quarantine, Push, Store, Acknowledge, Elsewhere
<1>5. CASE ~Leave(p) /\ (Fetch(p) \/ Import(p) \/ Pulled(p))
    BY <1>5 DEF Fetch, Import, Pulled, Elsewhere
<1>6. CASE Prepare(p)
    <2>1. Goto(p, "import")
        BY <1>6 DEF Prepare
    <2>2. QED
        BY <2>1 DEF Elsewhere
<1>7. CASE ~Leave(p) /\ (Listed(p) \/ Shared(p) \/ Revert(p) \/ Drop(p) \/ Clear(p)
                          \/ ReleaseItems(p) \/ Release(p))
    BY <1>7 DEF Listed, Shared, Revert, Drop, Clear, ReleaseItems, Release, Elsewhere
<1>8. QED
    BY <1>1, <1>2, <1>3, <1>4, <1>5, <1>6, <1>7 DEF Continue

\* A caller comes to decide only by asking about a quarantined list.
LEMMA DecidesFrom ==
    ASSUME DecisionInv, NobodyShares, Next, NEW p \in Proc, Decides(p)'
    PROVE  /\ p # Worker
           /\ \/ Decides(p)
              \/ pc[p] = "idle" /\ coll.bound /\ coll.blocked
<1>0. TypeInv /\ CopiesAgree
    BY DEF DecisionInv, AccessInv
<1>1. p # Worker
    <2>1. pc'[Worker] \in {"idle", "queued"} \union Syncing
        BY <1>0, WorkerSyncs, DecisionParts DEF DecisionInv
    <2>2. QED
        BY <2>1 DEF Decides, Syncing
<1>2. CASE User \/ Others
    <2>1. UNCHANGED <<pc, copy>>
        BY <1>0, <1>2, EditCases DEF User, EditOf, Edit, Stop, Others, RemoteAdd, RemoteSet,
                                     RemoteDelete, OtherClient, Reshare
    <2>2. QED
        BY <1>1, <2>1 DEF Decides
<1>3. CASE Crash
    BY <1>3 DEF Crash, Decides
<1>4. ASSUME NEW q \in Proc, q # p, Calls(q) \/ Resume(q) \/ Continue(q) \/ RequestFails(q)
      PROVE  Decides(p)
    <2>1. pc'[p] = pc[p]
        BY <1>0, <1>4, OneMoves, GotoOne
    <2>2. copy'[p] = copy[p]
        <3>1. CASE Put(q) \/ Delete(q)
            BY <1>0, <1>4, <3>1, TypeParts, PutAnswers, DeleteAnswers
                DEF Answer, Conflict, Reply, ReplyLost, Leave
        <3>2. CASE Calls(q) \/ Resume(q) \/ RequestFails(q)
            BY <1>0, <1>4, <3>2, TypeParts, CallCases DEF Call, Resume, RequestFails, Leave
        <3>3. CASE Begin(q) \/ Discover(q) \/ Quarantine(q) \/ Push(q) \/ Store(q) \/ Acknowledge(q)
            BY <1>0, <1>4, <3>3, TypeParts DEF Begin, Discover, Quarantine, Push, Store, Acknowledge,
                                               Leave
        <3>4. CASE Fetch(q) \/ Prepare(q) \/ Import(q) \/ Bind(q) \/ Pulled(q)
            BY <1>0, <1>4, <3>4, TypeParts DEF Fetch, Prepare, Import, Bind, Pulled, Leave
        <3>5. CASE Listed(q) \/ Shared(q) \/ Resolve(q) \/ Revert(q) \/ Drop(q) \/ Clear(q)
                    \/ ReleaseItems(q) \/ Release(q)
            BY <1>0, <1>4, <3>5, TypeParts DEF Listed, Shared, Resolve, Revert, Drop, Clear,
                                               ReleaseItems, Release, Leave, progress
        <3>6. QED
            BY <1>4, <3>1, <3>2, <3>3, <3>4, <3>5 DEF Continue
    <2>3. QED
        BY <1>4, <2>1, <2>2 DEF Decides
<1>5. CASE Calls(p) \/ Resume(p)
    <2>1. CASE Resume(p)
        BY <1>0, <2>1, GotoOne DEF Resume, Decides
    <2>2. CASE Sync(p) \/ Publish(p) \/ Share(p)
        BY <1>0, <2>2, GotoOne DEF Sync, Publish, Share, Call, Decides
    <2>3. CASE LocalCopy(p)
        <3>1. pc[p] = "idle" /\ coll.bound /\ copy' = [copy EXCEPT ![p] = coll] /\ Goto(p, "copying")
            BY <2>3 DEF LocalCopy, Call
        <3>2. copy'[p] = coll /\ pc'[p] = "copying"
            BY <1>0, <3>1, TypeParts, GotoOne
        <3>3. QED
            BY <1>1, <3>1, <3>2 DEF Decides
    <2>4. CASE Keep(p) \/ Discard(p)
        BY <1>1, <2>4 DEF Keep, Discard, Call
    <2>5. QED
        BY <1>5, <2>1, <2>2, <2>3, <2>4 DEF Calls
<1>6. CASE Continue(p)
    <2>2. CASE Bind(p)
        BY <1>1, <2>2 DEF Bind, Decides
    <2>3. CASE Resolve(p)
        <3>1. \E l \in {"idle", "drop", "revert"} : Goto(p, l)
            BY <2>3 DEF Resolve, Leave
        <3>2. QED
            BY <1>0, <3>1, GotoOne DEF Decides
    <2>4. CASE Elsewhere(p)
        BY <1>0, <2>4, GotoOne DEF Elsewhere, Decides
    <2>5. QED
        BY <1>0, <1>6, <2>2, <2>3, <2>4, ContinueGoes
<1>7. CASE RequestFails(p)
    BY <1>0, <1>7, GotoOne DEF RequestFails, Leave, Decides
<1>8. QED
    BY <1>1, <1>2, <1>3, <1>4, <1>5, <1>6, <1>7 DEF Next, Calls

\* What is about to be reverted has been copied, and stays copied.
LEMMA CopiedStays ==
    ASSUME DecisionInv, NobodyShares, OneScreen, Next, NEW p \in Proc, HasCopied(p), HasCopied(p)'
    PROVE  coll'.bound /\ coll'.blocked /\ Copied(rows') \subseteq saved'
<1>0. TypeInv /\ CopiesAgree /\ DecisionsHold
    BY DEF DecisionInv, AccessInv
<1>1. /\ pc[p] = "revert" /\ pc'[p] = "revert" /\ p # Worker
      /\ coll.bound /\ coll.blocked /\ Copied(rows) \subseteq saved
    BY <1>0, DecisionParts DEF HasCopied, Syncing
<1>2. mutex = p
    BY <1>0, <1>1, TypeParts, Holder DEF Resolving
<1>3. coll'.bound /\ coll'.blocked
    BY <1>1, BlockedStays
<1>4. rows' = rows /\ saved' = saved
    <2>1. CASE AddItem \/ SetText \/ SetChecked \/ DeleteItem \/ RestoreItem
        <3>1. Allowed(coll)
            BY <1>0, <2>1, EditCases DEF EditOf, Edit
        <3>2. QED
            BY <1>1, <3>1 DEF Allowed
    <2>2. CASE Stop \/ Others
        BY <2>2 DEF Stop, Others, RemoteAdd, RemoteSet, RemoteDelete, OtherClient, Reshare, device,
                    history
    <2>3. CASE Crash
        BY <1>1, <2>3 DEF Crash
    <2>4. ASSUME NEW q \in Proc, Calls(q) \/ Resume(q)
          PROVE  rows' = rows /\ saved' = saved
        BY <2>4, CallCases DEF Call, Resume, device, history
    <2>5. ASSUME NEW q \in Proc, RequestFails(q)
          PROVE  FALSE
        <3>1. mutex = q /\ pc[q] # "revert"
            BY <1>0, <2>5, Knows DEF RequestFails, Syncing
        <3>2. QED
            BY <1>1, <1>2, <3>1
    <2>6. ASSUME NEW q \in Proc, Continue(q)
          PROVE  FALSE
        <3>1. q = p
            BY <1>0, <1>2, <2>6, ContinueHolds, ProcAssumption
        <3>2. CASE Elsewhere(p)
            BY <1>0, <1>1, <3>2, GotoOne DEF Elsewhere
        <3>3. CASE Bind(p) \/ Resolve(p)
            BY <1>1, <3>3 DEF Bind, Resolve
        <3>4. QED
            BY <1>0, <2>6, <3>1, <3>2, <3>3, ContinueGoes
    <2>7. QED
        BY <2>1, <2>2, <2>3, <2>4, <2>5, <2>6 DEF Next, User, Calls
<1>5. QED
    BY <1>1, <1>3, <1>4

\* The decision copies what it is about to revert.
LEMMA ResolveCopies ==
    ASSUME DecisionInv, NEW p \in Proc, Resolve(p), HasCopied(p)'
    PROVE  coll'.bound /\ coll'.blocked /\ Copied(rows') \subseteq saved'
<1>0. TypeInv /\ DecisionsHold
    BY DEF DecisionInv, AccessInv
<1> DEFINE keep == pc[p] # "discarding"
           copied == keep /\ copy[p].available
           revert == pc[p] # "copying" \/ copy[p].blocked
<1>1. /\ pc[p] \in {"copying", "keeping", "discarding"} /\ UNCHANGED <<rows, coll>>
      /\ saved' = IF copied THEN saved \union Copied(rows) ELSE saved
      /\ IF copied /\ ~revert THEN Leave(p)
         ELSE /\ stage' = IF keep THEN "keep" ELSE "discard"
              /\ Goto(p, IF keep /\ ~copied THEN "drop" ELSE "revert")
    BY DEF Resolve, device
<1>2. pc'[p] = "revert" /\ stage' = "keep"
    BY DEF HasCopied
<1>3. ~(copied /\ ~revert)
    BY <1>0, <1>1, <1>2, GotoOne DEF Leave
<1>4. keep /\ copied
    BY <1>0, <1>1, <1>2, <1>3, GotoOne
<1>5. Decides(p)
    BY <1>1, <1>3, <1>4 DEF Decides
<1>6. QED
    BY <1>0, <1>1, <1>4, <1>5, DecisionParts

LEMMA CopiedFrom ==
    ASSUME DecisionInv, NobodyShares, OneScreen, Next, NEW p \in Proc, HasCopied(p)'
    PROVE  coll'.bound /\ coll'.blocked /\ Copied(rows') \subseteq saved'
<1>0. TypeInv /\ CopiesAgree /\ DecisionsHold
    BY DEF DecisionInv, AccessInv
<1>1. pc'[p] = "revert" /\ stage' = "keep"
    BY DEF HasCopied
<1>2. CASE HasCopied(p)
    BY <1>2, CopiedStays
<1>3. CASE ~HasCopied(p) /\ ~Resolve(p)
    <2>1. CASE User \/ Others
        <3>1. UNCHANGED <<pc, stage>>
            BY <1>0, <2>1, EditCases DEF User, EditOf, Edit, Stop, Others, RemoteAdd, RemoteSet,
                                         RemoteDelete, OtherClient, Reshare, progress
        <3>2. QED
            BY <1>1, <1>3, <3>1 DEF HasCopied
    <2>2. CASE Crash
        BY <1>1, <2>2 DEF Crash
    <2>3. ASSUME NEW q \in Proc, Calls(q) \/ Resume(q)
          PROVE  FALSE
        <3>1. UNCHANGED stage
            BY <2>3, CallCases DEF Call, Resume, progress
        <3>2. pc'[q] # "revert"
            <4>1. \E l : Goto(q, l) /\ l # "revert"
                BY <2>3, CallCases DEF Call, Resume, CallLabels
            <4>2. QED
                BY <1>0, <4>1, GotoOne
        <3>3. \A r \in Proc \ {q} : pc'[r] = pc[r]
            BY <1>0, <2>3, OneMoves, GotoOne
        <3>4. QED
            BY <1>1, <1>3, <3>1, <3>2, <3>3 DEF HasCopied
    <2>4. ASSUME NEW q \in Proc, Continue(q) \/ RequestFails(q)
          PROVE  FALSE
        <3>1. mutex \in {q, Nobody}
            BY <1>0, <2>4, ContinueHolds, Knows DEF RequestFails, Syncing
        <3>2. CASE q = p
            <4>1. CASE Elsewhere(p)
                BY <1>0, <1>1, <4>1, GotoOne DEF Elsewhere
            <4>2. CASE Bind(p)
                BY <1>1, <4>2 DEF Bind
            <4>3. CASE RequestFails(p)
                BY <1>0, <1>1, <4>3, GotoOne DEF RequestFails, Leave
            <4>4. QED
                BY <1>0, <1>3, <2>4, <3>2, <4>1, <4>2, <4>3, ContinueGoes
        <3>3. CASE q # p
            <4>1. pc[p] = "revert"
                BY <1>0, <1>1, <2>4, <3>3, OneMoves, GotoOne
            <4>2. QED
                BY <1>0, <3>1, <3>3, <4>1, TypeParts, Holder, ProcAssumption DEF Resolving
        <3>4. QED
            BY <3>2, <3>3
    <2>5. QED
        BY <2>1, <2>2, <2>3, <2>4 DEF Next, Calls
<1>4. QED
    BY <1>2, <1>3, ResolveCopies

LEMMA NextDecides ==
    ASSUME DecisionInv, NobodyShares, OneScreen, Next
    PROVE  DecisionsHold'
<1>0. TypeInv /\ CopiesAgree /\ DecisionsHold
    BY DEF DecisionInv, AccessInv
<1>1. pc'[Worker] \in {"idle", "queued"} \union Syncing
    BY <1>0, WorkerSyncs, DecisionParts
<1>2. ASSUME NEW p \in Proc, Decides(p)'
      PROVE  coll'.bound /\ coll'.blocked
    <2>1. p # Worker /\ coll.bound /\ coll.blocked
        BY <1>0, <1>2, DecidesFrom, DecisionParts
    <2>2. pc[p] \notin {"clear", "release"}
        BY <1>2, DecidesFrom DEF Decides
    <2>3. QED
        BY <2>1, <2>2, BlockedStays
<1>3. QED
    BY <1>1, <1>2, CopiedFrom, DecisionParts

\* Keeping a local copy loses nothing: every local change that the revert
\* takes out of the list is in the copy (or the server has had it), even if
\* the worker synchronizes or the owner changes the share in between.  One screen
\* decides at a time, and nobody shares or publishes the list meanwhile.
THEOREM KeptWorkIsCopied ==
    ASSUME NobodyShares, OneScreen
    PROVE  Spec => KeptWorkSurvives
<1> DEFINE Step == \A p \in Proc : pc[p] = "revert" /\ pc'[p] = "drop" /\ stage = "keep"
                    => \A i \in Active(rows) : DeviceClocks(rows, i) \subseteq delivered \union saved
<1>1. Init => DecisionInv
    <2>1. ASSUME Init
          PROVE  \A p \in Proc : pc[p] = "idle"
        BY <2>1, InitTables
    <2>2. Init => DecisionsHold
        BY <2>1, ProcAssumption DEF DecisionsHold
    <2>3. QED
        BY <2>2, InitTypes, InitAgrees DEF DecisionInv, AccessInv
<1>2. DecisionInv /\ [Next]_vars => DecisionInv'
    <2>1. ASSUME DecisionInv, Next
          PROVE  DecisionInv'
        BY <2>1, NextTypes, NextAgrees, NextDecides DEF DecisionInv, AccessInv
    <2>2. ASSUME DecisionInv, UNCHANGED vars
          PROVE  DecisionInv'
        <3>1. TypeInv' /\ CopiesAgree'
            BY <2>2, SameTypes, NextAgrees DEF DecisionInv, AccessInv
        <3>2. DecisionsHold'
            BY <2>2 DEF DecisionInv, DecisionsHold, Copied, DeviceClocks, Active, vars, device,
                        progress, history
        <3>3. QED
            BY <3>1, <3>2 DEF DecisionInv, AccessInv
    <2>3. QED
        BY <2>1, <2>2
<1>3. DecisionInv => [Step]_vars
    <2>1. SUFFICES ASSUME DecisionInv, NEW p \in Proc, pc[p] = "revert", stage = "keep",
                          NEW i \in Active(rows)
                   PROVE  DeviceClocks(rows, i) \subseteq delivered \union saved
        OBVIOUS
    <2>2. Copied(rows) \subseteq saved
        BY <2>1 DEF DecisionInv, DecisionsHold
    <2>3. DeviceClocks(rows, i) \subseteq Copied(rows)
        BY <2>1 DEF Copied
    <2>4. QED
        BY <2>2, <2>3
<1>4. QED
    BY <1>1, <1>2, <1>3, PTL DEF Spec, KeptWorkSurvives
-----------------------------------------------------------------------------
(* Local edits and what a pull imports.                                    *)

\* Whichever rows a cascade starts from, the clock it ends with dominates
\* theirs and its own stamps.
LEMMA CascadeDominates ==
    ASSUME NEW r \in [Item -> Row], NEW base \in Nat, NEW n \in Nat,
           Cascade(r, base).clock <= n,
           \A i \in Item, f \in Field : r[i].at[f].clock <= n
    PROVE  \A i \in Item, f \in Field : Cascade(r, base).rows[i].at[f].clock <= n
<1> DEFINE c == Cascade(r, base)
<1>1. c.rows \in [Item -> Row] /\ c.clock \in Nat
    BY CascadeType
<1>2. ASSUME NEW i \in Item
      PROVE  /\ c.rows[i].at["text"] = r[i].at["text"]
             /\ c.rows[i] = r[i] \/ c.rows[i].at["checked"].clock <= c.clock
    BY CascadeType
<1> HIDE DEF c
<1>3. c.clock <= n
    BY DEF c
<1>4. ASSUME NEW i \in Item
      PROVE  c.rows[i].at["text"].clock <= n /\ c.rows[i].at["checked"].clock <= n
    <2>1. c.rows[i] \in Row
        BY <1>1
    <2>2. c.rows[i].at["checked"].clock \in Nat
        BY <2>1 DEF Row, Stamp, Field
    <2>3. r[i].at["text"].clock <= n /\ r[i].at["checked"].clock <= n
        BY DEF Field
    <2>4. c.rows[i].at["text"].clock <= n
        BY <1>2, <2>3
    <2>5. c.rows[i].at["checked"].clock <= n
        BY <1>1, <1>2, <1>3, <2>2, <2>3
    <2>6. QED
        BY <2>4, <2>5
<1>5. QED
    BY <1>4 DEF c, Field

\* What an edit leaves in each row, beside the completion it may cascade.
LEMMA EditRows ==
    ASSUME TypeInv, ClockDominates, NEW i \in Item, NEW r \in Row, EditOf(i, r), Edited(i, r)
    PROVE  /\ ClockDominates'
           /\ \A j \in Item \ {i} : /\ rows'[j].life = rows[j].life
                                    /\ rows'[j].val.text = rows[j].val.text
                                    /\ rows'[j].at["text"] = rows[j].at["text"]
                                    /\ rows'[j].origin = rows[j].origin
           /\ rows'[i].at["text"] = r.at["text"] /\ rows'[i].origin = r.origin
           /\ rows'[i].life = r.life
           /\ UNCHANGED <<bound, coll, server, mutex, pc, copy, progress, faults, history>>
<1> DEFINE all == [rows EXCEPT ![i] = r]
<1>1. PICK op : Edit(op, i, r)
    BY DEF EditOf
<1>2. /\ rows' = Cascade(all, clock + 1).rows /\ clock' = Cascade(all, clock + 1).clock
      /\ UNCHANGED <<bound, coll, server, mutex, pc, copy, progress, faults, history>>
    BY <1>1 DEF Edit
<1>3. clock \in Nat /\ clock + 1 \in Nat /\ rows \in [Item -> Row]
    BY TypeParts DEF Tables
<1>4. all \in [Item -> Row] /\ all[i] = r /\ \A j \in Item \ {i} : all[j] = rows[j]
    BY <1>3
<1>5. clock + 1 <= clock' /\ clock' \in Nat
    BY <1>1, EditTypes, TypeParts DEF Tables
<1> HIDE DEF all
<1>6. \A j \in Item, f \in Field : all[j].at[f].clock <= clock'
    <2>1. ASSUME NEW j \in Item, NEW f \in Field
          PROVE  all[j].at[f].clock <= clock'
        <3>1. rows[j].at[f].clock \in Nat /\ rows[j].at[f].clock <= clock
            BY <1>3 DEF ClockDominates, Row, Stamp
        <3>2. all[j].at[f] = Now \/ all[j].at[f] = rows[j].at[f]
            BY <1>4 DEF Edited
        <3>3. Now.clock = clock + 1
            BY DEF Now
        <3>4. QED
            BY <1>3, <1>5, <3>1, <3>2, <3>3
    <2>2. QED
        BY <2>1
<1>7. clock' <= clock'
    BY <1>5
<1>8. \A j \in Item, f \in Field : rows'[j].at[f].clock <= clock'
    BY <1>2, <1>3, <1>4, <1>5, <1>6, <1>7, CascadeDominates
<1>9. ClockDominates'
    BY <1>8 DEF ClockDominates
<1>10. \A j \in Item : /\ rows'[j].life = all[j].life /\ rows'[j].val.text = all[j].val.text
                       /\ rows'[j].at["text"] = all[j].at["text"] /\ rows'[j].origin = all[j].origin
    BY <1>2, <1>3, <1>4, CascadeType
<1>11. QED
    BY <1>2, <1>4, <1>9, <1>10

\* What is prepared for an item is older than its text, unless the server
\* changed the text or the task is gone.
Prepared(i) ==
    \/ merge.rows[i].life = "NONE" \/ rows[i].life = "NONE"
    \/ merge.bound[i].base.text # bound[i].base.text
    \/ merge.bound[i].gone
    \/ ~After(merge.rows[i].at["text"], rows[i].at["text"])

LEMMA PreparedParts ==
    /\ PullPrepared <=> ((\E p \in Proc : pc[p] = "import") => \A i \in Item : Prepared(i))
    /\ PullPrepared' <=> ((\E p \in Proc : pc'[p] = "import") => \A i \in Item : Prepared(i)')
BY DEF PullPrepared, Prepared

LEMMA EditPrepared ==
    ASSUME PullInv, AddItem \/ SetText \/ SetChecked \/ DeleteItem \/ RestoreItem
    PROVE  ClockDominates' /\ PullPrepared'
<1>0. TypeInv /\ ClockDominates /\ PullPrepared
    BY DEF PullInv
<1>1. PICK i \in Item, r \in Row : EditOf(i, r) /\ Edited(i, r)
    BY <1>0, EditCases
<1>2. ClockDominates' /\ UNCHANGED <<bound, pc, progress>>
    BY <1>0, <1>1, EditRows
<1>3. ASSUME NEW p \in Proc, pc'[p] = "import", NEW j \in Item
      PROVE  Prepared(j)'
    <2>1. Prepared(j)
        BY <1>0, <1>2, <1>3, PreparedParts
    <2>2. merge' = merge /\ bound' = bound
        BY <1>2 DEF progress
    <2>3. CASE j # i
        <3>1. rows'[j].life = rows[j].life /\ rows'[j].at["text"] = rows[j].at["text"]
            BY <1>0, <1>1, <2>3, EditRows
        <3>2. QED
            BY <2>1, <2>2, <3>1 DEF Prepared
    <2>4. CASE j = i
        <3>1. CASE Fresh(i)
            BY <2>2, <2>4, <3>1 DEF Fresh, Prepared
        <3>2. CASE rows[i].life # "NONE" /\ rows'[i].at["text"] = rows[i].at["text"]
            BY <2>1, <2>2, <2>4, <3>2 DEF Prepared
        <3>3. CASE rows[i].life # "NONE" /\ rows'[i].at["text"] = Now
            <4>1. /\ merge.rows[i].at["text"] \in Stamp /\ rows[i].at["text"] \in Stamp
                  /\ clock \in Nat
                BY <1>0, TypeParts DEF LocalsOK, Tables, Row, Field
            <4>2. rows[i].at["text"].clock <= clock
                BY <1>0 DEF ClockDominates, Field
            <4>3. ~After(merge.rows[i].at["text"], rows[i].at["text"])
                    => ~After(merge.rows[i].at["text"], Now)
                BY <4>1, <4>2 DEF After, Now, Stamp
            <4>4. QED
                BY <2>1, <2>2, <2>4, <3>3, <4>3 DEF Prepared
        <3>4. rows'[i].at["text"] = r.at["text"]
            BY <1>0, <1>1, EditRows
        <3>5. QED
            BY <1>1, <3>1, <3>2, <3>3, <3>4 DEF Edited, Field
    <2>5. QED
        BY <2>3, <2>4
<1>4. QED
    BY <1>2, <1>3, PreparedParts

\* A pull prepares a newer text only if the server changed the text.
LEMMA PrepareOK ==
    ASSUME PullInv, NEW p \in Proc, Prepare(p)
    PROVE  \A i \in Item : Prepared(i)'
<1>0. TypeInv
    BY DEF PullInv
<1>1. UNCHANGED <<rows, bound>>
    BY DEF Prepare, device
<1>2. ASSUME NEW i \in Item
      PROVE  Prepared(i)'
    <2>1. ASSUME NEW u \in Uid, NEW n \in Nat, FromTask(i, u, n, merge'.rows[i], merge'.bound[i])
          PROVE  Prepared(i)'
        <3>1. /\ merge'.rows[i] = TaskSnapshot(i, u, ProviderStamp(n))
              /\ merge'.bound[i].base = fetched[u].val
              /\ rows[i].life = "NONE" \/ bound[i] # NoTask
            BY <2>1 DEF FromTask
        <3>2. CASE rows[i].life = "NONE"
            BY <1>1, <3>2 DEF Prepared
        <3>3. CASE rows[i].life # "NONE" /\ RemotelyChanged(i, u, "text")
            <4>1. bound[i].base["text"] # fetched[u].val["text"]
                BY <3>1, <3>3 DEF RemotelyChanged
            <4>2. merge'.bound[i].base.text # bound'[i].base.text
                BY <1>1, <3>1, <4>1
            <4>3. QED
                BY <4>2 DEF Prepared
        <3>4. CASE rows[i].life # "NONE" /\ ~RemotelyChanged(i, u, "text")
            <4>1. merge'.rows[i].at["text"] = rows[i].at["text"]
                BY <3>1, <3>4 DEF TaskSnapshot, Field
            <4>2. rows[i].at["text"] \in Stamp
                BY <1>0, TypeParts DEF Tables, Row, Field
            <4>3. ~After(merge'.rows[i].at["text"], rows'[i].at["text"])
                BY <1>1, <4>1, <4>2 DEF After, Stamp
            <4>4. QED
                BY <4>3 DEF Prepared
        <3>5. QED
            BY <3>2, <3>3, <3>4
    <2>2. ASSUME NEW n \in Nat, FromLoss(i, n, merge'.rows[i], merge'.bound[i])
          PROVE  Prepared(i)'
        <3>1. bound[i] \in ItemBinding
            BY <1>0, TypeParts DEF Tables
        <3>2. merge'.bound[i].gone
            BY <2>2, <3>1 DEF FromLoss, ItemBinding
        <3>3. QED
            BY <3>2 DEF Prepared
    <2>3. CASE FromNothing(i, merge'.rows[i], merge'.bound[i])
        BY <2>3 DEF FromNothing, NoRow, Prepared
    <2>4. QED
        BY <1>0, <2>1, <2>2, <2>3, PreparedRows
<1>3. QED
    BY <1>2

\* After an import the clock dominates all it has merged.
LEMMA ImportedDominates ==
    ASSUME TypeInv, ClockDominates, NEW r \in [Item -> Row], NEW seen \in Nat, Imported(r, seen),
           UNCHANGED <<bound, coll>>,
           \A i \in Item, f \in Field : r[i].at[f].clock <= clock \/ r[i].at[f].clock <= seen
    PROVE  ClockDominates'
<1>1. /\ Tables' /\ clock <= clock' /\ seen <= clock'
      /\ rows' \in {r, Cascade(r, Observed(clock, seen)).rows}
      /\ Cascade(r, Observed(clock, seen)).clock <= clock' \/ rows' = r
    BY ImportedTypes
<1>2. clock \in Nat /\ clock' \in Nat /\ Observed(clock, seen) \in Nat
    BY <1>1, TypeParts DEF Tables, Observed
<1>3. ASSUME NEW i \in Item, NEW f \in Field
      PROVE  r[i].at[f].clock <= clock'
    <2>1. r[i].at[f].clock \in Nat
        BY DEF Row, Stamp
    <2>2. QED
        BY <1>1, <1>2, <2>1
<1>4. CASE rows' = r
    BY <1>3, <1>4 DEF ClockDominates
<1>5. CASE rows' # r
    <2>1. /\ rows' = Cascade(r, Observed(clock, seen)).rows
          /\ Cascade(r, Observed(clock, seen)).clock <= clock'
        BY <1>1, <1>5
    <2>2. \A i \in Item, f \in Field : rows'[i].at[f].clock <= clock'
        BY <1>2, <1>3, <2>1, CascadeDominates
    <2>3. QED
        BY <2>2 DEF ClockDominates
<1>6. QED
    BY <1>4, <1>5

\* Imports and reverts.
LEMMA ImportDominates ==
    ASSUME TypeInv, ClockDominates, NEW p \in Proc, Import(p)
    PROVE  ClockDominates'
<1>1. UNCHANGED <<bound, coll>>
    BY DEF Import
<1>2. CASE merge.rows = NoView
    BY <1>2 DEF Import, device, ClockDominates
<1>3. CASE merge.rows # NoView
    <2>1. Imported(Merged(merge.rows), Newest(merge.rows))
        BY <1>3 DEF Import
    <2>2. merge.rows \in [Item -> Row] /\ rows \in [Item -> Row]
        BY TypeParts DEF LocalsOK, Tables
    <2>3. Merged(merge.rows) \in [Item -> Row] /\ Newest(merge.rows) \in Nat
        BY <2>2, MergedTypes, NewestBounds
    <2>4. ASSUME NEW i \in Item, NEW f \in Field
          PROVE  \/ Merged(merge.rows)[i].at[f].clock <= clock
                 \/ Merged(merge.rows)[i].at[f].clock <= Newest(merge.rows)
        <3>1. \/ Merged(merge.rows)[i].at[f] = rows[i].at[f]
              \/ Merged(merge.rows)[i].at[f] = merge.rows[i].at[f]
            BY <2>2, MergedTypes
        <3>2. merge.rows[i].at[f].clock <= Newest(merge.rows)
            BY <2>2, NewestBounds
        <3>3. rows[i].at[f].clock <= clock
            BY DEF ClockDominates
        <3>4. QED
            BY <3>1, <3>2, <3>3
    <2>5. QED
        BY <1>1, <2>1, <2>3, <2>4, ImportedDominates
<1>4. QED
    BY <1>2, <1>3

LEMMA RevertDominates ==
    ASSUME TypeInv, ClockDominates, NEW p \in Proc, Revert(p)
    PROVE  ClockDominates'
<1>1. UNCHANGED <<bound, coll>>
    BY DEF Revert
<1>2. PICK n \in Nat : Retained(n) \in [Item -> Row] /\ Imported(Retained(n), n)
    BY RevertImports
<1>3. ASSUME NEW i \in Item, NEW f \in Field
      PROVE  Retained(n)[i].at[f].clock <= n
    <2>1. Retained(n)[i].at[f] \in {ProviderStamp(n), Zero}
        BY DEF Retained, Seen, NoRow
    <2>2. QED
        BY <2>1 DEF ProviderStamp, Zero
<1>4. QED
    BY <1>1, <1>2, <1>3, ImportedDominates

\* The other steps: the rows, and what is prepared for them, stay.
LEMMA OtherStepsPull ==
    ASSUME PullInv, Next,
           ~(AddItem \/ SetText \/ SetChecked \/ DeleteItem \/ RestoreItem),
           \A p \in Proc : ~Prepare(p) /\ ~Import(p) /\ ~Revert(p)
    PROVE  /\ UNCHANGED <<rows, clock>>
           /\ \A p \in Proc : pc'[p] = "import" => pc[p] = "import" /\ UNCHANGED <<bound, merge>>
<1>0. TypeInv
    BY DEF PullInv
<1> DEFINE Kept == /\ UNCHANGED <<rows, clock>>
                   /\ \A p \in Proc : pc'[p] = "import" => pc[p] = "import" /\ UNCHANGED <<bound, merge>>
<1>1. CASE Stop \/ Others
    BY <1>1 DEF Stop, Others, RemoteAdd, RemoteSet, RemoteDelete, OtherClient, Reshare, device, progress
<1>2. CASE Crash
    BY <1>2 DEF Crash, device
<1>3. ASSUME NEW p \in Proc, Calls(p) \/ Resume(p) \/ Listed(p) \/ Shared(p)
      PROVE  Kept
    <2>1. /\ UNCHANGED <<device, bound, progress>>
          /\ \E l : Goto(p, l) /\ l # "import"
        BY <1>3, CallCases DEF Call, Resume, Listed, Shared, CallLabels
    <2>2. QED
        BY <1>0, <2>1, GotoOne DEF device, progress
<1>4. ASSUME NEW p \in Proc, Continue(p) \/ RequestFails(p), ~Listed(p), ~Shared(p)
      PROVE  Kept
    <2>1. mutex \in {p, Nobody}
        <3>1. CASE Begin(p) \/ Resolve(p)
            BY <3>1 DEF Begin, Resolve
        <3>2. CASE Put(p) \/ Delete(p) \/ RequestFails(p)
            BY <1>0, <3>2, TypeParts, Holder DEF Put, Delete, RequestFails, Syncing
        <3>3. CASE Discover(p) \/ Quarantine(p) \/ Push(p) \/ Store(p) \/ Acknowledge(p) \/ Fetch(p)
                    \/ Bind(p) \/ Pulled(p)
            <4>1. pc[p] \in Syncing
                BY <3>3 DEF Discover, Quarantine, Push, Store, Acknowledge, Fetch, Bind, Pulled, Syncing
            <4>2. QED
                BY <1>0, <4>1, TypeParts, Holder
        <3>4. CASE Drop(p) \/ Clear(p) \/ ReleaseItems(p) \/ Release(p)
            <4>1. pc[p] \in Resolving
                BY <3>4 DEF Drop, Clear, ReleaseItems, Release, Resolving
            <4>2. QED
                BY <1>0, <4>1, TypeParts, Holder
        <3>5. QED
            BY <1>4, <3>1, <3>2, <3>3, <3>4 DEF Continue
    <2>2. \A q \in Proc : q # p => pc[q] # "import"
        BY <1>0, <2>1, TypeParts, Holder, ProcAssumption DEF Syncing
    <2>3. \A q \in Proc : q # p => pc'[q] = pc[q]
        BY <1>0, <1>4, OneMoves, GotoOne
    <2>4. pc'[p] # "import" /\ UNCHANGED <<rows, clock>>
        <3>1. CASE Put(p) \/ Delete(p)
            <4>1. PICK i \in todo : Answer(p, i)
                BY <1>0, <3>1, PutAnswers, DeleteAnswers
            <4>2. \E l : Goto(p, l) /\ l # "import"
                BY <4>1 DEF Answer, Conflict, Reply, ReplyLost, Leave
            <4>3. QED
                BY <1>0, <3>1, <4>2, GotoOne, PutAnswers, DeleteAnswers DEF device
        <3>2. CASE Begin(p) \/ Discover(p) \/ Quarantine(p) \/ Push(p) \/ Store(p) \/ Acknowledge(p)
                    \/ RequestFails(p)
            <4>1. \E l : Goto(p, l) /\ l # "import"
                BY <3>2 DEF Begin, Discover, Quarantine, Push, Store, Acknowledge, RequestFails, Leave
            <4>2. UNCHANGED <<rows, clock>>
                BY <3>2 DEF Begin, Discover, Quarantine, Push, Store, Acknowledge, RequestFails, device
            <4>3. QED
                BY <1>0, <4>1, <4>2, GotoOne
        <3>3. CASE Bind(p)
            BY <3>3 DEF Bind, device
        <3>4. CASE Fetch(p) \/ Pulled(p)
            <4>1. \E l : Goto(p, l) /\ l # "import"
                BY <3>4 DEF Fetch, Pulled, Leave
            <4>2. UNCHANGED <<rows, clock>>
                BY <3>4 DEF Fetch, Pulled, device
            <4>3. QED
                BY <1>0, <4>1, <4>2, GotoOne
        <3>5. CASE Resolve(p) \/ Drop(p) \/ Clear(p) \/ ReleaseItems(p) \/ Release(p)
            <4>1. \E l : Goto(p, l) /\ l # "import"
                BY <3>5 DEF Resolve, Drop, Clear, ReleaseItems, Release, Leave
            <4>2. UNCHANGED <<rows, clock>>
                BY <3>5 DEF Resolve, Drop, Clear, ReleaseItems, Release, device
            <4>3. QED
                BY <1>0, <4>1, <4>2, GotoOne
        <3>6. QED
            BY <1>4, <3>1, <3>2, <3>3, <3>4, <3>5 DEF Continue
    <2>5. QED
        BY <2>2, <2>3, <2>4
<1>5. QED
    BY <1>1, <1>2, <1>3, <1>4 DEF Next, User, Calls

LEMMA NextPulls ==
    ASSUME PullInv, Next
    PROVE  ClockDominates' /\ PullPrepared'
<1>0. TypeInv /\ ClockDominates /\ PullPrepared
    BY DEF PullInv
<1>1. CASE AddItem \/ SetText \/ SetChecked \/ DeleteItem \/ RestoreItem
    BY <1>1, EditPrepared
<1>2. ASSUME NEW p \in Proc, Prepare(p)
      PROVE  ClockDominates' /\ PullPrepared'
    <2>1. UNCHANGED <<rows, clock>>
        BY <1>2 DEF Prepare, device
    <2>2. PullPrepared'
        BY <1>2, PrepareOK, PreparedParts
    <2>3. ClockDominates'
        BY <1>0, <2>1 DEF ClockDominates
    <2>4. QED
        BY <2>2, <2>3
<1>3. ASSUME NEW p \in Proc, Import(p) \/ Revert(p)
      PROVE  ClockDominates' /\ PullPrepared'
    <2>1. ClockDominates'
        BY <1>0, <1>3, ImportDominates, RevertDominates
    <2>2. mutex = p
        BY <1>0, <1>3, TypeParts, Holder DEF Import, Revert, Syncing, Resolving
    <2>3. \A q \in Proc : q # p => pc[q] # "import"
        BY <1>0, <2>2, TypeParts, Holder, ProcAssumption DEF Syncing
    <2>4. \E l \in {"bind", "drop"} : Goto(p, l)
        BY <1>3 DEF Import, Revert
    <2>5. \A q \in Proc : pc'[q] # "import"
        BY <1>0, <2>3, <2>4, GotoOne
    <2>6. QED
        BY <2>1, <2>5, PreparedParts
<1>4. CASE /\ ~(AddItem \/ SetText \/ SetChecked \/ DeleteItem \/ RestoreItem)
           /\ \A p \in Proc : ~Prepare(p) /\ ~Import(p) /\ ~Revert(p)
    <2>1. /\ UNCHANGED <<rows, clock>>
          /\ \A p \in Proc : pc'[p] = "import" => pc[p] = "import" /\ UNCHANGED <<bound, merge>>
        BY <1>4, OtherStepsPull
    <2>2. ASSUME NEW p \in Proc, pc'[p] = "import", NEW i \in Item
          PROVE  Prepared(i)'
        <3>1. pc[p] = "import" /\ UNCHANGED <<bound, merge, rows>>
            BY <2>1, <2>2
        <3>2. QED
            BY <1>0, <3>1, PreparedParts DEF Prepared
    <2>3. PullPrepared'
        BY <2>2, PreparedParts
    <2>4. ClockDominates'
        BY <1>0, <2>1 DEF ClockDominates
    <2>5. QED
        BY <2>3, <2>4
<1>5. QED
    BY <1>1, <1>2, <1>3, <1>4

\* An import replaces the text of an item only by a snapshot with a newer one.
LEMMA ImportKeepsTexts ==
    ASSUME PullInv, NEW p \in Proc, Import(p), NEW i \in Active(rows), rows'[i].life = "ACTIVE",
           rows'[i].val.text # rows[i].val.text
    PROVE  merge.bound[i].base.text # bound[i].base.text \/ merge.bound[i].gone
<1>0. TypeInv /\ PullPrepared /\ i \in Item /\ rows[i].life = "ACTIVE"
    BY DEF PullInv, Active
<1>1. pc[p] = "import" /\ UNCHANGED <<bound, coll>>
    BY DEF Import
<1>2. Imported(Merged(merge.rows), Newest(merge.rows))
    BY DEF Import, device
<1>3. merge.rows \in [Item -> Row] /\ rows \in [Item -> Row]
    BY <1>0, TypeParts DEF LocalsOK, Tables
<1>4. Merged(merge.rows) \in [Item -> Row] /\ Newest(merge.rows) \in Nat
    BY <1>3, MergedTypes, NewestBounds
<1>5. clock \in Nat /\ Observed(clock, Newest(merge.rows)) \in Nat
    BY <1>0, <1>4, TypeParts DEF Tables, Observed
<1>6. rows'[i].val.text = Merged(merge.rows)[i].val.text
    <2>1. \/ rows' = Merged(merge.rows)
          \/ rows' = Cascade(Merged(merge.rows), Observed(clock, Newest(merge.rows))).rows
        BY <1>0, <1>1, <1>2, <1>4, ImportedTypes
    <2>2. QED
        BY <1>0, <1>4, <1>5, <2>1, CascadeType
<1>7. Merged(merge.rows)[i].val.text # rows[i].val.text
    BY <1>6
<1>8. /\ merge.rows[i].life # "NONE"
      /\ Merged(merge.rows)[i] = MergedRow(rows[i], merge.rows[i])
    BY <1>0, <1>7 DEF Merged
<1>9. After(merge.rows[i].at["text"], rows[i].at["text"])
    BY <1>7, <1>8 DEF MergedRow
<1>10. Prepared(i)
    BY <1>0, <1>1, PreparedParts
<1>11. QED
    BY <1>0, <1>8, <1>9, <1>10 DEF Prepared

\* A pull replaces a text the user has on the screen only if the text of
\* the task changed on the server since the item was last synchronized, or
\* the task is gone: an edit made while the pull waits for the server is
\* not overwritten by what the server had all along.
THEOREM EditsSurvivePulls == Spec => UnconflictedEditsSurvive
<1> DEFINE Step == \A p \in Proc, i \in Active(rows) :
        pc[p] = "import" /\ pc'[p] = "bind" /\ rows'[i].life = "ACTIVE"
            /\ rows'[i].val.text # rows[i].val.text
            => merge.bound[i].base.text # bound[i].base.text \/ merge.bound[i].gone
<1>1. Init => PullInv
    <2>1. ASSUME Init
          PROVE  ClockDominates
        <3>1. ASSUME NEW i \in Item, NEW f \in Field
              PROVE  rows[i].at[f].clock \in {0, 1}
            <4>1. rows[i] = IF i \notin Initial THEN NoRow(i) ELSE FirstRow(i)
                BY <2>1, InitTables
            <4>2. NoRow(i).at[f].clock = 0
                BY DEF NoRow, Zero
            <4>3. FirstRow(i).at[f].clock = 1
                BY DEF FirstRow, NoRow
            <4>4. QED
                BY <4>1, <4>2, <4>3
        <3>2. clock = 1
            BY <2>1, InitTables
        <3>3. QED
            BY <3>1, <3>2 DEF ClockDominates
    <2>2. ASSUME Init
          PROVE  PullPrepared
        BY <2>2, InitTables DEF PullPrepared
    <2>3. QED
        BY <2>1, <2>2, InitTypes DEF PullInv
<1>2. PullInv /\ [Next]_vars => PullInv'
    <2>1. ASSUME PullInv, Next
          PROVE  PullInv'
        BY <2>1, NextPulls, NextTypes DEF PullInv
    <2>2. ASSUME PullInv, UNCHANGED vars
          PROVE  PullInv'
        BY <2>2, SameTypes DEF PullInv, ClockDominates, PullPrepared, vars, device, progress
    <2>3. QED
        BY <2>1, <2>2
<1>3. PullInv /\ [Next]_vars => [Step]_vars
    <2>1. SUFFICES ASSUME PullInv, Next, NEW p \in Proc, NEW i \in Active(rows),
                          pc[p] = "import", pc'[p] = "bind", rows'[i].life = "ACTIVE",
                          rows'[i].val.text # rows[i].val.text
                   PROVE  merge.bound[i].base.text # bound[i].base.text \/ merge.bound[i].gone
        OBVIOUS
    <2>2. TypeInv
        BY <2>1 DEF PullInv
    <2>3. CASE \E q \in Proc : Import(q)
        <3>1. PICK q \in Proc : Import(q)
            BY <2>3
        <3>2. QED
            BY <2>1, <3>1, ImportKeepsTexts
    <2>4. CASE \E q \in Proc : Revert(q)
        <3>1. PICK q \in Proc : Revert(q)
            BY <2>4
        <3>2. mutex = q /\ pc[q] = "revert" /\ mutex = p
            BY <2>1, <2>2, <3>1, TypeParts, Holder DEF Revert, Resolving, Syncing
        <3>3. QED
            BY <2>1, <3>2
    <2>5. CASE (AddItem \/ SetText \/ SetChecked \/ DeleteItem \/ RestoreItem)
        BY <2>1, <2>2, <2>5, EditCases DEF EditOf, Edit
    <2>6. CASE \E q \in Proc : Prepare(q)
        BY <2>1, <2>6 DEF Prepare, device
    <2>7. QED
        BY <2>1, <2>3, <2>4, <2>5, <2>6, OtherStepsPull
<1>4. QED
    BY <1>1, <1>2, <1>3, PTL DEF Spec, UnconflictedEditsSurvive
-----------------------------------------------------------------------------
(* The steps of a synchronization, one by one.                             *)

\* No answer of the server is lost on the way and no process ends: what these
\* may do to the correspondence of items and tasks is what the run lost_reply
\* shows.
Faultless == Operations \intersect {"LOST_REPLY", "CRASH"} = {}

\* Nobody decides about stranded work, so no list is reverted or released.
Undecided == Operations \intersect {"LOCAL_COPY", "KEEP", "DISCARD"} = {}

Undisturbed == Faultless /\ Undecided

\* Nor does the owner change the share: then a DELETE that is answered "not
\* found" may have found no collection, and the task it names still be there.
Certain == Faultless /\ "RESHARE" \notin Operations

NoDecision == \A p \in Proc : pc[p] \notin {"copying", "keeping", "discarding"} \union Resolving

\* Where a caller holds something in its local variables.
Key == {"put", "store", "prepare", "import", "bind"}
At(l) == \E p \in Proc : pc[p] = l
In(l) == \A k \in Key : At(k) <=> k = l

\* What a push or a pull has prepared is stored before it is forgotten, and
\* is about the task that the item is bound to.
LocalsKept ==
    /\ ~At("put") /\ ~At("store") => view = NoView
    /\ ~At("prepare") => fetched = NoFetch
    /\ ~At("store") /\ ~At("import") /\ ~At("bind") => merge = NoMerge
    /\ At("bind") => \A i \in Item :
            IF i \in todo THEN merge.bound[i] # NoTask
            ELSE merge.bound[i] = NoTask \/ bound[i] = merge.bound[i]

\* Access is what it was first, unless the owner changes it.
Granted == access = "writable" \/ "RESHARE" \in Operations

BaseInv == TypeInv /\ LocalsKept /\ Granted

\* The steps, without what does not concern the tables.
Aside ==
    /\ UNCHANGED <<clock, rows, bound, tasks, etags, delivered, view, fetched, todo, merge>>
    /\ \A k \in Key : At(k)' <=> At(k)

Cleared ==
    /\ UNCHANGED <<clock, rows, bound, tasks, etags, delivered>>
    /\ ~At("store") /\ ~At("import") /\ (At("bind") => todo = {})
    /\ In("none")'
    /\ view' = NoView /\ fetched' = NoFetch /\ merge' = NoMerge

Changed(i, r) ==
    /\ EditOf(i, r) /\ Edited(i, r)

Pushed ==
    /\ In("none") /\ In("put")'
    /\ view' = rows
    /\ UNCHANGED <<clock, rows, bound, tasks, etags, delivered, fetched, merge>>

Stored(i, e) == [uid |-> TaskOf(i), etag |-> e, base |-> view[i].val, gone |-> FALSE]

Written(i) ==
    /\ In("put") /\ In("store")'
    /\ view[i].life = "ACTIVE"
    /\ bound[i] = NoTask => NextUid # {}
    /\ PutPrecondition(bound[i], TaskOf(i))
    /\ tasks' = [tasks EXCEPT ![TaskOf(i)] = [etag |-> etags + 1, val |-> view[i].val,
                                              origin |-> view[i].origin]]
    /\ etags' = etags + 1
    /\ delivered' = delivered \union DeviceClocks(view, i)
    /\ \E e \in {etags + 1, bound[i].etag} :
            merge' = [merge EXCEPT !.bound[i] = Stored(i, e)]
    /\ UNCHANGED <<clock, rows, bound, view, fetched, todo>>

\* The task goes, or there is no access to the collection any more.
Erased(i) ==
    /\ In("put") /\ In("store")'
    /\ view[i].life = "DELETED"
    /\ \/ tasks' = [tasks EXCEPT ![bound[i].uid].etag = 0]
       \/ tasks' = tasks /\ "RESHARE" \in Operations
    /\ merge' = [merge EXCEPT !.bound[i] = [bound[i] EXCEPT !.gone = TRUE]]
    /\ UNCHANGED <<clock, rows, bound, etags, delivered, view, fetched, todo>>

Kept ==
    /\ In("store") /\ In("put")'
    /\ bound' = [i \in Item |-> IF merge.bound[i] # NoTask THEN merge.bound[i] ELSE bound[i]]
    /\ merge' = NoMerge
    /\ UNCHANGED <<clock, rows, tasks, etags, delivered, view, fetched>>

Fetched ==
    /\ In("none") /\ In("prepare")'
    /\ fetched' = tasks
    /\ UNCHANGED <<clock, rows, bound, tasks, etags, delivered, view, merge>>

Compared(p) ==
    /\ In("prepare") /\ In("import")'
    /\ Prepare(p) /\ fetched' = NoFetch
    /\ UNCHANGED <<clock, rows, bound, tasks, etags, delivered, view>>

Taken ==
    /\ In("import") /\ In("bind")'
    /\ IF merge.rows = NoView THEN UNCHANGED <<clock, rows>>
       ELSE Imported(Merged(merge.rows), Newest(merge.rows))
    /\ todo' = {i \in Item : merge.bound[i] # NoTask}
    /\ UNCHANGED <<bound, coll, tasks, etags, delivered, view, fetched, merge>>

Linked(i) ==
    /\ In("bind") /\ In("bind")'
    /\ i \in todo /\ todo' = todo \ {i}
    /\ bound' = [bound EXCEPT ![i] = merge.bound[i]]
    /\ UNCHANGED <<clock, rows, tasks, etags, delivered, view, fetched, merge>>

OwnStep ==
    \/ Aside \/ Cleared \/ Pushed \/ Kept \/ Fetched \/ Taken
    \/ \E i \in Item : Written(i) \/ Erased(i) \/ Linked(i)
    \/ \E p \in Proc : Compared(p)

\* What is left when an answer is lost or the process ends.
Forgotten ==
    /\ UNCHANGED <<clock, rows, bound>>
    /\ In("none")'
    /\ view' = NoView /\ fetched' = NoFetch /\ merge' = NoMerge

Crashed == Forgotten /\ UNCHANGED <<tasks, etags, delivered>>

WrittenUnheard(i) ==
    /\ In("put") /\ Forgotten
    /\ view[i].life = "ACTIVE"
    /\ bound[i] = NoTask => NextUid # {}
    /\ tasks' = [tasks EXCEPT ![TaskOf(i)] = [etag |-> etags + 1, val |-> view[i].val,
                                              origin |-> view[i].origin]]

ErasedUnheard(i) ==
    /\ In("put") /\ Forgotten
    /\ view[i].life = "DELETED"
    /\ tasks' = [tasks EXCEPT ![bound[i].uid].etag = 0]

Fault ==
    \/ Crashed
    \/ \E i \in Item : WrittenUnheard(i) \/ ErasedUnheard(i)

\* What a decision about stranded work does.
Reverted(p) ==
    /\ In("none") /\ In("none")'
    /\ pc[p] = "revert" /\ Revert(p)
    /\ UNCHANGED <<bound, coll, tasks, etags, delivered, view, fetched, merge>>

Released(p) ==
    /\ In("none") /\ In("none")' /\ pc[p] = "releaseItems"
    /\ bound' = [i \in Item |-> NoTask]
    /\ UNCHANGED <<clock, rows, tasks, etags, delivered, view, fetched, merge>>

Decision == \E p \in Proc : Reverted(p) \/ Released(p)

\* Where the holder of the mutex is, nobody else is.
LEMMA InBefore ==
    ASSUME Locked, NEW p \in Proc, pc[p] \notin Waiting
    PROVE  In(pc[p])
<1>1. ASSUME NEW k \in Key
      PROVE  At(k) <=> k = pc[p]
    <2>1. k \notin Waiting
        BY DEF Key, Waiting
    <2>2. QED
        BY <2>1, Holder DEF At
<1>2. QED
    BY <1>1 DEF In

LEMMA InAfter ==
    ASSUME TypeInv, NEW p \in Proc, mutex \in {p, Nobody}, NEW l, Goto(p, l)
    PROVE  In(l)'
<1>1. ASSUME NEW k \in Key
      PROVE  At(k)' <=> k = l
    <2>1. k \notin Waiting
        BY DEF Key, Waiting
    <2>2. pc'[p] = l /\ \A q \in Proc \ {p} : pc'[q] = pc[q] /\ pc[q] \in Waiting
        BY GotoOne, TypeParts, ProcAssumption DEF Locked
    <2>3. QED
        BY <2>1, <2>2 DEF At
<1>2. QED
    BY <1>1 DEF In

LEMMA InAside ==
    ASSUME TypeInv, NEW p \in Proc, NEW l, Goto(p, l), l \notin Key, pc[p] \notin Key
    PROVE  \A k \in Key : At(k)' <=> At(k)
BY GotoOne DEF At

LEMMA InLeave ==
    ASSUME TypeInv, NEW p \in Proc, mutex \in {p, Nobody}, Leave(p)
    PROVE  /\ In("none")' /\ pc'[p] = "idle" /\ \A q \in Proc \ {p} : pc'[q] = pc[q]
           /\ view' = NoView /\ fetched' = NoFetch /\ merge' = NoMerge
<1>1. Goto(p, "idle") /\ view' = NoView /\ fetched' = NoFetch /\ merge' = NoMerge
    BY DEF Leave
<1>2. In("idle")'
    BY <1>1, InAfter
<1>3. QED
    BY <1>1, <1>2, GotoOne DEF In, Key

\* No caller begins to decide about local work.
LEMMA StaysUndecided ==
    ASSUME Undecided, TypeInv, NoDecision, Next
    PROVE  NoDecision'
<1>1. CASE User \/ Others
    BY <1>1, EditCases DEF User, EditOf, Edit, Stop, Others, RemoteAdd, RemoteSet, RemoteDelete,
                           OtherClient, Reshare, NoDecision
<1>2. CASE Crash
    BY <1>2 DEF Crash, NoDecision, Resolving
<1>3. ASSUME NEW p \in Proc, \E l : Goto(p, l) /\ l \notin {"copying", "keeping", "discarding"} \union Resolving
      PROVE  NoDecision'
    BY <1>3, GotoOne DEF NoDecision
<1>4. ASSUME NEW p \in Proc, Calls(p) \/ Resume(p)
      PROVE  NoDecision'
    <2>1. \E l \in {"queued", "publishing", "sharing"} : Goto(p, l)
        BY <1>4 DEF Calls, Sync, Publish, Share, LocalCopy, Keep, Discard, Call, Resume, Undecided
    <2>2. QED
        BY <1>3, <2>1 DEF Resolving
<1>5. ASSUME NEW p \in Proc, Continue(p)
      PROVE  NoDecision'
    <2>0. pc[p] \in {"idle", "queued", "publishing", "sharing", "persisting"} \union Syncing
        BY TypeParts, Holder DEF NoDecision, Labels, Waiting
    <2>1. pc'[p] \in {"idle", "persisting"} \union Syncing
        <3>1. CASE pc[p] \in {"publishing", "sharing", "persisting"}
            <4>1. Begin(p) \/ Listed(p) \/ Shared(p)
                BY <1>5, <3>1 DEF Continue, Discover, Quarantine, Push, Put, Delete, Store, Acknowledge,
                          Fetch, Prepare, Import, Bind, Pulled, Resolve, Revert, Drop, Clear,
                          ReleaseItems, Release
            <4>2. Goto(p, "idle") \/ Goto(p, "persisting") \/ Goto(p, "discover")
                BY <4>1 DEF Begin, Listed, Shared
            <4>3. QED
                BY <4>2, GotoOne DEF Syncing
        <3>2. QED
            BY <1>5, <2>0, <3>1, SyncGoes
    <2>2. pc' = pc \/ \E l : Goto(p, l)
        BY <1>5, OneMoves
    <2>3. \A q \in Proc \ {p} : pc'[q] = pc[q]
        BY <2>2, GotoOne
    <2>4. QED
        BY <2>1, <2>3 DEF NoDecision, Syncing, Resolving
<1>6. ASSUME NEW p \in Proc, RequestFails(p)
      PROVE  NoDecision'
    BY <1>3, <1>6 DEF RequestFails, Leave, Resolving
<1>7. QED
    BY <1>1, <1>2, <1>4, <1>5, <1>6 DEF Next, Calls

\* A PUT or a DELETE is answered, or the synchronization goes back or ends.
LEMMA PutKinds ==
    ASSUME BaseInv, NEW p \in Proc, Put(p) \/ Delete(p)
    PROVE  \/ Cleared \/ \E i \in Item : Written(i) \/ Erased(i)
           \/ (~Faultless /\ Fault)
<1>0. TypeInv /\ LocalsKept /\ Granted
    BY DEF BaseInv
<1>1. pc[p] = "put" /\ UNCHANGED <<device, bound, coll, edits>>
    BY <1>0, PutAnswers, DeleteAnswers
<1>2. mutex = p /\ In("put")
    BY <1>0, <1>1, InBefore, Holder, TypeParts DEF Syncing, Waiting
<1>3. /\ ~At("store") /\ ~At("import") /\ ~At("bind") /\ ~At("prepare")
      /\ merge = NoMerge /\ fetched = NoFetch
    BY <1>0, <1>2 DEF In, Key, LocalsKept
<1>4. ASSUME Leave(p) \/ Conflict(p), UNCHANGED <<tasks, etags, delivered>>
      PROVE  Cleared
    <2>1. CASE Leave(p)
        BY <1>0, <1>1, <1>2, <1>3, <1>4, <2>1, InLeave DEF Cleared, device
    <2>2. CASE ~Leave(p)
        <3>1. view' = NoView /\ Goto(p, "fetch") /\ UNCHANGED <<mutex, copy, fetched, merge>>
            BY <1>4, <2>2 DEF Conflict
        <3>2. In("none")'
            BY <1>0, <1>2, <3>1, InAfter DEF In, Key
        <3>3. QED
            BY <1>1, <1>3, <1>4, <3>1, <3>2 DEF Cleared, device
    <2>3. QED
        BY <2>1, <2>2
<1>5. ASSUME NEW i, NEW b, Reply(p, i, b)
      PROVE  /\ merge' = [merge EXCEPT !.bound[i] = b] /\ In("store")'
             /\ UNCHANGED <<view, todo, fetched>>
    BY <1>0, <1>2, <1>5, InAfter DEF Reply
<1>6. ASSUME ReplyLost(p)
      PROVE  ~Faultless /\ Forgotten
    <2>1. ~Faultless /\ Leave(p)
        BY <1>6 DEF ReplyLost, Faultless
    <2>2. QED
        BY <1>0, <1>1, <1>2, <2>1, InLeave DEF Forgotten, device
<1>7. todo \subseteq Item
    BY <1>0, TypeParts DEF LocalsOK
<1>8. CASE Put(p)
    <2>1. PICK i \in todo :
            /\ view[i].life = "ACTIVE"
            /\ bound[i] = NoTask => NextUid # {}
            /\ \/ Leave(p) /\ UNCHANGED <<server, faults, delivered>>
               \/ Conflict(p) /\ UNCHANGED <<server, faults, delivered>>
               \/ /\ PutPrecondition(bound[i], TaskOf(i))
                  /\ tasks' = [tasks EXCEPT ![TaskOf(i)] = [etag |-> etags + 1, val |-> view[i].val,
                                                            origin |-> view[i].origin]]
                  /\ etags' = etags + 1
                  /\ delivered' = delivered \union DeviceClocks(view, i)
                  /\ \/ Reply(p, i, Stored(i, etags + 1))
                     \/ Reply(p, i, Stored(i, bound[i].etag))
                     \/ ReplyLost(p)
        BY <1>8 DEF Put, Stored
    <2>2. CASE (Leave(p) \/ Conflict(p)) /\ UNCHANGED <<server, faults, delivered>>
        BY <1>4, <2>2 DEF server
    <2>3. CASE ~((Leave(p) \/ Conflict(p)) /\ UNCHANGED <<server, faults, delivered>>)
        <3>0. CASE ReplyLost(p)
            <4>1. WrittenUnheard(i)
                BY <1>2, <1>6, <2>1, <2>3, <3>0 DEF WrittenUnheard
            <4>2. QED
                BY <1>6, <1>7, <2>1, <3>0, <4>1 DEF Fault
        <3> SUFFICES ASSUME ~ReplyLost(p)
                     PROVE  \E j \in Item : Written(j) \/ Erased(j)
            BY <3>0
        <3>1. PICK e \in {etags + 1, bound[i].etag} : Reply(p, i, Stored(i, e))
            BY <2>1, <2>3
        <3>2. merge' = [merge EXCEPT !.bound[i] = Stored(i, e)] /\ In("store")'
                /\ UNCHANGED <<view, todo, fetched>>
            BY <1>5, <3>1
        <3> HIDE DEF Stored
        <3>3. Written(i)
            BY <1>1, <1>2, <2>1, <2>3, <3>2 DEF Written, device
        <3>4. QED
            BY <1>7, <2>1, <3>3
    <2>4. QED
        BY <2>2, <2>3
<1>9. CASE Delete(p)
    <2>1. PICK i \in todo :
            /\ view[i].life = "DELETED"
            /\ \/ Leave(p) /\ UNCHANGED <<tasks, faults>>
               \/ Conflict(p) /\ UNCHANGED <<tasks, faults>>
               \/ /\ \/ tasks' = tasks /\ (access = "gone" \/ tasks[bound[i].uid].etag = 0)
                     \/ tasks' = [tasks EXCEPT ![bound[i].uid].etag = 0]
                  /\ Reply(p, i, [bound[i] EXCEPT !.gone = TRUE]) \/ ReplyLost(p)
        BY <1>9 DEF Delete
    <2>2. UNCHANGED <<etags, delivered>>
        BY <1>9 DEF Delete, history
    <2>3. CASE (Leave(p) \/ Conflict(p)) /\ UNCHANGED <<tasks, faults>>
        BY <1>4, <2>2, <2>3
    <2>4. CASE ~((Leave(p) \/ Conflict(p)) /\ UNCHANGED <<tasks, faults>>)
        <3>0. CASE ReplyLost(p)
            <4>1. Crashed \/ ErasedUnheard(i)
                BY <1>2, <1>6, <2>1, <2>2, <2>4, <3>0 DEF Crashed, ErasedUnheard
            <4>2. QED
                BY <1>6, <1>7, <2>1, <3>0, <4>1 DEF Fault
        <3> SUFFICES ASSUME ~ReplyLost(p)
                     PROVE  \E j \in Item : Written(j) \/ Erased(j)
            BY <3>0
        <3>1. Reply(p, i, [bound[i] EXCEPT !.gone = TRUE])
            BY <2>1, <2>4
        <3>2. merge' = [merge EXCEPT !.bound[i] = [bound[i] EXCEPT !.gone = TRUE]] /\ In("store")'
                /\ UNCHANGED <<view, todo, fetched>>
            BY <1>5, <3>1
        <3>3. \/ tasks' = [tasks EXCEPT ![bound[i].uid].etag = 0]
              \/ tasks' = tasks /\ "RESHARE" \in Operations
            <4>1. tasks[bound[i].uid].etag = 0 => [tasks EXCEPT ![bound[i].uid].etag = 0] = tasks
                <5>1. tasks \in [Uid -> Task]
                    BY <1>0, TypeParts DEF Server
                <5>2. \A u \in Uid : tasks[u].etag = 0 => [tasks[u] EXCEPT !.etag = 0] = tasks[u]
                    BY <5>1 DEF Task
                <5>3. QED
                    BY <5>1, <5>2
            <4>2. QED
                BY <1>0, <2>1, <2>4, <4>1 DEF Granted
        <3>4. Erased(i)
            BY <1>1, <1>2, <2>1, <2>2, <3>2, <3>3 DEF Erased, device
        <3>5. QED
            BY <1>7, <2>1, <3>4
    <2>5. QED
        BY <2>3, <2>4
<1>10. QED
    BY <1>8, <1>9
\* The steps of a decision about stranded work.
LEMMA ResolveKinds ==
    ASSUME BaseInv, NEW p \in Proc,
           Resolve(p) \/ Revert(p) \/ Drop(p) \/ Clear(p) \/ ReleaseItems(p) \/ Release(p)
    PROVE  OwnStep \/ Decision
<1>0. TypeInv /\ LocalsKept /\ Locked
    BY TypeParts DEF BaseInv
<1>1. pc[p] \in {"copying", "keeping", "discarding"} \union Resolving
    BY DEF Resolve, Revert, Drop, Clear, ReleaseItems, Release, Resolving
<1>2. pc[p] \notin Key
    BY <1>1 DEF Key, Resolving
<1>3. mutex \in {p, Nobody}
    <2>1. CASE Resolve(p)
        BY <2>1 DEF Resolve
    <2>2. CASE ~Resolve(p)
        <3>1. pc[p] \notin Waiting
            BY <2>2 DEF Revert, Drop, Clear, ReleaseItems, Release, Waiting
        <3>2. QED
            BY <1>0, <3>1, Holder
    <2>3. QED
        BY <2>1, <2>2
<1>4. In("none")
    <2>1. ASSUME NEW k \in Key, At(k)
          PROVE  FALSE
        <3>1. PICK q \in Proc : pc[q] = k
            BY <2>1 DEF At
        <3>2. k \notin Waiting
            BY DEF Key, Waiting
        <3>3. mutex = q
            BY <1>0, <3>1, <3>2, Holder
        <3>4. p = q
            BY <1>0, <1>3, <3>3, ProcAssumption DEF Locked
        <3>5. QED
            BY <1>2, <3>1, <3>4
    <2>2. QED
        BY <2>1 DEF In, Key
<1>5. /\ ~At("put") /\ ~At("store") /\ ~At("import") /\ ~At("bind") /\ ~At("prepare")
    BY <1>4 DEF In, Key
<1>6. ASSUME Leave(p), UNCHANGED <<clock, rows, bound, tasks, etags, delivered>>
      PROVE  OwnStep
    BY <1>0, <1>3, <1>5, <1>6, InLeave DEF Cleared, OwnStep
<1>7. ASSUME NEW l, l \notin Key, Goto(p, l),
             UNCHANGED <<clock, rows, bound, tasks, etags, delivered, view, fetched, todo, merge>>
      PROVE  OwnStep
    BY <1>0, <1>2, <1>7, InAside DEF Aside, OwnStep
<1>8. ASSUME NEW l, l \notin Key, Goto(p, l)
      PROVE  In("none")'
    BY <1>0, <1>2, <1>4, <1>8, InAside DEF In, Key
<1>9. CASE Resolve(p)
    <2>1. UNCHANGED <<clock, rows, bound, tasks, etags, delivered>>
        BY <1>9 DEF Resolve, device, server
    <2>2. Leave(p) \/ \E l \in {"drop", "revert"} : Goto(p, l) /\ UNCHANGED <<view, todo, fetched, merge>>
        BY <1>9 DEF Resolve
    <2>3. QED
        BY <1>6, <1>7, <2>1, <2>2 DEF Key
<1>10. CASE Drop(p)
    <2>1. UNCHANGED <<clock, rows, bound, tasks, etags, delivered, view, fetched, todo, merge>>
        BY <1>10 DEF Drop, server, history, progress
    <2>2. \E l \in {"releaseItems", "clear"} : Goto(p, l)
        BY <1>10 DEF Drop
    <2>3. QED
        BY <1>7, <2>1, <2>2 DEF Key
<1>11. CASE Clear(p)
    <2>1. UNCHANGED <<clock, rows, bound, tasks, etags, delivered>>
        BY <1>11 DEF Clear, device, server, history
    <2>2. Leave(p) \/ (Goto(p, "releaseItems") /\ UNCHANGED progress)
        BY <1>11 DEF Clear
    <2>3. QED
        BY <1>6, <1>7, <2>1, <2>2 DEF Key, progress
<1>12. CASE Release(p)
    <2>1. Leave(p) /\ UNCHANGED <<clock, rows, bound, tasks, etags, delivered>>
        BY <1>12 DEF Release, device, server, history
    <2>2. QED
        BY <1>6, <2>1
<1>13. CASE ReleaseItems(p)
    <2>1. /\ bound' = [i \in Item |-> NoTask] /\ pc[p] = "releaseItems" /\ Goto(p, "release")
          /\ UNCHANGED <<clock, rows, tasks, etags, delivered, view, fetched, merge>>
        BY <1>13 DEF ReleaseItems, device, server, history, progress
    <2>2. Released(p)
        BY <1>4, <1>8, <2>1 DEF Released, Key
    <2>3. QED
        BY <2>2 DEF Decision
<1>14. CASE Revert(p)
    <2>1. /\ pc[p] = "revert" /\ Goto(p, "drop")
          /\ UNCHANGED <<bound, coll, tasks, etags, delivered, view, fetched, merge>>
        BY <1>14 DEF Revert, server, history, progress
    <2>2. Reverted(p)
        BY <1>4, <1>8, <1>14, <2>1 DEF Reverted, Key
    <2>3. QED
        BY <2>2 DEF Decision
<1>15. QED
    BY <1>9, <1>10, <1>11, <1>12, <1>13, <1>14

\* The other steps of a synchronization.
LEMMA ContinueKinds ==
    ASSUME BaseInv, NEW p \in Proc, Continue(p), ~Put(p), ~Delete(p)
    PROVE  OwnStep \/ Decision
<1>0. TypeInv /\ LocalsKept /\ Locked
    BY TypeParts DEF BaseInv
<1>1. ASSUME pc[p] \in Syncing
      PROVE  mutex = p /\ In(pc[p])
    <2>1. pc[p] \notin Waiting
        BY <1>1 DEF Syncing, Waiting
    <2>2. QED
        BY <1>0, <1>1, <2>1, InBefore, Holder
<1>2. ASSUME In("none")
      PROVE  /\ ~At("put") /\ ~At("store") /\ ~At("import") /\ ~At("bind") /\ ~At("prepare")
             /\ merge = NoMerge /\ fetched = NoFetch /\ view = NoView
    BY <1>0, <1>2 DEF In, Key, LocalsKept
<1>3. ASSUME mutex \in {p, Nobody}, Leave(p), In("none"),
             UNCHANGED <<clock, rows, bound, tasks, etags, delivered>>
      PROVE  OwnStep
    BY <1>0, <1>2, <1>3, InLeave DEF Cleared, OwnStep
<1>4. ASSUME NEW l, l \notin Key, Goto(p, l), pc[p] \notin Key,
             UNCHANGED <<clock, rows, bound, tasks, etags, delivered, view, fetched, todo, merge>>
      PROVE  OwnStep
    BY <1>0, <1>4, InAside DEF Aside, OwnStep
<1>5. CASE Begin(p) \/ Listed(p) \/ Shared(p)
    <2>1. PICK l : l \in {"idle", "persisting", "discover"} /\ Goto(p, l)
        BY <1>5 DEF Begin, Listed, Shared
    <2>2. pc[p] \notin Key /\ l \notin Key
        BY <1>5, <2>1 DEF Begin, Listed, Shared, Key
    <2>3. UNCHANGED <<clock, rows, bound, tasks, etags, delivered, view, fetched, todo, merge>>
        BY <1>5 DEF Begin, Listed, Shared, device, server, history, progress
    <2>4. QED
        BY <1>4, <2>1, <2>2, <2>3
<1>6. CASE Discover(p)
    BY <1>4, <1>6 DEF Discover, Key, device, server, history, progress
<1>7. CASE Quarantine(p)
    <2>1. mutex = p /\ In("none")
        BY <1>1, <1>7 DEF Quarantine, Syncing, In, Key
    <2>2. UNCHANGED <<clock, rows, bound, tasks, etags, delivered>>
        BY <1>7 DEF Quarantine, device, server, history
    <2>3. CASE Leave(p)
        BY <1>3, <2>1, <2>2, <2>3
    <2>4. CASE ~Leave(p)
        <3>1. (Goto(p, "fetch") \/ Goto(p, "push")) /\ UNCHANGED <<view, todo, fetched, merge>>
            BY <1>7, <2>4 DEF Quarantine
        <3>2. pc[p] \notin Key
            BY <1>7 DEF Quarantine, Key
        <3>3. QED
            BY <1>4, <2>2, <3>1, <3>2 DEF Key
    <2>5. QED
        BY <2>3, <2>4
<1>8. CASE Push(p)
    <2>1. pc[p] = "push" /\ Goto(p, "put")
        BY <1>8 DEF Push
    <2>2. In("push") /\ In("put")' /\ mutex = p
        BY <1>0, <1>1, <2>1, InAfter DEF Syncing
    <2>3. In("none")
        BY <2>2 DEF In, Key
    <2>4. Pushed
        BY <1>8, <2>2, <2>3 DEF Pushed, Push, device, server, history
    <2>5. QED
        BY <2>4 DEF OwnStep
<1>9. CASE Store(p)
    <2>1. pc[p] = "store" /\ Goto(p, "put")
        BY <1>9 DEF Store
    <2>2. In("store") /\ In("put")'
        BY <1>0, <1>1, <2>1, InAfter DEF Syncing
    <2>3. bound' = [i \in Item |-> IF merge.bound[i] # NoTask THEN merge.bound[i] ELSE bound[i]]
        BY <1>9 DEF Store
    <2>4. Kept
        BY <1>9, <2>2, <2>3 DEF Kept, Store, device, server, history
    <2>5. QED
        BY <2>4 DEF OwnStep
<1>10. CASE Acknowledge(p)
    <2>1. mutex = p /\ In("put") /\ UNCHANGED <<clock, rows, bound, tasks, etags, delivered>>
        BY <1>1, <1>10 DEF Acknowledge, Syncing, server, history
    <2>2. ~At("store") /\ ~At("import") /\ ~At("bind") /\ merge = NoMerge /\ fetched = NoFetch
        BY <1>0, <2>1 DEF In, Key, LocalsKept
    <2>3. In("none")' /\ view' = NoView /\ fetched' = NoFetch /\ merge' = NoMerge
        <3>1. CASE Leave(p)
            BY <1>0, <2>1, <3>1, InLeave
        <3>2. CASE ~Leave(p)
            <4>1. view' = NoView /\ Goto(p, "fetch") /\ UNCHANGED <<fetched, merge>>
                BY <1>10, <3>2 DEF Acknowledge
            <4>2. QED
                BY <1>0, <2>1, <2>2, <4>1, InAfter DEF In, Key
        <3>3. QED
            BY <3>1, <3>2
    <2>4. QED
        BY <2>1, <2>2, <2>3 DEF Cleared, OwnStep
<1>11. CASE Fetch(p)
    <2>1. pc[p] = "fetch" /\ UNCHANGED <<clock, rows, bound, tasks, etags, delivered>>
        BY <1>11 DEF Fetch, device, server, history
    <2>2. mutex = p /\ In("none")
        BY <1>1, <2>1 DEF Syncing, In, Key
    <2>3. CASE Leave(p)
        BY <1>3, <2>1, <2>2, <2>3
    <2>4. CASE ~Leave(p)
        <3>1. fetched' = tasks /\ Goto(p, "prepare") /\ UNCHANGED <<view, todo, merge>>
            BY <1>11, <2>4 DEF Fetch
        <3>2. In("prepare")'
            BY <1>0, <2>2, <3>1, InAfter
        <3>3. QED
            BY <2>1, <2>2, <3>1, <3>2 DEF Fetched, OwnStep
    <2>5. QED
        BY <2>3, <2>4
<1>12. CASE Prepare(p)
    <2>1. pc[p] = "prepare" /\ Goto(p, "import") /\ fetched' = NoFetch
          /\ UNCHANGED <<device, bound, server, view, history>>
        BY <1>12 DEF Prepare
    <2>2. In("prepare") /\ In("import")'
        BY <1>0, <1>1, <2>1, InAfter DEF Syncing
    <2>3. Compared(p)
        BY <1>12, <2>1, <2>2 DEF Compared, device, server, history
    <2>4. QED
        BY <2>3 DEF OwnStep
<1>13. CASE Import(p)
    <2>1. /\ pc[p] = "import" /\ Goto(p, "bind") /\ todo' = {i \in Item : merge.bound[i] # NoTask}
          /\ UNCHANGED <<bound, coll, server, view, fetched, merge, history>>
          /\ IF merge.rows = NoView THEN UNCHANGED device
             ELSE Imported(Merged(merge.rows), Newest(merge.rows))
        BY <1>13 DEF Import
    <2>2. In("import") /\ In("bind")'
        BY <1>0, <1>1, <2>1, InAfter DEF Syncing
    <2>3. Taken
        BY <2>1, <2>2 DEF Taken, device, server, history
    <2>4. QED
        BY <2>3 DEF OwnStep
<1>14. CASE Bind(p)
    <2>1. PICK i \in todo : bound' = [bound EXCEPT ![i] = merge.bound[i]] /\ todo' = todo \ {i}
        BY <1>14 DEF Bind
    <2>2. /\ pc[p] = "bind" /\ pc' = pc
          /\ UNCHANGED <<device, server, view, fetched, merge, history>>
        BY <1>14 DEF Bind
    <2>3. In("bind") /\ In("bind")'
        BY <1>1, <2>2 DEF Syncing, In, At
    <2>4. i \in Item
        BY <1>0, TypeParts DEF LocalsOK
    <2>5. Linked(i)
        BY <2>1, <2>2, <2>3 DEF Linked, device, server, history
    <2>6. QED
        BY <2>4, <2>5 DEF OwnStep
<1>15. CASE Pulled(p)
    <2>1. pc[p] = "bind" /\ todo = {} /\ UNCHANGED <<clock, rows, bound, tasks, etags, delivered>>
        BY <1>15 DEF Pulled, device, server, history
    <2>2. mutex = p /\ In("bind")
        BY <1>1, <2>1 DEF Syncing
    <2>3. ~At("store") /\ ~At("import") /\ fetched = NoFetch /\ view = NoView
        BY <1>0, <2>2 DEF In, Key, LocalsKept
    <2>4. In("none")' /\ view' = NoView /\ fetched' = NoFetch /\ merge' = NoMerge
        <3>1. CASE Leave(p)
            BY <1>0, <2>2, <3>1, InLeave
        <3>2. CASE ~Leave(p)
            <4>1. merge' = NoMerge /\ Goto(p, "push") /\ UNCHANGED <<view, fetched>>
                BY <1>15, <3>2 DEF Pulled
            <4>2. QED
                BY <1>0, <2>2, <2>3, <4>1, InAfter DEF In, Key
        <3>3. QED
            BY <3>1, <3>2
    <2>5. QED
        BY <2>1, <2>3, <2>4 DEF Cleared, OwnStep
<1>16. CASE Resolve(p) \/ Revert(p) \/ Drop(p) \/ Clear(p) \/ ReleaseItems(p) \/ Release(p)
    BY <1>16, ResolveKinds
<1>17. QED
    BY <1>5, <1>6, <1>7, <1>8, <1>9, <1>10, <1>11, <1>12, <1>13, <1>14, <1>15, <1>16 DEF Continue

\* Every step is an edit, a change of another client, or one of those above.
LEMMA StepKinds ==
    ASSUME BaseInv, Next
    PROVE  \/ \E i \in Item, r \in Row : Changed(i, r)
           \/ RemoteAdd \/ RemoteSet \/ RemoteDelete
           \/ OwnStep
           \/ (~Faultless /\ Fault)
           \/ Decision
<1>0. TypeInv /\ LocalsKept
    BY DEF BaseInv
<1>1. CASE AddItem \/ SetText \/ SetChecked \/ DeleteItem \/ RestoreItem
    BY <1>0, <1>1, EditCases DEF Changed
<1>2. CASE Stop \/ Reshare
    <2>1. /\ UNCHANGED <<clock, rows, bound, tasks, etags, delivered, view, fetched, todo, merge>>
          /\ pc' = pc
        BY <1>2 DEF Stop, Reshare, device, server, history, progress
    <2>2. QED
        BY <2>1 DEF Aside, OwnStep, At
<1>3. CASE Crash
    <2>1. ~Faultless
        BY <1>3 DEF Crash, Faultless
    <2>2. pc' = [p \in Proc |-> "idle"]
        BY <1>3 DEF Crash
    <2>3. In("none")'
        BY <2>2 DEF In, At, Key
    <2>4. Crashed
        BY <1>3, <2>3 DEF Crash, Crashed, Forgotten, device, server, history
    <2>5. QED
        BY <2>1, <2>4 DEF Fault
<1>4. ASSUME NEW p \in Proc, Calls(p) \/ Resume(p)
      PROVE  OwnStep
    <2>1. /\ UNCHANGED <<clock, rows, bound, tasks, etags, delivered, view, fetched, todo, merge>>
          /\ pc[p] = "idle" /\ \E l \in CallLabels : Goto(p, l)
        BY <1>4, CallCases DEF Call, Resume, device, server, history, progress, CallLabels
    <2>2. QED
        BY <1>0, <2>1, InAside DEF Aside, OwnStep, Key, CallLabels
<1>5. ASSUME NEW p \in Proc, Continue(p)
      PROVE  OwnStep \/ Decision \/ (~Faultless /\ Fault)
    <2>1. CASE Put(p) \/ Delete(p)
        BY <2>1, PutKinds DEF OwnStep
    <2>2. QED
        BY <1>5, <2>1, ContinueKinds
<1>6. ASSUME NEW p \in Proc, RequestFails(p)
      PROVE  OwnStep
    <2>1. /\ pc[p] \in {"discover", "put", "fetch"} /\ Leave(p)
          /\ UNCHANGED <<clock, rows, bound, tasks, etags, delivered>>
        BY <1>6 DEF RequestFails, device, server, history
    <2>2. mutex = p /\ In(pc[p])
        BY <1>0, <2>1, InBefore, Holder, TypeParts DEF Syncing, Waiting
    <2>3. ~At("store") /\ ~At("import") /\ ~At("bind")
        BY <2>1, <2>2 DEF In, Key
    <2>4. QED
        BY <1>0, <2>1, <2>2, <2>3, InLeave DEF Cleared, OwnStep
<1>7. QED
    BY <1>1, <1>2, <1>3, <1>4, <1>5, <1>6 DEF Next, User, Others, Calls

\* Without decisions nothing is reverted and nothing released.
LEMMA NobodyDecides ==
    ASSUME BaseInv, NoDecision, Next
    PROVE  \/ \E i \in Item, r \in Row : Changed(i, r)
           \/ RemoteAdd \/ RemoteSet \/ RemoteDelete
           \/ OwnStep
           \/ (~Faultless /\ Fault)
<1>1. ~Decision
    BY DEF Decision, Reverted, Released, NoDecision, Resolving
<1>2. QED
    BY <1>1, StepKinds

\* What an edit, and what another client leaves alone.
LEMMA EditLeaves ==
    ASSUME NEW i \in Item, NEW r \in Row, Changed(i, r)
    PROVE  UNCHANGED <<bound, tasks, etags, pc, view, todo, fetched, merge, delivered>>
BY DEF Changed, EditOf, Edit, server, progress, history

\* A task that another client adds is bound to nothing; other changes are
\* to a task that is there.  Each has a new ETag, or none is left.
LEMMA RemoteLeaves ==
    ASSUME RemoteAdd \/ RemoteSet \/ RemoteDelete
    PROVE  /\ UNCHANGED <<clock, rows, bound, pc, view, todo, fetched, merge, delivered>>
           /\ etags' = etags + 1
           /\ \E u \in Uid :
                \/ /\ Unused(u)
                   /\ \E v \in Values : tasks' = [tasks EXCEPT ![u] =
                            [etag |-> etags + 1, val |-> v, origin |-> u]]
                \/ /\ tasks[u].etag # 0
                   /\ \E v \in Values : tasks' = [tasks EXCEPT ![u] =
                            [tasks[u] EXCEPT !.etag = etags + 1, !.val = v]]
                \/ tasks' = [tasks EXCEPT ![u] = [tasks[u] EXCEPT !.etag = 0]]
<1>1. CASE RemoteAdd
    <2>1. PICK u \in NextUid, t \in Text : OtherClient("REMOTE_ADD", u,
            [etag |-> etags + 1, val |-> [text |-> t, checked |-> FALSE], origin |-> u])
        BY <1>1 DEF RemoteAdd
    <2>2. u \in Uid /\ Unused(u) /\ [text |-> t, checked |-> FALSE] \in Values
        BY DEF NextUid, First, Values
    <2>3. QED
        BY <2>1, <2>2 DEF OtherClient, device, progress, history
<1>2. CASE RemoteSet
    <2>1. PICK u \in OnServer, v \in Values :
            OtherClient("REMOTE_SET", u, [tasks[u] EXCEPT !.etag = etags + 1, !.val = v])
        BY <1>2 DEF RemoteSet
    <2>2. u \in Uid /\ tasks[u].etag # 0
        BY DEF OnServer
    <2>3. QED
        BY <2>1, <2>2 DEF OtherClient, device, progress, history
<1>3. CASE RemoteDelete
    <2>1. PICK u \in OnServer : OtherClient("REMOTE_DELETE", u, [tasks[u] EXCEPT !.etag = 0])
        BY <1>3 DEF RemoteDelete
    <2>2. u \in Uid
        BY DEF OnServer
    <2>3. QED
        BY <2>1, <2>2 DEF OtherClient, device, progress, history
<1>4. QED
    BY <1>1, <1>2, <1>3

\* Only the owner changes the access.
LEMMA GrantStays ==
    ASSUME TypeInv, Granted, Next
    PROVE  Granted'
<1>1. access' = access \/ "RESHARE" \in Operations
    <2>1. CASE User \/ Others \/ Crash
        BY <2>1, EditCases DEF User, EditOf, Edit, Stop, Others, RemoteAdd, RemoteSet, RemoteDelete,
                               OtherClient, Reshare, Crash, server
    <2>2. ASSUME NEW p \in Proc, Calls(p) \/ Resume(p) \/ RequestFails(p)
          PROVE  access' = access
        BY <2>2, CallCases DEF Call, Resume, RequestFails, server
    <2>3. ASSUME NEW p \in Proc, Continue(p)
          PROVE  access' = access
        <3>1. CASE Put(p) \/ Delete(p)
            BY <3>1 DEF Put, Delete, server
        <3>2. CASE Begin(p) \/ Discover(p) \/ Quarantine(p) \/ Push(p) \/ Store(p) \/ Acknowledge(p)
            BY <3>2 DEF Begin, Discover, Quarantine, Push, Store, Acknowledge, server
        <3>3. CASE Fetch(p) \/ Prepare(p) \/ Import(p) \/ Bind(p) \/ Pulled(p)
            BY <3>3 DEF Fetch, Prepare, Import, Bind, Pulled, server
        <3>4. CASE Listed(p) \/ Shared(p) \/ Resolve(p) \/ Revert(p) \/ Drop(p) \/ Clear(p)
                    \/ ReleaseItems(p) \/ Release(p)
            BY <3>4 DEF Listed, Shared, Resolve, Revert, Drop, Clear, ReleaseItems, Release, server
        <3>5. QED
            BY <2>3, <3>1, <3>2, <3>3, <3>4 DEF Continue
    <2>4. QED
        BY <2>1, <2>2, <2>3 DEF Next, Calls
<1>2. QED
    BY <1>1 DEF Granted

LEMMA NextBase ==
    ASSUME BaseInv, Next
    PROVE  BaseInv'
<1>0. LocalsKept /\ TypeInv' /\ Granted'
    BY NextTypes, GrantStays DEF BaseInv
<1>1. CASE (\E i \in Item, r \in Row : Changed(i, r)) \/ RemoteAdd \/ RemoteSet \/ RemoteDelete
    <2>1. UNCHANGED <<bound, pc, view, todo, fetched, merge>>
        BY <1>1, EditLeaves, RemoteLeaves
    <2>2. QED
        BY <1>0, <2>1 DEF LocalsKept, At, BaseInv
<1>2. CASE Aside
    <2>1. \A k \in Key : At(k)' <=> At(k)
        BY <1>2 DEF Aside
    <2>2. LocalsKept'
        BY <1>0, <1>2, <2>1 DEF LocalsKept, Aside, Key
    <2>3. QED
        BY <1>0, <2>2 DEF BaseInv
<1>3. CASE Cleared
    <2>1. LocalsKept'
        BY <1>3 DEF LocalsKept, Cleared, In, Key
    <2>2. QED
        BY <1>0, <2>1 DEF BaseInv
<1>4. CASE Pushed \/ Fetched \/ Kept \/ Taken
    <2>1. LocalsKept'
        BY <1>0, <1>4 DEF LocalsKept, Pushed, Fetched, Kept, Taken, In, Key
    <2>2. QED
        BY <1>0, <2>1 DEF BaseInv
<1>5. ASSUME NEW i \in Item, Written(i) \/ Erased(i)
      PROVE  BaseInv'
    <2>1. In("put") /\ In("store")' /\ fetched' = fetched
        BY <1>5 DEF Written, Erased
    <2>2. LocalsKept'
        BY <1>0, <2>1 DEF LocalsKept, In, Key
    <2>3. QED
        BY <1>0, <2>2 DEF BaseInv
<1>6. ASSUME NEW i \in Item, Linked(i)
      PROVE  BaseInv'
    <2>1. ASSUME NEW j \in Item
          PROVE  IF j \in todo' THEN merge'.bound[j] # NoTask
                 ELSE merge'.bound[j] = NoTask \/ bound'[j] = merge'.bound[j]
        <3>1. /\ bound \in [Item -> ItemBinding] /\ merge' = merge /\ At("bind")
              /\ todo' = todo \ {i} /\ bound' = [bound EXCEPT ![i] = merge.bound[i]]
            BY <1>6, TypeParts DEF BaseInv, Tables, Linked, In, Key
        <3>2. CASE j = i
            BY <3>1, <3>2
        <3>3. CASE j # i
            <4>1. (j \in todo' <=> j \in todo) /\ bound'[j] = bound[j]
                BY <3>1, <3>3
            <4>2. QED
                BY <1>0, <3>1, <4>1 DEF LocalsKept
        <3>4. QED
            BY <3>2, <3>3
    <2>2. /\ ~At("put") /\ ~At("store") /\ ~At("prepare")
          /\ UNCHANGED <<view, fetched>> /\ At("bind")'
        BY <1>6 DEF Linked, In, Key
    <2>3. LocalsKept'
        BY <1>0, <2>1, <2>2 DEF LocalsKept
    <2>4. QED
        BY <1>0, <2>3 DEF BaseInv
<1>7. ASSUME NEW p \in Proc, Compared(p)
      PROVE  BaseInv'
    <2>1. In("prepare") /\ In("import")' /\ fetched' = NoFetch /\ view' = view
        BY <1>7 DEF Compared
    <2>2. LocalsKept'
        BY <1>0, <2>1 DEF LocalsKept, In, Key
    <2>3. QED
        BY <1>0, <2>2 DEF BaseInv
<1>8. CASE Fault
    <2>1. Forgotten
        BY <1>8 DEF Fault, Crashed, WrittenUnheard, ErasedUnheard
    <2>2. LocalsKept'
        BY <2>1 DEF LocalsKept, Forgotten, In, Key
    <2>3. QED
        BY <1>0, <2>2 DEF BaseInv
<1>9. CASE Decision
    <2>1. In("none") /\ In("none")' /\ UNCHANGED <<view, fetched, merge>>
        BY <1>9 DEF Decision, Released, Reverted
    <2>2. LocalsKept'
        BY <1>0, <2>1 DEF LocalsKept, In, Key
    <2>3. QED
        BY <1>0, <2>2 DEF BaseInv
<1>10. QED
    BY <1>1, <1>2, <1>3, <1>4, <1>5, <1>6, <1>7, <1>8, <1>9, StepKinds DEF OwnStep

LEMMA InitBase ==
    ASSUME Init
    PROVE  BaseInv
<1>1. \A p \in Proc : pc[p] = "idle"
    BY InitTables
<1>2. LocalsKept
    BY <1>1, InitTables DEF LocalsKept, At
<1>3. QED
    BY <1>2, InitTables, InitTypes DEF BaseInv, Granted

LEMMA SameBase ==
    ASSUME BaseInv, UNCHANGED vars
    PROVE  BaseInv'
BY SameTypes DEF BaseInv, LocalsKept, Granted, At, vars, progress, server
-----------------------------------------------------------------------------
(* Items and tasks.                                                        *)

\* What is known about the task of an item: the binding a push or a pull is
\* about to store, or the one that is stored.
Latest(i) == IF merge.bound[i] # NoTask THEN merge.bound[i] ELSE bound[i]
TaskFor(i) == Latest(i).uid

\* The items and tasks that a row, and a task, may go back to.
RowFrom(i) == {i, TaskFor(i)}
TaskFrom(u) == {u} \union {i \in Item : TaskFor(i) = u}

\* A binding that waits to be stored names the task of the one it replaces,
\* and no task belongs to two items ...
Paired ==
    /\ \A i \in Item : bound[i] # NoTask /\ merge.bound[i] # NoTask
                          => merge.bound[i].uid = bound[i].uid
    /\ \A i, j \in Item : TaskFor(i) = TaskFor(j) /\ TaskFor(i) # 0 => i = j

\* ... so whatever carries the content of an item or a task, here, on the
\* server or on the way, goes back to that item or its task.
Traceable ==
    /\ \A i \in Item : /\ rows[i].origin \in RowFrom(i) /\ view[i].origin \in RowFrom(i)
                       /\ merge.rows[i].origin \in RowFrom(i)
    /\ \A u \in Uid : tasks[u].origin \in TaskFrom(u) /\ fetched[u].origin \in TaskFrom(u)

PairInv == BaseInv /\ Paired
LinkInv == PairInv /\ NoDecision /\ Traceable

LEMMA TracedOneToOne ==
    ASSUME LinkInv
    PROVE  OneToOne
<1>1. /\ tasks \in [Uid -> Task] /\ rows \in [Item -> Row]
      /\ 0 \notin Item \union Uid /\ Item \intersect Uid = {}
    BY TypeParts, IdentityAssumption DEF LinkInv, PairInv, BaseInv, Tables, Server
<1>2. ASSUME NEW u \in OnServer, NEW w \in OnServer, tasks[u].origin = tasks[w].origin
      PROVE  u = w
    <2>1. u \in Uid /\ w \in Uid
        BY DEF OnServer
    <2>2. tasks[u].origin \in TaskFrom(u) /\ tasks[u].origin \in TaskFrom(w)
        BY <1>2, <2>1 DEF LinkInv, Traceable
    <2>3. QED
        BY <1>1, <2>1, <2>2 DEF TaskFrom
<1>3. ASSUME NEW i \in Active(rows), NEW j \in Active(rows), rows[i].origin = rows[j].origin
      PROVE  i = j
    <2>1. i \in Item /\ j \in Item
        BY DEF Active
    <2>2. rows[i].origin \in RowFrom(i) /\ rows[i].origin \in RowFrom(j)
        BY <1>3, <2>1 DEF LinkInv, Traceable
    <2>3. rows[i].origin \in Item \union Uid
        BY <1>1, <2>1 DEF Row
    <2>4. TaskFor(i) = TaskFor(j) /\ TaskFor(i) # 0 => i = j
        BY <2>1 DEF LinkInv, PairInv, Paired
    <2>5. TaskFor(i) \in Uid \union {0} /\ TaskFor(j) \in Uid \union {0}
        BY <2>1, TypeParts DEF LinkInv, PairInv, BaseInv, Tables, LocalsOK, ItemBinding, TaskFor, Latest
    <2>6. QED
        BY <1>1, <2>1, <2>2, <2>3, <2>4, <2>5 DEF RowFrom
<1>4. QED
    BY <1>2, <1>3 DEF OneToOne

\* Items keep their tasks; an item without one may get one.
TasksStay == \A i \in Item : TaskFor(i)' = TaskFor(i) \/ TaskFor(i) = 0

LEMMA OriginsStay ==
    ASSUME TypeInv, TasksStay
    PROVE  /\ \A i \in Item : \A x \in Item \union Uid : x \in RowFrom(i) => x \in RowFrom(i)'
           /\ \A u \in Uid : \A x \in TaskFrom(u) : x \in TaskFrom(u)'
<1>1. 0 \notin Item \union Uid
    BY IdentityAssumption
<1>2. QED
    BY <1>1 DEF TasksStay, RowFrom, TaskFrom

\* Most steps change nothing about who belongs to whom.
LEMMA LatestStays ==
    ASSUME BaseInv, \/ UNCHANGED <<bound, merge>>
                    \/ Cleared \/ Kept \/ \E i \in Item : Linked(i)
    PROVE  \A i \in Item : Latest(i)' = Latest(i)
<1>0. LocalsKept /\ bound \in [Item -> ItemBinding] /\ merge.bound \in [Item -> ItemBinding]
    BY TypeParts DEF BaseInv, Tables, LocalsOK
<1>1. CASE UNCHANGED <<bound, merge>>
    BY <1>1 DEF Latest
<1>2. \A i \in Item : NoMerge.bound[i] = NoTask
    BY DEF NoMerge
<1>3. CASE Cleared
    <2>1. merge' = NoMerge /\ bound' = bound
        BY <1>3 DEF Cleared
    <2>2. merge = NoMerge \/ \A i \in Item : merge.bound[i] = NoTask \/ bound[i] = merge.bound[i]
        BY <1>0, <1>3 DEF Cleared, LocalsKept
    <2>3. QED
        BY <1>2, <2>1, <2>2 DEF Latest
<1>4. CASE Kept
    BY <1>0, <1>2, <1>4 DEF Latest, Kept
<1>5. ASSUME NEW i \in Item, Linked(i)
      PROVE  \A j \in Item : Latest(j)' = Latest(j)
    <2>1. merge' = merge /\ bound' = [bound EXCEPT ![i] = merge.bound[i]] /\ merge.bound[i] # NoTask
        BY <1>0, <1>5 DEF Linked, LocalsKept, In, Key
    <2>2. QED
        BY <1>0, <2>1 DEF Latest
<1>6. QED
    BY <1>1, <1>3, <1>4, <1>5

LEMMA PairedStays ==
    ASSUME BaseInv, Paired, \/ UNCHANGED <<bound, merge>>
                            \/ Cleared \/ Kept \/ \E i \in Item : Linked(i)
    PROVE  Paired' /\ \A i \in Item : TaskFor(i)' = TaskFor(i)
<1>0. LocalsKept /\ bound \in [Item -> ItemBinding] /\ merge.bound \in [Item -> ItemBinding]
    BY TypeParts DEF BaseInv, Tables, LocalsOK
<1>1. \A i \in Item : TaskFor(i)' = TaskFor(i)
    BY LatestStays DEF TaskFor
<1>2. \A i, j \in Item : TaskFor(i)' = TaskFor(j)' /\ TaskFor(i)' # 0 => i = j
    BY <1>1 DEF Paired
<1>3. \A i \in Item : NoMerge.bound[i] = NoTask
    BY DEF NoMerge
<1>4. ASSUME NEW i \in Item, bound'[i] # NoTask, merge'.bound[i] # NoTask
      PROVE  merge'.bound[i].uid = bound'[i].uid
    <2>1. CASE UNCHANGED <<bound, merge>>
        BY <1>4, <2>1 DEF Paired
    <2>2. CASE Cleared \/ Kept
        BY <1>3, <1>4, <2>2 DEF Cleared, Kept
    <2>3. CASE \E j \in Item : Linked(j)
        BY <1>0, <1>4, <2>3 DEF Paired, Linked
    <2>4. QED
        BY <2>1, <2>2, <2>3
<1>5. QED
    BY <1>1, <1>2, <1>4 DEF Paired

\* An edit, and an import, keep what each row goes back to.
WithRow(i, r) == [rows EXCEPT ![i] = r]

LEMMA ChangedRows ==
    ASSUME TypeInv, NEW i \in Item, NEW r \in Row, Changed(i, r)
    PROVE  /\ WithRow(i, r) \in [Item -> Row] /\ WithRow(i, r)[i] = r
           /\ \A j \in Item \ {i} : WithRow(i, r)[j] = rows[j]
           /\ rows' = Cascade(WithRow(i, r), clock + 1).rows
           /\ clock' = Cascade(WithRow(i, r), clock + 1).clock
           /\ clock \in Nat /\ clock' \in Nat /\ clock + 1 <= clock'
           /\ \A j \in Item : /\ rows'[j].life = WithRow(i, r)[j].life
                              /\ rows'[j].lifeAt = WithRow(i, r)[j].lifeAt
                              /\ rows'[j].origin = WithRow(i, r)[j].origin
<1> DEFINE all == WithRow(i, r)
<1>1. PICK op : Edit(op, i, r)
    BY DEF Changed, EditOf
<1>2. rows' = Cascade(all, clock + 1).rows /\ clock' = Cascade(all, clock + 1).clock
    BY <1>1 DEF Edit, WithRow
<1>3. clock \in Nat /\ clock + 1 \in Nat /\ rows \in [Item -> Row]
    BY TypeParts DEF Tables
<1>4. all \in [Item -> Row] /\ all[i] = r /\ \A j \in Item \ {i} : all[j] = rows[j]
    BY <1>3 DEF WithRow
<1>5. clock + 1 <= clock' /\ clock' \in Nat
    BY <1>1, EditTypes, TypeParts DEF Tables
<1> HIDE DEF all
<1>6. \A j \in Item : /\ rows'[j].life = all[j].life /\ rows'[j].lifeAt = all[j].lifeAt
                      /\ rows'[j].origin = all[j].origin
    BY <1>2, <1>3, <1>4, CascadeType
<1>7. QED
    BY <1>2, <1>3, <1>4, <1>5, <1>6 DEF all

LEMMA TakenRows ==
    ASSUME TypeInv, Taken
    PROVE  /\ clock \in Nat /\ clock' \in Nat /\ clock <= clock'
           /\ \A i \in Item : \A f \in Field : merge.rows[i].at[f].clock <= clock' \/ merge.rows = NoView
           /\ \A i \in Item : merge.rows[i].lifeAt.clock <= clock' \/ merge.rows = NoView
           /\ \A i \in Item : LET m == Merged(merge.rows)[i] IN
                 rows'[i].life = m.life /\ rows'[i].lifeAt = m.lifeAt /\ rows'[i].origin = m.origin
<1> DEFINE m == Merged(merge.rows)
<1>1. merge.rows \in [Item -> Row] /\ rows \in [Item -> Row] /\ clock \in Nat
    BY TypeParts DEF LocalsOK, Tables
<1>2. m \in [Item -> Row] /\ Newest(merge.rows) \in Nat
    BY <1>1, MergedTypes, NewestBounds
<1>3. CASE merge.rows = NoView
    <2>1. UNCHANGED <<clock, rows>>
        BY <1>3 DEF Taken
    <2>2. \A i \in Item : m[i] = rows[i]
        BY <1>3 DEF Merged, NoView, NoRow
    <2>3. QED
        BY <1>1, <1>3, <2>1, <2>2
<1>4. CASE merge.rows # NoView
    <2>1. Imported(m, Newest(merge.rows)) /\ UNCHANGED <<bound, coll>>
        BY <1>4 DEF Taken
    <2>2. /\ \A i \in Item : merge.rows[i].lifeAt.clock <= Newest(merge.rows)
          /\ \A i \in Item, f \in Field : merge.rows[i].at[f].clock <= Newest(merge.rows)
          /\ \A i \in Item : merge.rows[i].lifeAt.clock \in Nat
          /\ \A i \in Item, f \in Field : merge.rows[i].at[f].clock \in Nat
        BY <1>1, NewestBounds DEF Row, Stamp
    <2> DEFINE base == Observed(clock, Newest(merge.rows))
    <2> HIDE DEF m
    <2>3. /\ Tables' /\ clock <= clock' /\ Newest(merge.rows) <= clock'
          /\ rows' \in {m, Cascade(m, base).rows}
        BY <1>2, <2>1, ImportedTypes
    <2>4. base \in Nat /\ clock' \in Nat
        BY <1>1, <1>2, <2>3 DEF Observed, Tables
    <2>5. \A i \in Item : rows'[i].life = m[i].life /\ rows'[i].lifeAt = m[i].lifeAt
                          /\ rows'[i].origin = m[i].origin
        BY <1>2, <2>3, <2>4, CascadeType
    <2>6. QED
        BY <1>1, <1>2, <2>2, <2>3, <2>4, <2>5 DEF m
<1>5. QED
    BY <1>3, <1>4

\* The PUT of an item without a task takes a task of nobody.
LEMMA WrittenLinks ==
    ASSUME PairInv, NEW i \in Item, Written(i)
    PROVE  /\ Paired' /\ TasksStay
           /\ TaskFor(i)' = TaskOf(i) /\ \A j \in Item \ {i} : Latest(j)' = Latest(j)
           /\ tasks[TaskOf(i)].etag # 0 /\ TaskOf(i) # 0 => TaskFor(i) = TaskOf(i)
<1>0. /\ bound \in [Item -> ItemBinding] /\ TypeInv /\ LocalsKept
      /\ merge \in [rows : [Item -> Row], bound : [Item -> ItemBinding], clock : Nat]
    BY TypeParts DEF PairInv, BaseInv, Tables, LocalsOK
<1>1. merge = NoMerge /\ (bound[i] = NoTask => NextUid # {})
    BY <1>0 DEF Written, In, Key, LocalsKept
<1>2. PICK e : merge' = [merge EXCEPT !.bound[i] = Stored(i, e)] /\ bound' = bound
    BY DEF Written
<1>3. merge.bound \in [Item -> ItemBinding] /\ \A j \in Item : merge.bound[j] = NoTask
    BY <1>0, <1>1 DEF NoMerge
<1>4. /\ merge'.bound[i] = Stored(i, e) /\ \A j \in Item \ {i} : merge'.bound[j] = merge.bound[j]
    BY <1>0, <1>2, <1>3
<1>5. Stored(i, e).uid = TaskOf(i) /\ NoTask.uid = 0 /\ Stored(i, e).base = view[i].val
    BY DEF Stored, NoTask
<1>6. \A j \in Item \ {i} : Latest(j)' = Latest(j)
    BY <1>2, <1>4 DEF Latest
<1>7. TaskFor(i) = bound[i].uid /\ (bound[i] # NoTask => TaskOf(i) = bound[i].uid)
    BY <1>3 DEF TaskFor, Latest, TaskOf
<1>8. bound[i] = NoTask => TaskOf(i) \in NextUid /\ TaskFor(i) = 0
    BY <1>1, <1>3, <1>5 DEF TaskFor, Latest, TaskOf
<1>9. TaskFor(i)' = TaskOf(i)
    <2>1. CASE Stored(i, e) # NoTask
        BY <1>4, <1>5, <2>1 DEF TaskFor, Latest
    <2>2. CASE Stored(i, e) = NoTask
        <3>1. TaskOf(i) = 0
            BY <1>5, <2>2
        <3>2. bound[i] # NoTask
            BY <1>8, <3>1, IdentityAssumption DEF NextUid, First
        <3>3. QED
            BY <1>2, <1>4, <1>7, <2>2, <3>1, <3>2 DEF TaskFor, Latest
    <2>3. QED
        BY <2>1, <2>2
<1>10. TasksStay
    BY <1>6, <1>7, <1>8, <1>9, <1>3 DEF TasksStay, TaskFor, Latest
<1>11. ASSUME NEW j \in Item \ {i}, TaskFor(j)' = TaskFor(i)', TaskFor(j)' # 0
       PROVE  FALSE
    <2>1. TaskFor(j) = TaskOf(i) /\ TaskFor(j) # 0
        BY <1>6, <1>9, <1>11 DEF TaskFor
    <2>2. CASE bound[i] # NoTask
        <3>1. TaskFor(i) = TaskFor(j)
            BY <1>3, <1>7, <2>1, <2>2 DEF TaskFor, Latest
        <3>2. QED
            BY <2>1, <3>1 DEF PairInv, Paired
    <2>3. CASE bound[i] = NoTask
        <3>1. Unused(TaskOf(i))
            BY <1>8, <2>3 DEF NextUid, First
        <3>2. QED
            BY <1>3, <2>1, <3>1 DEF Unused, TaskFor, Latest
    <2>4. QED
        BY <2>2, <2>3
<1>12. \A j, k \in Item : TaskFor(j)' = TaskFor(k)' /\ TaskFor(j)' # 0 => j = k
    <2>1. \A j, k \in Item \ {i} : TaskFor(j)' = TaskFor(k)' /\ TaskFor(j)' # 0 => j = k
        BY <1>6 DEF PairInv, Paired, TaskFor
    <2>2. QED
        BY <1>11, <2>1
<1>13. \A j \in Item : bound'[j] # NoTask /\ merge'.bound[j] # NoTask => merge'.bound[j].uid = bound'[j].uid
    BY <1>2, <1>3, <1>4, <1>5, <1>7
<1>14. tasks[TaskOf(i)].etag # 0 /\ TaskOf(i) # 0 => TaskFor(i) = TaskOf(i)
    <2>1. CASE bound[i] # NoTask
        BY <1>3, <1>7, <2>1 DEF TaskFor, Latest
    <2>2. CASE bound[i] = NoTask
        <3>1. TaskOf(i) \in Uid /\ TaskOf(i) \notin OnServer
            BY <1>8, <2>2 DEF NextUid, First, Unused
        <3>2. QED
            BY <3>1 DEF OnServer
    <2>3. QED
        BY <2>1, <2>2
<1>15. QED
    BY <1>6, <1>9, <1>10, <1>12, <1>13, <1>14 DEF Paired

\* A pull finds the task of an item, or takes a new item for a new task.
LEMMA ComparedLinks ==
    ASSUME PairInv, NEW p \in Proc, Compared(p)
    PROVE  /\ Paired' /\ TasksStay
           /\ Traceable => \A i \in Item : merge'.rows[i].origin \in RowFrom(i)'
<1>0. /\ bound \in [Item -> ItemBinding] /\ TypeInv /\ LocalsKept /\ Prepare(p)
      /\ merge \in [rows : [Item -> Row], bound : [Item -> ItemBinding], clock : Nat]
      /\ rows \in [Item -> Row] /\ fetched \in [Uid -> Task]
    BY TypeParts DEF PairInv, BaseInv, Tables, LocalsOK, Compared
<1>1. merge = NoMerge /\ bound' = bound
    BY <1>0 DEF Compared, In, Key, LocalsKept
<1>2. \A i \in Item : Latest(i) = bound[i] /\ TaskFor(i) = bound[i].uid
    BY <1>1 DEF NoMerge, Latest, TaskFor
<1>3. ASSUME NEW i \in Item, NEW u \in Uid, NEW n \in Nat,
             FromTask(i, u, n, merge'.rows[i], merge'.bound[i])
      PROVE  /\ merge'.bound[i].uid = u /\ TaskFor(i)' = u
             /\ TaskFor(i) = u \/ (TaskFor(i) = 0 /\ bound[i] = NoTask /\ \A j \in Item : TaskFor(j) # u)
             /\ Traceable => merge'.rows[i].origin \in {rows[i].origin, i, u}
    <2>1. merge'.bound[i].uid = u /\ u # 0
        BY <1>3, IdentityAssumption DEF FromTask
    <2>2. TaskFor(i)' = u
        BY <2>1 DEF TaskFor, Latest, NoTask
    <2>3. TaskFor(i) = u \/ (TaskFor(i) = 0 /\ bound[i] = NoTask /\ \A j \in Item : TaskFor(j) # u)
        BY <1>2, <1>3 DEF FromTask, Fresh, NoTask
    <2>4. Traceable => fetched[u].origin \in {u, i}
        BY <2>1, <2>3 DEF PairInv, Traceable, Paired, TaskFrom
    <2>5. merge'.rows[i].origin \in {rows[i].origin, fetched[u].origin}
        BY <1>3 DEF FromTask, TaskSnapshot
    <2>6. QED
        BY <2>1, <2>2, <2>3, <2>4, <2>5
<1>4. ASSUME NEW i \in Item, NEW n \in Nat, FromLoss(i, n, merge'.rows[i], merge'.bound[i])
      PROVE  /\ merge'.bound[i].uid = bound[i].uid /\ TaskFor(i)' = TaskFor(i)
             /\ merge'.rows[i].origin = rows[i].origin
    <2>1. merge'.bound[i] = [bound[i] EXCEPT !.gone = TRUE] /\ bound[i] \in ItemBinding
        BY <1>0, <1>4 DEF FromLoss
    <2>2. merge'.bound[i].uid = bound[i].uid /\ merge'.bound[i].gone = TRUE
        BY <2>1 DEF ItemBinding
    <2>5. merge'.bound[i] # NoTask
        BY <2>2 DEF NoTask
    <2>3. TaskFor(i)' = TaskFor(i)
        BY <1>2, <2>2, <2>5 DEF TaskFor, Latest
    <2>4. merge'.rows[i].origin = rows[i].origin
        BY <1>0, <1>4 DEF FromLoss, GoneSnapshot, Row
    <2>6. QED
        BY <2>2, <2>3, <2>4
<1>5. ASSUME NEW i \in Item, FromNothing(i, merge'.rows[i], merge'.bound[i])
      PROVE  merge'.bound[i] = NoTask /\ TaskFor(i)' = TaskFor(i) /\ merge'.rows[i].origin = i
    BY <1>1, <1>2, <1>5 DEF FromNothing, TaskFor, Latest, NoRow
<1>6. \A i \in Item :
          \/ \E u \in Uid, n \in Nat : FromTask(i, u, n, merge'.rows[i], merge'.bound[i])
          \/ \E n \in Nat : FromLoss(i, n, merge'.rows[i], merge'.bound[i])
          \/ FromNothing(i, merge'.rows[i], merge'.bound[i])
    BY <1>0, PreparedRows
<1>7. TasksStay
    BY <1>3, <1>4, <1>5, <1>6 DEF TasksStay
<1>8. \A i \in Item : bound'[i] # NoTask /\ merge'.bound[i] # NoTask
                         => merge'.bound[i].uid = bound'[i].uid
    BY <1>1, <1>2, <1>3, <1>4, <1>5, <1>6
<1>9. ASSUME NEW i \in Item, NEW j \in Item, TaskFor(i)' = TaskFor(j)', TaskFor(i)' # 0
      PROVE  i = j
    <2>1. CASE TaskFor(i) = TaskFor(i)' /\ TaskFor(j) = TaskFor(j)'
        BY <1>9, <2>1 DEF PairInv, Paired
    <2>2. ASSUME NEW k \in Item, TaskFor(k) # TaskFor(k)'
          PROVE  \E n \in Nat : /\ FromTask(k, TaskFor(k)', n, merge'.rows[k], merge'.bound[k])
                                /\ TaskFor(k)' \in Uid
        BY <1>3, <1>4, <1>5, <1>6, <2>2
    <2>3. ASSUME NEW k \in Item, NEW l \in Item, TaskFor(k) # TaskFor(k)',
                 TaskFor(k)' = TaskFor(l)', TaskFor(k)' # 0
          PROVE  k = l
        <3>1. PICK n \in Nat : /\ FromTask(k, TaskFor(k)', n, merge'.rows[k], merge'.bound[k])
                               /\ TaskFor(k)' \in Uid
            BY <2>2, <2>3
        <3>2. TaskFor(l) # TaskFor(k)'
            BY <1>3, <2>3, <3>1
        <3>3. PICK m \in Nat : FromTask(l, TaskFor(l)', m, merge'.rows[l], merge'.bound[l])
            BY <2>2, <2>3, <3>2
        <3>4. QED
            BY <1>0, <2>3, <3>1, <3>3, PreparedRows
    <2>4. QED
        BY <1>9, <2>1, <2>3
<1>10. ASSUME NEW i \in Item, Traceable
       PROVE  merge'.rows[i].origin \in RowFrom(i)'
    <2>1. rows[i].origin \in RowFrom(i)'
        <3>1. rows[i].origin \in Item \union Uid
            BY <1>0 DEF Row
        <3>2. rows[i].origin \in RowFrom(i)
            BY <1>10 DEF Traceable
        <3>3. QED
            BY <1>0, <1>7, <3>1, <3>2, OriginsStay
    <2>2. i \in RowFrom(i)' /\ TaskFor(i)' \in RowFrom(i)'
        BY DEF RowFrom
    <2>3. QED
        BY <1>3, <1>4, <1>5, <1>6, <1>10, <2>1, <2>2
<1>11. QED
    BY <1>7, <1>8, <1>9, <1>10 DEF Paired

\* A DELETE takes a task away, or leaves the tasks as they are.
LEMMA ErasedTasks ==
    ASSUME tasks \in [Uid -> Task], NEW i \in Item, Erased(i)
    PROVE  \A u \in Uid : /\ tasks'[u].origin = tasks[u].origin /\ tasks'[u].val = tasks[u].val
                          /\ tasks'[u].etag = tasks[u].etag \/ tasks'[u].etag = 0
<1>1. CASE tasks' = tasks
    BY <1>1
<1>2. CASE tasks' = [tasks EXCEPT ![bound[i].uid].etag = 0]
    BY <1>2 DEF Task
<1>3. QED
    BY <1>1, <1>2 DEF Erased

\* A DELETE keeps every item with its task.
LEMMA ErasedLinks ==
    ASSUME PairInv, NEW i \in Item, Erased(i)
    PROVE  Paired' /\ merge'.rows = merge.rows /\ \A j \in Item : TaskFor(j)' = TaskFor(j)
<1>0. /\ bound \in [Item -> ItemBinding] /\ LocalsKept
      /\ merge \in [rows : [Item -> Row], bound : [Item -> ItemBinding], clock : Nat]
    BY TypeParts DEF PairInv, BaseInv, Tables, LocalsOK
<1>1. /\ merge = NoMerge /\ merge' = [merge EXCEPT !.bound[i] = [bound[i] EXCEPT !.gone = TRUE]]
      /\ UNCHANGED bound
    BY <1>0 DEF Erased, In, Key, LocalsKept
<1>2. /\ \A j \in Item : merge.bound[j] = NoTask
      /\ merge'.bound[i].uid = bound[i].uid /\ merge'.bound[i].gone = TRUE
      /\ \A j \in Item \ {i} : merge'.bound[j] = merge.bound[j]
      /\ merge'.rows = merge.rows
    BY <1>0, <1>1 DEF NoMerge, ItemBinding
<1>3. merge'.bound[i] # NoTask
    BY <1>2 DEF NoTask
<1>4. \A j \in Item : TaskFor(j)' = TaskFor(j) /\ TaskFor(j) = bound[j].uid
    BY <1>1, <1>2, <1>3 DEF TaskFor, Latest
<1>5. QED
    BY <1>1, <1>2, <1>4 DEF PairInv, Paired

\* Whoever forgets what was under way knows the tasks of the items as they
\* are stored.
LEMMA ForgottenLinks ==
    ASSUME PairInv, Forgotten
    PROVE  /\ Paired' /\ \A i \in Item : Latest(i)' = bound[i]
           /\ \A i \in Item : TaskFor(i)' = TaskFor(i) \/ TaskFor(i)' = 0
<1>1. bound' = bound /\ \A i \in Item : merge'.bound[i] = NoTask
    BY DEF Forgotten, NoMerge
<1>2. \A i \in Item : Latest(i)' = bound[i]
    BY <1>1 DEF Latest
<1>3. \A i \in Item : TaskFor(i)' = TaskFor(i) \/ TaskFor(i)' = 0
    <2>1. ASSUME NEW i \in Item
          PROVE  TaskFor(i)' = TaskFor(i) \/ TaskFor(i)' = 0
        <3>1. CASE bound[i] = NoTask
            BY <1>2, <3>1 DEF TaskFor, NoTask
        <3>2. CASE bound[i] # NoTask
            BY <1>2, <3>2 DEF TaskFor, Latest, PairInv, Paired
        <3>3. QED
            BY <3>1, <3>2
    <2>2. QED
        BY <2>1
<1>4. QED
    BY <1>1, <1>2, <1>3 DEF PairInv, Paired

LEMMA DecisionLinks ==
    ASSUME PairInv, Decision
    PROVE  Paired'
<1>1. CASE \E p \in Proc : Reverted(p)
    BY <1>1, PairedStays DEF Reverted, PairInv
<1>2. ASSUME NEW p \in Proc, Released(p)
      PROVE  Paired'
    <2>1. merge = NoMerge /\ merge' = merge /\ bound' = [i \in Item |-> NoTask]
        BY <1>2 DEF PairInv, BaseInv, LocalsKept, Released, In, Key
    <2>2. \A i \in Item : bound'[i] = NoTask /\ merge'.bound[i] = NoTask
        BY <2>1 DEF NoMerge
    <2>3. \A i \in Item : TaskFor(i)' = 0
        BY <2>2 DEF TaskFor, Latest, NoTask
    <2>4. QED
        BY <2>2, <2>3 DEF Paired
<1>3. QED
    BY <1>1, <1>2 DEF Decision

\* Whatever is lost, and whatever the user decides, no task belongs to two
\* items.
LEMMA NextPairs ==
    ASSUME PairInv, Next
    PROVE  PairInv'
<1>1. BaseInv /\ BaseInv' /\ Paired
    BY NextBase DEF PairInv
<1>2. CASE UNCHANGED <<bound, merge>> \/ Cleared \/ Kept \/ \E i \in Item : Linked(i)
    BY <1>1, <1>2, PairedStays DEF PairInv
<1>3. CASE (\E i \in Item, r \in Row : Changed(i, r)) \/ RemoteAdd \/ RemoteSet \/ RemoteDelete
    BY <1>2, <1>3, EditLeaves, RemoteLeaves
<1>4. CASE Aside \/ Pushed \/ Fetched \/ Taken
    BY <1>2, <1>4 DEF Aside, Pushed, Fetched, Taken
<1>5. CASE Fault
    BY <1>1, <1>5, ForgottenLinks DEF PairInv, Fault, Crashed, WrittenUnheard, ErasedUnheard
<1>6. CASE OwnStep
    BY <1>1, <1>2, <1>4, <1>6, WrittenLinks, ErasedLinks, ComparedLinks DEF OwnStep, PairInv
<1>7. QED
    BY <1>1, <1>3, <1>5, <1>6, DecisionLinks, StepKinds DEF PairInv

\* Where content comes from, step by step.
LEMMA NextLinks ==
    ASSUME Undisturbed, LinkInv, Next
    PROVE  LinkInv'
<1>0. /\ PairInv /\ PairInv' /\ NoDecision' /\ BaseInv /\ Paired /\ TypeInv /\ LocalsKept
      /\ rows \in [Item -> Row] /\ tasks \in [Uid -> Task]
      /\ view \in [Item -> Row] /\ fetched \in [Uid -> Task]
      /\ merge \in [rows : [Item -> Row], bound : [Item -> ItemBinding], clock : Nat]
    BY NextPairs, StaysUndecided, TypeParts
       DEF LinkInv, PairInv, BaseInv, Tables, Server, LocalsOK, Undisturbed
<1>1. ASSUME TasksStay
      PROVE  /\ \A i \in Item : /\ rows[i].origin \in RowFrom(i)' /\ view[i].origin \in RowFrom(i)'
                                /\ merge.rows[i].origin \in RowFrom(i)'
             /\ \A u \in Uid : tasks[u].origin \in TaskFrom(u)' /\ fetched[u].origin \in TaskFrom(u)'
    <2>1. \A i \in Item : /\ rows[i].origin \in Item \union Uid /\ view[i].origin \in Item \union Uid
                          /\ merge.rows[i].origin \in Item \union Uid
        BY <1>0 DEF Row
    <2>2. QED
        BY <1>0, <1>1, <2>1, OriginsStay DEF LinkInv, Traceable
<1>2. /\ \A i \in Item : i \in RowFrom(i)' /\ NoRow(i).origin = i
      /\ \A i \in Item : NoView[i].origin = i /\ NoMerge.rows[i].origin = i
      /\ \A u \in Uid : u \in TaskFrom(u)' /\ NoFetch[u].origin = u
    BY DEF RowFrom, TaskFrom, NoRow, NoView, NoMerge, NoFetch
<1>3. ASSUME UNCHANGED <<bound, merge>> \/ Cleared \/ Kept \/ \E i \in Item : Linked(i)
      PROVE  Paired' /\ TasksStay
    BY <1>0, <1>3, PairedStays DEF TasksStay
<1>4. ASSUME NEW i \in Item, NEW r \in Row, Changed(i, r)
      PROVE  LinkInv'
    <2>1. UNCHANGED <<bound, tasks, view, fetched, merge>>
        BY <1>4, EditLeaves
    <2>2. \A j \in Item : rows'[j].origin \in {rows[j].origin, j}
        <3>1. r.origin \in {rows[i].origin, i}
            BY <1>4 DEF Changed, Edited
        <3>2. QED
            BY <1>0, <1>4, <3>1, ChangedRows
    <2>3. Traceable'
        BY <1>1, <1>2, <1>3, <2>1, <2>2 DEF Traceable
    <2>4. QED
        BY <1>0, <1>3, <2>1, <2>3 DEF LinkInv
<1>5. CASE RemoteAdd \/ RemoteSet \/ RemoteDelete
    <2>1. UNCHANGED <<rows, bound, view, fetched, merge>>
        BY <1>5, RemoteLeaves
    <2>2. \A u \in Uid : tasks'[u].origin \in {tasks[u].origin, u}
        <3>1. PICK w \in Uid :
                \/ \E v \in Values : tasks' = [tasks EXCEPT ![w] =
                        [etag |-> etags + 1, val |-> v, origin |-> w]]
                \/ \E v \in Values : tasks' = [tasks EXCEPT ![w] =
                        [tasks[w] EXCEPT !.etag = etags + 1, !.val = v]]
                \/ tasks' = [tasks EXCEPT ![w] = [tasks[w] EXCEPT !.etag = 0]]
            BY <1>5, RemoteLeaves
        <3>2. \A u \in Uid : u # w => tasks'[u] = tasks[u]
            BY <1>0, <3>1
        <3>3. tasks'[w].origin \in {tasks[w].origin, w}
            <4>1. tasks[w] \in Task
                BY <1>0
            <4>2. CASE \E v \in Values : tasks' = [tasks EXCEPT ![w] =
                        [etag |-> etags + 1, val |-> v, origin |-> w]]
                BY <1>0, <4>2
            <4>3. CASE \E v \in Values : tasks' = [tasks EXCEPT ![w] =
                        [tasks[w] EXCEPT !.etag = etags + 1, !.val = v]]
                <5>1. PICK v \in Values : tasks'[w] = [tasks[w] EXCEPT !.etag = etags + 1, !.val = v]
                    BY <1>0, <4>3
                <5>2. QED
                    BY <4>1, <5>1 DEF Task
            <4>4. CASE tasks' = [tasks EXCEPT ![w] = [tasks[w] EXCEPT !.etag = 0]]
                <5>1. tasks'[w] = [tasks[w] EXCEPT !.etag = 0]
                    BY <1>0, <4>4
                <5>2. QED
                    BY <4>1, <5>1 DEF Task
            <4>5. QED
                BY <3>1, <4>2, <4>3, <4>4
        <3>4. QED
            BY <3>2, <3>3
    <2>3. Traceable'
        BY <1>1, <1>2, <1>3, <2>1, <2>2 DEF Traceable
    <2>4. QED
        BY <1>0, <1>3, <2>1, <2>3 DEF LinkInv
<1>6. CASE Aside \/ Cleared \/ Pushed \/ Kept \/ Fetched \/ \E i \in Item : Linked(i)
    <2>1. Paired' /\ TasksStay
        BY <1>3, <1>6 DEF Aside, Pushed, Fetched
    <2>2. /\ rows' = rows /\ tasks' = tasks
          /\ view' \in {view, rows, NoView} /\ fetched' \in {fetched, tasks, NoFetch}
          /\ merge' \in {merge, NoMerge}
        BY <1>6 DEF Aside, Cleared, Pushed, Kept, Fetched, Linked
    <2>3. Traceable'
        BY <1>1, <1>2, <2>1, <2>2 DEF Traceable
    <2>4. QED
        BY <1>0, <2>1, <2>3 DEF LinkInv
<1>7. CASE Taken
    <2>1. UNCHANGED <<bound, tasks, view, fetched, merge>>
        BY <1>7 DEF Taken
    <2>2. \A j \in Item : rows'[j].origin \in {rows[j].origin, merge.rows[j].origin}
        BY <1>0, <1>7, TakenRows DEF Merged, MergedRow
    <2>3. Traceable'
        BY <1>1, <1>3, <2>1, <2>2 DEF Traceable
    <2>4. QED
        BY <1>0, <1>3, <2>1, <2>3 DEF LinkInv
<1>8. ASSUME NEW i \in Item, Written(i)
      PROVE  LinkInv'
    <2>1. Paired' /\ TasksStay /\ TaskFor(i)' = TaskOf(i)
        BY <1>0, <1>8, WrittenLinks
    <2>2. UNCHANGED <<rows, view, fetched>> /\ merge'.rows = merge.rows
        BY <1>0, <1>8 DEF Written
    <2>3. tasks' = [tasks EXCEPT ![TaskOf(i)] = [etag |-> etags + 1, val |-> view[i].val,
                                                 origin |-> view[i].origin]]
        BY <1>8 DEF Written
    <2>4. \A u \in Uid : tasks'[u].origin = tasks[u].origin
                         \/ (u = TaskOf(i) /\ tasks'[u].origin = view[i].origin)
        BY <1>0, <2>3
    <2>5. \A u \in Uid : u = TaskOf(i) => view[i].origin \in TaskFrom(u)'
        BY <1>1, <2>1 DEF RowFrom, TaskFrom
    <2>6. Traceable'
        BY <1>1, <2>1, <2>2, <2>4, <2>5 DEF Traceable
    <2>7. QED
        BY <1>0, <2>1, <2>6 DEF LinkInv
<1>9. ASSUME NEW i \in Item, Erased(i)
      PROVE  LinkInv'
    <2>1. merge'.rows = merge.rows /\ TasksStay
        BY <1>0, <1>9, ErasedLinks DEF TasksStay
    <2>2. UNCHANGED <<rows, view, fetched>>
        BY <1>9 DEF Erased
    <2>3. \A u \in Uid : tasks'[u].origin = tasks[u].origin
        BY <1>0, <1>9, ErasedTasks
    <2>4. Traceable'
        BY <1>1, <2>1, <2>2, <2>3 DEF Traceable
    <2>5. QED
        BY <1>0, <2>4 DEF LinkInv
<1>10. ASSUME NEW p \in Proc, Compared(p)
       PROVE  LinkInv'
    <2>1. Paired' /\ TasksStay /\ \A i \in Item : merge'.rows[i].origin \in RowFrom(i)'
        BY <1>0, <1>10, ComparedLinks DEF LinkInv
    <2>2. UNCHANGED <<rows, tasks, view>> /\ fetched' = NoFetch
        BY <1>10 DEF Compared
    <2>3. Traceable'
        BY <1>1, <1>2, <2>1, <2>2 DEF Traceable
    <2>4. QED
        BY <1>0, <2>1, <2>3 DEF LinkInv
<1>11. QED
    <2>1. Faultless /\ NoDecision
        BY DEF Undisturbed, LinkInv
    <2>2. QED
        BY <1>0, <1>4, <1>5, <1>6, <1>7, <1>8, <1>9, <1>10, <2>1, NobodyDecides DEF OwnStep

LEMMA InitLinks ==
    ASSUME Init
    PROVE  LinkInv
<1>1. BaseInv /\ TypeInv /\ NoDecision
    <2>1. \A p \in Proc : pc[p] = "idle"
        BY InitTables
    <2>2. QED
        BY <2>1, InitBase DEF BaseInv, NoDecision, Resolving
<1>2. /\ rows = [i \in Item |-> IF i \notin Initial THEN NoRow(i) ELSE FirstRow(i)]
      /\ tasks = [u \in Uid |-> IF \E i \in Initial : TaskAtFirst(i) = u
                   THEN [etag |-> 1, val |-> FirstValue,
                         origin |-> CHOOSE i \in Initial : TaskAtFirst(i) = u]
                   ELSE [etag |-> 0, val |-> NoValue, origin |-> u]]
      /\ bound = [i \in Item |-> IF i \notin Initial THEN NoTask ELSE
                   [uid |-> TaskAtFirst(i), etag |-> 1, base |-> FirstValue, gone |-> FALSE]]
      /\ view = NoView /\ fetched = NoFetch /\ merge = NoMerge
    BY InitTables
<1>3. \A i \in Item : Latest(i) = bound[i] /\ merge.bound[i] = NoTask
    BY <1>2 DEF Latest, NoMerge
<1>4. \A i \in Item : TaskFor(i) = IF i \in Initial THEN TaskAtFirst(i) ELSE 0
    BY <1>2, <1>3 DEF TaskFor, NoTask
<1>5. Paired
    BY <1>3, <1>4, InitialTasks DEF Paired
<1>6. ASSUME NEW i \in Item
      PROVE  /\ rows[i].origin \in RowFrom(i) /\ view[i].origin \in RowFrom(i)
             /\ merge.rows[i].origin \in RowFrom(i)
    BY <1>2 DEF RowFrom, NoRow, FirstRow, NoView, NoMerge
<1>7. ASSUME NEW u \in Uid
      PROVE  tasks[u].origin \in TaskFrom(u) /\ fetched[u].origin \in TaskFrom(u)
    <2>1. CASE \E i \in Initial : TaskAtFirst(i) = u
        <3>1. PICK i \in Initial : tasks[u].origin = i /\ TaskAtFirst(i) = u
            BY <1>2, <2>1
        <3>2. i \in Item /\ TaskFor(i) = u
            BY <1>4, <3>1, IdentityAssumption
        <3>3. QED
            BY <1>2, <3>1, <3>2 DEF TaskFrom, NoFetch
    <2>2. CASE ~\E i \in Initial : TaskAtFirst(i) = u
        BY <1>2, <2>2 DEF TaskFrom, NoFetch
    <2>3. QED
        BY <2>1, <2>2
<1>8. QED
    BY <1>1, <1>5, <1>6, <1>7 DEF LinkInv, PairInv, Traceable

LEMMA SamePairs ==
    ASSUME PairInv, UNCHANGED vars
    PROVE  PairInv'
BY SameBase DEF PairInv, Paired, TaskFor, Latest, vars, progress

LEMMA SameLinks ==
    ASSUME LinkInv, UNCHANGED vars
    PROVE  LinkInv'
BY SamePairs DEF LinkInv, NoDecision, Traceable, RowFrom, TaskFrom, TaskFor, Latest, vars, device,
                 server, progress

\* No task is bound to two items, whatever is lost, whenever the process ends
\* and whatever the user decides: a push takes a new task for an item without
\* one, a pull takes a new item for a task without one, and a binding that
\* waits to be stored names the task of the one it replaces.
THEOREM NoTaskIsShared == Spec => []Paired
<1>1. Init => PairInv
    BY InitLinks DEF LinkInv
<1>2. PairInv /\ [Next]_vars => PairInv'
    BY NextPairs, SamePairs
<1>3. PairInv => Paired
    BY DEF PairInv
<1>4. QED
    BY <1>1, <1>2, <1>3, PTL DEF Spec

LEMMA LinksHold ==
    ASSUME Undisturbed
    PROVE  Spec => []LinkInv
<1>1. Init => LinkInv
    BY InitLinks
<1>2. LinkInv /\ [Next]_vars => LinkInv'
    BY NextLinks, SameLinks
<1>3. QED
    BY <1>1, <1>2, PTL DEF Spec

\* Items and tasks correspond one to one: no interleaving of the edits of the
\* user, the changes of other clients and the steps of several callers makes
\* two tasks of one item, or two items of one task, as long as every answer
\* arrives and no process ends between the PUT and the storing of its binding.
THEOREM ItemsMatchTasks ==
    ASSUME Undisturbed
    PROVE  Spec => []OneToOne
<1>1. LinkInv => OneToOne
    BY TracedOneToOne
<1>2. QED
    BY <1>1, LinksHold, PTL
-----------------------------------------------------------------------------
(* Deletions.                                                              *)

\* The task of the item is not on the server, and was not fetched.
Missing(i) ==
    TaskFor(i) # 0 => tasks[TaskFor(i)].etag = 0 /\ fetched[TaskFor(i)].etag = 0

\* The item is deleted because its task was.
ServerDeleted(i) == rows[i].life = "DELETED" /\ rows[i].lifeAt.actor = Provider

LifeDominated == \A i \in Item : rows[i].lifeAt.clock <= clock

\* Only an item whose task is gone is deleted because of its task, and no
\* push puts it back.  A binding that says so is right, unless a PUT that put
\* the task back was not heard of, or the collection was out of reach ...
GoneStays ==
    \A i \in Item : /\ ServerDeleted(i) => Missing(i) /\ view[i].life # "ACTIVE"
                    /\ Certain => (Latest(i).gone => Missing(i))

\* ... which what was fetched says rightly for as long as it is compared.
FetchedGone ==
    At("prepare") => \A i \in Item : TaskFor(i) # 0 /\ fetched[TaskFor(i)].etag = 0
                                        => tasks[TaskFor(i)].etag = 0

\* A pull brings no deletion of a task that is there, and no life newer than
\* the deletion of the item it finds.
LifePrepared(i) ==
    /\ merge.rows[i].life = "DELETED" => Missing(i)
    /\ merge.rows[i].life = "ACTIVE"
          => rows[i].life = "NONE" \/ ~After(merge.rows[i].lifeAt, rows[i].lifeAt)

LivesPrepared == At("import") => \A i \in Item : LifePrepared(i)

DeleteInv == PairInv /\ LifeDominated /\ GoneStays /\ FetchedGone /\ LivesPrepared

LEMMA PairTypes ==
    ASSUME PairInv
    PROVE  /\ TypeInv /\ BaseInv /\ LocalsKept /\ clock \in Nat /\ etags \in Nat
           /\ rows \in [Item -> Row] /\ bound \in [Item -> ItemBinding] /\ tasks \in [Uid -> Task]
           /\ view \in [Item -> Row] /\ fetched \in [Uid -> Task]
           /\ merge \in [rows : [Item -> Row], bound : [Item -> ItemBinding], clock : Nat]
           /\ merge.rows \in [Item -> Row] /\ merge.bound \in [Item -> ItemBinding]
           /\ \A i \in Item : Latest(i) \in ItemBinding /\ TaskFor(i) \in Uid \union {0}
           /\ 0 \notin Uid
<1>1. /\ TypeInv /\ BaseInv /\ LocalsKept /\ clock \in Nat /\ etags \in Nat
      /\ rows \in [Item -> Row] /\ bound \in [Item -> ItemBinding] /\ tasks \in [Uid -> Task]
      /\ view \in [Item -> Row] /\ fetched \in [Uid -> Task]
      /\ merge \in [rows : [Item -> Row], bound : [Item -> ItemBinding], clock : Nat]
      /\ 0 \notin Uid
    BY TypeParts, IdentityAssumption DEF PairInv, BaseInv, Tables, Server, LocalsOK
<1>2. merge.rows \in [Item -> Row] /\ merge.bound \in [Item -> ItemBinding]
    BY <1>1
<1>3. ASSUME NEW i \in Item
      PROVE  Latest(i) \in ItemBinding /\ TaskFor(i) \in Uid \union {0}
    BY <1>1, <1>2 DEF Latest, TaskFor, ItemBinding
<1>4. QED
    BY <1>1, <1>2, <1>3

LEMMA ChangedLives ==
    ASSUME DeleteInv, PairInv', NEW i \in Item, NEW r \in Row, Changed(i, r)
    PROVE  DeleteInv'
<1>1. UNCHANGED <<bound, tasks, etags, pc, view, fetched, merge>>
    BY EditLeaves
<1>2. TypeInv /\ rows \in [Item -> Row] /\ merge.rows \in [Item -> Row]
    BY PairTypes DEF DeleteInv
<1>3. /\ clock \in Nat /\ clock' \in Nat /\ clock + 1 <= clock'
      /\ rows'[i].life = r.life /\ rows'[i].lifeAt = r.lifeAt
      /\ \A j \in Item \ {i} : rows'[j].life = rows[j].life /\ rows'[j].lifeAt = rows[j].lifeAt
    BY <1>2, ChangedRows
<1>4. /\ \/ Fresh(i) /\ r.life = "ACTIVE" /\ r.lifeAt = Zero
         \/ r.life = rows[i].life /\ r.lifeAt = rows[i].lifeAt
         \/ r.lifeAt = Now
      /\ Fresh(i) \/ rows[i].life # "NONE"
    BY DEF Changed, Edited
<1>5. /\ \A j \in Item : rows[j].lifeAt \in Stamp /\ merge.rows[j].lifeAt \in Stamp
                         /\ rows[j].lifeAt.clock \in Nat
      /\ Now.clock = clock + 1 /\ Now.actor # Provider /\ Zero.actor # Provider /\ Zero.clock = 0
    BY <1>2 DEF Row, Stamp, Now, Zero, Device, Provider
<1>6. LifeDominated'
    BY <1>3, <1>4, <1>5 DEF DeleteInv, LifeDominated
<1>7. \A j \in Item : /\ TaskFor(j)' = TaskFor(j) /\ Latest(j)' = Latest(j)
                      /\ Missing(j)' <=> Missing(j)
    BY <1>1 DEF Missing, TaskFor, Latest
<1>8. \A j \in Item : ServerDeleted(j)' => ServerDeleted(j)
    BY <1>3, <1>4, <1>5 DEF ServerDeleted
<1>9. GoneStays' /\ FetchedGone'
    BY <1>1, <1>7, <1>8 DEF DeleteInv, GoneStays, FetchedGone, At
<1>10. ASSUME At("import")', NEW j \in Item
       PROVE  LifePrepared(j)'
    <2>1. LifePrepared(j) /\ merge' = merge
        BY <1>1, <1>10 DEF DeleteInv, LivesPrepared, At
    <2>2. CASE rows'[j].life = rows[j].life /\ rows'[j].lifeAt = rows[j].lifeAt
        BY <1>7, <2>1, <2>2 DEF LifePrepared
    <2>3. CASE j = i /\ Fresh(i)
        BY <1>7, <2>1, <2>3 DEF LifePrepared, Fresh
    <2>4. CASE j = i /\ r.lifeAt = Now /\ rows[i].life # "NONE"
        <3>1. ASSUME merge.rows[i].life = "ACTIVE"
              PROVE  ~After(merge.rows[i].lifeAt, rows'[i].lifeAt)
            <4>1. ~After(merge.rows[i].lifeAt, rows[i].lifeAt)
                BY <2>1, <2>4, <3>1 DEF LifePrepared
            <4>2. merge.rows[i].lifeAt.clock <= rows[i].lifeAt.clock
                BY <1>5, <4>1 DEF After, Stamp
            <4>3. rows[i].lifeAt.clock <= clock /\ rows'[i].lifeAt.clock = clock + 1
                BY <1>3, <1>5, <2>4 DEF DeleteInv, LifeDominated
            <4>4. QED
                BY <1>3, <1>5, <4>2, <4>3 DEF After, Stamp
        <3>2. QED
            BY <1>7, <2>1, <2>4, <3>1 DEF LifePrepared
    <2>5. QED
        BY <1>3, <1>4, <2>2, <2>3, <2>4
<1>11. QED
    BY <1>6, <1>9, <1>10 DEF DeleteInv, LivesPrepared

\* Another client never puts a task back that a binding names.
LEMMA RemoteAbsent ==
    ASSUME PairInv, RemoteAdd \/ RemoteSet \/ RemoteDelete,
           NEW i \in Item, NEW w \in Uid, w \in {bound[i].uid, merge.bound[i].uid}, tasks[w].etag = 0
    PROVE  tasks'[w].etag = 0
<1>1. tasks \in [Uid -> Task]
    BY PairTypes
<1>2. PICK u \in Uid :
            \/ /\ Unused(u)
               /\ \E v \in Values : tasks' = [tasks EXCEPT ![u] =
                        [etag |-> etags + 1, val |-> v, origin |-> u]]
            \/ /\ tasks[u].etag # 0
               /\ \E v \in Values : tasks' = [tasks EXCEPT ![u] =
                        [tasks[u] EXCEPT !.etag = etags + 1, !.val = v]]
            \/ tasks' = [tasks EXCEPT ![u] = [tasks[u] EXCEPT !.etag = 0]]
    BY RemoteLeaves
<1>3. CASE u # w
    BY <1>1, <1>2, <1>3
<1>4. CASE u = w
    <2>1. ~Unused(u)
        BY <1>4 DEF Unused
    <2>2. tasks' = [tasks EXCEPT ![u] = [tasks[u] EXCEPT !.etag = 0]]
        BY <1>2, <1>4, <2>1
    <2>3. tasks'[u] = [tasks[u] EXCEPT !.etag = 0] /\ tasks[u] \in Task
        BY <1>1, <2>2
    <2>4. QED
        BY <1>4, <2>3 DEF Task
<1>5. QED
    BY <1>3, <1>4

LEMMA RemoteLives ==
    ASSUME DeleteInv, PairInv', RemoteAdd \/ RemoteSet \/ RemoteDelete
    PROVE  DeleteInv'
<1>1. UNCHANGED <<clock, rows, bound, pc, view, fetched, merge>>
    BY RemoteLeaves
<1>2. \A i \in Item : TaskFor(i)' = TaskFor(i) /\ Latest(i)' = Latest(i)
    BY <1>1 DEF TaskFor, Latest
<1>3. /\ tasks \in [Uid -> Task] /\ \A i \in Item : TaskFor(i) \in Uid \union {0}
    BY PairTypes DEF DeleteInv
<1>4. ASSUME NEW i \in Item, TaskFor(i) # 0, tasks[TaskFor(i)].etag = 0
      PROVE  tasks'[TaskFor(i)].etag = 0
    BY <1>3, <1>4, RemoteAbsent DEF DeleteInv, TaskFor, Latest
<1>5. \A i \in Item : Missing(i) => Missing(i)'
    BY <1>1, <1>2, <1>4 DEF Missing
<1>6. GoneStays' /\ FetchedGone'
    BY <1>1, <1>2, <1>4, <1>5 DEF DeleteInv, GoneStays, FetchedGone, At, ServerDeleted
<1>7. LifeDominated' /\ LivesPrepared'
    BY <1>1, <1>5 DEF DeleteInv, LifeDominated, LivesPrepared, LifePrepared, At
<1>8. QED
    BY <1>6, <1>7 DEF DeleteInv

LEMMA LocalLives ==
    ASSUME DeleteInv, PairInv', \/ Aside \/ Cleared \/ Pushed \/ Kept \/ Fetched
                                \/ \E i \in Item : Linked(i)
    PROVE  DeleteInv'
<1>1. /\ UNCHANGED <<clock, rows, tasks>> /\ BaseInv
      /\ \A i \in Item : NoView[i].life = "NONE"
    BY PairTypes DEF DeleteInv, Aside, Cleared, Pushed, Kept, Fetched, Linked, NoView, NoRow
<1>2. \A i \in Item : Latest(i)' = Latest(i) /\ TaskFor(i)' = TaskFor(i)
    BY <1>1, LatestStays DEF TaskFor, Aside, Pushed, Fetched
<1>3. \A i \in Item : Missing(i) => Missing(i)'
    <2>1. fetched' \in {fetched, tasks, NoFetch}
        BY DEF Aside, Cleared, Pushed, Kept, Fetched, Linked
    <2>2. \A u \in Uid : NoFetch[u].etag = 0
        BY DEF NoFetch
    <2>3. \A i \in Item : TaskFor(i) \in Uid \union {0}
        BY PairTypes DEF DeleteInv
    <2>4. QED
        BY <1>1, <1>2, <2>1, <2>2, <2>3 DEF Missing
<1>4. view' \in {view, rows, NoView}
    BY DEF Aside, Cleared, Pushed, Kept, Fetched, Linked
<1>5. GoneStays'
    BY <1>1, <1>2, <1>3, <1>4 DEF DeleteInv, GoneStays, ServerDeleted
<1>6. /\ (At("prepare")' => (At("prepare") /\ fetched' = fetched) \/ fetched' = tasks)
      /\ (At("import")' => At("import") /\ merge' = merge)
    BY DEF Aside, Cleared, Pushed, Kept, Fetched, Linked, In, Key
<1>7. FetchedGone'
    BY <1>1, <1>2, <1>6 DEF DeleteInv, FetchedGone
<1>8. LivesPrepared'
    BY <1>1, <1>3, <1>6 DEF DeleteInv, LivesPrepared, LifePrepared
<1>9. LifeDominated'
    BY <1>1 DEF DeleteInv, LifeDominated
<1>10. QED
    BY <1>5, <1>7, <1>8, <1>9 DEF DeleteInv

\* An item that is active and written has a task; no task that is gone is
\* written.
LEMMA WrittenLives ==
    ASSUME DeleteInv, PairInv', NEW i \in Item, Written(i)
    PROVE  DeleteInv'
<1>1. /\ UNCHANGED <<clock, rows, bound, view, fetched>> /\ view[i].life = "ACTIVE"
      /\ tasks' = [tasks EXCEPT ![TaskOf(i)] = [etag |-> etags + 1, val |-> view[i].val,
                                                origin |-> view[i].origin]]
      /\ In("store")'
    BY DEF Written
<1>2. /\ PairInv /\ LocalsKept /\ merge = NoMerge /\ tasks \in [Uid -> Task]
      /\ merge \in [rows : [Item -> Row], bound : [Item -> ItemBinding], clock : Nat]
      /\ \A j \in Item : TaskFor(j) \in Uid \union {0}
    BY PairTypes DEF DeleteInv, Written, In, Key, LocalsKept
<1>3. /\ Paired' /\ TaskFor(i)' = TaskOf(i)
      /\ \A j \in Item \ {i} : Latest(j)' = Latest(j) /\ TaskFor(j)' = TaskFor(j)
    BY <1>2, WrittenLinks DEF TaskFor
<1>4. Latest(i)'.gone = FALSE \/ TaskFor(i)' = 0
    <2>1. PICK e : merge' = [merge EXCEPT !.bound[i] = Stored(i, e)]
        BY DEF Written
    <2>2. merge'.bound[i] = Stored(i, e)
        BY <1>2, <2>1
    <2>3. Stored(i, e).gone = FALSE /\ Stored(i, e).uid = TaskOf(i) /\ NoTask.uid = 0
        BY DEF Stored, NoTask
    <2>4. CASE merge'.bound[i] # NoTask
        BY <2>2, <2>3, <2>4 DEF Latest
    <2>5. CASE merge'.bound[i] = NoTask
        BY <1>3, <2>2, <2>3, <2>5
    <2>6. QED
        BY <2>4, <2>5
<1>5. ASSUME NEW j \in Item, TaskFor(j)' # 0, j # i
      PROVE  tasks'[TaskFor(j)'] = tasks[TaskFor(j)] /\ TaskFor(j)' = TaskFor(j)
    <2>1. TaskFor(j)' = TaskFor(j) /\ TaskFor(j) # TaskOf(i)
        BY <1>3, <1>5 DEF Paired
    <2>2. QED
        BY <1>1, <1>2, <1>5, <2>1
<1>6. ASSUME NEW j \in Item
      PROVE  /\ ServerDeleted(j)' => Missing(j)' /\ view'[j].life # "ACTIVE"
             /\ Certain => (Latest(j)'.gone => Missing(j)')
    <2>1. ServerDeleted(j)' = ServerDeleted(j) /\ view' = view
        BY <1>1 DEF ServerDeleted
    <2>2. CASE j = i
        BY <1>1, <1>4, <2>1, <2>2 DEF Missing, DeleteInv, GoneStays
    <2>3. CASE j # i
        <3>1. Latest(j)' = Latest(j) /\ (Missing(j) => Missing(j)')
            BY <1>1, <1>3, <1>5, <2>3 DEF Missing
        <3>2. QED
            BY <2>1, <3>1 DEF DeleteInv, GoneStays
    <2>4. QED
        BY <2>2, <2>3
<1>7. QED
    BY <1>1, <1>6 DEF DeleteInv, GoneStays, LifeDominated, FetchedGone, LivesPrepared, In, Key

LEMMA ErasedLives ==
    ASSUME DeleteInv, PairInv', NEW i \in Item, Erased(i)
    PROVE  DeleteInv'
<1>1. /\ UNCHANGED <<clock, rows, bound, view, fetched>> /\ view[i].life = "DELETED"
      /\ Certain => tasks' = [tasks EXCEPT ![bound[i].uid].etag = 0]
      /\ merge' = [merge EXCEPT !.bound[i] = [bound[i] EXCEPT !.gone = TRUE]]
      /\ In("store")'
    BY DEF Erased, Certain
<1>2. /\ PairInv /\ LocalsKept /\ merge = NoMerge /\ tasks \in [Uid -> Task]
      /\ fetched = NoFetch /\ bound \in [Item -> ItemBinding]
      /\ merge \in [rows : [Item -> Row], bound : [Item -> ItemBinding], clock : Nat]
      /\ \A j \in Item : TaskFor(j) \in Uid \union {0}
    BY PairTypes DEF DeleteInv, Erased, In, Key, LocalsKept
<1>3. /\ merge'.bound[i] = [bound[i] EXCEPT !.gone = TRUE]
      /\ \A j \in Item \ {i} : merge'.bound[j] = merge.bound[j]
      /\ \A j \in Item : merge.bound[j] = NoTask
    BY <1>1, <1>2 DEF NoMerge
<1>4. merge'.bound[i].uid = bound[i].uid /\ merge'.bound[i].gone = TRUE
    BY <1>2, <1>3 DEF ItemBinding
<1>5. merge'.bound[i] # NoTask
    BY <1>4 DEF NoTask
<1>6. /\ Latest(i)' = merge'.bound[i] /\ TaskFor(i)' = bound[i].uid
      /\ \A j \in Item \ {i} : Latest(j)' = Latest(j) /\ TaskFor(j)' = TaskFor(j)
      /\ TaskFor(i) = bound[i].uid
    BY <1>1, <1>3, <1>4, <1>5 DEF Latest, TaskFor
<1>7. \A u \in Uid : tasks'[u].etag = tasks[u].etag \/ tasks'[u].etag = 0
    BY <1>2, ErasedTasks
<1>8. Certain /\ bound[i].uid \in Uid => tasks'[bound[i].uid].etag = 0
    BY <1>1, <1>2 DEF Task
<1>9. \A u \in Uid : fetched'[u].etag = 0
    BY <1>1, <1>2 DEF NoFetch
<1>10. Certain => Missing(i)'
    <2>1. TaskFor(i)' \in Uid \union {0}
        BY <1>2, <1>6
    <2>2. QED
        BY <1>6, <1>8, <1>9, <2>1 DEF Missing
<1>11. ASSUME NEW j \in Item, Missing(j)
       PROVE  Missing(j)'
    <2>1. TaskFor(j)' = TaskFor(j) /\ TaskFor(j) \in Uid \union {0}
        BY <1>2, <1>6, <1>11
    <2>2. QED
        BY <1>7, <1>9, <1>11, <2>1 DEF Missing
<1>12. \A j \in Item : ServerDeleted(j)' => ServerDeleted(j)
    BY <1>1 DEF ServerDeleted
<1>13. GoneStays'
    <2>1. ASSUME NEW j \in Item
          PROVE  /\ ServerDeleted(j)' => Missing(j)' /\ view'[j].life # "ACTIVE"
                 /\ Certain => (Latest(j)'.gone => Missing(j)')
        <3>1. CASE j = i
            BY <1>1, <1>10, <1>11, <1>12, <3>1 DEF DeleteInv, GoneStays
        <3>2. CASE j # i
            BY <1>1, <1>6, <1>11, <1>12, <3>2 DEF DeleteInv, GoneStays
        <3>3. QED
            BY <3>1, <3>2
    <2>2. QED
        BY <2>1 DEF GoneStays
<1>14. QED
    BY <1>1, <1>13 DEF DeleteInv, LifeDominated, FetchedGone, LivesPrepared, In, Key

\* A pull deletes what it knows to be gone, and revives nothing.
LEMMA ComparedLives ==
    ASSUME DeleteInv, PairInv', NEW p \in Proc, Compared(p)
    PROVE  DeleteInv'
<1>1. /\ UNCHANGED <<clock, rows, bound, tasks, view>> /\ fetched' = NoFetch /\ Prepare(p)
      /\ In("prepare") /\ In("import")'
    BY DEF Compared
<1>2. /\ PairInv /\ TypeInv /\ LocalsKept /\ merge = NoMerge
      /\ bound \in [Item -> ItemBinding] /\ rows \in [Item -> Row]
      /\ \A j \in Item : TaskFor(j) \in Uid \union {0}
    BY <1>1, PairTypes DEF DeleteInv, In, Key, LocalsKept
<1>3. \A i \in Item : Latest(i) = bound[i] /\ TaskFor(i) = bound[i].uid
    BY <1>2 DEF Latest, TaskFor, NoMerge
<1>4. \A u \in Uid : fetched'[u].etag = 0
    BY <1>1 DEF NoFetch
<1>5. \A i \in Item : TaskFor(i)' \in Uid \union {0}
    <2>1. PairInv'
        OBVIOUS
    <2>2. ASSUME NEW i \in Item
          PROVE  TaskFor(i)' \in Uid \union {0}
        <3>1. bound' \in [Item -> ItemBinding]
              /\ merge' \in [rows : [Item -> Row], bound : [Item -> ItemBinding], clock : Nat]
            BY TypeParts DEF PairInv, BaseInv, Tables, LocalsOK
        <3>2. merge'.bound[i] \in ItemBinding /\ bound'[i] \in ItemBinding
            BY <3>1
        <3>3. QED
            BY <3>2 DEF TaskFor, Latest, ItemBinding
    <2>3. QED
        BY <2>2
<1>6. ASSUME NEW i \in Item, NEW u \in Uid, NEW n \in Nat,
             FromTask(i, u, n, merge'.rows[i], merge'.bound[i])
      PROVE  Latest(i)'.gone = FALSE /\ ~ServerDeleted(i) /\ LifePrepared(i)'
    <2>1. /\ merge'.rows[i] = TaskSnapshot(i, u, ProviderStamp(n))
          /\ merge'.bound[i].uid = u /\ merge'.bound[i].gone = FALSE /\ u # 0
          /\ fetched[u].etag # 0 /\ (bound[i].uid = u \/ rows[i].life = "NONE")
        BY <1>6, IdentityAssumption DEF FromTask, Fresh
    <2>2. Latest(i)' = merge'.bound[i]
        BY <2>1 DEF Latest, NoTask
    <2>3. ~ServerDeleted(i)
        <3>1. ASSUME ServerDeleted(i)
              PROVE  FALSE
            <4>1. TaskFor(i) = u
                BY <1>3, <2>1, <3>1 DEF ServerDeleted
            <4>2. Missing(i)
                BY <3>1 DEF DeleteInv, GoneStays
            <4>3. QED
                BY <2>1, <4>1, <4>2 DEF Missing
        <3>2. QED
            BY <3>1
    <2>4. /\ merge'.rows[i].life = "ACTIVE"
          /\ merge'.rows[i].lifeAt = IF Revived(i) THEN ProviderStamp(n) ELSE rows[i].lifeAt
        BY <2>1 DEF TaskSnapshot
    <2>5. Revived(i) => rows[i].life = "NONE"
        BY <2>3 DEF Revived, ServerDeleted
    <2>6. rows[i].lifeAt \in Stamp
        BY <1>2 DEF Row
    <2>7. rows'[i].life = "NONE" \/ ~After(merge'.rows[i].lifeAt, rows'[i].lifeAt)
        BY <1>1, <2>4, <2>5, <2>6 DEF After, Stamp
    <2>8. QED
        BY <2>1, <2>2, <2>3, <2>4, <2>7 DEF LifePrepared
<1>7. ASSUME NEW i \in Item, NEW n \in Nat, FromLoss(i, n, merge'.rows[i], merge'.bound[i])
      PROVE  Latest(i)'.gone = TRUE /\ Missing(i)' /\ LifePrepared(i)'
    <2>1. /\ merge'.bound[i] = [bound[i] EXCEPT !.gone = TRUE] /\ bound[i] \in ItemBinding
          /\ (bound[i].uid \in Uid => fetched[bound[i].uid].etag = 0)
          /\ merge'.rows[i] = GoneSnapshot(i, ProviderStamp(n))
        BY <1>2, <1>7 DEF FromLoss
    <2>2. merge'.bound[i].uid = bound[i].uid /\ merge'.bound[i].gone = TRUE
        BY <2>1 DEF ItemBinding
    <2>3. merge'.bound[i] # NoTask
        BY <2>2 DEF NoTask
    <2>4. Latest(i)'.gone = TRUE /\ TaskFor(i)' = TaskFor(i)
        BY <1>3, <2>2, <2>3 DEF Latest, TaskFor
    <2>5. TaskFor(i) # 0 => tasks[TaskFor(i)].etag = 0
        <3>1. At("prepare")
            BY <1>1 DEF In, Key
        <3>2. QED
            BY <1>2, <1>3, <2>1, <3>1 DEF DeleteInv, FetchedGone
    <2>6. Missing(i)'
        BY <1>1, <1>2, <1>4, <2>4, <2>5 DEF Missing
    <2>7. merge'.rows[i].life = "DELETED"
        BY <1>2, <2>1 DEF GoneSnapshot, Row
    <2>8. QED
        BY <2>4, <2>6, <2>7 DEF LifePrepared
<1>8. ASSUME NEW i \in Item, FromNothing(i, merge'.rows[i], merge'.bound[i])
      PROVE  Latest(i)' = Latest(i) /\ TaskFor(i)' = TaskFor(i) /\ LifePrepared(i)'
    BY <1>1, <1>3, <1>8 DEF FromNothing, Latest, TaskFor, LifePrepared, NoRow
<1>9. \A i \in Item :
          \/ \E u \in Uid, n \in Nat : FromTask(i, u, n, merge'.rows[i], merge'.bound[i])
          \/ \E n \in Nat : FromLoss(i, n, merge'.rows[i], merge'.bound[i])
          \/ FromNothing(i, merge'.rows[i], merge'.bound[i])
    BY <1>1, <1>2, PreparedRows
<1>10. ASSUME NEW i \in Item
       PROVE  /\ ServerDeleted(i)' => Missing(i)' /\ view'[i].life # "ACTIVE"
              /\ Certain => (Latest(i)'.gone => Missing(i)')
    <2>1. (ServerDeleted(i)' <=> ServerDeleted(i)) /\ view' = view
        BY <1>1 DEF ServerDeleted
    <2>2. /\ ServerDeleted(i) => Missing(i) /\ view[i].life # "ACTIVE"
          /\ Certain => (Latest(i).gone => Missing(i))
        BY DEF DeleteInv, GoneStays
    <2>3. CASE \E u \in Uid, n \in Nat : FromTask(i, u, n, merge'.rows[i], merge'.bound[i])
        BY <1>6, <2>1, <2>3
    <2>4. CASE \E n \in Nat : FromLoss(i, n, merge'.rows[i], merge'.bound[i])
        BY <1>7, <2>1, <2>2, <2>4
    <2>5. CASE FromNothing(i, merge'.rows[i], merge'.bound[i])
        <3>1. Latest(i)' = Latest(i) /\ TaskFor(i)' = TaskFor(i) /\ TaskFor(i) \in Uid \union {0}
            BY <1>2, <1>8, <2>5
        <3>2. Missing(i) => Missing(i)'
            BY <1>1, <1>4, <3>1 DEF Missing
        <3>3. QED
            BY <2>1, <2>2, <3>1, <3>2
    <2>6. QED
        BY <1>9, <2>3, <2>4, <2>5
<1>11. \A i \in Item : LifePrepared(i)'
    BY <1>6, <1>7, <1>8, <1>9
<1>12. GoneStays' /\ LivesPrepared'
    BY <1>10, <1>11 DEF GoneStays, LivesPrepared
<1>13. QED
    BY <1>1, <1>12 DEF DeleteInv, LifeDominated, FetchedGone, In, Key

\* An import takes over the deletions of tasks, and nothing it revives.
LEMMA TakenLives ==
    ASSUME DeleteInv, PairInv', Taken
    PROVE  /\ DeleteInv'
           /\ \A i \in Item : rows[i].life = "DELETED" => rows'[i].life = "DELETED"
<1>1. UNCHANGED <<bound, tasks, view, fetched, merge>> /\ In("import") /\ In("bind")'
    BY DEF Taken
<1>2. /\ TypeInv /\ LocalsKept /\ view = NoView /\ rows \in [Item -> Row]
      /\ merge.rows \in [Item -> Row] /\ At("import")
    BY <1>1, PairTypes DEF DeleteInv, In, Key, LocalsKept
<1>3. /\ clock \in Nat /\ clock' \in Nat /\ clock <= clock'
      /\ \A i \in Item : merge.rows[i].lifeAt.clock <= clock' \/ merge.rows = NoView
      /\ \A i \in Item : /\ rows'[i].life = Merged(merge.rows)[i].life
                         /\ rows'[i].lifeAt = Merged(merge.rows)[i].lifeAt
    BY <1>2, TakenRows DEF Taken
<1>4. ASSUME NEW i \in Item
      PROVE  \/ rows'[i].life = rows[i].life /\ rows'[i].lifeAt = rows[i].lifeAt
             \/ /\ merge.rows[i].life # "NONE"
                /\ rows[i].life = "NONE" \/ After(merge.rows[i].lifeAt, rows[i].lifeAt)
                /\ rows'[i].life = merge.rows[i].life /\ rows'[i].lifeAt = merge.rows[i].lifeAt
    BY <1>3 DEF Merged, MergedRow
<1>5. \A i \in Item : merge.rows[i].life \in {"NONE", "ACTIVE", "DELETED"} /\ LifePrepared(i)
    BY <1>2 DEF DeleteInv, LivesPrepared, Row
<1>6. \A i \in Item : Latest(i)' = Latest(i) /\ (Missing(i)' <=> Missing(i)) /\ view'[i].life = "NONE"
    BY <1>1, <1>2 DEF Latest, Missing, TaskFor, NoView, NoRow
<1>7. GoneStays'
    <2>1. ASSUME NEW i \in Item, ServerDeleted(i)'
          PROVE  Missing(i)
        <3>1. CASE rows'[i].life = rows[i].life /\ rows'[i].lifeAt = rows[i].lifeAt
            BY <2>1, <3>1 DEF ServerDeleted, DeleteInv, GoneStays
        <3>2. CASE rows'[i].life = merge.rows[i].life
            BY <1>5, <2>1, <3>2 DEF ServerDeleted, LifePrepared
        <3>3. QED
            BY <1>4, <3>1, <3>2
    <2>2. QED
        BY <1>6, <2>1 DEF DeleteInv, GoneStays
<1>8. LifeDominated'
    <2>1. ASSUME NEW i \in Item
          PROVE  rows'[i].lifeAt.clock <= clock'
        <3>1. rows[i].lifeAt.clock <= clock /\ rows[i].lifeAt.clock \in Nat
            BY <1>2 DEF DeleteInv, LifeDominated, Row, Stamp
        <3>2. NoView[i].life = "NONE"
            BY DEF NoView, NoRow
        <3>3. QED
            BY <1>3, <1>4, <3>1, <3>2
    <2>2. QED
        BY <2>1 DEF LifeDominated
<1>9. \A i \in Item : rows[i].life = "DELETED" => rows'[i].life = "DELETED"
    BY <1>4, <1>5 DEF LifePrepared
<1>10. QED
    BY <1>1, <1>7, <1>8, <1>9 DEF DeleteInv, FetchedGone, LivesPrepared, In, Key

\* Whoever forgets what was under way still knows which tasks are gone: a
\* task that a lost PUT put there is of an item that was active.
LEMMA FaultLives ==
    ASSUME ~Faultless, DeleteInv, PairInv', Fault
    PROVE  DeleteInv'
<1>1. /\ Forgotten /\ UNCHANGED <<clock, rows>> /\ view' = NoView /\ fetched' = NoFetch
      /\ In("none")'
    BY DEF Fault, Crashed, WrittenUnheard, ErasedUnheard, Forgotten
<1>2. /\ PairInv /\ tasks \in [Uid -> Task] /\ \A j \in Item : TaskFor(j) \in Uid \union {0}
      /\ \A u \in Uid : NoFetch[u].etag = 0
      /\ \A j \in Item : NoView[j].life = "NONE"
    BY PairTypes DEF DeleteInv, NoFetch, NoView, NoRow
<1>3. \A j \in Item : TaskFor(j)' = TaskFor(j) \/ TaskFor(j)' = 0
    BY <1>1, <1>2, ForgottenLinks
<1>4. ASSUME NEW j \in Item, ServerDeleted(j)'
      PROVE  Missing(j)'
    <2>1. ServerDeleted(j) /\ Missing(j) /\ view[j].life # "ACTIVE"
        BY <1>1, <1>4 DEF ServerDeleted, DeleteInv, GoneStays
    <2>2. SUFFICES ASSUME TaskFor(j)' # 0
                   PROVE  tasks'[TaskFor(j)].etag = 0
        BY <1>1, <1>2, <1>3 DEF Missing
    <2>3. TaskFor(j) \in Uid /\ tasks[TaskFor(j)].etag = 0
        BY <1>2, <1>3, <2>1, <2>2 DEF Missing
    <2>4. CASE Crashed
        BY <2>3, <2>4 DEF Crashed
    <2>5. ASSUME NEW i \in Item, WrittenUnheard(i)
          PROVE  tasks'[TaskFor(j)].etag = 0
        <3>1. i # j
            BY <2>1, <2>5 DEF WrittenUnheard
        <3>2. TaskOf(i) # TaskFor(j)
            <4>1. CASE bound[i] # NoTask
                <5>1. merge = NoMerge
                    BY <1>2, <2>5 DEF PairInv, BaseInv, LocalsKept, WrittenUnheard, In, Key
                <5>2. TaskFor(i) = TaskOf(i)
                    BY <4>1, <5>1 DEF TaskFor, Latest, NoMerge, TaskOf
                <5>3. QED
                    BY <1>2, <2>3, <3>1, <5>2, IdentityAssumption DEF PairInv, Paired
            <4>2. CASE bound[i] = NoTask
                <5>1. TaskOf(i) \in NextUid
                    BY <2>5, <4>2 DEF WrittenUnheard, TaskOf
                <5>2. QED
                    BY <5>1 DEF NextUid, First, Unused, TaskFor, Latest
            <4>3. QED
                BY <4>1, <4>2
        <3>3. QED
            BY <1>2, <2>3, <2>5, <3>2 DEF WrittenUnheard
    <2>6. ASSUME NEW i \in Item, ErasedUnheard(i)
          PROVE  tasks'[TaskFor(j)].etag = 0
        BY <1>2, <2>3, <2>6 DEF ErasedUnheard, Task
    <2>7. QED
        BY <2>4, <2>5, <2>6 DEF Fault
<1>5. GoneStays'
    BY <1>1, <1>2, <1>4 DEF GoneStays, Certain
<1>6. QED
    BY <1>1, <1>5 DEF DeleteInv, LifeDominated, FetchedGone, LivesPrepared, In, Key

\* A list that is released has no tasks.
LEMMA ReleasedLives ==
    ASSUME DeleteInv, PairInv', NEW p \in Proc, Released(p)
    PROVE  DeleteInv'
<1>1. /\ UNCHANGED <<clock, rows, tasks, view, fetched, merge>> /\ In("none") /\ In("none")'
      /\ bound' = [i \in Item |-> NoTask]
    BY DEF Released
<1>2. merge = NoMerge
    BY <1>1, PairTypes DEF DeleteInv, LocalsKept, In, Key
<1>3. \A i \in Item : Latest(i)' = NoTask
    BY <1>1, <1>2 DEF Latest, NoMerge
<1>4. \A i \in Item : Missing(i)' /\ ~Latest(i)'.gone
    BY <1>3 DEF Missing, TaskFor, NoTask
<1>5. GoneStays'
    BY <1>1, <1>4 DEF DeleteInv, GoneStays, ServerDeleted
<1>6. QED
    BY <1>1, <1>5 DEF DeleteInv, LifeDominated, FetchedGone, LivesPrepared, In, Key

\* A revert puts what the bindings say, with one new stamp of the provider.
LEMMA RevertedRows ==
    ASSUME TypeInv, NEW p \in Proc, Reverted(p)
    PROVE  \E n \in Nat :
              /\ Retained(n) \in [Item -> Row] /\ n <= clock'
              /\ clock \in Nat /\ clock' \in Nat /\ clock <= clock'
              /\ \/ rows' = Retained(n)
                 \/ /\ rows' = Cascade(Retained(n), Observed(clock, n)).rows
                    /\ Cascade(Retained(n), Observed(clock, n)).clock <= clock'
              /\ \A i \in Item : /\ rows'[i].life = Retained(n)[i].life
                                 /\ rows'[i].lifeAt = Retained(n)[i].lifeAt
<1>1. PICK n \in Nat : Retained(n) \in [Item -> Row] /\ Imported(Retained(n), n)
    BY RevertImports DEF Reverted
<1>2. clock \in Nat /\ Observed(clock, n) \in Nat
    BY TypeParts DEF Tables, Observed
<1>3. UNCHANGED <<bound, coll>>
    BY DEF Reverted
<1>4. /\ Tables' /\ clock <= clock' /\ n <= clock'
      /\ rows' \in {Retained(n), Cascade(Retained(n), Observed(clock, n)).rows}
      /\ Cascade(Retained(n), Observed(clock, n)).clock <= clock' \/ rows' = Retained(n)
    BY <1>1, <1>3, ImportedTypes
<1>5. \A i \in Item : /\ rows'[i].life = Retained(n)[i].life
                      /\ rows'[i].lifeAt = Retained(n)[i].lifeAt
    BY <1>1, <1>2, <1>4, CascadeType
<1>6. clock' \in Nat
    BY <1>4 DEF Tables
<1>7. QED
    BY <1>1, <1>2, <1>4, <1>5, <1>6

LEMMA RevertedLives ==
    ASSUME Certain, DeleteInv, PairInv', NEW p \in Proc, Reverted(p)
    PROVE  DeleteInv'
<1>1. /\ UNCHANGED <<bound, tasks, view, fetched, merge>> /\ In("none") /\ In("none")'
    BY DEF Reverted
<1>2. /\ TypeInv /\ merge = NoMerge /\ view = NoView
    BY <1>1, PairTypes DEF DeleteInv, LocalsKept, In, Key
<1>3. PICK n \in Nat :
          /\ n <= clock' /\ clock' \in Nat
          /\ \A i \in Item : /\ rows'[i].life = Retained(n)[i].life
                             /\ rows'[i].lifeAt = Retained(n)[i].lifeAt
    BY <1>2, RevertedRows
<1>4. ASSUME NEW i \in Item
      PROVE  /\ rows'[i].lifeAt.clock <= clock'
             /\ rows'[i].life = "DELETED" => bound[i].gone
    <2>1. CASE bound[i] = NoTask
        BY <1>3, <2>1 DEF Retained, NoRow, Zero
    <2>2. CASE bound[i] # NoTask
        BY <1>3, <2>2 DEF Retained, Seen, ProviderStamp
    <2>3. QED
        BY <2>1, <2>2
<1>5. \A i \in Item : /\ Latest(i) = bound[i] /\ Latest(i)' = Latest(i) /\ Missing(i)' = Missing(i)
                      /\ view'[i].life = "NONE"
    BY <1>1, <1>2 DEF Latest, Missing, TaskFor, NoMerge, NoView, NoRow
<1>6. GoneStays'
    BY <1>4, <1>5 DEF DeleteInv, GoneStays, ServerDeleted
<1>7. LifeDominated'
    BY <1>4 DEF LifeDominated
<1>8. QED
    BY <1>1, <1>6, <1>7 DEF DeleteInv, FetchedGone, LivesPrepared, In, Key

LEMMA NextLives ==
    ASSUME Certain \/ NoDecision, DeleteInv, Next
    PROVE  DeleteInv'
<1>1. PairInv' /\ BaseInv
    BY NextPairs DEF DeleteInv, PairInv
<1>2. QED
    BY <1>1, StepKinds, NobodyDecides, ChangedLives, RemoteLives, LocalLives, WrittenLives,
       ErasedLives, ComparedLives, TakenLives, FaultLives, ReleasedLives, RevertedLives
       DEF OwnStep, Decision

LEMMA InitLives ==
    ASSUME Init
    PROVE  DeleteInv
<1>1. PairInv
    BY InitLinks DEF LinkInv
<1>2. /\ rows = [i \in Item |-> IF i \notin Initial THEN NoRow(i) ELSE FirstRow(i)]
      /\ bound = [i \in Item |-> IF i \notin Initial THEN NoTask ELSE
                   [uid |-> TaskAtFirst(i), etag |-> 1, base |-> FirstValue, gone |-> FALSE]]
      /\ clock = 1 /\ merge = NoMerge /\ \A p \in Proc : pc[p] = "idle"
    BY InitTables
<1>3. \A i \in Item : rows[i].lifeAt = Zero
    BY <1>2 DEF NoRow, FirstRow
<1>4. LifeDominated
    BY <1>2, <1>3 DEF LifeDominated, Zero
<1>5. \A i \in Item : ~ServerDeleted(i)
    BY <1>3 DEF ServerDeleted, Zero, Provider
<1>6. \A i \in Item : Latest(i).gone = FALSE
    BY <1>2 DEF Latest, NoMerge, NoTask
<1>7. QED
    BY <1>1, <1>2, <1>4, <1>5, <1>6 DEF DeleteInv, GoneStays, FetchedGone, LivesPrepared, At

LEMMA SameLives ==
    ASSUME DeleteInv, UNCHANGED vars
    PROVE  DeleteInv'
<1>1. PairInv'
    BY SamePairs DEF DeleteInv
<1>2. UNCHANGED <<clock, rows, bound, tasks, pc, view, fetched, merge>>
    BY DEF vars, device, server, progress
<1>3. QED
    BY <1>1, <1>2 DEF DeleteInv, LifeDominated, GoneStays, FetchedGone, LivesPrepared, LifePrepared,
                      ServerDeleted, Missing, TaskFor, Latest, At

\* An item the user deleted comes back only if the user restores it or gives
\* up the local changes: not by a change that another client made to the task
\* before or after the deletion, not by a pull that had the task in hand when
\* the item was deleted, and not by a process that ends anywhere on the way.
THEOREM DeletionsLast ==
    ASSUME Certain \/ Undecided
    PROVE  Spec => DeletionHolds
<1> DEFINE Inv == DeleteInv /\ (Undecided => NoDecision)
           Step == \A i \in Item :
        rows[i].life = "DELETED" /\ rows[i].lifeAt.actor = Device /\ rows'[i].life = "ACTIVE"
            => edits' # edits \/ \E p \in Proc : pc[p] = "revert"
<1>1. Init => Inv
    BY InitLives, InitLinks DEF LinkInv
<1>2. Inv /\ [Next]_vars => Inv'
    <2>1. ASSUME Inv, Next
          PROVE  Inv'
        BY <2>1, NextLives, StaysUndecided DEF DeleteInv, PairInv, BaseInv
    <2>2. ASSUME Inv, UNCHANGED vars
          PROVE  Inv'
        BY <2>2, SameLives DEF NoDecision, vars
    <2>3. QED
        BY <2>1, <2>2
<1>3. Inv /\ [Next]_vars => [Step]_vars
    <2>1. SUFFICES ASSUME DeleteInv, Next, NEW i \in Item, rows[i].life = "DELETED",
                          rows'[i].life = "ACTIVE"
                   PROVE  edits' # edits \/ \E p \in Proc : pc[p] = "revert"
        OBVIOUS
    <2>2. BaseInv /\ PairInv' /\ TypeInv
        BY <2>1, NextPairs DEF DeleteInv, PairInv, BaseInv
    <2>3. CASE \E j \in Item, r \in Row : Changed(j, r)
        <3>1. edits' = edits + 1 /\ edits \in Nat
            BY <2>2, <2>3, TypeParts, LimitAssumption DEF Changed, EditOf, Edit, Bounded
        <3>2. QED
            BY <3>1
    <2>4. CASE RemoteAdd \/ RemoteSet \/ RemoteDelete
        BY <2>1, <2>4, RemoteLeaves
    <2>5. CASE OwnStep
        BY <2>1, <2>2, <2>5, TakenLives DEF OwnStep, Aside, Cleared, Pushed, Kept, Fetched, Written,
                                            Erased, Linked, Compared
    <2>6. CASE Fault
        BY <2>1, <2>6 DEF Fault, Crashed, WrittenUnheard, ErasedUnheard, Forgotten
    <2>7. CASE Decision
        BY <2>1, <2>7 DEF Decision, Reverted, Released
    <2>8. QED
        BY <2>2, <2>1, <2>3, <2>4, <2>5, <2>6, <2>7, StepKinds
<1>4. QED
    BY <1>1, <1>2, <1>3, PTL DEF Spec, DeletionHolds
-----------------------------------------------------------------------------
(* Local changes.                                                          *)

\* A change of this device that the server has not had.
Unsent(s) == s.actor = Device /\ s.clock \notin delivered

\* The binding the rows are to be compared with: what a pull has prepared
\* counts from the import on.
Known(i) == IF At("import") THEN bound[i] ELSE Latest(i)

\* A binding compares while its task may be there, whatever it says itself.
Compares(b) == b.gone => tasks[b.uid].etag # 0 \/ fetched[b.uid].etag # 0

Differs(r, b, f) == b.uid # 0 /\ Compares(b) /\ r.val[f] # b.base[f]

\* No stamp of this device is on two items, unless the server has had it.
Distinct(r) ==
    \A i, j \in Item, f, g \in Field :
        i # j /\ r[i].at[f].actor = Device /\ r[i].at[f] = r[j].at[g]
            => r[i].at[f].clock \in delivered

Stamped ==
    /\ delivered \subseteq 0 .. clock
    /\ \A i \in Item, f \in Field : rows[i].at[f].clock <= clock /\ view[i].at[f].clock <= clock
    /\ Distinct(rows) /\ Distinct(view)

\* An ETag tells what the task says.
EtagsTell ==
    /\ \A u \in Uid : /\ tasks[u].etag <= etags /\ fetched[u].etag <= etags
                      /\ fetched[u].etag = tasks[u].etag /\ tasks[u].etag # 0
                            => fetched[u].val = tasks[u].val
    /\ \A i \in Item : /\ bound[i].etag <= etags /\ merge.bound[i].etag <= etags
                       /\ TaskFor(i) # 0 /\ tasks[TaskFor(i)].etag # 0
                             /\ Latest(i).etag = tasks[TaskFor(i)].etag
                             => tasks[TaskFor(i)].val = Latest(i).base

\* Where a row says something else than its task did, the server has not had
\* the change; so it is with the rows that a push has read.
RowUnsent(i, f) ==
    /\ rows[i].life # "NONE" /\ Differs(rows[i], Known(i), f) => Unsent(rows[i].at[f])
    /\ view[i].life = "ACTIVE" /\ Differs(view[i], Known(i), f) => Unsent(view[i].at[f])

\* While a push runs, a row is as it was read, or has a newer change.
ViewOf(i, f) ==
    \/ rows[i].at[f] = view[i].at[f] /\ rows[i].val[f] = view[i].val[f]
    \/ /\ Unsent(rows[i].at[f])
       /\ \A j \in Item, g \in Field : view[j].at[g].clock < rows[i].at[f].clock

\* What a pull will replace, the server says; what it will leave alone and
\* the server does not say, the server has not had.
Overwrites(i, f) == rows[i].life = "NONE" \/ After(merge.rows[i].at[f], rows[i].at[f])

MergeUnsent(i, f) ==
    IF Overwrites(i, f)
    THEN merge.rows[i].at[f].actor = Provider /\ ~Differs(merge.rows[i], merge.bound[i], f)
    ELSE Differs(rows[i], merge.bound[i], f) => Unsent(rows[i].at[f])

ChangesUnsent ==
    /\ \A i \in Item, f \in Field : RowUnsent(i, f)
    /\ At("put") \/ At("store") => \A i \in Item, f \in Field : ViewOf(i, f)
    /\ At("import") => \A i \in Item : /\ merge.rows[i].life = "NONE" <=> merge.bound[i] = NoTask
                                       /\ merge.rows[i].life # "NONE"
                                             => \A f \in Field : MergeUnsent(i, f)

FetchInv == PairInv /\ FetchedGone
SendInv == FetchInv /\ Stamped /\ EtagsTell /\ ChangesUnsent

\* Every completion a cascade changes has a new stamp of its own.
LEMMA CascadeStamps ==
    ASSUME NEW r \in [Item -> Row], NEW base \in Nat
    PROVE  /\ \A i \in Item :
                 \/ Cascade(r, base).rows[i] = r[i]
                 \/ /\ Cascade(r, base).rows[i].at["checked"].actor = Device
                    /\ base < Cascade(r, base).rows[i].at["checked"].clock
                    /\ Cascade(r, base).rows[i].at["checked"].clock <= Cascade(r, base).clock
           /\ \A i, j \in Item :
                 /\ Cascade(r, base).rows[i] # r[i] /\ Cascade(r, base).rows[j] # r[j]
                 /\ Cascade(r, base).rows[i].at["checked"] = Cascade(r, base).rows[j].at["checked"]
                 => i = j
<1> DEFINE out == OutOfStep(r)
           stamp(p) == base + Cardinality({q \in out : q <= p})
           row(i) == IF i \in out
                     THEN [r[i] EXCEPT !.val.checked = ~@,
                                       !.at["checked"] = [clock |-> stamp(i), actor |-> Device]]
                     ELSE r[i]
<1>1. out \subseteq Nat /\ IsFiniteSet(out)
    BY IdentityAssumption, FS_Subset DEF OutOfStep, Active
<1>2. Cardinality(out) \in Nat
    BY <1>1, FS_CardinalityType
<1>3. \A p \in out : stamp(p) = base + Rank(out, p) /\ Rank(out, p) \in 1 .. Cardinality(out)
    BY <1>1, Ranks DEF Rank
<1>4. \A p, q \in out : Rank(out, p) = Rank(out, q) => p = q
    BY <1>1, Ranks
<1>5. /\ Cascade(r, base).rows = [i \in Item |-> row(i)]
      /\ Cascade(r, base).clock = base + Cardinality(out)
    BY DEF Cascade
<1> HIDE DEF stamp
<1>6. ASSUME NEW i \in Item
      PROVE  /\ i \notin out => row(i) = r[i]
             /\ i \in out => row(i).at["checked"] = [clock |-> stamp(i), actor |-> Device]
    <2>1. r[i] \in Row
        OBVIOUS
    <2>2. QED
        BY <2>1 DEF Row, Field
<1> HIDE DEF out, row
<1>7. \A i \in Item : i \in out => base < stamp(i) /\ stamp(i) <= base + Cardinality(out)
    BY <1>2, <1>3
<1>8. \A i, j \in out : stamp(i) = stamp(j) => i = j
    BY <1>2, <1>3, <1>4
<1> DEFINE c == Cascade(r, base)
<1>9. c.clock = base + Cardinality(out) /\ \A i \in Item : c.rows[i] = row(i)
    BY <1>5
<1>10. ASSUME NEW i \in Item
       PROVE  \/ c.rows[i] = r[i]
              \/ /\ i \in out /\ c.rows[i].at["checked"].clock = stamp(i)
                 /\ c.rows[i].at["checked"].actor = Device
                 /\ base < c.rows[i].at["checked"].clock
                 /\ c.rows[i].at["checked"].clock <= c.clock
    <2>1. CASE i \in out
        <3>1. c.rows[i].at["checked"] = [clock |-> stamp(i), actor |-> Device]
            BY <1>6, <1>9, <2>1
        <3>2. /\ c.rows[i].at["checked"].clock = stamp(i)
              /\ c.rows[i].at["checked"].actor = Device
            BY <3>1
        <3>3. QED
            BY <1>7, <1>9, <2>1, <3>1, <3>2
    <2>2. CASE i \notin out
        BY <1>6, <1>9, <2>2
    <2>3. QED
        BY <2>1, <2>2
<1> HIDE DEF c
<1>11. ASSUME NEW i \in Item, NEW j \in Item, c.rows[i] # r[i], c.rows[j] # r[j],
              c.rows[i].at["checked"] = c.rows[j].at["checked"]
       PROVE  i = j
    <2>1. stamp(i) = stamp(j) /\ i \in out /\ j \in out
        BY <1>10, <1>11
    <2>2. QED
        BY <1>8, <2>1
<1>12. QED
    BY <1>10, <1>11 DEF c

\* The rows come from r with new stamps of this device on what is changed.
New(s) == s.actor = Device /\ clock < s.clock /\ s.clock <= clock'

Moves(r) ==
    /\ \A i \in Item, f \in Field :
          \/ rows'[i].at[f] = r[i].at[f] /\ rows'[i].val[f] = r[i].val[f]
          \/ New(rows'[i].at[f])
    /\ \A i, j \in Item, f, g \in Field :
          i # j /\ New(rows'[i].at[f]) => rows'[i].at[f] # rows'[j].at[g]

\* An edit, with its cascade.
LEMMA ChangedMoves ==
    ASSUME TypeInv, NEW i \in Item, NEW r \in Row, Changed(i, r),
           \A j \in Item, f \in Field : rows[j].at[f].clock <= clock
    PROVE  /\ Moves(rows) /\ clock \in Nat /\ clock' \in Nat /\ clock < clock'
           /\ \A j \in Item : /\ j # i => rows'[j].life = rows[j].life
                              /\ rows[j].life # "NONE" => rows'[j].life # "NONE"
                              /\ rows[j].life = "NONE" /\ rows'[j].life # "NONE"
                                    => j = i /\ Fresh(i) /\ \A f \in Field : New(rows'[j].at[f])
<1> DEFINE all == WithRow(i, r)
           c == Cascade(all, clock + 1)
<1>1. /\ all \in [Item -> Row] /\ all[i] = r
      /\ \A j \in Item \ {i} : all[j] = rows[j]
      /\ rows' = c.rows /\ clock' = c.clock
      /\ clock \in Nat /\ clock' \in Nat /\ clock + 1 <= clock'
      /\ \A j \in Item : rows'[j].life = all[j].life
    BY ChangedRows
<1>2. /\ \A j \in Item : rows'[j].val.text = all[j].val.text /\ rows'[j].at["text"] = all[j].at["text"]
      /\ \A j \in Item :
            \/ rows'[j] = all[j]
            \/ /\ rows'[j].at["checked"].actor = Device
               /\ clock + 1 < rows'[j].at["checked"].clock
               /\ rows'[j].at["checked"].clock <= clock'
      /\ \A j, k \in Item : rows'[j] # all[j] /\ rows'[k] # all[k]
                               /\ rows'[j].at["checked"] = rows'[k].at["checked"] => j = k
    BY <1>1, CascadeType, CascadeStamps
<1>3. /\ \A f \in Field : r.at[f] = Now \/ r.at[f] = rows[i].at[f]
      /\ r.val.text = rows[i].val.text \/ r.at["text"] = Now
      /\ r.val.checked = rows[i].val.checked \/ r.at["checked"] = Now
      /\ r.life # "NONE"
      /\ \/ Fresh(i) /\ r.at["text"] = Now /\ r.at["checked"] = Now
         \/ rows[i].life # "NONE"
    BY DEF Changed, Edited
<1>4. rows \in [Item -> Row] /\ \A j \in Item, f \in Field : rows[j].at[f] \in Stamp
    BY TypeParts DEF Tables, Row
<1>5. /\ Now.clock = clock + 1 /\ Now.actor = Device /\ New(Now)
      /\ \A j \in Item, f \in Field : rows[j].at[f].clock \in Nat /\ ~New(rows[j].at[f])
    BY <1>1, <1>4 DEF Now, New, Stamp
<1> HIDE DEF all, c
<1>6. ASSUME NEW j \in Item, NEW f \in Field
      PROVE  \/ rows'[j].at[f] = rows[j].at[f] /\ rows'[j].val[f] = rows[j].val[f]
             \/ rows'[j].at[f] = Now /\ j = i
             \/ /\ f = "checked" /\ rows'[j] # all[j] /\ rows'[j].at[f].actor = Device
                /\ clock + 1 < rows'[j].at[f].clock /\ rows'[j].at[f].clock <= clock'
    <2>1. CASE f = "text"
        BY <1>1, <1>2, <1>3, <2>1 DEF Field
    <2>2. CASE f = "checked"
        BY <1>1, <1>2, <1>3, <2>2 DEF Field
    <2>3. QED
        BY <2>1, <2>2 DEF Field
<1>7. \A j \in Item, f \in Field :
          \/ rows'[j].at[f] = rows[j].at[f] /\ rows'[j].val[f] = rows[j].val[f]
          \/ New(rows'[j].at[f])
    <2>1. ASSUME NEW j \in Item, NEW f \in Field
          PROVE  \/ rows'[j].at[f] = rows[j].at[f] /\ rows'[j].val[f] = rows[j].val[f]
                 \/ New(rows'[j].at[f])
        <3>1. rows'[j].at[f].clock \in Nat
            <4>1. rows' \in [Item -> Row]
                BY <1>1, CascadeType DEF c
            <4>2. QED
                BY <4>1 DEF Row, Stamp
        <3>2. QED
            BY <1>1, <1>5, <1>6, <3>1 DEF New
    <2>2. QED
        BY <2>1
<1>8. ASSUME NEW j \in Item, NEW k \in Item, NEW f \in Field, NEW g \in Field,
             j # k, New(rows'[j].at[f]), rows'[j].at[f] = rows'[k].at[g]
      PROVE  FALSE
    <2>1. rows'[j].at[f] # rows[j].at[f] /\ rows'[k].at[g] # rows[k].at[g]
        BY <1>5, <1>8
    <2>2. \/ rows'[j].at[f] = Now /\ j = i
          \/ f = "checked" /\ rows'[j] # all[j] /\ clock + 1 < rows'[j].at[f].clock
        BY <1>6, <2>1
    <2>3. \/ rows'[k].at[g] = Now /\ k = i
          \/ g = "checked" /\ rows'[k] # all[k] /\ clock + 1 < rows'[k].at[g].clock
        BY <1>6, <2>1
    <2>4. QED
        BY <1>1, <1>2, <1>5, <1>8, <2>2, <2>3
<1>9. Moves(rows)
    BY <1>7, <1>8 DEF Moves
<1>10. ASSUME NEW j \in Item
       PROVE  /\ j # i => rows'[j].life = rows[j].life
              /\ rows[j].life # "NONE" => rows'[j].life # "NONE"
              /\ rows[j].life = "NONE" /\ rows'[j].life # "NONE"
                    => j = i /\ Fresh(i) /\ \A f \in Field : New(rows'[j].at[f])
    <2>1. ASSUME rows[j].life = "NONE", rows'[j].life # "NONE"
          PROVE  j = i /\ Fresh(i) /\ \A f \in Field : New(rows'[j].at[f])
        <3>1. j = i /\ Fresh(i) /\ r.at["text"] = Now /\ r.at["checked"] = Now
            BY <1>1, <1>3, <2>1
        <3>2. \A f \in Field : rows'[i].at[f] # rows[i].at[f]
            <4>1. rows'[i].at["text"] = Now
                BY <1>1, <1>2, <3>1
            <4>2. rows'[i].at["checked"] = Now \/ clock + 1 < rows'[i].at["checked"].clock
                BY <1>1, <1>2, <3>1
            <4>3. \A f \in Field : Now # rows[i].at[f] /\ rows[i].at[f].clock <= clock
                BY <1>5
            <4>4. QED
                BY <1>1, <1>5, <4>1, <4>2, <4>3 DEF Field
        <3>3. QED
            BY <1>7, <3>1, <3>2
    <2>2. QED
        BY <1>1, <1>3, <2>1
<1>11. QED
    BY <1>1, <1>9, <1>10

LEMMA SendTypes ==
    ASSUME SendInv
    PROVE  /\ FetchInv /\ PairInv /\ TypeInv /\ BaseInv /\ LocalsKept /\ clock \in Nat /\ etags \in Nat
           /\ rows \in [Item -> Row] /\ bound \in [Item -> ItemBinding] /\ tasks \in [Uid -> Task]
           /\ view \in [Item -> Row] /\ fetched \in [Uid -> Task]
           /\ merge \in [rows : [Item -> Row], bound : [Item -> ItemBinding], clock : Nat]
           /\ merge.rows \in [Item -> Row] /\ merge.bound \in [Item -> ItemBinding]
           /\ \A i \in Item : Latest(i) \in ItemBinding /\ TaskFor(i) \in Uid \union {0}
           /\ \A i \in Item, f \in Field :
                 /\ rows[i].at[f] \in Stamp /\ rows[i].at[f].clock \in Nat
                 /\ view[i].at[f] \in Stamp /\ view[i].at[f].clock \in Nat
                 /\ merge.rows[i].at[f] \in Stamp /\ merge.rows[i].at[f].clock \in Nat
           /\ \A s : New(s) => Unsent(s)
           /\ delivered \subseteq Nat
<1>1. /\ FetchInv /\ PairInv /\ TypeInv /\ BaseInv /\ LocalsKept /\ clock \in Nat /\ etags \in Nat
      /\ rows \in [Item -> Row] /\ bound \in [Item -> ItemBinding] /\ tasks \in [Uid -> Task]
      /\ view \in [Item -> Row] /\ fetched \in [Uid -> Task]
      /\ merge \in [rows : [Item -> Row], bound : [Item -> ItemBinding], clock : Nat]
      /\ merge.rows \in [Item -> Row] /\ merge.bound \in [Item -> ItemBinding]
      /\ \A i \in Item : Latest(i) \in ItemBinding /\ TaskFor(i) \in Uid \union {0}
    BY PairTypes DEF SendInv, FetchInv
<1>2. \A r \in Row, f \in Field : r.at[f] \in Stamp /\ r.at[f].clock \in Nat
    BY DEF Row, Stamp
<1>3. ASSUME NEW s, New(s)
      PROVE  Unsent(s)
    <2>1. ASSUME s.clock \in delivered
          PROVE  FALSE
        <3>1. s.clock \in 0 .. clock
            BY <2>1 DEF SendInv, Stamped
        <3>2. QED
            BY <1>1, <1>3, <3>1 DEF New
    <2>2. QED
        BY <1>3, <2>1 DEF New, Unsent
<1>4. QED
    BY <1>1, <1>2, <1>3 DEF SendInv, Stamped

\* Rows that move keep the stamps apart.
LEMMA MovesApart ==
    ASSUME NEW r, Distinct(r), Moves(r), delivered' = delivered,
           \A i \in Item, f \in Field : r[i].at[f].actor = Device => ~New(r[i].at[f])
    PROVE  Distinct(rows)'
<1>1. SUFFICES ASSUME NEW i \in Item, NEW j \in Item, NEW f \in Field, NEW g \in Field,
                      i # j, rows'[i].at[f].actor = Device, rows'[i].at[f] = rows'[j].at[g]
               PROVE  rows'[i].at[f].clock \in delivered
    BY DEF Distinct
<1>2. ~New(rows'[i].at[f]) /\ ~New(rows'[j].at[g])
    BY <1>1 DEF Moves
<1>3. rows'[i].at[f] = r[i].at[f] /\ rows'[j].at[g] = r[j].at[g]
    BY <1>2 DEF Moves
<1>4. QED
    BY <1>1, <1>3 DEF Distinct

LEMMA ChangedSends ==
    ASSUME SendInv, FetchInv', NEW i \in Item, NEW r \in Row, Changed(i, r)
    PROVE  SendInv'
<1>1. UNCHANGED <<bound, tasks, etags, pc, view, fetched, merge, delivered>>
    BY EditLeaves
<1>2. /\ TypeInv /\ rows \in [Item -> Row]
      /\ \A j \in Item, f \in Field : /\ rows[j].at[f] \in Stamp /\ rows[j].at[f].clock \in Nat
                                      /\ view[j].at[f].clock \in Nat
                                      /\ merge.rows[j].at[f] \in Stamp
      /\ \A s : New(s) => Unsent(s)
      /\ \A j \in Item, f \in Field : rows[j].at[f].clock <= clock /\ view[j].at[f].clock <= clock
    BY SendTypes DEF SendInv, Stamped
<1>3. /\ Moves(rows) /\ clock \in Nat /\ clock' \in Nat /\ clock < clock'
      /\ \A j \in Item : /\ rows[j].life # "NONE" => rows'[j].life # "NONE"
                         /\ rows[j].life = "NONE" /\ rows'[j].life # "NONE"
                               => j = i /\ Fresh(i) /\ \A f \in Field : New(rows'[j].at[f])
    BY <1>2, ChangedMoves
<1>4. /\ \A j \in Item : Latest(j)' = Latest(j) /\ TaskFor(j)' = TaskFor(j) /\ Known(j)' = Known(j)
      /\ \A l : At(l)' <=> At(l)
    BY <1>1 DEF Latest, TaskFor, Known, At
<1>5. \A s : Unsent(s)' <=> Unsent(s)
    BY <1>1 DEF Unsent
<1>6. \A j \in Item, f \in Field :
          \/ rows'[j].at[f] = rows[j].at[f] /\ rows'[j].val[f] = rows[j].val[f]
          \/ New(rows'[j].at[f])
    BY <1>3 DEF Moves
<1>7. Stamped'
    <2>1. delivered' \subseteq 0 .. clock'
        BY <1>1, <1>3 DEF SendInv, Stamped
    <2>2. \A j \in Item, f \in Field : rows'[j].at[f].clock <= clock' /\ view'[j].at[f].clock <= clock'
        BY <1>1, <1>2, <1>3, <1>6 DEF New
    <2>3. \A j \in Item, f \in Field : ~New(rows[j].at[f])
        BY <1>2, <1>3 DEF New
    <2>4. Distinct(rows)'
        BY <1>1, <1>3, <2>3, MovesApart DEF SendInv, Stamped
    <2>5. Distinct(view)'
        BY <1>1 DEF SendInv, Stamped, Distinct
    <2>6. QED
        BY <2>1, <2>2, <2>4, <2>5 DEF Stamped
<1>8. EtagsTell'
    BY <1>1, <1>4 DEF SendInv, EtagsTell
<1>9. ASSUME NEW j \in Item, NEW f \in Field
      PROVE  RowUnsent(j, f)'
    <2>1. RowUnsent(j, f)
        BY DEF SendInv, ChangesUnsent
    <2>2. CASE New(rows'[j].at[f])
        BY <1>1, <1>2, <1>4, <1>5, <2>1, <2>2 DEF RowUnsent, Differs, Compares
    <2>3. CASE ~New(rows'[j].at[f])
        <3>1. rows'[j].at[f] = rows[j].at[f] /\ rows'[j].val[f] = rows[j].val[f]
            BY <1>6, <2>3
        <3>2. rows'[j].life # "NONE" => rows[j].life # "NONE"
            BY <1>3, <2>3
        <3>3. QED
            BY <1>1, <1>4, <1>5, <2>1, <3>1, <3>2 DEF RowUnsent, Differs, Compares
    <2>4. QED
        BY <2>2, <2>3
<1>10. ASSUME NEW j \in Item, NEW f \in Field, ViewOf(j, f)
       PROVE  ViewOf(j, f)'
    <2>1. CASE New(rows'[j].at[f])
        <3>1. \A k \in Item, g \in Field : view'[k].at[g].clock < rows'[j].at[f].clock
            <4>1. rows'[j].at[f].clock \in Nat
                <5>1. rows' \in [Item -> Row]
                    BY TypeParts DEF FetchInv, PairInv, BaseInv, Tables
                <5>2. QED
                    BY <5>1 DEF Row, Stamp
            <4>2. QED
                BY <1>1, <1>2, <1>3, <2>1, <4>1 DEF New
        <3>2. QED
            BY <1>2, <1>5, <2>1, <3>1 DEF ViewOf
    <2>2. CASE ~New(rows'[j].at[f])
        BY <1>1, <1>5, <1>6, <1>10, <2>2 DEF ViewOf
    <2>3. QED
        BY <2>1, <2>2
<1>11. ASSUME NEW j \in Item, NEW f \in Field, merge.rows[j].life # "NONE", MergeUnsent(j, f)
       PROVE  MergeUnsent(j, f)'
    <2>1. rows'[j].life = "NONE" <=> rows[j].life = "NONE"
        BY <1>3, <1>11 DEF Fresh
    <2>2. CASE ~New(rows'[j].at[f])
        <3>1. rows'[j].at[f] = rows[j].at[f] /\ rows'[j].val[f] = rows[j].val[f]
            BY <1>6, <2>2
        <3>2. QED
            BY <1>1, <1>5, <1>11, <2>1, <3>1 DEF MergeUnsent, Overwrites, Differs, Compares
    <2>3. CASE New(rows'[j].at[f])
        <3>1. Overwrites(j, f)' => Overwrites(j, f)
            <4>1. rows'[j].at[f].clock \in Nat /\ rows[j].at[f].clock <= clock /\ rows[j].at[f].clock \in Nat
                <5>1. rows' \in [Item -> Row]
                    BY TypeParts DEF FetchInv, PairInv, BaseInv, Tables
                <5>2. QED
                    BY <1>2, <5>1 DEF Row, Stamp
            <4>2. clock < rows'[j].at[f].clock /\ merge.rows[j].at[f].clock \in Nat
                BY <1>2, <2>3 DEF New, Stamp
            <4>3. After(merge.rows[j].at[f], rows'[j].at[f]) => After(merge.rows[j].at[f], rows[j].at[f])
                BY <1>3, <4>1, <4>2 DEF After
            <4>4. QED
                BY <1>1, <2>1, <4>3 DEF Overwrites
        <3>2. rows'[j].at[f].actor = Device /\ rows'[j].at[f].clock \notin delivered'
            BY <1>1, <1>2, <2>3 DEF Unsent
        <3>3. QED
            BY <1>1, <1>11, <3>1, <3>2 DEF MergeUnsent, Differs, Compares, Unsent
    <2>4. QED
        BY <2>2, <2>3
<1>12. ChangesUnsent'
    BY <1>1, <1>4, <1>9, <1>10, <1>11 DEF SendInv, ChangesUnsent
<1>13. QED
    BY <1>7, <1>8, <1>12 DEF SendInv

\* A change of another client has an ETag that nobody knows.
LEMMA RemoteSends ==
    ASSUME SendInv, FetchInv', RemoteAdd \/ RemoteSet \/ RemoteDelete
    PROVE  SendInv'
<1>1. UNCHANGED <<clock, rows, bound, pc, view, fetched, merge, delivered>> /\ etags' = etags + 1
    BY RemoteLeaves
<1>2. /\ tasks \in [Uid -> Task] /\ fetched \in [Uid -> Task] /\ etags \in Nat
      /\ bound \in [Item -> ItemBinding] /\ merge.bound \in [Item -> ItemBinding]
      /\ \A i \in Item : Latest(i) \in ItemBinding /\ TaskFor(i) \in Uid \union {0}
    BY SendTypes
<1>3. /\ \A j \in Item : Latest(j)' = Latest(j) /\ TaskFor(j)' = TaskFor(j) /\ Known(j)' = Known(j)
      /\ \A l : At(l)' <=> At(l)
    BY <1>1 DEF Latest, TaskFor, Known, At
<1>4. PICK u \in Uid :
            \/ \E v \in Values : tasks' = [tasks EXCEPT ![u] =
                    [etag |-> etags + 1, val |-> v, origin |-> u]]
            \/ \E v \in Values : tasks' = [tasks EXCEPT ![u] =
                    [tasks[u] EXCEPT !.etag = etags + 1, !.val = v]]
            \/ tasks' = [tasks EXCEPT ![u] = [tasks[u] EXCEPT !.etag = 0]]
    BY RemoteLeaves
<1>5. ASSUME NEW w \in Uid
      PROVE  tasks'[w] = tasks[w] \/ tasks'[w].etag \in {0, etags + 1}
    <2>1. CASE w # u
        <3>1. tasks'[w] = tasks[w]
            BY <1>2, <1>4, <2>1
        <3>2. QED
            BY <3>1
    <2>2. CASE w = u
        <3>1. \/ \E v \in Values : tasks'[u] = [etag |-> etags + 1, val |-> v, origin |-> u]
              \/ \E v \in Values : tasks'[u] = [tasks[u] EXCEPT !.etag = etags + 1, !.val = v]
              \/ tasks'[u] = [tasks[u] EXCEPT !.etag = 0]
            BY <1>2, <1>4
        <3>2. tasks[u] \in Task
            BY <1>2
        <3>3. ASSUME NEW v, tasks'[u] = [tasks[u] EXCEPT !.etag = etags + 1, !.val = v]
              PROVE  tasks'[u].etag = etags + 1
            BY <3>2, <3>3 DEF Task
        <3>4. ASSUME tasks'[u] = [tasks[u] EXCEPT !.etag = 0]
              PROVE  tasks'[u].etag = 0
            BY <3>2, <3>4 DEF Task
        <3>5. CASE \E v \in Values : tasks'[u] = [etag |-> etags + 1, val |-> v, origin |-> u]
            BY <2>2, <3>5
        <3>6. CASE \E v \in Values : tasks'[u] = [tasks[u] EXCEPT !.etag = etags + 1, !.val = v]
            <4>1. tasks'[u].etag = etags + 1
                BY <3>3, <3>6
            <4>2. QED
                BY <2>2, <4>1
        <3>7. CASE tasks'[u] = [tasks[u] EXCEPT !.etag = 0]
            BY <2>2, <3>4, <3>7
        <3>8. QED
            BY <3>1, <3>5, <3>6, <3>7
    <2>3. QED
        BY <2>1, <2>2
<1>6. /\ \A w \in Uid : tasks[w].etag \in Nat /\ fetched[w].etag \in Nat
      /\ \A w \in Uid : tasks[w].etag <= etags /\ fetched[w].etag <= etags
      /\ \A i \in Item : bound[i].etag \in Nat /\ merge.bound[i].etag \in Nat /\ Latest(i).etag \in Nat
      /\ \A i \in Item : bound[i].etag <= etags /\ merge.bound[i].etag <= etags
    BY <1>2 DEF SendInv, EtagsTell, Task, ItemBinding
<1>7. \A i \in Item : Latest(i).etag <= etags
    BY <1>6 DEF Latest
<1>8. ASSUME NEW w \in Uid
      PROVE  /\ tasks'[w].etag <= etags' /\ fetched'[w].etag <= etags'
             /\ fetched'[w].etag = tasks'[w].etag /\ tasks'[w].etag # 0
                   => fetched'[w].val = tasks'[w].val
    <2>1. /\ fetched[w].etag = tasks[w].etag /\ tasks[w].etag # 0
                => fetched[w].val = tasks[w].val
        BY DEF SendInv, EtagsTell
    <2>2. QED
        BY <1>1, <1>2, <1>5, <1>6, <2>1
<1>9. ASSUME NEW i \in Item
      PROVE  /\ bound'[i].etag <= etags' /\ merge'.bound[i].etag <= etags'
             /\ TaskFor(i)' # 0 /\ tasks'[TaskFor(i)'].etag # 0
                   /\ Latest(i)'.etag = tasks'[TaskFor(i)'].etag
                   => tasks'[TaskFor(i)'].val = Latest(i)'.base
    <2>1. bound'[i].etag <= etags' /\ merge'.bound[i].etag <= etags'
        BY <1>1, <1>2, <1>6
    <2>2. ASSUME TaskFor(i) # 0, tasks'[TaskFor(i)].etag # 0,
                 Latest(i).etag = tasks'[TaskFor(i)].etag
          PROVE  tasks'[TaskFor(i)].val = Latest(i).base
        <3>1. TaskFor(i) \in Uid
            BY <1>2, <2>2
        <3>2. tasks'[TaskFor(i)] = tasks[TaskFor(i)]
            BY <1>2, <1>5, <1>6, <1>7, <2>2, <3>1
        <3>3. QED
            BY <2>2, <3>2 DEF SendInv, EtagsTell
    <2>3. QED
        BY <1>3, <2>1, <2>2
<1>10. EtagsTell'
    BY <1>8, <1>9 DEF EtagsTell
<1>11. Stamped'
    BY <1>1 DEF SendInv, Stamped, Distinct
<1>12. ChangesUnsent'
    <2>1. ASSUME NEW i \in Item, NEW b \in {bound[i], merge.bound[i]}, b.uid # 0,
                 tasks'[b.uid].etag # 0
          PROVE  tasks[b.uid].etag # 0
        <3>1. b.uid \in Uid
            BY <1>2, <2>1 DEF ItemBinding
        <3>2. QED
            BY <2>1, <3>1, RemoteAbsent, SendTypes
    <2>2. \A i \in Item : Known(i) \in {bound[i], merge.bound[i]}
        BY DEF Known, Latest
    <2>3. \A i \in Item : /\ Known(i).uid # 0 /\ tasks'[Known(i).uid].etag # 0
                                 => tasks[Known(i).uid].etag # 0
                          /\ merge.bound[i].uid # 0 /\ tasks'[merge.bound[i].uid].etag # 0
                                 => tasks[merge.bound[i].uid].etag # 0
        BY <2>1, <2>2
    <2>4. ASSUME NEW i \in Item, NEW f \in Field
          PROVE  RowUnsent(i, f)'
        <3>1. RowUnsent(i, f)
            BY DEF SendInv, ChangesUnsent
        <3>2. QED
            BY <1>1, <1>3, <2>3, <3>1 DEF RowUnsent, Unsent, Differs, Compares
    <2>5. ASSUME NEW i \in Item, NEW f \in Field, MergeUnsent(i, f)
          PROVE  MergeUnsent(i, f)'
        BY <1>1, <2>3, <2>5 DEF MergeUnsent, Overwrites, Unsent, Differs, Compares
    <2>6. \A i \in Item, f \in Field : ViewOf(i, f) => ViewOf(i, f)'
        BY <1>1 DEF ViewOf, Unsent
    <2>7. QED
        BY <1>1, <1>3, <2>4, <2>5, <2>6 DEF SendInv, ChangesUnsent
<1>13. QED
    BY <1>10, <1>11, <1>12 DEF SendInv

\* The steps that only move what is known from one place to another.
LEMMA LocalSends ==
    ASSUME SendInv, FetchInv', \/ Aside \/ Cleared \/ Pushed \/ Kept \/ Fetched
                                \/ \E i \in Item : Linked(i)
    PROVE  SendInv'
<1>1. /\ UNCHANGED <<clock, rows, tasks, etags, delivered>> /\ BaseInv
      /\ \A i \in Item : NoView[i].life = "NONE"
      /\ \A i \in Item, f \in Field : NoView[i].at[f] = Zero
      /\ \A i \in Item : NoMerge.bound[i].etag = 0
      /\ \A u \in Uid : NoFetch[u].etag = 0
    BY SendTypes DEF Aside, Cleared, Pushed, Kept, Fetched, Linked, NoView, NoRow, NoMerge, NoTask,
                     NoFetch
<1>2. \A i \in Item : Latest(i)' = Latest(i) /\ TaskFor(i)' = TaskFor(i)
    BY <1>1, LatestStays DEF TaskFor, Aside, Pushed, Fetched
<1>3. /\ view' \in {view, rows, NoView} /\ fetched' \in {fetched, tasks, NoFetch}
      /\ merge' \in {merge, NoMerge}
    BY DEF Aside, Cleared, Pushed, Kept, Fetched, Linked
<1>4. /\ At("import")' <=> At("import")
      /\ At("import") => bound' = bound /\ merge' = merge
    BY DEF Aside, Cleared, Pushed, Kept, Fetched, Linked, In, Key
<1>5. \A i \in Item : Known(i)' = Known(i)
    BY <1>2, <1>4 DEF Known
<1>0. \A i \in Item : /\ Known(i).uid \in Uid \union {0}
                     /\ merge.bound[i].uid \in Uid \union {0}
    BY SendTypes DEF Known, ItemBinding
<1>6. At("put")' \/ At("store")' => ((At("put") \/ At("store")) /\ view' = view) \/ view' = rows
    BY DEF Aside, Cleared, Pushed, Kept, Fetched, Linked, In, Key
<1>7. /\ clock \in Nat /\ rows \in [Item -> Row]
      /\ bound \in [Item -> ItemBinding] /\ merge.bound \in [Item -> ItemBinding]
      /\ etags \in Nat
    BY SendTypes
<1>8. Stamped'
    <2>1. \A i \in Item, f \in Field : view'[i].at[f].clock <= clock
        BY <1>1, <1>3, <1>7 DEF SendInv, Stamped, Zero
    <2>2. Distinct(view)' /\ Distinct(rows)'
        <3>1. Distinct(NoView)
            BY <1>1 DEF Distinct, Zero, Device
        <3>2. \A r : Distinct(r)' <=> (\A i, j \in Item, f, g \in Field :
                i # j /\ r'[i].at[f].actor = Device /\ r'[i].at[f] = r'[j].at[g]
                    => r'[i].at[f].clock \in delivered)
            BY <1>1 DEF Distinct
        <3>3. QED
            BY <1>1, <1>3, <3>1 DEF SendInv, Stamped, Distinct
    <2>3. QED
        BY <1>1, <2>1, <2>2 DEF SendInv, Stamped
<1>9. EtagsTell'
    <2>1. ASSUME NEW u \in Uid
          PROVE  /\ tasks'[u].etag <= etags' /\ fetched'[u].etag <= etags'
                 /\ fetched'[u].etag = tasks'[u].etag /\ tasks'[u].etag # 0
                       => fetched'[u].val = tasks'[u].val
        BY <1>1, <1>3, <1>7 DEF SendInv, EtagsTell
    <2>2. ASSUME NEW i \in Item
          PROVE  bound'[i].etag <= etags' /\ merge'.bound[i].etag <= etags'
        <3>1. bound'[i] \in {bound[i], merge.bound[i]}
            BY <1>7 DEF Aside, Cleared, Pushed, Kept, Fetched, Linked
        <3>2. bound[i].etag <= etags /\ merge.bound[i].etag <= etags
            BY DEF SendInv, EtagsTell
        <3>3. QED
            BY <1>1, <1>3, <1>7, <3>1, <3>2
    <2>3. QED
        BY <1>1, <1>2, <2>1, <2>2 DEF SendInv, EtagsTell
<1>10. ASSUME NEW i \in Item, NEW f \in Field
       PROVE  RowUnsent(i, f)'
    <2>1. RowUnsent(i, f)
        BY DEF SendInv, ChangesUnsent
    <2>2. /\ Differs(rows[i], Known(i), f)' => Differs(rows[i], Known(i), f)
          /\ \/ Differs(view[i], Known(i), f)' => Differs(view[i], Known(i), f)
             \/ view' = rows /\ (Differs(view[i], Known(i), f)' => Differs(rows[i], Known(i), f))
             \/ view' = NoView
        BY <1>0, <1>1, <1>3, <1>5 DEF Differs, Compares
    <2>3. QED
        BY <1>1, <1>3, <2>1, <2>2 DEF RowUnsent, Unsent
<1>11. ASSUME NEW i \in Item, NEW f \in Field, At("put")' \/ At("store")'
       PROVE  ViewOf(i, f)'
    <2>1. CASE view' = rows
        BY <1>1, <2>1 DEF ViewOf
    <2>2. CASE view' # rows
        BY <1>1, <1>6, <1>11, <2>2 DEF SendInv, ChangesUnsent, ViewOf, Unsent
    <2>3. QED
        BY <2>1, <2>2
<1>12. ASSUME At("import")', NEW i \in Item
       PROVE  /\ merge'.rows[i].life = "NONE" <=> merge'.bound[i] = NoTask
              /\ merge'.rows[i].life # "NONE" => \A f \in Field : MergeUnsent(i, f)'
    <2>1. At("import") /\ merge' = merge
        BY <1>4, <1>12
    <2>2. \A f \in Field :
              /\ Differs(rows[i], merge.bound[i], f)' => Differs(rows[i], merge.bound[i], f)
              /\ Differs(merge.rows[i], merge.bound[i], f)' => Differs(merge.rows[i], merge.bound[i], f)
        BY <1>0, <1>1, <1>3, <2>1 DEF Differs, Compares
    <2>3. QED
        BY <1>1, <2>1, <2>2 DEF SendInv, ChangesUnsent, MergeUnsent, Overwrites, Unsent
<1>13. ChangesUnsent'
    BY <1>10, <1>11, <1>12 DEF ChangesUnsent
<1>14. QED
    BY <1>8, <1>9, <1>13 DEF SendInv

\* A PUT delivers the changes of the row it writes, and of no other.
LEMMA WrittenSends ==
    ASSUME SendInv, FetchInv', NEW i \in Item, Written(i)
    PROVE  SendInv'
<1>1. /\ UNCHANGED <<clock, rows, bound, view, fetched>> /\ view[i].life = "ACTIVE"
      /\ tasks' = [tasks EXCEPT ![TaskOf(i)] = [etag |-> etags + 1, val |-> view[i].val,
                                                origin |-> view[i].origin]]
      /\ etags' = etags + 1 /\ delivered' = delivered \union DeviceClocks(view, i)
      /\ In("put") /\ In("store")'
    BY DEF Written
<1>2. /\ FetchInv /\ PairInv /\ merge = NoMerge /\ fetched = NoFetch /\ tasks \in [Uid -> Task]
      /\ merge \in [rows : [Item -> Row], bound : [Item -> ItemBinding], clock : Nat]
      /\ bound \in [Item -> ItemBinding] /\ clock \in Nat /\ etags \in Nat
      /\ \A j \in Item : TaskFor(j) \in Uid \union {0}
      /\ \A j \in Item, f \in Field :
            /\ rows[j].at[f] \in Stamp /\ rows[j].at[f].clock \in Nat
            /\ view[j].at[f] \in Stamp /\ view[j].at[f].clock \in Nat
    BY <1>1, SendTypes DEF In, Key, LocalsKept
<1>3. /\ Paired' /\ TaskFor(i)' = TaskOf(i)
      /\ \A j \in Item \ {i} : Latest(j)' = Latest(j) /\ TaskFor(j)' = TaskFor(j)
    BY <1>2, WrittenLinks DEF TaskFor
<1>4. PICK e \in {etags + 1, bound[i].etag} : merge' = [merge EXCEPT !.bound[i] = Stored(i, e)]
    BY DEF Written
<1>5. /\ merge'.bound[i] = Stored(i, e) /\ \A j \in Item \ {i} : merge'.bound[j] = merge.bound[j]
      /\ \A j \in Item : merge.bound[j].etag = 0
    BY <1>2, <1>4 DEF NoMerge, NoTask
<1>6. Stored(i, e).uid = TaskOf(i) /\ Stored(i, e).base = view[i].val /\ Stored(i, e).etag = e
    BY DEF Stored
<1>7. TaskFor(i)' # 0 => Latest(i)' = Stored(i, e)
    BY <1>3, <1>5, <1>6 DEF Latest, NoTask
<1>8. /\ \A j \in Item : Known(j) = Latest(j) /\ Known(j)' = Latest(j)'
      /\ At("put") /\ ~At("import")'
    BY <1>1 DEF Known, In, Key
<1>9. ASSUME NEW s \in Stamp, Unsent(s),
             \A g \in Field : view[i].at[g].actor = Device => view[i].at[g].clock # s.clock
      PROVE  s.actor = Device /\ s.clock \notin delivered'
    BY <1>1, <1>9 DEF Unsent, DeviceClocks
<1>10. ASSUME NEW j \in Item, j # i, NEW f \in Field, Unsent(view[j].at[f])
       PROVE  view[j].at[f].clock \notin delivered'
    <2>1. ASSUME NEW g \in Field, view[i].at[g].actor = Device,
                 view[i].at[g].clock = view[j].at[f].clock
          PROVE  FALSE
        <3>1. view[j].at[f].actor = Device /\ view[j].at[f].clock \notin delivered
            BY <1>10 DEF Unsent
        <3>2. view[i].at[g] = view[j].at[f]
            <4>1. view[i].at[g] \in Stamp /\ view[j].at[f] \in Stamp
                BY <1>2
            <4>2. \A s, t \in Stamp : s.clock = t.clock /\ s.actor = t.actor => s = t
                BY DEF Stamp
            <4>3. QED
                BY <2>1, <3>1, <4>1, <4>2
        <3>3. QED
            BY <1>10, <3>1, <3>2 DEF SendInv, Stamped, Distinct
    <2>2. QED
        BY <1>2, <1>9, <1>10, <2>1
<1>11. ASSUME NEW j \in Item, NEW f \in Field, Unsent(rows[j].at[f]),
              \A k \in Item, g \in Field : view[k].at[g].clock < rows[j].at[f].clock
       PROVE  rows[j].at[f].clock \notin delivered'
    BY <1>2, <1>9, <1>11
<1>12. \A j \in Item, f \in Field : ViewOf(j, f) /\ RowUnsent(j, f)
    BY <1>8 DEF SendInv, ChangesUnsent
<1>13. ASSUME NEW j \in Item, NEW f \in Field
       PROVE  ViewOf(j, f)' /\ RowUnsent(j, f)'
    <2>1. ViewOf(j, f)'
        BY <1>1, <1>11, <1>12 DEF ViewOf, Unsent
    <2>2. CASE j # i
        <3>1. Known(j)' = Known(j)
            BY <1>3, <1>8, <2>2
        <3>2. Unsent(view[j].at[f]) => view[j].at[f].clock \notin delivered'
            BY <1>10, <2>2
        <3>3. Unsent(rows[j].at[f]) => rows[j].at[f].clock \notin delivered'
            BY <1>11, <1>12, <3>2 DEF ViewOf
        <3>4. Known(j).uid # 0 => tasks'[Known(j).uid] = tasks[Known(j).uid]
            <4>1. Known(j).uid = TaskFor(j) /\ TaskFor(j)' = TaskFor(j)
                BY <1>3, <1>8, <2>2 DEF TaskFor
            <4>2. TaskFor(j) # 0 => TaskFor(j) # TaskOf(i)
                BY <1>3, <2>2, <4>1 DEF Paired
            <4>3. QED
                BY <1>1, <1>2, <4>1, <4>2
        <3>5. /\ Differs(rows[j], Known(j), f)' => Differs(rows[j], Known(j), f)
              /\ Differs(view[j], Known(j), f)' => Differs(view[j], Known(j), f)
            BY <1>1, <3>1, <3>4 DEF Differs, Compares
        <3>6. RowUnsent(j, f)'
            BY <1>1, <1>12, <3>2, <3>3, <3>5 DEF RowUnsent, Unsent
        <3>7. QED
            BY <2>1, <3>6
    <2>3. CASE j = i
        <3>1. CASE TaskFor(i)' = 0
            BY <1>8, <2>1, <2>3, <3>1 DEF RowUnsent, Differs, Compares, TaskFor
        <3>2. CASE TaskFor(i)' # 0
            <4>1. Known(i)' = Stored(i, e)
                BY <1>7, <1>8, <3>2
            <4>2. ~Differs(view[i], Known(i), f)'
                BY <1>1, <1>6, <4>1 DEF Differs
            <4>3. Differs(rows[i], Known(i), f)' => rows[i].val[f] # view[i].val[f]
                BY <1>1, <1>6, <4>1 DEF Differs
            <4>4. rows[i].val[f] # view[i].val[f]
                     => rows'[i].at[f].actor = Device /\ rows'[i].at[f].clock \notin delivered'
                BY <1>1, <1>11, <1>12 DEF ViewOf, Unsent
            <4>5. RowUnsent(i, f)'
                BY <4>2, <4>3, <4>4 DEF RowUnsent, Unsent
            <4>6. QED
                BY <2>1, <2>3, <4>5
        <3>3. QED
            BY <3>1, <3>2
    <2>4. QED
        BY <2>2, <2>3
<1>14. ChangesUnsent'
    BY <1>8, <1>13 DEF ChangesUnsent
<1>15. Stamped'
    <2>1. DeviceClocks(view, i) \subseteq 0 .. clock
        BY <1>2 DEF DeviceClocks, SendInv, Stamped
    <2>2. delivered' \subseteq 0 .. clock'
        BY <1>1, <2>1 DEF SendInv, Stamped
    <2>3. Distinct(rows)' /\ Distinct(view)'
        BY <1>1 DEF SendInv, Stamped, Distinct
    <2>4. QED
        BY <1>1, <2>2, <2>3 DEF SendInv, Stamped
<1>16. EtagsTell'
    <2>0. /\ \A u \in Uid : tasks[u].etag \in Nat /\ tasks[u].etag <= etags /\ NoFetch[u].etag = 0
          /\ bound[i].etag \in Nat
          /\ \A j \in Item : bound[j].etag \in Nat /\ bound[j].etag <= etags
        BY <1>2 DEF SendInv, EtagsTell, Task, ItemBinding, NoFetch
    <2>1. ASSUME NEW u \in Uid
          PROVE  /\ tasks'[u].etag <= etags' /\ fetched'[u].etag <= etags'
                 /\ fetched'[u].etag = tasks'[u].etag /\ tasks'[u].etag # 0
                       => fetched'[u].val = tasks'[u].val
        <3>1. tasks'[u].etag \in {tasks[u].etag, etags + 1} /\ fetched'[u].etag = 0
            BY <1>1, <1>2, <2>0
        <3>2. QED
            BY <1>1, <1>2, <2>0, <3>1
    <2>2. ASSUME NEW j \in Item
          PROVE  bound'[j].etag <= etags' /\ merge'.bound[j].etag <= etags'
        BY <1>1, <1>2, <1>5, <1>6, <2>0
    <2>3. ASSUME NEW j \in Item, TaskFor(j)' # 0, tasks'[TaskFor(j)'].etag # 0,
                 Latest(j)'.etag = tasks'[TaskFor(j)'].etag
          PROVE  tasks'[TaskFor(j)'].val = Latest(j)'.base
        <3>1. CASE j = i
            <4>1. TaskOf(i) \in Uid
                <5>1. TaskOf(i) \in Uid \union {0}
                    BY <1>2, TaskOfType DEF Written, PairInv, BaseInv
                <5>2. QED
                    BY <1>3, <2>3, <3>1, <5>1
            <4>2. tasks'[TaskOf(i)].val = view[i].val
                BY <1>1, <1>2, <4>1
            <4>3. QED
                BY <1>3, <1>6, <1>7, <2>3, <3>1, <4>2
        <3>2. CASE j # i
            <4>1. TaskFor(j)' = TaskFor(j) /\ Latest(j)' = Latest(j) /\ TaskFor(j) # TaskOf(i)
                BY <1>3, <2>3, <3>2 DEF Paired
            <4>2. TaskFor(j) \in Uid
                BY <1>2, <2>3, <4>1
            <4>3. tasks'[TaskFor(j)] = tasks[TaskFor(j)]
                BY <1>1, <1>2, <4>1, <4>2
            <4>4. QED
                BY <2>3, <4>1, <4>3 DEF SendInv, EtagsTell
        <3>3. QED
            BY <3>1, <3>2
    <2>4. QED
        BY <2>1, <2>2, <2>3 DEF EtagsTell
<1>17. QED
    BY <1>14, <1>15, <1>16 DEF SendInv

\* A DELETE delivers nothing.
LEMMA ErasedSends ==
    ASSUME SendInv, FetchInv', NEW i \in Item, Erased(i)
    PROVE  SendInv'
<1>1. /\ UNCHANGED <<clock, rows, bound, etags, delivered, view, fetched>>
      /\ merge' = [merge EXCEPT !.bound[i] = [bound[i] EXCEPT !.gone = TRUE]]
      /\ In("put") /\ In("store")'
    BY DEF Erased
<1>2. /\ merge = NoMerge /\ tasks \in [Uid -> Task] /\ fetched = NoFetch
      /\ bound \in [Item -> ItemBinding] /\ etags \in Nat
      /\ merge \in [rows : [Item -> Row], bound : [Item -> ItemBinding], clock : Nat]
      /\ \A j \in Item : TaskFor(j) \in Uid \union {0}
    BY <1>1, SendTypes DEF In, Key, LocalsKept
<1>3. /\ merge'.bound[i] = [bound[i] EXCEPT !.gone = TRUE]
      /\ \A j \in Item \ {i} : merge'.bound[j] = merge.bound[j]
      /\ \A j \in Item : merge.bound[j] = NoTask
    BY <1>1, <1>2 DEF NoMerge
<1>4. merge'.bound[i].etag = bound[i].etag /\ merge'.bound[i].gone = TRUE
    BY <1>2, <1>3 DEF ItemBinding
<1>5. merge'.bound[i] # NoTask
    BY <1>4 DEF NoTask
<1>6. /\ Latest(i)' = [bound[i] EXCEPT !.gone = TRUE] /\ Latest(i) = bound[i]
      /\ TaskFor(i)' = TaskFor(i)
      /\ \A j \in Item \ {i} : Latest(j)' = Latest(j) /\ TaskFor(j)' = TaskFor(j)
    BY <1>1, <1>2, <1>3, <1>4, <1>5 DEF Latest, TaskFor, ItemBinding
<1>7. /\ \A j \in Item : Known(j) = Latest(j) /\ Known(j)' = Latest(j)'
      /\ At("put") /\ ~At("import")'
    BY <1>1 DEF Known, In, Key
<1>8. \A u \in Uid : /\ tasks'[u].val = tasks[u].val
                     /\ tasks'[u].etag = tasks[u].etag \/ tasks'[u].etag = 0
    BY <1>2, ErasedTasks
<1>9. ChangesUnsent'
    <2>1. ASSUME NEW j \in Item, NEW f \in Field
          PROVE  ViewOf(j, f)' /\ RowUnsent(j, f)'
        <3>1. ViewOf(j, f) /\ RowUnsent(j, f)
            BY <1>7 DEF SendInv, ChangesUnsent
        <3>2. ViewOf(j, f)'
            BY <1>1, <3>1 DEF ViewOf, Unsent
        <3>3. /\ Latest(j)'.uid = Latest(j).uid /\ Latest(j)'.base = Latest(j).base
              /\ Latest(j).uid # 0 /\ Compares(Latest(j))' => Compares(Latest(j))
            <4>1. /\ Latest(j)'.uid = Latest(j).uid /\ Latest(j)'.base = Latest(j).base
                  /\ Latest(j).gone => Latest(j)'.gone
                BY <1>2, <1>6 DEF ItemBinding
            <4>2. Latest(j).uid # 0 => Latest(j).uid \in Uid
                BY <1>2 DEF TaskFor
            <4>3. QED
                BY <1>1, <1>8, <4>1, <4>2 DEF Compares
        <3>4. QED
            BY <1>1, <1>7, <3>1, <3>2, <3>3 DEF RowUnsent, Unsent, Differs
    <2>2. QED
        BY <1>7, <2>1 DEF ChangesUnsent
<1>10. Stamped'
    BY <1>1 DEF SendInv, Stamped, Distinct
<1>11. EtagsTell'
    <2>0. /\ \A u \in Uid : tasks[u].etag \in Nat /\ tasks[u].etag <= etags /\ NoFetch[u].etag = 0
          /\ \A j \in Item : bound[j].etag \in Nat /\ bound[j].etag <= etags
          /\ NoTask.etag = 0
        BY <1>2 DEF SendInv, EtagsTell, Task, ItemBinding, NoFetch, NoTask
    <2>1. ASSUME NEW u \in Uid
          PROVE  /\ tasks'[u].etag <= etags' /\ fetched'[u].etag <= etags'
                 /\ fetched'[u].etag = tasks'[u].etag /\ tasks'[u].etag # 0
                       => fetched'[u].val = tasks'[u].val
        BY <1>1, <1>2, <1>8, <2>0
    <2>2. ASSUME NEW j \in Item
          PROVE  bound'[j].etag <= etags' /\ merge'.bound[j].etag <= etags'
        BY <1>1, <1>2, <1>3, <1>4, <2>0
    <2>3. ASSUME NEW j \in Item, TaskFor(j)' # 0, tasks'[TaskFor(j)'].etag # 0,
                 Latest(j)'.etag = tasks'[TaskFor(j)'].etag
          PROVE  tasks'[TaskFor(j)'].val = Latest(j)'.base
        <3>1. /\ TaskFor(j)' = TaskFor(j) /\ Latest(j)'.etag = Latest(j).etag
              /\ Latest(j)'.base = Latest(j).base
            BY <1>2, <1>6 DEF ItemBinding
        <3>2. TaskFor(j) \in Uid
            BY <1>2, <2>3, <3>1
        <3>3. /\ tasks'[TaskFor(j)].etag = tasks[TaskFor(j)].etag
              /\ tasks'[TaskFor(j)].val = tasks[TaskFor(j)].val
            BY <1>8, <2>3, <3>1, <3>2
        <3>4. QED
            BY <2>3, <3>1, <3>3 DEF SendInv, EtagsTell
    <2>4. QED
        BY <2>1, <2>2, <2>3 DEF EtagsTell
<1>12. QED
    BY <1>9, <1>10, <1>11 DEF SendInv

\* What a pull prepares for a field: the value of the server with a stamp of
\* its own, or the local value where the server has not changed its own.
LEMMA TaskFields ==
    ASSUME SendInv, At("prepare"), NEW i \in Item, NEW u \in Uid, NEW n \in Nat, NEW b, NEW f \in Field,
           NEW r, r = TaskSnapshot(i, u, ProviderStamp(n)), FromTask(i, u, n, r, b)
    PROVE  \/ /\ r.at[f] = ProviderStamp(n) /\ r.val[f] = b.base[f] /\ b.uid = u /\ ~b.gone
              /\ (rows[i].life = "NONE" \/ After(r.at[f], rows[i].at[f]))
           \/ /\ rows[i].life # "NONE" /\ r.at[f] = rows[i].at[f] /\ r.val[f] = rows[i].val[f]
              /\ ~After(r.at[f], rows[i].at[f])
              /\ Differs(rows[i], b, f) => Unsent(rows[i].at[f])
<1>1. /\ b.uid = u /\ b.base = fetched[u].val /\ b.gone = FALSE /\ u # 0 /\ fetched[u].etag # 0
      /\ (bound[i].uid = u \/ rows[i].life = "NONE")
      /\ n > Newest(rows)
    BY IdentityAssumption DEF FromTask, Fresh
<1>2. /\ r.at[f] = IF RemotelyChanged(i, u, f) THEN ProviderStamp(n) ELSE rows[i].at[f]
      /\ r.val[f] = IF RemotelyChanged(i, u, f) THEN fetched[u].val[f] ELSE rows[i].val[f]
    BY DEF TaskSnapshot, Field
<1>3. /\ rows[i].at[f] \in Stamp /\ rows[i].at[f].clock \in Nat
      /\ Newest(rows) \in Nat /\ rows[i].at[f].clock <= Newest(rows)
      /\ rows \in [Item -> Row] /\ merge = NoMerge
      /\ bound[i] \in ItemBinding /\ PairInv /\ FetchInv
    <2>1. rows \in [Item -> Row] /\ bound \in [Item -> ItemBinding] /\ PairInv /\ FetchInv
          /\ LocalsKept /\ TypeInv
          /\ rows[i].at[f] \in Stamp /\ rows[i].at[f].clock \in Nat
        BY SendTypes
    <2>2. merge = NoMerge
        <3>1. In("prepare")
            <4>1. PICK p \in Proc : pc[p] = "prepare"
                BY DEF At
            <4>2. Locked
                BY <2>1, TypeParts
            <4>3. QED
                BY <4>1, <4>2, InBefore DEF Waiting
        <3>2. QED
            BY <2>1, <3>1 DEF LocalsKept, In, Key
    <2>3. QED
        BY <2>1, <2>2, NewestBounds
<1>4. CASE RemotelyChanged(i, u, f)
    <2>1. After(ProviderStamp(n), rows[i].at[f])
        BY <1>1, <1>3 DEF After, ProviderStamp
    <2>2. QED
        BY <1>1, <1>2, <1>4, <2>1
<1>5. CASE ~RemotelyChanged(i, u, f)
    <2>1. rows[i].life # "NONE" /\ bound[i] # NoTask /\ bound[i].base[f] = fetched[u].val[f]
        BY <1>5 DEF RemotelyChanged
    <2>2. bound[i].uid = u /\ TaskFor(i) = u /\ Latest(i) = bound[i]
        BY <1>1, <1>3, <2>1 DEF TaskFor, Latest, NoMerge
    <2>3. Compares(bound[i])
        BY <1>1, <2>2 DEF Compares
    <2>4. Known(i) = bound[i]
        BY <2>2 DEF Known
    <2>5. Differs(rows[i], b, f) => Differs(rows[i], Known(i), f)
        BY <1>1, <2>1, <2>2, <2>3, <2>4 DEF Differs
    <2>6. Differs(rows[i], b, f) => Unsent(rows[i].at[f])
        BY <2>1, <2>5 DEF SendInv, ChangesUnsent, RowUnsent
    <2>7. ~After(rows[i].at[f], rows[i].at[f])
        BY <1>3 DEF After, Stamp
    <2>8. QED
        BY <1>2, <1>5, <2>1, <2>6, <2>7
<1>6. QED
    BY <1>4, <1>5

\* A pull prepares what the server says for what the server changed.
LEMMA ComparedSends ==
    ASSUME SendInv, FetchInv', NEW p \in Proc, Compared(p)
    PROVE  SendInv'
<1>1. /\ UNCHANGED <<clock, rows, bound, tasks, etags, delivered, view>> /\ fetched' = NoFetch
      /\ Prepare(p) /\ In("prepare") /\ In("import")'
    BY DEF Compared
<1>2. /\ At("prepare") /\ ~At("import") /\ At("import")' /\ ~At("put")' /\ ~At("store")'
    BY <1>1 DEF In, Key
<1>3. /\ FetchInv /\ TypeInv /\ LocalsKept /\ merge = NoMerge /\ view = NoView
      /\ bound \in [Item -> ItemBinding] /\ rows \in [Item -> Row]
      /\ tasks \in [Uid -> Task] /\ fetched \in [Uid -> Task] /\ etags \in Nat
      /\ \A j \in Item : TaskFor(j) \in Uid \union {0}
    BY <1>1, SendTypes DEF In, Key, LocalsKept
<1>4. \A i \in Item : Latest(i) = bound[i] /\ Known(i) = bound[i] /\ Known(i)' = bound[i]
    BY <1>1, <1>2, <1>3 DEF Latest, Known, NoMerge
<1>5. /\ \A u \in Uid : /\ tasks[u].etag \in Nat /\ tasks[u].etag <= etags /\ NoFetch[u].etag = 0
                        /\ fetched[u].etag <= etags
                        /\ fetched[u].etag = tasks[u].etag /\ tasks[u].etag # 0
                              => fetched[u].val = tasks[u].val
      /\ \A i \in Item : bound[i].etag \in Nat /\ bound[i].etag <= etags
    BY <1>3 DEF SendInv, EtagsTell, Task, ItemBinding, NoFetch
<1> DEFINE Told(i) ==
               /\ merge'.bound[i].etag <= etags
               /\ TaskFor(i)' # 0 /\ tasks[TaskFor(i)'].etag # 0
                     /\ Latest(i)'.etag = tasks[TaskFor(i)'].etag
                     => tasks[TaskFor(i)'].val = Latest(i)'.base
           Ready(i) ==
               /\ merge'.rows[i].life = "NONE" <=> merge'.bound[i] = NoTask
               /\ merge'.rows[i].life # "NONE" => \A f \in Field : MergeUnsent(i, f)'
<1>6. ASSUME NEW i \in Item, NEW u \in Uid, NEW n \in Nat,
             FromTask(i, u, n, merge'.rows[i], merge'.bound[i])
      PROVE  Told(i) /\ Ready(i)
    <2>1. /\ merge'.rows[i] = TaskSnapshot(i, u, ProviderStamp(n))
          /\ merge'.bound[i].uid = u /\ merge'.bound[i].etag = fetched[u].etag
          /\ merge'.bound[i].base = fetched[u].val /\ merge'.bound[i].gone = FALSE /\ u # 0
        BY <1>6, IdentityAssumption DEF FromTask
    <2>2. merge'.bound[i] # NoTask
        BY <2>1 DEF NoTask
    <2>3. Latest(i)' = merge'.bound[i] /\ TaskFor(i)' = u
        BY <2>1, <2>2 DEF Latest, TaskFor
    <2>4. Told(i)
        BY <1>5, <2>1, <2>3
    <2>5. merge'.rows[i].life # "NONE"
        BY <2>1 DEF TaskSnapshot
    <2>6. ASSUME NEW f \in Field
          PROVE  MergeUnsent(i, f)'
        <3> DEFINE r == merge'.rows[i]
                   b == merge'.bound[i]
        <3>1. \/ /\ r.at[f] = ProviderStamp(n) /\ r.val[f] = b.base[f] /\ b.uid = u /\ ~b.gone
                 /\ (rows[i].life = "NONE" \/ After(r.at[f], rows[i].at[f]))
              \/ /\ rows[i].life # "NONE" /\ r.at[f] = rows[i].at[f] /\ r.val[f] = rows[i].val[f]
                 /\ ~After(r.at[f], rows[i].at[f])
                 /\ Differs(rows[i], b, f) => Unsent(rows[i].at[f])
            <4>1. r = TaskSnapshot(i, u, ProviderStamp(n))
                BY <2>1
            <4>2. FromTask(i, u, n, r, b)
                BY <1>6
            <4> HIDE DEF r, b
            <4>3. QED
                BY <1>2, <4>1, <4>2, TaskFields
        <3>2. CASE /\ r.at[f] = ProviderStamp(n) /\ r.val[f] = b.base[f] /\ b.uid = u /\ ~b.gone
                   /\ (rows[i].life = "NONE" \/ After(r.at[f], rows[i].at[f]))
            <4>1. Overwrites(i, f)'
                BY <1>1, <3>2 DEF Overwrites
            <4>2. merge'.rows[i].at[f].actor = Provider /\ merge'.rows[i].val[f] = merge'.bound[i].base[f]
                BY <3>2 DEF ProviderStamp
            <4>3. QED
                BY <4>1, <4>2 DEF MergeUnsent, Differs
        <3>3. CASE /\ rows[i].life # "NONE" /\ r.at[f] = rows[i].at[f] /\ r.val[f] = rows[i].val[f]
                   /\ ~After(r.at[f], rows[i].at[f])
                   /\ Differs(rows[i], b, f) => Unsent(rows[i].at[f])
            <4>1. ~Overwrites(i, f)'
                BY <1>1, <3>3 DEF Overwrites
            <4>2. Differs(rows[i], merge.bound[i], f)' => Differs(rows[i], b, f)
                BY <1>1, <2>1 DEF Differs, Compares
            <4>3. QED
                BY <1>1, <3>3, <4>1, <4>2 DEF MergeUnsent, Unsent
        <3>4. QED
            BY <3>1, <3>2, <3>3
    <2>7. QED
        BY <2>2, <2>4, <2>5, <2>6
<1>7. ASSUME NEW i \in Item, NEW n \in Nat, FromLoss(i, n, merge'.rows[i], merge'.bound[i])
      PROVE  Told(i) /\ Ready(i)
    <2>1. /\ merge'.bound[i] = [bound[i] EXCEPT !.gone = TRUE] /\ bound[i] \in ItemBinding
          /\ merge'.rows[i] = GoneSnapshot(i, ProviderStamp(n)) /\ rows[i] \in Row
          /\ rows[i].life # "NONE" /\ n > Newest(rows)
        BY <1>3, <1>7 DEF FromLoss
    <2>2. /\ merge'.bound[i].etag = bound[i].etag /\ merge'.bound[i].gone = TRUE
          /\ merge'.bound[i].uid = bound[i].uid
        BY <2>1 DEF ItemBinding
    <2>3. merge'.bound[i] # NoTask
        BY <2>2 DEF NoTask
    <2>4. TaskFor(i)' = bound[i].uid /\ TaskFor(i) = bound[i].uid
        BY <1>4, <2>2, <2>3 DEF Latest, TaskFor
    <2>0. bound[i].uid # 0 => tasks[bound[i].uid].etag = 0 /\ NoFetch[bound[i].uid].etag = 0
        BY <1>2, <1>3, <1>5, <1>7, <2>4 DEF FetchInv, FetchedGone, FromLoss
    <2>5. Told(i)
        BY <1>5, <2>2, <2>4, <2>0
    <2>6. merge'.rows[i].life = "DELETED" /\ \A f \in Field : merge'.rows[i].at[f] = ProviderStamp(n)
        BY <2>1 DEF GoneSnapshot, Row
    <2>7. ASSUME NEW f \in Field
          PROVE  MergeUnsent(i, f)'
        <3>1. After(ProviderStamp(n), rows[i].at[f])
            <4>1. Newest(rows) \in Nat /\ rows[i].at[f].clock <= Newest(rows) /\ rows[i].at[f].clock \in Nat
                BY <1>3, SendTypes, NewestBounds
            <4>2. QED
                BY <2>1, <4>1 DEF After, ProviderStamp
        <3>2. Overwrites(i, f)' /\ merge'.rows[i].at[f].actor = Provider
            BY <1>1, <2>6, <3>1 DEF Overwrites, ProviderStamp
        <3>3. ~Differs(merge.rows[i], merge.bound[i], f)'
            BY <1>1, <2>2, <2>0 DEF Differs, Compares
        <3>4. QED
            BY <3>2, <3>3 DEF MergeUnsent
    <2>8. QED
        BY <2>3, <2>5, <2>6, <2>7
<1>8. ASSUME NEW i \in Item, FromNothing(i, merge'.rows[i], merge'.bound[i])
      PROVE  Told(i) /\ Ready(i)
    <2>1. merge'.rows[i].life = "NONE" /\ merge'.bound[i] = NoTask
        BY <1>8 DEF FromNothing, NoRow
    <2>2. Latest(i)' = Latest(i) /\ TaskFor(i)' = TaskFor(i)
        BY <1>1, <1>3, <2>1 DEF Latest, TaskFor, NoMerge
    <2>3. merge'.bound[i].etag = 0
        BY <2>1 DEF NoTask
    <2>4. Told(i)
        BY <1>3, <2>2, <2>3 DEF SendInv, EtagsTell
    <2>5. QED
        BY <2>1, <2>4
<1>9. \A i \in Item :
          \/ \E u \in Uid, n \in Nat : FromTask(i, u, n, merge'.rows[i], merge'.bound[i])
          \/ \E n \in Nat : FromLoss(i, n, merge'.rows[i], merge'.bound[i])
          \/ FromNothing(i, merge'.rows[i], merge'.bound[i])
    BY <1>1, <1>3, PreparedRows
<1>10. ASSUME NEW i \in Item
       PROVE  Told(i) /\ Ready(i)
    <2>1. CASE \E u \in Uid, n \in Nat : FromTask(i, u, n, merge'.rows[i], merge'.bound[i])
        BY <1>6, <2>1
    <2>2. CASE \E n \in Nat : FromLoss(i, n, merge'.rows[i], merge'.bound[i])
        BY <1>7, <2>2
    <2>3. CASE FromNothing(i, merge'.rows[i], merge'.bound[i])
        BY <1>8, <2>3
    <2>4. QED
        BY <1>9, <2>1, <2>2, <2>3
<1>11. EtagsTell'
    <2>1. \A i \in Item : Told(i)
        BY <1>10
    <2>2. \A u \in Uid : fetched'[u].etag = 0
        BY <1>1, <1>5
    <2>3. QED
        BY <1>1, <1>3, <1>5, <2>1, <2>2 DEF EtagsTell
<1>12. ChangesUnsent'
    <2>1. ASSUME NEW i \in Item, NEW f \in Field
          PROVE  RowUnsent(i, f)'
        <3>1. RowUnsent(i, f)
            BY DEF SendInv, ChangesUnsent
        <3>2. bound[i].uid # 0 => NoFetch[bound[i].uid].etag = 0
            BY <1>3, <1>5 DEF ItemBinding
        <3>3. /\ Differs(rows[i], Known(i), f)' => Differs(rows[i], Known(i), f)
              /\ Differs(view[i], Known(i), f)' => Differs(view[i], Known(i), f)
            BY <1>1, <1>4, <3>2 DEF Differs, Compares
        <3>4. QED
            BY <1>1, <3>1, <3>3 DEF RowUnsent, Unsent
    <2>2. \A i \in Item : Ready(i)
        BY <1>10
    <2>3. QED
        BY <1>2, <2>1, <2>2 DEF ChangesUnsent
<1>13. Stamped'
    BY <1>1 DEF SendInv, Stamped, Distinct
<1>14. QED
    BY <1>11, <1>12, <1>13 DEF SendInv

\* What a field says after the merge.
LEMMA MergedFields ==
    ASSUME SendInv, At("import"), NEW i \in Item, NEW f \in Field, NEW m, m = Merged(merge.rows)[i]
    PROVE  \/ /\ m.at[f] = rows[i].at[f] /\ m.val[f] = rows[i].val[f]
              /\ (merge.rows[i].life = "NONE" \/ ~Overwrites(i, f))
              /\ m.life # "NONE" => rows[i].life # "NONE"
           \/ /\ m.at[f] = merge.rows[i].at[f] /\ m.val[f] = merge.rows[i].val[f]
              /\ merge.rows[i].life # "NONE" /\ m.at[f].actor = Provider
              /\ ~Differs(m, merge.bound[i], f)
<1>1. merge.rows[i].life # "NONE" => MergeUnsent(i, f)
    BY DEF SendInv, ChangesUnsent
<1>2. CASE merge.rows[i].life = "NONE"
    BY <1>2 DEF Merged
<1>3. CASE merge.rows[i].life # "NONE" /\ rows[i].life = "NONE"
    BY <1>1, <1>3 DEF Merged, MergeUnsent, Overwrites
<1>4. CASE merge.rows[i].life # "NONE" /\ rows[i].life # "NONE"
    <2>1. m = MergedRow(rows[i], merge.rows[i])
        BY <1>4 DEF Merged
    <2>2. /\ m.at[f] = IF After(merge.rows[i].at[f], rows[i].at[f]) THEN merge.rows[i].at[f]
                       ELSE rows[i].at[f]
          /\ m.val[f] = IF After(merge.rows[i].at[f], rows[i].at[f]) THEN merge.rows[i].val[f]
                        ELSE rows[i].val[f]
        BY <2>1 DEF MergedRow, Field
    <2>3. Overwrites(i, f) <=> After(merge.rows[i].at[f], rows[i].at[f])
        BY <1>4 DEF Overwrites
    <2>4. CASE Overwrites(i, f)
        <3>1. m.at[f] = merge.rows[i].at[f] /\ m.val[f] = merge.rows[i].val[f]
            BY <2>2, <2>3, <2>4
        <3>2. merge.rows[i].at[f].actor = Provider /\ ~Differs(merge.rows[i], merge.bound[i], f)
            BY <1>1, <1>4, <2>4 DEF MergeUnsent
        <3>3. QED
            BY <1>4, <3>1, <3>2 DEF Differs, Compares
    <2>5. CASE ~Overwrites(i, f)
        BY <1>4, <2>2, <2>3, <2>5
    <2>6. QED
        BY <2>4, <2>5
<1>5. QED
    BY <1>2, <1>3, <1>4

\* What is imported moves only by the cascade.
LEMMA CascadeMoves ==
    ASSUME NEW m \in [Item -> Row], NEW base \in Nat, clock \in Nat, clock' \in Nat,
           clock <= base, clock <= clock',
           \A i \in Item, f \in Field : /\ m[i].at[f].actor = Device => ~New(m[i].at[f])
                                       /\ m[i].at[f].clock <= clock',
           \/ \A i \in Item : rows'[i] = m[i]
           \/ rows' = Cascade(m, base).rows /\ Cascade(m, base).clock <= clock'
    PROVE  Moves(m) /\ \A i \in Item, f \in Field : rows'[i].at[f].clock <= clock'
<1>1. CASE \A i \in Item : rows'[i] = m[i]
    <2>1. \A i, j \in Item, f, g \in Field :
             i # j /\ New(rows'[i].at[f]) => rows'[i].at[f] # rows'[j].at[g]
        BY <1>1 DEF New
    <2>2. QED
        BY <1>1, <2>1 DEF Moves
<1>2. CASE rows' = Cascade(m, base).rows /\ Cascade(m, base).clock <= clock'
    <2>2. /\ \A i \in Item : rows'[i].val.text = m[i].val.text /\ rows'[i].at["text"] = m[i].at["text"]
          /\ rows' \in [Item -> Row] /\ Cascade(m, base).clock \in Nat
        BY <1>2, CascadeType
    <2>3. /\ \A i \in Item :
                \/ rows'[i] = m[i]
                \/ /\ rows'[i].at["checked"].actor = Device
                   /\ base < rows'[i].at["checked"].clock
                   /\ rows'[i].at["checked"].clock <= Cascade(m, base).clock
          /\ \A i, j \in Item : rows'[i] # m[i] /\ rows'[j] # m[j]
                                   /\ rows'[i].at["checked"] = rows'[j].at["checked"] => i = j
        BY <1>2, CascadeStamps
    <2>4. \A i \in Item, f \in Field : rows'[i].at[f].clock \in Nat
        BY <2>2 DEF Row, Stamp
    <2>5. ASSUME NEW i \in Item, NEW f \in Field
          PROVE  \/ rows'[i].at[f] = m[i].at[f] /\ rows'[i].val[f] = m[i].val[f]
                 \/ f = "checked" /\ rows'[i] # m[i] /\ New(rows'[i].at[f])
        <3>1. CASE f = "text"
            BY <2>2, <3>1
        <3>2. CASE f = "checked" /\ rows'[i] # m[i]
            BY <1>2, <2>2, <2>3, <2>4, <3>2 DEF New
        <3>3. CASE rows'[i] = m[i]
            BY <3>3
        <3>4. QED
            BY <3>1, <3>2, <3>3 DEF Field
    <2>6. ASSUME NEW i \in Item, NEW j \in Item, NEW f \in Field, NEW g \in Field, i # j,
                 New(rows'[i].at[f]), rows'[i].at[f] = rows'[j].at[g]
          PROVE  FALSE
        <3>1. rows'[i].at[f] # m[i].at[f] /\ rows'[j].at[g] # m[j].at[g]
            BY <2>6 DEF New
        <3>2. f = "checked" /\ g = "checked" /\ rows'[i] # m[i] /\ rows'[j] # m[j]
            BY <2>5, <3>1
        <3>3. QED
            BY <2>3, <2>6, <3>2
    <2>7. Moves(m)
        BY <2>5, <2>6 DEF Moves
    <2>8. ASSUME NEW i \in Item, NEW f \in Field
          PROVE  rows'[i].at[f].clock <= clock'
        BY <2>5 DEF New
    <2>9. QED
        BY <2>7, <2>8
<1>3. QED
    BY <1>1, <1>2

\* An import moves the rows to what the merge says.
LEMMA TakenMoves ==
    ASSUME SendInv, Taken
    PROVE  /\ Moves(Merged(merge.rows)) /\ Distinct(Merged(merge.rows))
           /\ \A i \in Item, f \in Field :
                 Merged(merge.rows)[i].at[f].actor = Device => ~New(Merged(merge.rows)[i].at[f])
           /\ \A i \in Item, f \in Field : rows'[i].at[f].clock <= clock'
<1> DEFINE m == Merged(merge.rows)
           base == Observed(clock, Newest(merge.rows))
<1>1. /\ TypeInv /\ rows \in [Item -> Row] /\ merge.rows \in [Item -> Row] /\ clock \in Nat
      /\ \A i \in Item, f \in Field :
            /\ rows[i].at[f].clock \in Nat /\ rows[i].at[f].clock <= clock
            /\ merge.rows[i].at[f].clock \in Nat
    BY SendTypes DEF SendInv, Stamped
<1>2. At("import")
    BY DEF Taken, In, Key
<1>3. /\ clock' \in Nat /\ clock <= clock'
      /\ \A i \in Item, f \in Field : merge.rows[i].at[f].clock <= clock' \/ merge.rows = NoView
    BY <1>1, TakenRows
<1>4. ASSUME NEW i \in Item, NEW f \in Field
      PROVE  /\ \/ m[i].at[f] = rows[i].at[f] /\ m[i].val[f] = rows[i].val[f]
                \/ /\ m[i].at[f] = merge.rows[i].at[f] /\ merge.rows[i].life # "NONE"
                   /\ m[i].at[f].actor = Provider
             /\ m[i].at[f].actor = Device => m[i].at[f] = rows[i].at[f] /\ ~New(m[i].at[f])
             /\ m[i].at[f].clock <= clock' /\ m[i].at[f].clock \in Nat
    <2>1. \/ m[i].at[f] = rows[i].at[f] /\ m[i].val[f] = rows[i].val[f]
          \/ /\ m[i].at[f] = merge.rows[i].at[f] /\ merge.rows[i].life # "NONE"
             /\ m[i].at[f].actor = Provider
        BY <1>2, MergedFields
    <2>2. m[i].at[f].actor = Device => m[i].at[f] = rows[i].at[f]
        BY <2>1 DEF Device, Provider
    <2>3. ~New(rows[i].at[f])
        BY <1>1 DEF New
    <2>4. merge.rows = NoView => merge.rows[i].life = "NONE"
        BY DEF NoView, NoRow
    <2>5. m[i].at[f].clock <= clock' /\ m[i].at[f].clock \in Nat
        BY <1>1, <1>3, <2>1, <2>4
    <2>6. QED
        BY <2>1, <2>2, <2>3, <2>5
<1>5. Distinct(m)
    BY <1>4 DEF SendInv, Stamped, Distinct
<1>6. m \in [Item -> Row] /\ Newest(merge.rows) \in Nat
    BY <1>1, MergedTypes, NewestBounds
<1> HIDE DEF m
<1>7. base \in Nat /\ clock <= base
    BY <1>1, <1>6 DEF Observed
<1> HIDE DEF base
<1>8. ASSUME \/ \A i \in Item : rows'[i] = m[i]
             \/ rows' = Cascade(m, base).rows /\ Cascade(m, base).clock <= clock'
      PROVE  /\ Moves(m) /\ Distinct(m)
             /\ \A i \in Item, f \in Field : m[i].at[f].actor = Device => ~New(m[i].at[f])
             /\ \A i \in Item, f \in Field : rows'[i].at[f].clock <= clock'
    BY <1>1, <1>3, <1>4, <1>5, <1>6, <1>7, <1>8, CascadeMoves
<1>9. QED
    <2>1. CASE merge.rows = NoView
        <3>1. \A i \in Item : m[i] = rows[i]
            BY <2>1 DEF m, Merged, NoView, NoRow
        <3>2. rows' = rows
            BY <2>1 DEF Taken
        <3>3. QED
            BY <1>8, <3>1, <3>2 DEF m
    <2>2. CASE merge.rows # NoView
        <3>1. Imported(m, Newest(merge.rows)) /\ UNCHANGED <<bound, coll>>
            BY <2>2 DEF Taken, m
        <3>2. \/ rows' = m
              \/ rows' = Cascade(m, base).rows /\ Cascade(m, base).clock <= clock'
            BY <1>1, <1>6, <3>1, ImportedTypes DEF base
        <3>3. QED
            BY <1>8, <3>2 DEF m
    <2>3. QED
        BY <2>1, <2>2

\* An import leaves what the server has not had, and takes what it says.
LEMMA TakenSends ==
    ASSUME SendInv, FetchInv', Taken
    PROVE  SendInv'
<1> DEFINE m == Merged(merge.rows)
<1>1. /\ UNCHANGED <<bound, tasks, etags, delivered, view, fetched, merge>>
      /\ In("import") /\ In("bind")'
    BY DEF Taken
<1>2. /\ At("import") /\ ~At("import")' /\ ~At("put")' /\ ~At("store")'
    BY <1>1 DEF In, Key
<1>3. /\ PairInv /\ TypeInv /\ LocalsKept /\ view = NoView /\ \A s : New(s) => Unsent(s)
      /\ clock \in Nat /\ clock' \in Nat /\ clock <= clock'
      /\ \A i \in Item : rows'[i].life = m[i].life
    BY <1>1, SendTypes, TakenRows DEF In, Key, LocalsKept
<1>4. /\ Moves(m) /\ Distinct(m)
      /\ \A i \in Item, f \in Field : m[i].at[f].actor = Device => ~New(m[i].at[f])
      /\ \A i \in Item, f \in Field : rows'[i].at[f].clock <= clock'
    BY TakenMoves
<1>5. /\ \A i \in Item : Latest(i)' = Latest(i) /\ TaskFor(i)' = TaskFor(i)
      /\ \A i \in Item : Known(i)' = Latest(i) /\ Known(i) = bound[i]
    BY <1>1, <1>2 DEF Latest, TaskFor, Known
<1>6. Stamped'
    <2>1. delivered' \subseteq 0 .. clock'
        BY <1>1, <1>3 DEF SendInv, Stamped
    <2>2. \A i \in Item, f \in Field : view'[i].at[f].clock <= clock'
        <3>1. \A i \in Item, f \in Field : NoView[i].at[f].clock = 0
            BY DEF NoView, NoRow, Zero
        <3>2. QED
            BY <1>1, <1>3, <3>1
    <2>3. Distinct(rows)'
        BY <1>1, <1>4, MovesApart
    <2>4. Distinct(view)'
        BY <1>1 DEF SendInv, Stamped, Distinct
    <2>5. QED
        BY <1>4, <2>1, <2>2, <2>3, <2>4 DEF Stamped
<1>7. EtagsTell'
    BY <1>1, <1>5 DEF SendInv, EtagsTell
<1>8. ASSUME NEW i \in Item, NEW f \in Field
      PROVE  RowUnsent(i, f)'
    <2>1. view'[i].life = "NONE"
        BY <1>1, <1>3 DEF NoView, NoRow
    <2>2. ASSUME rows'[i].life # "NONE", Differs(rows'[i], Latest(i), f)
          PROVE  Unsent(rows'[i].at[f])
        <3>1. CASE New(rows'[i].at[f])
            BY <1>3, <3>1
        <3>2. CASE rows'[i].at[f] = m[i].at[f] /\ rows'[i].val[f] = m[i].val[f]
            <4>1. \/ /\ m[i].at[f] = rows[i].at[f] /\ m[i].val[f] = rows[i].val[f]
                     /\ (merge.rows[i].life = "NONE" \/ ~Overwrites(i, f))
                     /\ m[i].life # "NONE" => rows[i].life # "NONE"
                  \/ /\ merge.rows[i].life # "NONE" /\ ~Differs(m[i], merge.bound[i], f)
                BY <1>2, MergedFields
            <4>2. /\ merge.rows[i].life = "NONE" <=> merge.bound[i] = NoTask
                  /\ merge.rows[i].life # "NONE" => MergeUnsent(i, f)
                BY <1>2 DEF SendInv, ChangesUnsent
            <4>3. CASE merge.rows[i].life # "NONE" /\ ~Differs(m[i], merge.bound[i], f)
                BY <2>2, <3>2, <4>2, <4>3 DEF Differs, Compares, Latest
            <4>4. CASE /\ m[i].at[f] = rows[i].at[f] /\ m[i].val[f] = rows[i].val[f]
                       /\ merge.rows[i].life = "NONE" /\ rows[i].life # "NONE"
                <5>1. RowUnsent(i, f) /\ Latest(i) = bound[i]
                    BY <4>2, <4>4 DEF SendInv, ChangesUnsent, Latest
                <5>2. QED
                    BY <1>5, <2>2, <3>2, <4>4, <5>1 DEF RowUnsent, Differs, Compares
            <4>5. CASE /\ m[i].at[f] = rows[i].at[f] /\ m[i].val[f] = rows[i].val[f]
                       /\ merge.rows[i].life # "NONE" /\ ~Overwrites(i, f)
                BY <2>2, <3>2, <4>2, <4>5 DEF MergeUnsent, Differs, Compares, Latest
            <4>6. QED
                BY <1>3, <2>2, <4>1, <4>3, <4>4, <4>5
        <3>3. QED
            BY <1>4, <3>1, <3>2 DEF Moves
    <2>3. QED
        BY <1>1, <1>5, <2>1, <2>2 DEF RowUnsent, Unsent, Differs, Compares
<1>9. ChangesUnsent'
    BY <1>2, <1>8 DEF ChangesUnsent
<1>10. QED
    BY <1>6, <1>7, <1>9 DEF SendInv

\* A list that is released has nothing to be sent.
LEMMA ReleasedSends ==
    ASSUME SendInv, FetchInv', NEW p \in Proc, Released(p)
    PROVE  SendInv'
<1>1. /\ UNCHANGED <<clock, rows, tasks, etags, delivered, view, fetched, merge>>
      /\ In("none") /\ In("none")' /\ bound' = [i \in Item |-> NoTask]
    BY DEF Released
<1>2. /\ merge = NoMerge /\ ~At("put")' /\ ~At("store")' /\ ~At("import")' /\ etags \in Nat
    BY <1>1, SendTypes DEF LocalsKept, In, Key
<1>3. \A i \in Item : /\ Latest(i)' = NoTask /\ Known(i)' = NoTask /\ TaskFor(i)' = 0
                      /\ bound'[i].etag = 0
    BY <1>1, <1>2 DEF Latest, Known, TaskFor, NoMerge, NoTask
<1>4. Stamped'
    BY <1>1 DEF SendInv, Stamped, Distinct
<1>5. EtagsTell'
    BY <1>1, <1>2, <1>3 DEF SendInv, EtagsTell
<1>6. \A i \in Item, f \in Field : RowUnsent(i, f)'
    BY <1>3 DEF RowUnsent, Differs, Compares, NoTask
<1>7. QED
    BY <1>2, <1>4, <1>5, <1>6 DEF SendInv, ChangesUnsent

\* A revert leaves nothing to be sent but what the cascade changes anew.
LEMMA RevertedSends ==
    ASSUME SendInv, FetchInv', NEW p \in Proc, Reverted(p)
    PROVE  SendInv'
<1>1. /\ UNCHANGED <<bound, tasks, etags, delivered, view, fetched, merge>>
      /\ In("none") /\ In("none")'
    BY DEF Reverted
<1>2. /\ TypeInv /\ view = NoView /\ ~At("put")' /\ ~At("store")' /\ ~At("import")'
      /\ ~At("import") /\ \A s : New(s) => Unsent(s)
    BY <1>1, SendTypes DEF LocalsKept, In, Key
<1>3. PICK n \in Nat :
          /\ Retained(n) \in [Item -> Row] /\ n <= clock'
          /\ clock \in Nat /\ clock' \in Nat /\ clock <= clock'
          /\ \/ rows' = Retained(n)
             \/ /\ rows' = Cascade(Retained(n), Observed(clock, n)).rows
                /\ Cascade(Retained(n), Observed(clock, n)).clock <= clock'
          /\ \A i \in Item : rows'[i].life = Retained(n)[i].life
    BY <1>2, RevertedRows
<1>4. ASSUME NEW i \in Item, NEW f \in Field
      PROVE  /\ Retained(n)[i].at[f].actor # Device /\ Retained(n)[i].at[f].clock <= clock'
             /\ bound[i] # NoTask => Retained(n)[i].val[f] = bound[i].base[f]
    <2>1. CASE bound[i] = NoTask
        BY <1>3, <2>1 DEF Retained, NoRow, Zero, Device
    <2>2. CASE bound[i] # NoTask
        BY <1>3, <2>2 DEF Retained, Seen, ProviderStamp, Provider, Device
    <2>3. QED
        BY <2>1, <2>2
<1> DEFINE base == Observed(clock, n)
<1>5. base \in Nat /\ clock <= base
    BY <1>3 DEF Observed
<1> HIDE DEF base
<1>6. \/ \A i \in Item : rows'[i] = Retained(n)[i]
      \/ rows' = Cascade(Retained(n), base).rows /\ Cascade(Retained(n), base).clock <= clock'
    BY <1>3 DEF base
<1>7. Moves(Retained(n)) /\ \A i \in Item, f \in Field : rows'[i].at[f].clock <= clock'
    BY <1>3, <1>4, <1>5, <1>6, CascadeMoves
<1>8. Stamped'
    <2>1. delivered' \subseteq 0 .. clock'
        BY <1>1, <1>3 DEF SendInv, Stamped
    <2>2. \A i \in Item, f \in Field : view'[i].at[f].clock <= clock'
        BY <1>1, <1>2, <1>3 DEF NoView, NoRow, Zero
    <2>3. Distinct(Retained(n))
        BY <1>4 DEF Distinct
    <2>4. Distinct(rows)'
        BY <1>1, <1>4, <1>7, <2>3, MovesApart
    <2>5. Distinct(view)'
        BY <1>1 DEF SendInv, Stamped, Distinct
    <2>6. QED
        BY <1>7, <2>1, <2>2, <2>4, <2>5 DEF Stamped
<1>9. \A i \in Item : Latest(i)' = Latest(i) /\ TaskFor(i)' = TaskFor(i) /\ Known(i)' = bound[i]
    <2>1. merge = NoMerge
        BY <1>1, SendTypes DEF LocalsKept, In, Key
    <2>2. QED
        BY <1>1, <2>1 DEF Latest, TaskFor, Known, NoMerge
<1>10. EtagsTell'
    BY <1>1, <1>9 DEF SendInv, EtagsTell
<1>11. ASSUME NEW i \in Item, NEW f \in Field
       PROVE  RowUnsent(i, f)'
    <2>1. view'[i].life = "NONE"
        BY <1>1, <1>2 DEF NoView, NoRow
    <2>2. ASSUME Differs(rows'[i], bound[i], f)
          PROVE  New(rows'[i].at[f])
        <3>1. bound[i] # NoTask
            BY <2>2 DEF Differs, Compares, NoTask
        <3>2. rows'[i].val[f] # Retained(n)[i].val[f]
            BY <1>4, <2>2, <3>1 DEF Differs, Compares
        <3>3. QED
            BY <1>7, <3>2 DEF Moves
    <2>3. QED
        BY <1>1, <1>2, <1>9, <2>1, <2>2 DEF RowUnsent, Unsent, Differs, Compares
<1>12. QED
    BY <1>2, <1>8, <1>10, <1>11 DEF SendInv, ChangesUnsent

\* What was fetched stays right about what is gone until it is compared.
LEMMA NextFetches ==
    ASSUME Faultless, FetchInv, Next
    PROVE  FetchInv'
<1>1. PairInv' /\ PairInv
    BY NextPairs DEF FetchInv
<1>2. BaseInv /\ \A i \in Item : TaskFor(i) \in Uid \union {0}
    BY <1>1, PairTypes
<1>3. SUFFICES ASSUME At("prepare")' PROVE FetchedGone'
    BY <1>1 DEF FetchInv, FetchedGone
<1>4. ASSUME UNCHANGED <<bound, merge, tasks, fetched>>, At("prepare")
      PROVE  FetchedGone'
    BY <1>4 DEF FetchInv, FetchedGone, TaskFor, Latest
<1>5. CASE \E i \in Item, r \in Row : Changed(i, r)
    BY <1>3, <1>4, <1>5, EditLeaves DEF At
<1>6. CASE RemoteAdd \/ RemoteSet \/ RemoteDelete
    <2>1. UNCHANGED <<bound, merge, fetched, pc>>
        BY <1>6, RemoteLeaves
    <2>2. \A i \in Item : TaskFor(i)' = TaskFor(i) /\ TaskFor(i) \in {bound[i].uid, merge.bound[i].uid}
        BY <2>1 DEF TaskFor, Latest
    <2>3. QED
        BY <1>1, <1>2, <1>3, <1>6, <2>1, <2>2, RemoteAbsent DEF FetchInv, FetchedGone, At
<1>7. CASE OwnStep
    <2>1. CASE Aside
        BY <1>3, <1>4, <2>1 DEF Aside, Key
    <2>2. CASE Fetched
        BY <2>2 DEF Fetched, FetchedGone
    <2>3. CASE \/ Cleared \/ Pushed \/ Kept \/ Taken
               \/ \E i \in Item : Written(i) \/ Erased(i) \/ Linked(i)
               \/ \E p \in Proc : Compared(p)
        BY <1>3, <2>3 DEF Cleared, Pushed, Kept, Taken, Written, Erased, Linked, Compared, In, Key
    <2>4. QED
        BY <1>7, <2>1, <2>2, <2>3 DEF OwnStep
<1>8. CASE Decision
    BY <1>3, <1>8 DEF Decision, Reverted, Released, In, Key
<1>9. QED
    BY <1>2, <1>5, <1>6, <1>7, <1>8, StepKinds

LEMMA NextSends ==
    ASSUME Faultless, SendInv, Next
    PROVE  SendInv'
<1>1. FetchInv' /\ BaseInv
    BY NextFetches, SendTypes
<1>2. QED
    BY <1>1, StepKinds, ChangedSends, RemoteSends, LocalSends, WrittenSends, ErasedSends,
       ComparedSends, TakenSends, RevertedSends, ReleasedSends DEF OwnStep, Decision

LEMMA InitSends ==
    ASSUME Init
    PROVE  SendInv
<1>1. FetchInv
    <2>1. ~At("prepare")
        BY InitTables DEF At
    <2>2. QED
        BY <2>1, InitLinks DEF LinkInv, FetchInv, FetchedGone
<1>2. /\ rows = [i \in Item |-> IF i \notin Initial THEN NoRow(i) ELSE FirstRow(i)]
      /\ tasks = [u \in Uid |-> IF \E i \in Initial : TaskAtFirst(i) = u
                   THEN [etag |-> 1, val |-> FirstValue,
                         origin |-> CHOOSE i \in Initial : TaskAtFirst(i) = u]
                   ELSE [etag |-> 0, val |-> NoValue, origin |-> u]]
      /\ bound = [i \in Item |-> IF i \notin Initial THEN NoTask ELSE
                   [uid |-> TaskAtFirst(i), etag |-> 1, base |-> FirstValue, gone |-> FALSE]]
      /\ clock = 1 /\ etags = 1 /\ delivered = {1} /\ merge = NoMerge /\ view = NoView
      /\ fetched = NoFetch /\ \A p \in Proc : pc[p] = "idle"
    BY InitTables
<1>3. \A l \in Key : ~At(l)
    BY <1>2 DEF At, Key
<1>4. \A i \in Item, f \in Field :
          /\ view[i].at[f] = Zero /\ view[i].life = "NONE"
          /\ \/ rows[i].life = "NONE" /\ rows[i].at[f] = Zero
             \/ /\ i \in Initial /\ rows[i].val = FirstValue
                /\ rows[i].at[f] = [clock |-> 1, actor |-> Device]
    BY <1>2 DEF NoView, NoRow, FirstRow
<1>5. Stamped
    BY <1>2, <1>4 DEF Stamped, Distinct, Zero, Device
<1>6. \A i \in Item : /\ Latest(i) = bound[i] /\ merge.bound[i].etag = 0
                      /\ i \in Initial => /\ bound[i].uid = TaskAtFirst(i) /\ bound[i].etag = 1
                                          /\ bound[i].base = FirstValue
                      /\ i \notin Initial => bound[i].uid = 0 /\ bound[i].etag = 0
    BY <1>2 DEF Latest, NoMerge, NoTask
<1>7. \A u \in Uid : /\ tasks[u].etag \in {0, 1} /\ (tasks[u].etag # 0 => tasks[u].val = FirstValue)
                     /\ fetched[u].etag = 0
    BY <1>2 DEF NoFetch
<1>8. EtagsTell
    <2>1. \A i \in Initial : TaskAtFirst(i) \in Uid
        BY InitialTasks
    <2>2. QED
        BY <1>2, <1>6, <1>7, <2>1 DEF EtagsTell, TaskFor
<1>9. ChangesUnsent
    <2>1. \A i \in Item : Known(i) = bound[i]
        BY <1>3, <1>6 DEF Known
    <2>2. \A i \in Item, f \in Field : RowUnsent(i, f)
        BY <1>4, <1>6, <2>1 DEF RowUnsent, Differs, Compares
    <2>3. QED
        BY <1>3, <2>2 DEF ChangesUnsent, Key
<1>10. QED
    BY <1>1, <1>5, <1>8, <1>9 DEF SendInv

LEMMA SameSends ==
    ASSUME SendInv, UNCHANGED vars
    PROVE  SendInv'
<1>2. UNCHANGED <<clock, rows, bound, tasks, etags, pc, view, fetched, merge, delivered>>
    BY DEF vars, device, server, progress, history
<1>1. FetchInv'
    <2>1. PairInv'
        BY SamePairs DEF SendInv, FetchInv
    <2>2. FetchedGone'
        BY <1>2 DEF SendInv, FetchInv, FetchedGone, TaskFor, Latest, At
    <2>3. QED
        BY <2>1, <2>2 DEF FetchInv
<1>3. Stamped' /\ EtagsTell'
    BY <1>2 DEF SendInv, Stamped, Distinct, EtagsTell, TaskFor, Latest
<1>4. ChangesUnsent'
    BY <1>2 DEF SendInv, ChangesUnsent, RowUnsent, ViewOf, MergeUnsent, Overwrites, Differs, Compares, Unsent,
                Known, Latest, At
<1>5. QED
    BY <1>1, <1>3, <1>4 DEF SendInv

\* A PUT changes a field of a task that another client may have written only
\* where the user changed it here and the server has not had that change: no
\* interleaving of edits, merges, retries and decisions sends a change twice.
THEOREM ChangesSentOnce ==
    ASSUME Faultless
    PROVE  Spec => ChangesDeliveredOnce
<1> DEFINE Step == \A p \in Proc, u \in OnServer, i \in todo, f \in Field :
        pc[p] = "put" /\ pc'[p] # "put" /\ bound[i].uid = u /\ tasks'[u] # tasks[u]
            /\ tasks'[u].etag # 0 /\ tasks'[u].val[f] # tasks[u].val[f]
            => view[i].at[f].actor = Device /\ view[i].at[f].clock \notin delivered
<1>1. Init => SendInv
    BY InitSends
<1>2. SendInv /\ [Next]_vars => SendInv'
    BY NextSends, SameSends
<1>3. SendInv /\ [Next]_vars => [Step]_vars
    <2>1. SUFFICES ASSUME SendInv, Next, NEW p \in Proc, NEW u \in OnServer, NEW i \in todo,
                          NEW f \in Field, pc[p] = "put", pc'[p] # "put", bound[i].uid = u,
                          tasks'[u] # tasks[u], tasks'[u].etag # 0,
                          tasks'[u].val[f] # tasks[u].val[f]
                   PROVE  Unsent(view[i].at[f])
        BY DEF Unsent
    <2>2. /\ BaseInv /\ PairInv /\ LocalsKept /\ tasks \in [Uid -> Task] /\ 0 \notin Uid
          /\ i \in Item /\ u \in Uid /\ tasks[u].etag # 0
        BY <2>1, SendTypes, TypeParts, IdentityAssumption DEF BaseInv, LocalsOK, OnServer
    <2>3. PICK k \in Item : Written(k) \/ Erased(k)
        <3>1. ~\E j \in Item, r \in Row : Changed(j, r)
            BY <2>1, EditLeaves
        <3>2. ~(RemoteAdd \/ RemoteSet \/ RemoteDelete)
            BY <2>1, RemoteLeaves
        <3>3. ~Decision
            BY <2>1 DEF Decision, Reverted, Released
        <3>4. OwnStep
            BY <2>1, <2>2, <3>1, <3>2, <3>3, StepKinds
        <3>5. QED
            BY <2>1, <3>4 DEF OwnStep, Aside, Cleared, Pushed, Kept, Fetched, Taken, Linked, Compared
    <2>4. ~Erased(k)
        <3>1. ASSUME Erased(k)
              PROVE  tasks'[u] = tasks[u] \/ tasks'[u].etag = 0
            BY <2>2, <3>1 DEF Erased, Task
        <3>2. QED
            BY <2>1, <3>1
    <2>5. Written(k)
        BY <2>3, <2>4
    <2>6. /\ tasks' = [tasks EXCEPT ![TaskOf(k)] = [etag |-> etags + 1, val |-> view[k].val,
                                                    origin |-> view[k].origin]]
          /\ view[k].life = "ACTIVE" /\ PutPrecondition(bound[k], TaskOf(k)) /\ In("put")
        BY <2>5 DEF Written
    <2>7. u = TaskOf(k) /\ tasks'[u].val = view[k].val
        BY <2>1, <2>2, <2>6
    <2>8. merge = NoMerge
        BY <2>2, <2>6 DEF LocalsKept, In, Key
    <2>9. /\ TaskFor(k) = u /\ TaskFor(i) = u /\ Latest(i) = bound[i] /\ Known(i) = bound[i]
        <3>1. TaskFor(k) = u
            BY <2>1, <2>2, <2>5, <2>7, WrittenLinks DEF SendInv, FetchInv
        <3>2. Latest(i) = bound[i] /\ Known(i) = bound[i]
            BY <2>2, <2>8 DEF Latest, Known, NoMerge
        <3>3. QED
            BY <2>1, <3>1, <3>2 DEF TaskFor
    <2>10. k = i
        BY <2>2, <2>9 DEF PairInv, Paired
    <2>11. ~bound[i].gone /\ bound[i].etag = tasks[u].etag
        BY <2>2, <2>6, <2>7, <2>10 DEF PutPrecondition
    <2>12. tasks[u].val = bound[i].base
        BY <2>1, <2>2, <2>9, <2>11 DEF SendInv, EtagsTell
    <2>13. Differs(view[i], Known(i), f)
        BY <2>1, <2>2, <2>7, <2>9, <2>10, <2>11, <2>12 DEF Differs, Compares
    <2>14. QED
        BY <2>1, <2>2, <2>6, <2>10, <2>13 DEF SendInv, ChangesUnsent, RowUnsent
<1>4. QED
    BY <1>1, <1>2, <1>3, PTL DEF Spec, ChangesDeliveredOnce
=============================================================================
