-------------------------- MODULE ListGroupsProofs --------------------------
(***************************************************************************)
(* A parent is checked exactly when its children are: the completion       *)
(* cascade (recomputeParentCompletionInternal) keeps up with every user    *)
(* operation of one device, as long as no deleted item is restored.        *)
(* restoreItem recomputes the requested parent only when that parent is    *)
(* active, and applyRemote recomputes nothing for creations, deletions and *)
(* restores, so neither hypothesis can be dropped.                         *)
(***************************************************************************)
EXTENDS ListExchangeProofs

-----------------------------------------------------------------------------
(* The cascade at the end of a transaction.                                *)

\* The rows W are the rows mid after the cascade among the parents in P.
Settles(W, mid, k, P) ==
    /\ \A i \in Item, f \in Field : f # "checked" \/ i \notin Flipping(k, mid, P) =>
          W[i].val[f] = mid[i].val[f] /\ W[i].at[f] = mid[i].at[f]
    /\ \A i \in Flipping(k, mid, P) : W[i].val["checked"] = ~mid[i].val["checked"]

\* A transaction ends with it.
LEMMA CommitSettles ==
    ASSUME NEW d \in Device, NEW base \in Nat, NEW k \in SUBSET Item,
           NEW r \in [Item -> Row], NEW P, NEW ws \in Seq(WriteTo(k)),
           PutsOnce(ws \o Flips(k, Written(r, ws, d, base), P))
    PROVE  /\ Written(r, ws, d, base) \in [Item -> Row]
           /\ Written(r, ws \o Flips(k, Written(r, ws, d, base), P), d, base) \in [Item -> Row]
           /\ Settles(Written(r, ws \o Flips(k, Written(r, ws, d, base), P), d, base),
                      Written(r, ws, d, base), k, P)
<1> DEFINE mid == Written(r, ws, d, base)
           flips == Flips(k, mid, P)
           all == ws \o flips
           W == Written(r, all, d, base)
<1>1. /\ ws \in Seq(Write)
      /\ \A xs \in Seq(WriteTo(k)) : xs \in Seq(Write)
    BY DEF WriteTo
<1>2. AfterWrites(mid, r, ws, d, base) /\ mid \in [Item -> Row]
    <2>1. AfterWrites(mid, r, ws, d, base)
        BY <1>1, WrittenRows
    <2>2. QED
        BY <2>1 DEF AfterWrites
<1> HIDE DEF mid
<1>3. flips \in Seq(WriteTo(k)) /\ flips \in Seq(Write) /\ Completes(flips, k, mid, P)
    BY <1>1, <1>2, FlipsType, FlipsOnce
<1> HIDE DEF flips
<1>4. all \in Seq(Write)
    BY <1>1, <1>3
<1>5. /\ \A n \in DOMAIN ws : n \in DOMAIN all /\ all[n] = ws[n]
      /\ \A n \in DOMAIN flips : /\ Len(ws) + n \in DOMAIN all
                                 /\ all[Len(ws) + n] = flips[n]
      /\ \A n \in DOMAIN all : n \in DOMAIN ws \/ \E m \in DOMAIN flips : all[n] = flips[m]
    <2>1. /\ Len(ws) \in Nat /\ Len(flips) \in Nat
          /\ DOMAIN ws = 1 .. Len(ws) /\ DOMAIN flips = 1 .. Len(flips)
          /\ DOMAIN all = 1 .. (Len(ws) + Len(flips))
          /\ \A n \in DOMAIN all : all[n] = IF n <= Len(ws) THEN ws[n] ELSE flips[n - Len(ws)]
        BY <1>1, <1>3
    <2>2. \A n \in DOMAIN all : n > Len(ws) => n - Len(ws) \in DOMAIN flips
        BY <2>1
    <2>3. QED
        BY <2>1, <2>2
<1>6. PutsOnce(all)
    BY DEF mid, flips
<1>7. AfterWrites(W, r, all, d, base) /\ W \in [Item -> Row] /\ HoldWrites(W, all, d, base)
    <2>1. AfterWrites(W, r, all, d, base)
        BY <1>4, WrittenRows
    <2>2. HoldWrites(W, all, d, base)
        BY <1>4, <1>6, WrittenHolds
    <2>3. QED
        BY <2>1, <2>2 DEF AfterWrites
<1> HIDE DEF all, W
<1>8. HoldWrites(mid, ws, d, base)
    <2>1. PutsOnce(ws)
        BY <1>5, <1>6 DEF PutsOnce
    <2>2. QED
        BY <1>1, <2>1, WrittenHolds DEF mid
<1>9. \A n \in DOMAIN flips : \E p \in Flipping(k, mid, P) :
        /\ flips[n].target = p /\ DOMAIN flips[n].puts = {"checked"}
        /\ flips[n].puts["checked"] = ~mid[p].val["checked"]
    BY <1>3, PutPuts DEF Completes
<1>10. ASSUME NEW i \in Item, NEW f \in Field, f # "checked" \/ i \notin Flipping(k, mid, P)
       PROVE  W[i].val[f] = mid[i].val[f] /\ W[i].at[f] = mid[i].at[f]
    <2>1. CASE \E n \in DOMAIN ws : ws[n].target = i /\ f \in DOMAIN ws[n].puts
        <3>1. PICK n \in DOMAIN ws : ws[n].target = i /\ f \in DOMAIN ws[n].puts
            BY <2>1
        <3>2. n \in DOMAIN all /\ all[n] = ws[n]
            BY <1>5
        <3>3. W[i].val[f] = ws[n].puts[f] /\ W[i].at[f] = [clock |-> base + n, actor |-> d]
            BY <1>7, <3>1, <3>2 DEF HoldWrites
        <3>4. mid[i].val[f] = ws[n].puts[f] /\ mid[i].at[f] = [clock |-> base + n, actor |-> d]
            BY <1>8, <3>1 DEF HoldWrites
        <3>5. QED
            BY <3>3, <3>4
    <2>2. CASE ~ \E n \in DOMAIN ws : ws[n].target = i /\ f \in DOMAIN ws[n].puts
        <3>1. ~ \E n \in DOMAIN all : all[n].target = i /\ f \in DOMAIN all[n].puts
            BY <1>5, <1>9, <1>10, <2>2
        <3>2. mid[i].val[f] = r[i].val[f] /\ mid[i].at[f] = r[i].at[f]
            BY <1>2, <2>2 DEF AfterWrites
        <3>3. W[i].val[f] = r[i].val[f] /\ W[i].at[f] = r[i].at[f]
            BY <1>7, <3>1 DEF AfterWrites
        <3>4. QED
            BY <3>2, <3>3
    <2>3. QED
        BY <2>1, <2>2
<1>11. ASSUME NEW i \in Flipping(k, mid, P)
       PROVE  W[i].val["checked"] = ~mid[i].val["checked"]
    <2>1. PICK n \in DOMAIN flips :
            flips[n] = Put("SET_ITEM_CHECKED", i, "checked", ~mid[i].val["checked"])
        BY <1>3 DEF Completes
    <2>2. /\ flips[n].target = i /\ "checked" \in DOMAIN flips[n].puts
          /\ flips[n].puts["checked"] = ~mid[i].val["checked"]
        BY <2>1, PutPuts
    <2>3. Len(ws) + n \in DOMAIN all /\ all[Len(ws) + n] = flips[n]
        BY <1>5
    <2>4. QED
        BY <1>7, <2>2, <2>3 DEF HoldWrites
<1>12. Settles(W, mid, k, P)
    BY <1>10, <1>11 DEF Settles
<1>13. QED
    BY <1>2, <1>7, <1>12 DEF W, all, flips, mid

Agree(k, r, q) == r[q].val["checked"] <=> \A c \in Children(k, r, q) : r[c].val["checked"]

\* After it the parents in P agree with their children, and the others do if
\* they did before it: no child is a parent, so the cascade changes no child.
LEMMA SettledAgree ==
    ASSUME NEW k \in SUBSET Item, NEW mid \in [Item -> Row], NEW W \in [Item -> Row],
           NEW P, Settles(W, mid, k, P)
    PROVE  /\ Parents(k, W) = Parents(k, mid)
           /\ \A q \in Parents(k, W) : q \in P \/ Agree(k, mid, q) => Agree(k, W, q)
<1>1. /\ Parents(k, W) = Parents(k, mid)
      /\ \A p : Children(k, W, p) = Children(k, mid, p)
    <2>1. \A i \in Item : /\ W[i].val["life"] = mid[i].val["life"]
                          /\ W[i].val["parent"] = mid[i].val["parent"]
                          /\ W[i].at["parent"] = mid[i].at["parent"]
        BY DEF Settles, Field
    <2>2. QED
        BY <2>1, SameForest
<1>2. \A i \in Item \ Flipping(k, mid, P) : W[i].val["checked"] = mid[i].val["checked"]
    BY DEF Settles, Field
<1>3. ASSUME NEW q \in Parents(k, mid), q \in P \/ Agree(k, mid, q)
      PROVE  Agree(k, W, q)
    <2>1. \A c \in Children(k, mid, q) : c \in Item /\ c \notin Flipping(k, mid, P)
        <3>1. \A c \in Children(k, mid, q) : c \notin Parents(k, mid)
            BY ChildIsNoParent
        <3>2. QED
            BY <3>1 DEF Flipping, Children, ChildrenOf, Active
    <2>2. (\A c \in Children(k, W, q) : W[c].val["checked"])
            <=> (\A c \in Children(k, mid, q) : mid[c].val["checked"])
        BY <1>1, <1>2, <2>1
    <2>3. q \in Item /\ mid[q].val["checked"] \in BOOLEAN
        BY DEF Parents, Active, Row, Values
    <2>4. CASE q \in Flipping(k, mid, P)
        <3>1. W[q].val["checked"] = ~mid[q].val["checked"]
            BY <2>4 DEF Settles
        <3>2. mid[q].val["checked"] # \A c \in Children(k, mid, q) : mid[c].val["checked"]
            BY <2>4 DEF Flipping
        <3>3. QED
            BY <2>2, <2>3, <3>1, <3>2 DEF Agree
    <2>5. CASE q \notin Flipping(k, mid, P)
        <3>1. W[q].val["checked"] = mid[q].val["checked"]
            BY <1>2, <2>3, <2>5
        <3>2. mid[q].val["checked"] <=> \A c \in Children(k, mid, q) : mid[c].val["checked"]
            BY <1>3, <2>3, <2>5 DEF Flipping, Agree
        <3>3. QED
            BY <2>2, <2>3, <3>1, <3>2 DEF Agree
    <2>6. QED
        BY <2>4, <2>5
<1>4. QED
    BY <1>1, <1>3
-----------------------------------------------------------------------------
(* The groups when every request is granted.                               *)

\* Item c is active and asks to be a child of q.
Asks(k, r, c, q) == c \in Active(k, r) /\ r[c].val["parent"] = q

\* Then the children of an active item are those who ask, and the items
\* shown at top level those who ask for no active parent.
LEMMA GrantedForest ==
    ASSUME NEW k \in SUBSET Item, NEW r \in [Item -> Row], RequestsGranted(k, r)
    PROVE  /\ \A q \in Active(k, r) : \A c : c \in Children(k, r, q) <=> Asks(k, r, c, q)
           /\ \A q : Children(k, r, q) # {} => q \in Active(k, r)
           /\ Shown(k, r) = {i \in Active(k, r) : r[i].val["parent"] \notin Active(k, r)}
<1> DEFINE act == Active(k, r)
           cands == Candidates(Parent(r), act)
<1>1. act \subseteq Item
    BY DEF Active
<1>2. \A c \in act : Parent(r)[c] = r[c].val["parent"]
    BY <1>1 DEF Parent
<1>3. AcceptedChildren(Parent(r), PlacedAt(r), act) = cands
    BY DevicePlacements, TwoLevelsGranted DEF RequestsGranted
<1>4. \A c : c \in cands <=> c \in act /\ r[c].val["parent"] \in act
    BY <1>2 DEF Candidates
<1> HIDE DEF act, cands
<1>5. \A q, c : c \in Children(k, r, q) <=> c \in cands /\ Parent(r)[c] = q
    BY <1>3, <1>4 DEF Children, ChildrenOf, act
<1>6. Shown(k, r) = act \ cands
    BY <1>3 DEF Shown, TopLevel, act
<1>7. QED
    BY <1>2, <1>4, <1>5, <1>6 DEF Asks, act

\* The requests are granted if none is for an item that asks for an active
\* parent itself.
LEMMA RequestsOfTwoLevels ==
    ASSUME NEW k \in SUBSET Item, NEW r \in [Item -> Row]
    PROVE  RequestsGranted(k, r) <=>
              /\ \A i \in Item : r[i].val["parent"] \in k \union {NoItem}
              /\ \A c, q \in Active(k, r) :
                    Asks(k, r, c, q) => r[q].val["parent"] \notin Active(k, r)
<1> DEFINE act == Active(k, r)
           cands == Candidates(Parent(r), act)
<1>1. act \subseteq Item
    BY DEF Active
<1>2. \A c \in act : Parent(r)[c] = r[c].val["parent"]
    BY <1>1 DEF Parent
<1>3. \A c : c \in cands <=> c \in act /\ r[c].val["parent"] \in act
    BY <1>2 DEF Candidates
<1>4. (\A c \in cands : Parent(r)[c] \notin cands)
        <=> \A c, q \in act : r[c].val["parent"] = q => r[q].val["parent"] \notin act
    BY <1>2, <1>3
<1>5. QED
    BY <1>4 DEF RequestsGranted, Asks

\* What a transaction owes: its writes alone leave every request granted, and
\* every parent that disagrees with its children to the cascade.
Groups(k, mid, P) ==
    /\ RequestsGranted(k, mid)
    /\ \A q \in Parents(k, mid) : q \in P \/ Agree(k, mid, q)

\* A transaction that does keeps the groups of its only device.
LEMMA CommitKeepsGroups ==
    ASSUME GroupsInv, HistoryInv', NoFieldRegresses,
           NEW d \in Device, \A e \in Device : e = d,
           NEW base \in Nat, NEW k \in SUBSET Item, known[d] \subseteq k,
           NEW r \in [Item -> Row], NEW P, NEW ws \in Seq(WriteTo(k)),
           PutsOnce(ws \o Flips(k, Written(r, ws, d, base), P)),
           Groups(k, Written(r, ws, d, base), P),
           Commit(d, base, k, r, ws, P), UNCHANGED packages
    PROVE  GroupsInv'
<1> DEFINE mid == Written(r, ws, d, base)
           W == Written(r, ws \o Flips(k, mid, P), d, base)
<1>1. /\ mid \in [Item -> Row] /\ W \in [Item -> Row] /\ Settles(W, mid, k, P)
    BY CommitSettles
<1>2. TypeOK /\ TypeOK' /\ PackagesOld
    BY DEF GroupsInv, HistoryInv, IInv
<1>3. known'[d] = k /\ rows'[d] = W
    BY <1>2 DEF Commit, TypeOK
<1>4. Groups(k, mid, P)
    OBVIOUS
<1> HIDE DEF mid, W
<1>5. ParentsAgreeWithChildren'
    <2>1. \A q \in Parents(k, W) : Agree(k, W, q)
        BY <1>1, <1>4, SettledAgree DEF Groups
    <2>2. QED
        BY <1>3, <2>1 DEF ParentsAgreeWithChildren, Agree
<1>6. RequestsGranted(known'[d], rows'[d])
    <2>1. /\ Active(k, W) = Active(k, mid) /\ Parent(W) = Parent(mid)
          /\ \A i \in Item : W[i].val["parent"] = mid[i].val["parent"]
        BY <1>1 DEF Settles, Active, Parent, Field
    <2>2. QED
        BY <1>3, <1>4, <2>1 DEF Groups, RequestsGranted
<1>7. PackagesOld'
    <2> SUFFICES ASSUME NEW pkg \in packages
                 PROVE  /\ pkg.known \subseteq known'[d]
                        /\ \A i \in Item, f \in Field :
                              ~After(pkg.rows[i].at[f], rows'[d][i].at[f])
        BY DEF PackagesOld
    <2>0. pkg.known \subseteq known'[d]
        BY <1>2, <1>3 DEF PackagesOld
    <2> SUFFICES ASSUME NEW i \in Item, NEW f \in Field
                 PROVE  ~After(pkg.rows[i].at[f], rows'[d][i].at[f])
        BY <2>0
    <2>1. ~After(pkg.rows[i].at[f], rows[d][i].at[f])
        BY <1>2 DEF PackagesOld
    <2>2. /\ pkg.rows[i].at[f] \in Stamp /\ rows[d][i].at[f] \in Stamp
          /\ rows'[d][i].at[f] \in Stamp
        BY <1>2 DEF TypeOK, Row
    <2>3. \/ rows'[d][i].at[f] = rows[d][i].at[f]
          \/ After(rows'[d][i].at[f], rows[d][i].at[f])
        BY DEF NoFieldRegresses
    <2>4. QED
        BY <1>3, <2>1, <2>2, <2>3, NotAfterOrder
<1>8. QED
    BY <1>5, <1>6, <1>7 DEF GroupsInv

\* A user operation, then.
LEMMA OperationKeepsGroups ==
    ASSUME GroupsInv, NEW d \in Device, \A e \in Device : e = d,
           NEW op, NEW k, NEW ws, NEW P, Transaction(d, op, k, ws, P),
           Groups(k, Written(rows[d], ws, d, clock[d]), P)
    PROVE  GroupsInv'
<1>1. HistoryInv /\ TypeOK
    BY DEF GroupsInv, HistoryInv, IInv
<1>2. HistoryInv' /\ NoFieldRegresses
    BY <1>1, TransactionKeepsHistory DEF Step
<1>3. clock[d] \in Nat /\ rows[d] \in [Item -> Row]
    BY <1>1 DEF TypeOK
<1>4. /\ k \in SUBSET Item /\ known[d] \subseteq k /\ ws \in Seq(WriteTo(k))
      /\ Commit(d, clock[d], k, rows[d], ws, P) /\ UNCHANGED packages
      /\ PutsOnce(ws \o Flips(k, Written(rows[d], ws, d, clock[d]), P))
    BY DEF Transaction, Local
<1>5. QED
    BY <1>1, <1>2, <1>3, <1>4, CommitKeepsGroups
-----------------------------------------------------------------------------
(* Every user operation but a restore.                                     *)

\* Rows with the same placements and lifecycles have the same groups.
LEMMA SameGroups ==
    ASSUME NEW k \in SUBSET Item, NEW r, NEW s,
           \A i \in Item : /\ r[i].val["life"] = s[i].val["life"]
                           /\ r[i].val["parent"] = s[i].val["parent"]
                           /\ r[i].at["parent"] = s[i].at["parent"],
           RequestsGranted(k, r)
    PROVE  /\ RequestsGranted(k, s)
           /\ Parents(k, s) = Parents(k, r)
           /\ \A p : Children(k, s, p) = Children(k, r, p)
<1>1. Active(k, r) = Active(k, s) /\ Parent(r) = Parent(s)
    BY DEF Active, Parent
<1>2. RequestsGranted(k, s)
    BY <1>1 DEF RequestsGranted
<1>3. QED
    BY <1>2, SameForest

\* What the rows of the only device satisfy before it.
LEMMA GroupsBefore ==
    ASSUME GroupsInv, NEW d \in Device
    PROVE  /\ TypeOK /\ KnownRecorded
           /\ known[d] \in SUBSET Item /\ rows[d] \in [Item -> Row] /\ clock[d] \in Nat
           /\ RequestsGranted(known[d], rows[d])
           /\ \A q \in Parents(known[d], rows[d]) : Agree(known[d], rows[d], q)
BY DEF GroupsInv, HistoryInv, IInv, TypeOK, ParentsAgreeWithChildren, Agree

\* The rows after the writes of a transaction, field by field.
LEMMA MidFields ==
    ASSUME TypeOK, NEW d \in Device, NEW op, NEW k, NEW ws, NEW P,
           Transaction(d, op, k, ws, P), NEW mid, mid = Written(rows[d], ws, d, clock[d])
    PROVE  /\ mid \in [Item -> Row]
           /\ \A n \in DOMAIN ws : \A f \in DOMAIN ws[n].puts :
                 mid[ws[n].target].val[f] = ws[n].puts[f]
           /\ \A i \in Item, f \in Field :
                 (\A n \in DOMAIN ws : ws[n].target = i => f \notin DOMAIN ws[n].puts) =>
                    mid[i].val[f] = rows[d][i].val[f] /\ mid[i].at[f] = rows[d][i].at[f]
<1>1. k \in SUBSET Item /\ ws \in Seq(WriteTo(k)) /\ ws \in Seq(Write)
    BY DEF Transaction, WriteTo
<1>2. AfterWrites(mid, rows[d], ws, d, clock[d]) /\ mid \in [Item -> Row]
    BY <1>1, MidRows
<1>3. PutsOnce(ws)
    <2> DEFINE flips == Flips(k, mid, P)
    <2>1. flips \in Seq(WriteTo(k))
        BY <1>1, <1>2, FlipsType
    <2>2. PutsOnce(ws \o flips)
        BY DEF Transaction
    <2> HIDE DEF flips
    <2>3. \A n \in DOMAIN ws : n \in DOMAIN (ws \o flips) /\ (ws \o flips)[n] = ws[n]
        BY <1>1, <2>1
    <2>4. QED
        BY <2>2, <2>3 DEF PutsOnce
<1>4. HoldWrites(mid, ws, d, clock[d])
    BY <1>1, <1>3, WrittenHolds
<1>5. QED
    BY <1>2, <1>4 DEF HoldWrites, AfterWrites

\* setItemText does not touch the groups.
LEMMA SetTextKeepsGroups ==
    ASSUME GroupsInv, NEW d \in Device, \A e \in Device : e = d, SetText(d)
    PROVE  GroupsInv'
<1> DEFINE k == known[d]
           r == rows[d]
<1>1. PICK i \in Active(k, r), t \in Text :
        Local(d, "SET_ITEM_TEXT", k, <<Put("SET_ITEM_TEXT", i, "text", t)>>, {})
    BY DEF SetText
<1> DEFINE ws == <<Put("SET_ITEM_TEXT", i, "text", t)>>
           mid == Written(r, ws, d, clock[d])
<1>2. /\ TypeOK /\ k \in SUBSET Item /\ r \in [Item -> Row] /\ RequestsGranted(k, r)
      /\ \A q \in Parents(k, r) : Agree(k, r, q)
    BY GroupsBefore
<1>3. Transaction(d, "SET_ITEM_TEXT", k, ws, {})
    <2>1. LifecyclePut(Put("SET_ITEM_TEXT", i, "text", t))
        BY PutPuts DEF LifecyclePut
    <2>2. i \in known[d]
        BY DEF Active
    <2>3. QED
        BY <1>1, <1>2, <2>1, <2>2, SinglePut, FieldValues DEF Operation
<1>4. \A n \in DOMAIN ws : DOMAIN ws[n].puts = {"text"}
    BY PutPuts
<1> HIDE DEF ws
<1>5. \A j \in Item, f \in {"life", "parent", "checked"} :
        mid[j].val[f] = r[j].val[f] /\ mid[j].at[f] = r[j].at[f]
    BY <1>2, <1>3, <1>4, MidFields DEF Field
<1> HIDE DEF mid
<1>6. /\ RequestsGranted(k, mid) /\ Parents(k, mid) = Parents(k, r)
      /\ \A p : Children(k, mid, p) = Children(k, r, p)
    BY <1>2, <1>5, SameGroups
<1>7. \A q \in Parents(k, mid) : Agree(k, mid, q)
    <2>1. \A q : Parents(k, r) \subseteq Item /\ Children(k, r, q) \subseteq Item
        BY <1>2 DEF Parents, Children, ChildrenOf, Active
    <2>2. QED
        BY <1>2, <1>5, <1>6, <2>1 DEF Agree
<1>8. Groups(k, mid, {})
    BY <1>6, <1>7 DEF Groups
<1>9. QED
    BY <1>3, <1>8, OperationKeepsGroups DEF mid

\* setItemsChecked recomputes every parent of the list.
LEMMA SetCheckedKeepsGroups ==
    ASSUME GroupsInv, NEW d \in Device, \A e \in Device : e = d, SetChecked(d)
    PROVE  GroupsInv'
<1> DEFINE k == known[d]
           r == rows[d]
           P == Parents(k, r)
<1>1. PICK i \in Active(k, r), b \in BOOLEAN :
        LET changed == {j \in {i} \union Children(k, r, i) : r[j].val["checked"] # b}
        IN  Local(d, "SET_ITEM_CHECKED", k, PutAll("SET_ITEM_CHECKED", changed, "checked", b), P)
    BY DEF SetChecked
<1> DEFINE changed == {j \in {i} \union Children(k, r, i) : r[j].val["checked"] # b}
           ws == PutAll("SET_ITEM_CHECKED", changed, "checked", b)
           mid == Written(r, ws, d, clock[d])
<1>2. /\ TypeOK /\ k \in SUBSET Item /\ r \in [Item -> Row] /\ RequestsGranted(k, r)
    BY GroupsBefore
<1>3. Transaction(d, "SET_ITEM_CHECKED", k, ws, P)
    BY <1>1, <1>2, SetCheckedTransaction
<1>4. \A n \in DOMAIN ws : DOMAIN ws[n].puts = {"checked"}
    <2>1. changed \in SUBSET Item
        BY <1>2 DEF Active, Children, ChildrenOf
    <2>2. PutsAll(ws, "SET_ITEM_CHECKED", changed, "checked", b)
        BY <2>1, PutSetOnce
    <2>3. QED
        BY <2>2, PutPuts DEF PutsAll
<1> HIDE DEF ws
<1>5. \A j \in Item, f \in {"life", "parent"} :
        mid[j].val[f] = r[j].val[f] /\ mid[j].at[f] = r[j].at[f]
    BY <1>2, <1>3, <1>4, MidFields DEF Field
<1> HIDE DEF mid
<1>6. RequestsGranted(k, mid) /\ Parents(k, mid) = P
    BY <1>2, <1>5, SameGroups
<1>7. Groups(k, mid, P)
    BY <1>6 DEF Groups
<1>8. QED
    BY <1>3, <1>7, OperationKeepsGroups DEF mid

\* A parent whose children and marks are those it had agrees as it did.
LEMMA AgreeStays ==
    ASSUME NEW k, NEW r, NEW m, NEW s, NEW q, Agree(k, r, q),
           Children(m, s, q) = Children(k, r, q),
           \A i \in {q} \union Children(k, r, q) : s[i].val["checked"] = r[i].val["checked"]
    PROVE  Agree(m, s, q)
BY DEF Agree

\* addItem and addSubItem: nobody asks for a fresh item, and the parent it
\* asks for is recomputed.
LEMMA AddItemKeepsGroups ==
    ASSUME GroupsInv, NEW d \in Device, \A e \in Device : e = d, AddItem(d)
    PROVE  GroupsInv'
<1>1. PICK i \in Item, t \in Text, p \in Item \union {NoItem} :
        /\ \A c \in changes : c.target # i
        /\ p # NoItem => p \in Shown(known[d], rows[d])
        /\ Local(d, "CREATE_ITEM", known[d] \union {i},
                 <<[op |-> "CREATE_ITEM", target |-> i,
                    puts |-> [text |-> t, checked |-> FALSE, parent |-> p]]>>, {p})
    BY DEF AddItem
<1> DEFINE k0 == known[d]
           k == known[d] \union {i}
           r == rows[d]
           payload == [text |-> t, checked |-> FALSE, parent |-> p]
           ws == <<[op |-> "CREATE_ITEM", target |-> i, puts |-> payload]>>
           mid == Written(r, ws, d, clock[d])
<1>2. /\ TypeOK /\ KnownRecorded /\ k0 \in SUBSET Item /\ r \in [Item -> Row]
      /\ RequestsGranted(k0, r) /\ \A q \in Parents(k0, r) : Agree(k0, r, q)
    BY GroupsBefore
<1>3. Transaction(d, "CREATE_ITEM", k, ws, {p})
    BY <1>1, <1>2, AddItemTransaction
<1>4. /\ DOMAIN ws = {1} /\ ws[1].target = i
      /\ DOMAIN ws[1].puts = {"text", "checked", "parent"} /\ ws[1].puts["parent"] = p
    OBVIOUS
<1> HIDE DEF ws
<1>5. /\ mid \in [Item -> Row] /\ mid[i].val["parent"] = p
      /\ mid[i].val["life"] = r[i].val["life"]
      /\ \A j \in Item \ {i}, f \in Field : mid[j].val[f] = r[j].val[f]
    <2>1. "parent" \in DOMAIN ws[1].puts /\ "life" \notin DOMAIN ws[1].puts /\ "life" \in Field
        BY <1>4 DEF Field
    <2>2. QED
        BY <1>2, <1>3, <1>4, <2>1, MidFields
<1> HIDE DEF mid
<1>6. /\ i \notin k0 /\ r[i].val["life"] = "ACTIVE" /\ i # NoItem
      /\ \A j \in Item : r[j].val["parent"] \in k0 \union {NoItem}
    <2>1. i \notin k0
        BY <1>1, <1>2 DEF KnownRecorded
    <2>2. r[i] = Blank
        BY <1>2, <2>1 DEF TypeOK
    <2>3. r[i].val["life"] = "ACTIVE"
        <3>1. Blank.val["life"] = "ACTIVE"
            BY DEF Blank
        <3>2. QED
            BY <2>2, <3>1
    <2>4. i # NoItem
        BY ItemAssumption
    <2>5. \A j \in Item : r[j].val["parent"] \in k0 \union {NoItem}
        BY <1>2 DEF RequestsGranted
    <2>6. QED
        BY <2>1, <2>3, <2>4, <2>5
<1>7. Active(k, mid) = Active(k0, r) \union {i}
    <2>1. \A j \in k0 : mid[j].val["life"] = r[j].val["life"]
        BY <1>2, <1>5, <1>6 DEF Field
    <2>2. mid[i].val["life"] = "ACTIVE"
        BY <1>5, <1>6
    <2>3. QED
        BY <2>1, <2>2 DEF Active
<1>8. \A j \in Item \ {i} : mid[j].val["parent"] = r[j].val["parent"]
    BY <1>5 DEF Field
<1>9. /\ p \in k0 \union {NoItem} /\ p # i
      /\ p \in Active(k0, r) => r[p].val["parent"] \notin Active(k0, r)
    <2>1. CASE p = NoItem
        BY <1>2, <1>6, <2>1, ItemAssumption DEF Active
    <2>2. CASE p # NoItem
        <3>1. p \in Active(k0, r) /\ r[p].val["parent"] \notin Active(k0, r)
            BY <1>1, <1>2, <2>2, GrantedForest
        <3>2. QED
            BY <1>6, <3>1 DEF Active
    <2>3. QED
        BY <2>1, <2>2
<1>10. Active(k0, r) \subseteq k0 /\ k0 \subseteq Item /\ k \in SUBSET Item
    BY <1>2 DEF Active
<1>11. \A c, q : Asks(k, mid, c, q) <=> Asks(k0, r, c, q) \/ (c = i /\ q = p)
    BY <1>5, <1>6, <1>7, <1>8, <1>10 DEF Asks
<1>12. RequestsGranted(k, mid)
    <2>1. \A j \in Item : mid[j].val["parent"] \in k \union {NoItem}
        BY <1>5, <1>6, <1>8, <1>9
    <2>2. ASSUME NEW c \in Active(k, mid), NEW q \in Active(k, mid), Asks(k, mid, c, q)
          PROVE  mid[q].val["parent"] \notin Active(k, mid)
        <3>1. q # i
            BY <1>6, <1>9, <1>10, <1>11, <2>2 DEF Asks
        <3>2. q \in Active(k0, r) /\ q \in Item /\ mid[q].val["parent"] = r[q].val["parent"]
            BY <1>7, <1>8, <1>10, <3>1
        <3>3. r[q].val["parent"] # i
            BY <1>6, <3>2
        <3>4. CASE Asks(k0, r, c, q)
            <4>1. c \in Active(k0, r)
                BY <3>4 DEF Asks
            <4>2. r[q].val["parent"] \notin Active(k0, r)
                BY <1>2, <3>2, <3>4, <4>1, RequestsOfTwoLevels
            <4>3. QED
                BY <1>7, <3>2, <3>3, <4>2
        <3>5. CASE c = i /\ q = p
            BY <1>7, <1>9, <3>2, <3>3, <3>5
        <3>6. QED
            BY <1>11, <2>2, <3>4, <3>5
    <2>3. QED
        BY <1>5, <1>10, <2>1, <2>2, RequestsOfTwoLevels
<1>13. ASSUME NEW q \in Parents(k, mid), q # p
       PROVE  Agree(k, mid, q)
    <2>1. q \in Active(k, mid) /\ Children(k, mid, q) # {}
        BY DEF Parents
    <2>2. \A c : c \in Children(k, mid, q) <=> Asks(k0, r, c, q)
        BY <1>5, <1>10, <1>11, <1>12, <1>13, <2>1, GrantedForest
    <2>3. q # i
        BY <1>6, <1>10, <2>1, <2>2 DEF Asks
    <2>4. q \in Active(k0, r)
        BY <1>7, <2>1, <2>3
    <2>5. Children(k0, r, q) = Children(k, mid, q)
        BY <1>2, <2>2, <2>4, GrantedForest
    <2>6. q \in Parents(k0, r)
        BY <2>1, <2>4, <2>5 DEF Parents
    <2>7. \A j \in {q} \union Children(k0, r, q) : j \in Item \ {i}
        BY <1>6, <1>10, <2>2, <2>4, <2>5 DEF Asks
    <2>8. \A j \in {q} \union Children(k0, r, q) : mid[j].val["checked"] = r[j].val["checked"]
        BY <1>5, <2>7 DEF Field
    <2>9. QED
        BY <1>2, <2>5, <2>6, <2>8, AgreeStays
<1>14. Groups(k, mid, {p})
    BY <1>12, <1>13 DEF Groups
<1>15. QED
    BY <1>3, <1>14, OperationKeepsGroups DEF mid

\* moveItem: the item has no children and joins an item that is nobody's
\* child; the parent it leaves and the parent it joins are recomputed.
LEMMA MoveItemKeepsGroups ==
    ASSUME GroupsInv, NEW d \in Device, \A e \in Device : e = d, MoveItem(d)
    PROVE  GroupsInv'
<1> DEFINE k == known[d]
           r == rows[d]
<1>1. PICK i \in Active(k, r), p \in Item \union {NoItem} :
        /\ p # i
        /\ p # NoItem => p \in Shown(k, r) /\ Children(k, r, i) = {}
        /\ Local(d, "SET_ITEM_PLACEMENT", k, <<Put("SET_ITEM_PLACEMENT", i, "parent", p)>>,
                 OldParent(k, r, i) \union {p})
    BY DEF MoveItem
<1> DEFINE P == OldParent(k, r, i) \union {p}
           ws == <<Put("SET_ITEM_PLACEMENT", i, "parent", p)>>
           mid == Written(r, ws, d, clock[d])
<1>2. /\ TypeOK /\ k \in SUBSET Item /\ r \in [Item -> Row]
      /\ RequestsGranted(k, r) /\ \A q \in Parents(k, r) : Agree(k, r, q)
    BY GroupsBefore
<1>3. Transaction(d, "SET_ITEM_PLACEMENT", k, ws, P)
    <2>1. LifecyclePut(Put("SET_ITEM_PLACEMENT", i, "parent", p))
        BY PutPuts DEF LifecyclePut
    <2>2. i \in known[d]
        BY DEF Active
    <2>3. QED
        BY <1>1, <1>2, <2>1, <2>2, SinglePut, FieldValues DEF Operation
<1>4. /\ DOMAIN ws = {1} /\ ws[1].target = i
      /\ DOMAIN ws[1].puts = {"parent"} /\ ws[1].puts["parent"] = p
    BY PutPuts
<1> HIDE DEF ws, P
<1>5. /\ mid \in [Item -> Row] /\ mid[i].val["parent"] = p
      /\ \A j \in Item : \A f \in {"life", "checked"} : mid[j].val[f] = r[j].val[f]
      /\ \A j \in Item \ {i} : mid[j].val["parent"] = r[j].val["parent"]
    BY <1>2, <1>3, <1>4, MidFields DEF Field
<1> HIDE DEF mid
<1>6. Active(k, mid) = Active(k, r) /\ Active(k, r) \subseteq k /\ k \subseteq Item
    BY <1>2, <1>5 DEF Active
<1>7. \A c, q : Asks(k, mid, c, q) <=> IF c = i THEN q = p ELSE Asks(k, r, c, q)
    BY <1>5, <1>6 DEF Asks
<1>8. /\ p \in k \union {NoItem}
      /\ p \in Active(k, r) => /\ r[p].val["parent"] \notin Active(k, r)
                               /\ Children(k, r, i) = {}
    <2>1. CASE p = NoItem
        BY <1>2, <2>1, ItemAssumption DEF Active
    <2>2. CASE p # NoItem
        BY <1>1, <1>2, <1>6, <2>2, GrantedForest
    <2>3. QED
        BY <2>1, <2>2
<1>9. RequestsGranted(k, mid)
    <2>1. \A j \in Item : mid[j].val["parent"] \in k \union {NoItem}
        BY <1>2, <1>5, <1>8 DEF RequestsGranted
    <2>2. ASSUME NEW c \in Active(k, mid), NEW q \in Active(k, mid), Asks(k, mid, c, q)
          PROVE  mid[q].val["parent"] \notin Active(k, mid)
        <3>1. CASE c = i
            <4>1. q = p /\ q \in Item \ {i}
                BY <1>1, <1>6, <1>7, <2>2, <3>1
            <4>2. QED
                BY <1>5, <1>6, <1>8, <4>1
        <3>2. CASE c # i
            <4>1. Asks(k, r, c, q)
                BY <1>7, <2>2, <3>2
            <4>2. r[q].val["parent"] \notin Active(k, r)
                BY <1>2, <1>6, <4>1, RequestsOfTwoLevels
            <4>3. CASE q = i
                <5>1. c \in Children(k, r, i)
                    BY <1>2, <4>1, <4>3, GrantedForest
                <5>2. p \notin Active(k, r)
                    BY <1>8, <5>1
                <5>3. QED
                    BY <1>5, <1>6, <4>3, <5>2
            <4>4. CASE q # i
                BY <1>5, <1>6, <4>2, <4>4
            <4>5. QED
                BY <4>3, <4>4
        <3>3. QED
            BY <3>1, <3>2
    <2>3. QED
        BY <1>2, <1>5, <2>1, <2>2, RequestsOfTwoLevels
<1>10. ASSUME NEW q \in Parents(k, mid), q \notin P
       PROVE  Agree(k, mid, q)
    <2>1. q \in Active(k, r) /\ Children(k, mid, q) # {} /\ q # p
        BY <1>6, <1>10 DEF Parents, P
    <2>2. i \notin Children(k, r, q)
        BY <1>10, <2>1 DEF P, OldParent, Parents
    <2>3. /\ \A c : c \in Children(k, r, q) <=> Asks(k, r, c, q)
          /\ \A c : c \in Children(k, mid, q) <=> Asks(k, mid, c, q)
        BY <1>2, <1>5, <1>6, <1>9, <2>1, GrantedForest
    <2>4. Children(k, mid, q) = Children(k, r, q)
        BY <1>7, <2>1, <2>2, <2>3
    <2>5. q \in Parents(k, r)
        BY <2>1, <2>4 DEF Parents
    <2>6. \A j \in {q} \union Children(k, r, q) : mid[j].val["checked"] = r[j].val["checked"]
        BY <1>5, <1>6, <2>1, <2>3 DEF Asks
    <2>7. QED
        BY <1>2, <2>4, <2>5, <2>6, AgreeStays
<1>11. Groups(k, mid, P)
    BY <1>9, <1>10 DEF Groups
<1>12. QED
    BY <1>3, <1>11, OperationKeepsGroups DEF mid

\* deleteItems: the children of what is deleted ask for no parent any more,
\* and every parent left is recomputed.
LEMMA DeleteItemsKeepsGroups ==
    ASSUME GroupsInv, NEW d \in Device, \A e \in Device : e = d, DeleteItems(d)
    PROVE  GroupsInv'
<1> DEFINE k == known[d]
           r == rows[d]
           parents == Parents(k, r)
           grouped == parents \union UNION {Children(k, r, p) : p \in parents}
           orphaned(targets) == UNION {Children(k, r, p) : p \in targets} \ targets
<1>1. PICK targets \in SUBSET Active(k, r) :
        Local(d, "DELETE_ITEM", k,
              PutAll("SET_ITEM_PLACEMENT", orphaned(targets), "parent", NoItem)
              \o PutAll("DELETE_ITEM", targets, "life", "DELETED"), grouped \ targets)
    BY DEF DeleteItems
<1> DEFINE orphans == orphaned(targets)
           P == grouped \ targets
           moves == PutAll("SET_ITEM_PLACEMENT", orphans, "parent", NoItem)
           marks == PutAll("DELETE_ITEM", targets, "life", "DELETED")
           ws == moves \o marks
           mid == Written(r, ws, d, clock[d])
<1>2. /\ TypeOK /\ k \in SUBSET Item /\ r \in [Item -> Row]
      /\ RequestsGranted(k, r) /\ \A q \in Parents(k, r) : Agree(k, r, q)
    BY GroupsBefore
<1>3. Transaction(d, "DELETE_ITEM", k, ws, P)
    BY <1>1, <1>2, DeleteItemsTransaction
<1>4. orphans \in SUBSET k /\ targets \in SUBSET k /\ k \subseteq Item
    BY <1>2 DEF Active, Children, ChildrenOf
<1>5. /\ \A i \in orphans : \E n \in DOMAIN ws : /\ ws[n].target = i
                                                 /\ DOMAIN ws[n].puts = {"parent"}
                                                 /\ ws[n].puts["parent"] = NoItem
      /\ \A i \in targets : \E n \in DOMAIN ws : /\ ws[n].target = i
                                                 /\ DOMAIN ws[n].puts = {"life"}
                                                 /\ ws[n].puts["life"] = "DELETED"
      /\ \A n \in DOMAIN ws : \/ ws[n].target \in orphans /\ DOMAIN ws[n].puts = {"parent"}
                              \/ ws[n].target \in targets /\ DOMAIN ws[n].puts = {"life"}
    <2>1. /\ PutsAll(moves, "SET_ITEM_PLACEMENT", orphans, "parent", NoItem)
          /\ PutsAll(marks, "DELETE_ITEM", targets, "life", "DELETED")
        BY <1>4, PutSetOnce
    <2>2. moves \in Seq(WriteTo(k)) /\ marks \in Seq(WriteTo(k))
        BY <1>4, PutsType, FieldValues DEF Operation, Lifecycle
    <2> HIDE DEF moves, marks
    <2>3. /\ \A n \in DOMAIN moves : n \in DOMAIN ws /\ ws[n] = moves[n]
          /\ \A n \in DOMAIN marks : /\ Len(moves) + n \in DOMAIN ws
                                     /\ ws[Len(moves) + n] = marks[n]
          /\ \A n \in DOMAIN ws : \/ \E m \in DOMAIN moves : ws[n] = moves[m]
                                  \/ \E m \in DOMAIN marks : ws[n] = marks[m]
        <3>1. /\ Len(moves) \in Nat /\ Len(marks) \in Nat
              /\ DOMAIN moves = 1 .. Len(moves) /\ DOMAIN marks = 1 .. Len(marks)
              /\ DOMAIN ws = 1 .. (Len(moves) + Len(marks))
              /\ \A n \in DOMAIN ws :
                    ws[n] = IF n <= Len(moves) THEN moves[n] ELSE marks[n - Len(moves)]
            BY <2>2
        <3>2. \A n \in DOMAIN ws : n > Len(moves) => n - Len(moves) \in DOMAIN marks
            BY <3>1
        <3>3. QED
            BY <3>1, <3>2
    <2> HIDE DEF ws
    <2>4. /\ \A i \in orphans : \E n \in DOMAIN moves :
                /\ moves[n].target = i /\ DOMAIN moves[n].puts = {"parent"}
                /\ moves[n].puts["parent"] = NoItem
          /\ \A n \in DOMAIN moves : moves[n].target \in orphans /\ DOMAIN moves[n].puts = {"parent"}
        BY <2>1, PutPuts DEF PutsAll
    <2>5. /\ \A i \in targets : \E n \in DOMAIN marks :
                /\ marks[n].target = i /\ DOMAIN marks[n].puts = {"life"}
                /\ marks[n].puts["life"] = "DELETED"
          /\ \A n \in DOMAIN marks : marks[n].target \in targets /\ DOMAIN marks[n].puts = {"life"}
        BY <2>1, PutPuts DEF PutsAll
    <2> HIDE DEF orphans
    <2>6. QED
        BY <2>3, <2>4, <2>5
<1> HIDE DEF ws, P
<1>6. /\ mid \in [Item -> Row]
      /\ \A i \in Item : mid[i].val["parent"] = IF i \in orphans THEN NoItem ELSE r[i].val["parent"]
      /\ \A i \in Item : mid[i].val["life"] = IF i \in targets THEN "DELETED" ELSE r[i].val["life"]
    <2>1. {"parent", "life"} \subseteq Field /\ "parent" # "life"
        BY DEF Field
    <2> HIDE DEF orphans, mid
    <2>2. /\ mid \in [Item -> Row]
          /\ \A n \in DOMAIN ws : \A f \in DOMAIN ws[n].puts :
                mid[ws[n].target].val[f] = ws[n].puts[f]
          /\ \A i \in Item, f \in Field :
                (\A n \in DOMAIN ws : ws[n].target = i => f \notin DOMAIN ws[n].puts) =>
                   mid[i].val[f] = r[i].val[f]
        BY <1>2, <1>3, MidFields DEF mid
    <2>3. ASSUME NEW i \in Item
          PROVE  mid[i].val["parent"] = IF i \in orphans THEN NoItem ELSE r[i].val["parent"]
        <3>1. CASE i \in orphans
            <4>1. PICK n \in DOMAIN ws : /\ ws[n].target = i /\ DOMAIN ws[n].puts = {"parent"}
                                         /\ ws[n].puts["parent"] = NoItem
                BY <1>5, <3>1
            <4>2. QED
                BY <2>2, <3>1, <4>1
        <3>2. CASE i \notin orphans
            <4>1. \A n \in DOMAIN ws : ws[n].target = i => "parent" \notin DOMAIN ws[n].puts
                BY <1>5, <2>1, <3>2
            <4>2. QED
                BY <2>1, <2>2, <3>2, <4>1
        <3>3. QED
            BY <3>1, <3>2
    <2>4. ASSUME NEW i \in Item
          PROVE  mid[i].val["life"] = IF i \in targets THEN "DELETED" ELSE r[i].val["life"]
        <3>1. CASE i \in targets
            <4>1. PICK n \in DOMAIN ws : /\ ws[n].target = i /\ DOMAIN ws[n].puts = {"life"}
                                         /\ ws[n].puts["life"] = "DELETED"
                BY <1>5, <3>1
            <4>2. QED
                BY <2>2, <3>1, <4>1
        <3>2. CASE i \notin targets
            <4>1. \A n \in DOMAIN ws : ws[n].target = i => "life" \notin DOMAIN ws[n].puts
                BY <1>5, <2>1, <3>2
            <4>2. QED
                BY <2>1, <2>2, <3>2, <4>1
        <3>3. QED
            BY <3>1, <3>2
    <2>5. QED
        BY <2>2, <2>3, <2>4
<1> HIDE DEF mid
<1>7. Active(k, mid) = Active(k, r) \ targets /\ Active(k, r) \subseteq k
    <2>1. "DELETED" # "ACTIVE"
        OBVIOUS
    <2>2. QED
        BY <1>4, <1>6, <2>1 DEF Active
<1>8. ASSUME NEW c, NEW q \in Active(k, mid), Asks(k, mid, c, q)
      PROVE  Asks(k, r, c, q) /\ q \in Active(k, r) /\ c \in Active(k, mid)
    <2>1. c \in Item /\ q \in Item /\ q # NoItem /\ c \in Active(k, mid)
        BY <1>4, <1>7, <1>8, ItemAssumption DEF Asks
    <2>2. r[c].val["parent"] = q
        BY <1>6, <1>8, <2>1 DEF Asks
    <2>3. QED
        BY <1>7, <2>1, <2>2 DEF Asks
<1>9. RequestsGranted(k, mid)
    <2>1. \A i \in Item : mid[i].val["parent"] \in k \union {NoItem}
        BY <1>2, <1>6 DEF RequestsGranted
    <2>2. ASSUME NEW c \in Active(k, mid), NEW q \in Active(k, mid), Asks(k, mid, c, q)
          PROVE  mid[q].val["parent"] \notin Active(k, mid)
        <3>1. r[q].val["parent"] \notin Active(k, r)
            BY <1>2, <1>7, <1>8, <2>2, RequestsOfTwoLevels
        <3>2. NoItem \notin Active(k, mid) /\ q \in Item
            BY <1>4, <1>7, ItemAssumption
        <3>3. QED
            BY <1>6, <1>7, <3>1, <3>2
    <2>3. QED
        BY <1>2, <1>6, <2>1, <2>2, RequestsOfTwoLevels
<1>10. \A q \in Parents(k, mid) : q \in P
    <2> SUFFICES ASSUME NEW q \in Parents(k, mid)
                 PROVE  q \in P
        OBVIOUS
    <2>1. q \in Active(k, mid)
        BY DEF Parents
    <2>2. PICK c : c \in Children(k, mid, q)
        BY DEF Parents
    <2>3. Asks(k, mid, c, q)
        BY <1>2, <1>6, <1>9, <2>1, <2>2, GrantedForest
    <2>4. Asks(k, r, c, q) /\ q \in Active(k, r)
        BY <1>8, <2>1, <2>3
    <2>5. c \in Children(k, r, q)
        BY <1>2, <2>4, GrantedForest
    <2>6. QED
        BY <1>7, <2>1, <2>4, <2>5 DEF P, Parents
<1>11. Groups(k, mid, P)
    BY <1>9, <1>10 DEF Groups
<1>12. QED
    BY <1>3, <1>11, OperationKeepsGroups DEF mid
-----------------------------------------------------------------------------
(* Packages, and the other steps.                                          *)

\* A device that reads a package of its own finds nothing newer in it.
LEMMA ImportKeepsGroups ==
    ASSUME GroupsInv, NEW d \in Device, \A e \in Device : e = d,
           NEW pkg \in packages, Import(d, pkg)
    PROVE  GroupsInv'
<1> DEFINE k == known[d] \union pkg.known
           r == [i \in Item |-> IF i \in pkg.known
                               THEN MergedRow(rows[d][i], pkg.rows[i]) ELSE rows[d][i]]
           P == IF k # known[d] \/ r # rows[d]
                THEN Parents(known[d], rows[d]) \union Parents(k, r) ELSE {}
<1>1. HistoryInv /\ IInv /\ PackagesOld
    BY DEF GroupsInv, HistoryInv
<1>2. PICK seen \in PackageClocks(pkg) :
        /\ \A n \in PackageClocks(pkg) : n <= seen
        /\ Commit(d, Observed(clock[d], seen), k, r, <<>>, P)
    BY DEF Import
<1> DEFINE base == Observed(clock[d], seen)
           mid == Written(r, <<>>, d, base)
<1>3. Committable(d, base, k, r)
    BY <1>1, <1>2, ImportCommittable
<1>4. HistoryInv' /\ NoFieldRegresses
    BY <1>1, ImportKeepsHistory DEF Step
<1>5. /\ RequestsGranted(known[d], rows[d]) /\ rows[d] \in [Item -> Row]
      /\ known[d] \in SUBSET Item
      /\ \A q \in Parents(known[d], rows[d]) : Agree(known[d], rows[d], q)
    BY GroupsBefore
<1>6. k = known[d]
    BY <1>1 DEF PackagesOld
<1>7. \A i \in Item, f \in Field : /\ r[i].val[f] = rows[d][i].val[f]
                                   /\ r[i].at[f] = rows[d][i].at[f]
    <2> SUFFICES ASSUME NEW i \in Item, NEW f \in Field
                 PROVE  /\ r[i].val[f] = rows[d][i].val[f]
                        /\ r[i].at[f] = rows[d][i].at[f]
        OBVIOUS
    <2>1. rows[d][i] \in Row /\ pkg.rows[i] \in Row
        BY <1>1 DEF IInv, TypeOK
    <2>2. ~After(pkg.rows[i].at[f], rows[d][i].at[f])
        BY <1>1 DEF PackagesOld
    <2>3. CASE i \in pkg.known
        <3>1. /\ MergedRow(rows[d][i], pkg.rows[i]).val[f] = rows[d][i].val[f]
              /\ MergedRow(rows[d][i], pkg.rows[i]).at[f] = rows[d][i].at[f]
            BY <2>1, <2>2, MergedRowType
        <3>2. QED
            BY <2>3, <3>1
    <2>4. CASE i \notin pkg.known
        BY <2>4
    <2>5. QED
        BY <2>3, <2>4
<1>8. Commit(d, base, k, r, <<>>, P) /\ UNCHANGED packages
    BY <1>2 DEF Import
<1> HIDE DEF k, r, base, P
<1>9. /\ k \in SUBSET Item /\ r \in [Item -> Row] /\ base \in Nat
      /\ <<>> \in Seq(WriteTo(k)) /\ <<>> \in Seq(Write) /\ DOMAIN <<>> = {}
    BY <1>3 DEF Committable
<1>10. PutsOnce(<<>> \o Flips(k, Written(r, <<>>, d, base), P))
    BY <1>9, EmptyCascadeOnce
<1>11. \A i \in Item, f \in Field : /\ mid[i].val[f] = r[i].val[f]
                                    /\ mid[i].at[f] = r[i].at[f]
    <2>1. AfterWrites(mid, r, <<>>, d, base)
        BY <1>9, WrittenRows
    <2>2. QED
        BY <1>9, <2>1 DEF AfterWrites
<1> HIDE DEF mid
<1>12. \A i \in Item : /\ mid[i].val["life"] = rows[d][i].val["life"]
                       /\ mid[i].val["parent"] = rows[d][i].val["parent"]
                       /\ mid[i].at["parent"] = rows[d][i].at["parent"]
                       /\ mid[i].val["checked"] = rows[d][i].val["checked"]
    BY <1>7, <1>11 DEF Field
<1>13. /\ RequestsGranted(k, mid) /\ Parents(k, mid) = Parents(known[d], rows[d])
       /\ \A p : Children(k, mid, p) = Children(known[d], rows[d], p)
    BY <1>5, <1>6, <1>12, SameGroups
<1>14. \A q \in Parents(k, mid) : Agree(k, mid, q)
    <2>1. \A q \in Parents(k, mid) :
             \A j \in {q} \union Children(known[d], rows[d], q) : j \in Item
        BY <1>5, <1>13 DEF Parents, Children, ChildrenOf, Active
    <2>2. QED
        BY <1>5, <1>12, <1>13, <2>1, AgreeStays
<1>15. Groups(k, mid, P)
    BY <1>13, <1>14 DEF Groups
<1>16. QED
    BY <1>4, <1>6, <1>8, <1>9, <1>10, <1>15, CommitKeepsGroups DEF mid

\* A package is as old as the rows it is written from.
LEMMA ExportKeepsGroups ==
    ASSUME GroupsInv, NEW d \in Device, \A e \in Device : e = d, Export(d)
    PROVE  GroupsInv'
<1>1. HistoryInv /\ PackagesOld /\ rows[d] \in [Item -> Row]
    BY GroupsBefore DEF GroupsInv
<1>2. HistoryInv'
    BY <1>1, ExportKeepsHistory
<1>3. UNCHANGED <<known, rows>>
    BY DEF Export
<1>4. \A pkg \in packages' :
        \/ pkg \in packages
        \/ pkg.known = known[d] /\ pkg.rows = rows[d]
    BY DEF Export
<1>5. \A i \in Item, f \in Field : ~After(rows[d][i].at[f], rows[d][i].at[f])
    <2>1. \A i \in Item, f \in Field : rows[d][i].at[f] \in Stamp
        BY <1>1 DEF Row
    <2>2. QED
        BY <2>1, AfterOrder
<1>6. PackagesOld'
    BY <1>1, <1>3, <1>4, <1>5 DEF PackagesOld
<1>7. QED
    BY <1>2, <1>3, <1>6 DEF GroupsInv, ParentsAgreeWithChildren

LEMMA NextKeepsGroups ==
    ASSUME "RESTORE_ITEM" \notin Operations, \A d, e \in Device : d = e,
           GroupsInv, [Next]_vars
    PROVE  GroupsInv'
<1>1. HistoryInv /\ HistoryInv'
    BY NextKeepsHistory DEF GroupsInv
<1>2. ASSUME UNCHANGED <<known, rows, packages>>
      PROVE  GroupsInv'
    BY <1>1, <1>2 DEF GroupsInv, ParentsAgreeWithChildren, PackagesOld
<1>3. CASE UNCHANGED vars
    BY <1>2, <1>3 DEF vars
<1>4. ASSUME NEW d \in Device, AddItem(d)
      PROVE  GroupsInv'
    BY <1>4, AddItemKeepsGroups
<1>5. ASSUME NEW d \in Device, SetText(d)
      PROVE  GroupsInv'
    BY <1>5, SetTextKeepsGroups
<1>6. ASSUME NEW d \in Device, SetChecked(d)
      PROVE  GroupsInv'
    BY <1>6, SetCheckedKeepsGroups
<1>7. ASSUME NEW d \in Device, MoveItem(d)
      PROVE  GroupsInv'
    BY <1>7, MoveItemKeepsGroups
<1>8. ASSUME NEW d \in Device, DeleteItems(d)
      PROVE  GroupsInv'
    BY <1>8, DeleteItemsKeepsGroups
<1>9. ASSUME NEW d \in Device, RestoreItem(d)
      PROVE  FALSE
    BY <1>9 DEF RestoreItem, Local
<1>10. ASSUME NEW d \in Device, EditElsewhere(d)
       PROVE  GroupsInv'
    BY <1>2, <1>10 DEF EditElsewhere
<1>11. ASSUME NEW d \in Device, NEW c \in changes, ApplyRemote(d, c)
       PROVE  FALSE
    <2>1. c.actor \in Device /\ c.actor # d
        BY <1>1, <1>11 DEF HistoryInv, IInv, TypeOK, Change, ApplyRemote
    <2>2. QED
        BY <2>1
<1>12. ASSUME NEW d \in Device, Export(d)
       PROVE  GroupsInv'
    BY <1>12, ExportKeepsGroups
<1>13. ASSUME NEW d \in Device, NEW pkg \in packages, Import(d, pkg)
       PROVE  GroupsInv'
    BY <1>13, ImportKeepsGroups
<1>14. QED
    BY <1>3, <1>4, <1>5, <1>6, <1>7, <1>8, <1>9, <1>10, <1>11, <1>12, <1>13 DEF Next

\* On one device without restores, a parent is checked exactly when all the
\* children shown under it are (recomputeParentCompletionInternal), whatever
\* the sequence of additions, edits, checks, moves, deletions and packages.
THEOREM ParentsFollowChildren ==
    ASSUME "RESTORE_ITEM" \notin Operations, \A d, e \in Device : d = e
    PROVE  Spec => []ParentsAgreeWithChildren
<1>1. Init => GroupsInv
    <2> SUFFICES ASSUME Init
                 PROVE  GroupsInv
        OBVIOUS
    <2>1. HistoryInv
        BY InitHistory
    <2>2. /\ packages = {} /\ known = [d \in Device |-> {}]
          /\ rows = [d \in Device |-> [i \in Item |-> Blank]]
        BY DEF Init
    <2>3. PackagesOld
        BY <2>2 DEF PackagesOld
    <2>4. ParentsAgreeWithChildren
        BY <2>2 DEF ParentsAgreeWithChildren, Parents, Active
    <2>5. \A d \in Device : RequestsGranted(known[d], rows[d])
        <3>1. Blank.val["parent"] = NoItem
            BY DEF Blank
        <3>2. QED
            BY <2>2, <3>1 DEF RequestsGranted, Candidates, Active
    <2>6. QED
        BY <2>1, <2>3, <2>4, <2>5 DEF GroupsInv
<1>2. GroupsInv /\ [Next]_vars => GroupsInv'
    BY NextKeepsGroups
<1>3. GroupsInv => ParentsAgreeWithChildren
    BY DEF GroupsInv
<1>4. QED
    BY <1>1, <1>2, <1>3, PTL DEF Spec
=============================================================================
