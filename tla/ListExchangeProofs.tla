-------------------------- MODULE ListExchangeProofs --------------------------
(***************************************************************************)
(* Theorems about what the devices of ListStore show and exchange, for any *)
(* devices, items, texts and bounds.                                       *)
(*                                                                         *)
(* The argument: a transaction puts each field of an item at most once, so *)
(* the device that records a change holds it (WrittenHolds), and a device  *)
(* that applies one holds it unless the item is deleted; no later step     *)
(* takes it back (NeverRegress), and a checkpoint only passes numbers the  *)
(* device has applied (AdvancedReaches).                                   *)
(***************************************************************************)
EXTENDS ListStoreProofs, ListHierarchyProofs

-----------------------------------------------------------------------------
(* The forest a device shows.                                              *)

\* The placements of a device's rows can be normalized.
LEMMA DevicePlacements ==
    ASSUME NEW k \in SUBSET Item, NEW r \in [Item -> Row]
    PROVE  Placements(PlacedAt(r), Candidates(Parent(r), Active(k, r)))
<1>1. Candidates(Parent(r), Active(k, r)) \subseteq Item
    BY DEF Candidates, Active
<1>2. \A i \in Item : PlacedAt(r)[i] \in Stamp
    BY DEF PlacedAt, Row, Field
<1>3. QED
    BY <1>1, <1>2, ItemAssumption, FS_Subset DEF Placements

\* The effective children are a maximal two-level choice.
LEMMA DeviceForest ==
    ASSUME NEW k \in SUBSET Item, NEW r \in [Item -> Row]
    PROVE  MaximalForest(Parent(r), Candidates(Parent(r), Active(k, r)),
                         AcceptedChildren(Parent(r), PlacedAt(r), Active(k, r)))
BY DevicePlacements, AcceptedIsMaximal

\* An effective child has no effective children itself.
LEMMA ChildIsNoParent ==
    ASSUME NEW k \in SUBSET Item, NEW r \in [Item -> Row],
           NEW p, NEW c \in Children(k, r, p)
    PROVE  c \notin Parents(k, r)
<1> DEFINE acc == AcceptedChildren(Parent(r), PlacedAt(r), Active(k, r))
<1>1. \A x \in acc : Parent(r)[x] \notin acc
    BY DeviceForest DEF MaximalForest
<1>2. c \in acc
    BY DEF Children, ChildrenOf
<1>3. \A x \in Children(k, r, c) : x \in acc /\ Parent(r)[x] = c
    BY DEF Children, ChildrenOf
<1>4. QED
    BY <1>1, <1>2, <1>3 DEF Parents

\* The forest every device shows has two levels and suppresses no request
\* that fits (EffectiveHierarchyNormalizer.derive), whatever it merged.
THEOREM ForestHasTwoLevels == Spec => []TwoLevelForest
<1>1. TypeOK => TwoLevelForest
    <2> SUFFICES ASSUME TypeOK, NEW d \in Device
                 PROVE  LET par == Parent(rows[d])
                            act == Active(known[d], rows[d])
                            acc == AcceptedChildren(par, PlacedAt(rows[d]), act)
                        IN  /\ \A c \in acc : par[c] \in act \ acc
                            /\ \A c \in Candidates(par, act) \ acc : ~Acceptable(par, acc, c)
        BY DEF TwoLevelForest
    <2> DEFINE par == Parent(rows[d])
               act == Active(known[d], rows[d])
               acc == AcceptedChildren(par, PlacedAt(rows[d]), act)
    <2>1. known[d] \in SUBSET Item /\ rows[d] \in [Item -> Row]
        BY DEF TypeOK
    <2>2. MaximalForest(par, Candidates(par, act), acc)
        BY <2>1, DeviceForest
    <2>3. \A c \in Candidates(par, act) : par[c] \in act
        BY DEF Candidates
    <2> HIDE DEF par, act, acc
    <2>4. /\ \A c \in acc : par[c] \in act \ acc
          /\ \A c \in Candidates(par, act) \ acc : ~Acceptable(par, acc, c)
        BY <2>2, <2>3 DEF MaximalForest
    <2>5. QED
        BY <2>4 DEF par, act, acc
<1>2. QED
    BY <1>1, TypeCorrect, PTL

\* Rows with the same placements and lifecycles show the same forest.
LEMMA SameForest ==
    ASSUME NEW k, NEW r, NEW s,
           \A i \in Item : /\ r[i].val["life"] = s[i].val["life"]
                           /\ r[i].val["parent"] = s[i].val["parent"]
                           /\ r[i].at["parent"] = s[i].at["parent"],
           k \in SUBSET Item
    PROVE  /\ Parents(k, r) = Parents(k, s)
           /\ \A p : Children(k, r, p) = Children(k, s, p)
<1>1. Active(k, r) = Active(k, s)
    BY DEF Active
<1>2. Parent(r) = Parent(s) /\ PlacedAt(r) = PlacedAt(s)
    BY DEF Parent, PlacedAt
<1>3. \A p : Children(k, r, p) = Children(k, s, p)
    BY <1>1, <1>2 DEF Children
<1>4. QED
    BY <1>1, <1>3 DEF Parents
-----------------------------------------------------------------------------
(* A transaction puts each field of an item at most once.                  *)

PutsOnce(ws) ==
    \A m, n \in DOMAIN ws :
        m # n => \/ ws[m].target # ws[n].target
                 \/ DOMAIN ws[m].puts \intersect DOMAIN ws[n].puts = {}

\* A finite set is listed without repetition.
LEMMA SetToSeqListsOnce ==
    ASSUME NEW S, IsFiniteSet(S)
    PROVE  /\ \A n \in DOMAIN SetToSeq(S) : SetToSeq(S)[n] \in S
           /\ \A m, n \in DOMAIN SetToSeq(S) :
                 m # n => SetToSeq(S)[m] # SetToSeq(S)[n]
           /\ S # {} => SetToSeq(S) # <<>>
           /\ \A x \in S : \E n \in DOMAIN SetToSeq(S) : SetToSeq(S)[n] = x
<1>1. /\ Cardinality(S) \in Nat
      /\ ExistsBijection(1 .. Cardinality(S), S)
    BY FS_CardinalityType
<1>2. PICK g \in Bijection(1 .. Cardinality(S), S) : TRUE
    BY <1>1 DEF ExistsBijection
<1>3. g \in [1 .. Cardinality(S) -> S] /\ IsInjective(g)
    BY <1>2 DEF Bijection, Injection, Surjection, IsInjective
<1> DEFINE q == SetToSeq(S)
<1>4. q \in [1 .. Cardinality(S) -> S] /\ IsInjective(q)
    BY <1>3 DEF SetToSeq
<1> HIDE DEF q
<1>5. /\ \A n \in DOMAIN q : q[n] \in S
      /\ \A m, n \in DOMAIN q : m # n => q[m] # q[n]
    BY <1>4 DEF IsInjective
<1>6. \A x \in S : \E n \in DOMAIN q : q[n] = x
    <2>1. q \in Injection(1 .. Cardinality(S), S)
        BY <1>4 DEF Injection, IsInjective
    <2>2. IsFiniteSet(1 .. Cardinality(S)) /\ Cardinality(1 .. Cardinality(S)) = Cardinality(S)
        BY <1>1, FS_Interval
    <2>3. q \in Surjection(1 .. Cardinality(S), S)
        BY <2>1, <2>2, FS_Injection, FS_SameCardinalityBij
    <2>4. QED
        BY <1>4, <2>3 DEF Surjection
<1>7. S # {} => q # <<>>
    BY <1>6
<1>8. QED
    BY <1>5, <1>6, <1>7 DEF q

\* What one put writes.
LEMMA PutPuts ==
    ASSUME NEW op, NEW i, NEW f, NEW v
    PROVE  /\ Put(op, i, f, v).op = op
           /\ Put(op, i, f, v).target = i
           /\ DOMAIN Put(op, i, f, v).puts = {f}
           /\ Put(op, i, f, v).puts[f] = v
BY DEF Put

\* Finitely many of them for a set of items.
LEMMA PutSetFinite ==
    ASSUME NEW S \in SUBSET Item, NEW op, NEW f, NEW v
    PROVE  IsFiniteSet({Put(op, i, f, v) : i \in S})
<1> DEFINE puts == {Put(op, i, f, v) : i \in S}
           g == [i \in S |-> Put(op, i, f, v)]
<1>1. IsFiniteSet(S)
    BY ItemAssumption, FS_Subset
<1>2. g \in Surjection(S, puts)
    <2>1. \A i \in S : g[i] = Put(op, i, f, v)
        OBVIOUS
    <2>2. g \in [S -> puts]
        OBVIOUS
    <2>3. \A t \in puts : \E i \in S : g[i] = t
        BY <2>1
    <2>4. QED
        BY <2>2, <2>3 DEF Surjection
<1>3. QED
    BY <1>1, <1>2, FS_Surjection

\* ws puts v into field f of every item of S.
PutsAll(ws, op, S, f, v) ==
    /\ \A n \in DOMAIN ws : \E i \in S : ws[n] = Put(op, i, f, v)
    /\ \A i \in S : \E n \in DOMAIN ws : ws[n] = Put(op, i, f, v)

\* Puts of one field to different items.
LEMMA PutSetOnce ==
    ASSUME NEW S \in SUBSET Item, NEW op, NEW f, NEW v
    PROVE  PutsAll(PutAll(op, S, f, v), op, S, f, v) /\ PutsOnce(PutAll(op, S, f, v))
<1> DEFINE puts == {Put(op, i, f, v) : i \in S}
           ws == SetToSeq(puts)
<1>1. IsFiniteSet(puts)
    BY PutSetFinite
<1>2. /\ \A n \in DOMAIN ws : ws[n] \in puts
      /\ \A m, n \in DOMAIN ws : m # n => ws[m] # ws[n]
      /\ \A x \in puts : \E n \in DOMAIN ws : ws[n] = x
    BY <1>1, SetToSeqListsOnce
<1> HIDE DEF ws
<1>3. PutsAll(ws, op, S, f, v)
    BY <1>2 DEF PutsAll
<1>4. PutsOnce(ws)
    <2> SUFFICES ASSUME NEW m \in DOMAIN ws, NEW n \in DOMAIN ws, m # n
                 PROVE  ws[m].target # ws[n].target
        BY DEF PutsOnce
    <2>1. PICK i \in S : ws[m] = Put(op, i, f, v)
        BY <1>3 DEF PutsAll
    <2>2. PICK j \in S : ws[n] = Put(op, j, f, v)
        BY <1>3 DEF PutsAll
    <2>3. i # j
        BY <1>2, <2>1, <2>2
    <2>4. QED
        BY <2>1, <2>2, <2>3, PutPuts
<1>5. QED
    BY <1>3, <1>4 DEF ws, PutAll

\* The parents that recomputeParentCompletionInternal changes.
Flipping(k, r, P) ==
    {p \in P \intersect Parents(k, r) :
        r[p].val["checked"] # \A c \in Children(k, r, p) : r[c].val["checked"]}

\* ws checks or unchecks each of them.
Completes(ws, k, r, P) ==
    /\ \A n \in DOMAIN ws : \E p \in Flipping(k, r, P) :
          ws[n] = Put("SET_ITEM_CHECKED", p, "checked", ~r[p].val["checked"])
    /\ \A p \in Flipping(k, r, P) : \E n \in DOMAIN ws :
          ws[n] = Put("SET_ITEM_CHECKED", p, "checked", ~r[p].val["checked"])

\* The completion cascade does, each of them once.
LEMMA FlipsOnce ==
    ASSUME NEW k \in SUBSET Item, NEW r, NEW P
    PROVE  Completes(Flips(k, r, P), k, r, P) /\ PutsOnce(Flips(k, r, P))
<1> DEFINE flip(p) == Put("SET_ITEM_CHECKED", p, "checked", ~r[p].val["checked"])
           S == Flipping(k, r, P)
           puts == {flip(p) : p \in S}
           g == [p \in S |-> flip(p)]
           ws == SetToSeq(puts)
<1>1. IsFiniteSet(S)
    <2>1. S \subseteq Item
        BY DEF Flipping, Parents, Active
    <2>2. QED
        BY <2>1, ItemAssumption, FS_Subset
<1>2. g \in Surjection(S, puts)
    <2>1. \A i \in S : g[i] = flip(i)
        OBVIOUS
    <2>2. g \in [S -> puts]
        OBVIOUS
    <2>3. \A t \in puts : \E i \in S : g[i] = t
        BY <2>1
    <2>4. QED
        BY <2>2, <2>3 DEF Surjection
<1>3. IsFiniteSet(puts)
    BY <1>1, <1>2, FS_Surjection
<1>4. /\ \A n \in DOMAIN ws : ws[n] \in puts
      /\ \A m, n \in DOMAIN ws : m # n => ws[m] # ws[n]
      /\ \A x \in puts : \E n \in DOMAIN ws : ws[n] = x
    BY <1>3, SetToSeqListsOnce
<1>5. Flips(k, r, P) = ws
    BY DEF Flips, Flipping
<1> HIDE DEF ws
<1>6. Completes(ws, k, r, P)
    BY <1>4 DEF Completes
<1>7. PutsOnce(ws)
    <2> SUFFICES ASSUME NEW m \in DOMAIN ws, NEW n \in DOMAIN ws, m # n
                 PROVE  ws[m].target # ws[n].target
        BY DEF PutsOnce
    <2>1. PICK i \in S : ws[m] = flip(i)
        BY <1>4
    <2>2. PICK j \in S : ws[n] = flip(j)
        BY <1>4
    <2>3. i # j
        BY <1>4, <2>1, <2>2
    <2>4. QED
        BY <2>1, <2>2, <2>3, PutPuts
<1>8. QED
    BY <1>5, <1>6, <1>7

\* Two sequences of writes to different fields or items.
LEMMA PutsOnceConcat ==
    ASSUME NEW S, NEW T, NEW ws \in Seq(S), NEW xs \in Seq(T), PutsOnce(ws), PutsOnce(xs),
           \A m \in DOMAIN ws, n \in DOMAIN xs :
              \/ ws[m].target # xs[n].target
              \/ DOMAIN ws[m].puts \intersect DOMAIN xs[n].puts = {}
    PROVE  /\ PutsOnce(ws \o xs)
           /\ \A n \in DOMAIN (ws \o xs) :
                 \/ \E m \in DOMAIN ws : (ws \o xs)[n] = ws[m]
                 \/ \E m \in DOMAIN xs : (ws \o xs)[n] = xs[m]
<1> DEFINE all == ws \o xs
<1>1. /\ Len(ws) \in Nat /\ Len(xs) \in Nat
      /\ DOMAIN ws = 1 .. Len(ws) /\ DOMAIN xs = 1 .. Len(xs)
      /\ DOMAIN all = 1 .. (Len(ws) + Len(xs))
      /\ \A n \in DOMAIN all : all[n] = IF n <= Len(ws) THEN ws[n] ELSE xs[n - Len(ws)]
    OBVIOUS
<1> HIDE DEF all
<1>2. \A n \in DOMAIN all : \/ n \in DOMAIN ws /\ all[n] = ws[n]
                            \/ /\ n > Len(ws) /\ n - Len(ws) \in DOMAIN xs
                               /\ all[n] = xs[n - Len(ws)]
    BY <1>1
<1>3. PutsOnce(all)
    <2> SUFFICES ASSUME NEW m \in DOMAIN all, NEW n \in DOMAIN all, m # n
                 PROVE  \/ all[m].target # all[n].target
                        \/ DOMAIN all[m].puts \intersect DOMAIN all[n].puts = {}
        BY DEF PutsOnce
    <2>1. CASE m \in DOMAIN ws /\ n \in DOMAIN ws
        BY <1>1, <2>1 DEF PutsOnce
    <2>2. CASE m \notin DOMAIN ws /\ n \notin DOMAIN ws
        <3>1. /\ all[m] = xs[m - Len(ws)] /\ m - Len(ws) \in DOMAIN xs
              /\ all[n] = xs[n - Len(ws)] /\ n - Len(ws) \in DOMAIN xs
              /\ m - Len(ws) # n - Len(ws)
            BY <1>1, <1>2, <2>2
        <3>2. QED
            BY <3>1 DEF PutsOnce
    <2>3. CASE m \in DOMAIN ws /\ n \notin DOMAIN ws
        <3>1. all[m] = ws[m] /\ all[n] = xs[n - Len(ws)] /\ n - Len(ws) \in DOMAIN xs
            BY <1>1, <1>2, <2>3
        <3>2. QED
            BY <2>3, <3>1
    <2>4. CASE m \notin DOMAIN ws /\ n \in DOMAIN ws
        <3>1. all[n] = ws[n] /\ all[m] = xs[m - Len(ws)] /\ m - Len(ws) \in DOMAIN xs
            BY <1>1, <1>2, <2>4
        <3>2. QED
            BY <2>4, <3>1
    <2>5. QED
        BY <2>1, <2>2, <2>3, <2>4
<1>4. QED
    BY <1>2, <1>3 DEF all

\* The rows W hold every write of ws.
HoldWrites(W, ws, d, base) ==
    \A n \in DOMAIN ws : \A f \in DOMAIN ws[n].puts :
        /\ W[ws[n].target].at[f] = [clock |-> base + n, actor |-> d]
        /\ W[ws[n].target].val[f] = ws[n].puts[f]

\* The rows after writes that put a field once do (the DAO updates).
LEMMA WrittenHolds ==
    ASSUME NEW r, NEW ws \in Seq(Write), PutsOnce(ws), NEW d, NEW base
    PROVE  HoldWrites(Written(r, ws, d, base), ws, d, base)
<1> DEFINE W == Written(r, ws, d, base)
<1> SUFFICES ASSUME NEW n \in DOMAIN ws, NEW f \in DOMAIN ws[n].puts
             PROVE  /\ W[ws[n].target].at[f] = [clock |-> base + n, actor |-> d]
                    /\ W[ws[n].target].val[f] = ws[n].puts[f]
    BY DEF HoldWrites
<1> DEFINE i == ws[n].target
<1>1. n \in Puts(ws, i, f)
    BY DEF Puts
<1>2. \A m \in Puts(ws, i, f) : m = n
    BY DEF Puts, PutsOnce
<1>3. (CHOOSE m \in Puts(ws, i, f) : TRUE) = n
    BY <1>1, <1>2
<1>4. i \in Item /\ f \in Field
    <2>1. ws[n] \in Write
        OBVIOUS
    <2>2. i \in Item /\ ws[n].puts \in Payload
        BY <2>1 DEF Write
    <2>3. \A p \in Payload : DOMAIN p \subseteq Field
        BY DEF Payload
    <2>4. QED
        BY <2>2, <2>3
<1>5. QED
    BY <1>1, <1>3, <1>4 DEF Written
-----------------------------------------------------------------------------
(* The user operations as transactions.                                    *)

\* The writes of a transaction and the cascade they cause put each field of
\* an item once, if no checked item is flipped by the cascade.
LEMMA CascadeOnce ==
    ASSUME NEW k \in SUBSET Item, NEW r \in [Item -> Row], NEW P,
           NEW ws \in Seq(WriteTo(k)), PutsOnce(ws),
           \A m \in DOMAIN ws :
              "checked" \in DOMAIN ws[m].puts => ws[m].target \notin Flipping(k, r, P)
    PROVE  PutsOnce(ws \o Flips(k, r, P))
<1> DEFINE xs == Flips(k, r, P)
<1>1. xs \in Seq(WriteTo(k))
    BY FlipsType
<1>2. Completes(xs, k, r, P) /\ PutsOnce(xs)
    BY FlipsOnce
<1> HIDE DEF xs
<1>3. \A n \in DOMAIN xs : /\ xs[n].target \in Flipping(k, r, P)
                           /\ DOMAIN xs[n].puts = {"checked"}
    BY <1>2, PutPuts DEF Completes
<1>4. \A m \in DOMAIN ws, n \in DOMAIN xs :
         \/ ws[m].target # xs[n].target
         \/ DOMAIN ws[m].puts \intersect DOMAIN xs[n].puts = {}
    BY <1>3
<1>5. PutsOnce(ws \o xs)
    BY <1>1, <1>2, <1>4, PutsOnceConcat
<1>6. QED
    BY <1>5 DEF xs

\* What every user operation of device d is, as the exchange sees it.
Transaction(d, op, k, ws, P) ==
    /\ Local(d, op, k, ws, P)
    /\ k \in SUBSET Item /\ known[d] \subseteq k
    /\ ws \in Seq(WriteTo(k))
    /\ \A i \in k \ known[d] : \E n \in DOMAIN ws : ws[n].target = i
    /\ \A n \in DOMAIN ws :
          LifecyclePut(ws[n]) /\ (ws[n].op \in {"DELETE_ITEM", "RESTORE_ITEM"} => ws[n].op = op)
    /\ op = "RESTORE_ITEM" => \E i \in known[d] : rows[d][i].val["life"] # "ACTIVE"
    /\ PutsOnce(ws \o Flips(k, Written(rows[d], ws, d, clock[d]), P))

\* Writing is well typed.
LEMMA MidRows ==
    ASSUME TypeOK, NEW d \in Device, NEW k \in SUBSET Item, NEW ws \in Seq(WriteTo(k))
    PROVE  /\ rows[d] \in [Item -> Row]
           /\ AfterWrites(Written(rows[d], ws, d, clock[d]), rows[d], ws, d, clock[d])
           /\ Written(rows[d], ws, d, clock[d]) \in [Item -> Row]
<1>1. rows[d] \in [Item -> Row] /\ clock[d] \in Nat
    BY DEF TypeOK
<1>2. ws \in Seq(Write)
    <2>1. WriteTo(k) \subseteq Write
        BY DEF WriteTo
    <2>2. QED
        BY <2>1
<1>3. AfterWrites(Written(rows[d], ws, d, clock[d]), rows[d], ws, d, clock[d])
    BY <1>1, <1>2, WrittenRows
<1>4. QED
    BY <1>1, <1>3 DEF AfterWrites

\* A transaction of one put is one, unless it puts the mark of an item that
\* its cascade would flip.
LEMMA SinglePut ==
    ASSUME TypeOK, NEW d \in Device, NEW op \in Operation, NEW i \in known[d],
           NEW f \in Field, NEW v, NEW P, f # "checked",
           [Blank.val EXCEPT ![f] = v] \in Values,
           LifecyclePut(Put(op, i, f, v)),
           op = "RESTORE_ITEM" => rows[d][i].val["life"] # "ACTIVE",
           Local(d, op, known[d], <<Put(op, i, f, v)>>, P)
    PROVE  Transaction(d, op, known[d], <<Put(op, i, f, v)>>, P)
<1> DEFINE ws == <<Put(op, i, f, v)>>
<1>1. known[d] \in SUBSET Item
    BY DEF TypeOK
<1>2. ws \in Seq(WriteTo(known[d]))
    BY <1>1, PutsType
<1>3. DOMAIN ws = {1} /\ ws[1] = Put(op, i, f, v)
    OBVIOUS
<1>4. PutsOnce(ws)
    BY <1>3 DEF PutsOnce
<1>5. \A m \in DOMAIN ws : "checked" \notin DOMAIN ws[m].puts
    BY <1>3, PutPuts
<1>6. \A n \in DOMAIN ws : LifecyclePut(ws[n]) /\ ws[n].op = op
    BY <1>3, PutPuts
<1> HIDE DEF ws
<1>7. PutsOnce(ws \o Flips(known[d], Written(rows[d], ws, d, clock[d]), P))
    BY <1>1, <1>2, <1>4, <1>5, MidRows, CascadeOnce
<1>8. QED
    BY <1>1, <1>2, <1>6, <1>7 DEF Transaction, ws

\* setItemText, moveItem and restoreItem.
LEMMA SinglePutTransactions ==
    ASSUME TypeOK, NEW d \in Device, SetText(d) \/ MoveItem(d) \/ RestoreItem(d)
    PROVE  \E op, k, ws, P : Transaction(d, op, k, ws, P)
<1>0. known[d] \in SUBSET Item /\ \A i \in Active(known[d], rows[d]) : i \in known[d]
    BY DEF TypeOK, Active
<1>1. CASE SetText(d)
    <2>1. PICK i \in Active(known[d], rows[d]), t \in Text :
            Local(d, "SET_ITEM_TEXT", known[d], <<Put("SET_ITEM_TEXT", i, "text", t)>>, {})
        BY <1>1 DEF SetText
    <2>2. LifecyclePut(Put("SET_ITEM_TEXT", i, "text", t))
        BY PutPuts DEF LifecyclePut
    <2>3. Transaction(d, "SET_ITEM_TEXT", known[d], <<Put("SET_ITEM_TEXT", i, "text", t)>>, {})
        BY <1>0, <2>1, <2>2, SinglePut, FieldValues DEF Operation
    <2>4. QED
        BY <2>3
<1>2. CASE MoveItem(d)
    <2>1. PICK i \in Active(known[d], rows[d]), p \in Item \union {NoItem} :
            Local(d, "SET_ITEM_PLACEMENT", known[d],
                  <<Put("SET_ITEM_PLACEMENT", i, "parent", p)>>,
                  OldParent(known[d], rows[d], i) \union {p})
        BY <1>2 DEF MoveItem
    <2>2. LifecyclePut(Put("SET_ITEM_PLACEMENT", i, "parent", p))
        BY PutPuts DEF LifecyclePut
    <2>3. Transaction(d, "SET_ITEM_PLACEMENT", known[d],
                      <<Put("SET_ITEM_PLACEMENT", i, "parent", p)>>,
                      OldParent(known[d], rows[d], i) \union {p})
        BY <1>0, <2>1, <2>2, SinglePut, FieldValues DEF Operation
    <2>4. QED
        BY <2>3
<1>3. CASE RestoreItem(d)
    <2>1. PICK i \in known[d] \ Active(known[d], rows[d]) :
            Local(d, "RESTORE_ITEM", known[d], <<Put("RESTORE_ITEM", i, "life", "ACTIVE")>>,
                  {rows[d][i].val["parent"]})
        BY <1>3 DEF RestoreItem
    <2>2. LifecyclePut(Put("RESTORE_ITEM", i, "life", "ACTIVE"))
        BY PutPuts DEF LifecyclePut
    <2>3. rows[d][i].val["life"] # "ACTIVE"
        BY <2>1 DEF Active
    <2>4. Transaction(d, "RESTORE_ITEM", known[d], <<Put("RESTORE_ITEM", i, "life", "ACTIVE")>>,
                      {rows[d][i].val["parent"]})
        BY <1>0, <2>1, <2>2, <2>3, SinglePut, FieldValues DEF Operation, Lifecycle
    <2>5. QED
        BY <2>4
<1>4. QED
    BY <1>1, <1>2, <1>3

\* addItem and addSubItem: the new item is nobody's parent yet.
LEMMA AddItemTransaction ==
    ASSUME TypeOK, KnownRecorded, NEW d \in Device,
           NEW i \in Item, NEW t \in Text, NEW p \in Item \union {NoItem},
           \A c \in changes : c.target # i,
           p # NoItem => p \in Shown(known[d], rows[d]),
           Local(d, "CREATE_ITEM", known[d] \union {i},
                 <<[op |-> "CREATE_ITEM", target |-> i,
                    puts |-> [text |-> t, checked |-> FALSE, parent |-> p]]>>, {p})
    PROVE  Transaction(d, "CREATE_ITEM", known[d] \union {i},
                 <<[op |-> "CREATE_ITEM", target |-> i,
                    puts |-> [text |-> t, checked |-> FALSE, parent |-> p]]>>, {p})
<1> DEFINE k == known[d] \union {i}
           payload == [text |-> t, checked |-> FALSE, parent |-> p]
           v == [text |-> t, checked |-> FALSE, parent |-> p, life |-> "ACTIVE"]
           w == [op |-> "CREATE_ITEM", target |-> i, puts |-> payload]
           ws == <<w>>
<1>2. k \in SUBSET Item /\ known[d] \subseteq k
    BY DEF TypeOK
<1>3. payload \in Payload
    <2>1. v \in Values
        BY DEF Values, Lifecycle
    <2>2. payload = [f \in {"text", "checked", "parent"} |-> v[f]]
        <3>1. DOMAIN payload = {"text", "checked", "parent"}
            OBVIOUS
        <3>2. payload = [f \in DOMAIN payload |-> payload[f]]
            OBVIOUS
        <3>3. /\ payload["text"] = v["text"]
              /\ payload["checked"] = v["checked"]
              /\ payload["parent"] = v["parent"]
            OBVIOUS
        <3> HIDE DEF payload, v
        <3> QED
            BY <3>1, <3>2, <3>3
    <2>3. {"text", "checked", "parent"} \in SUBSET Field
        BY DEF Field
    <2>4. QED
        BY <2>1, <2>2, <2>3 DEF Payload
<1>4. ws \in Seq(WriteTo(k))
    BY <1>3 DEF WriteTo, Write, Operation
<1>5. DOMAIN ws = {1} /\ ws[1] = w /\ w.target = i /\ w.op = "CREATE_ITEM"
    OBVIOUS
<1>6. LifecyclePut(w)
    BY DEF LifecyclePut
<1>7. i \notin known[d]
    BY DEF KnownRecorded
<1>8. p # i
    <2>1. p = NoItem \/ p \in known[d]
        BY DEF Shown, TopLevel, Active
    <2>2. i # NoItem
        BY ItemAssumption
    <2>3. QED
        BY <2>1, <2>2, <1>7
<1>9. PutsOnce(ws)
    BY <1>5 DEF PutsOnce
<1> HIDE DEF ws, w, k
<1>10. \A r : i \notin Flipping(k, r, {p})
    BY <1>8 DEF Flipping
<1>11. PutsOnce(ws \o Flips(k, Written(rows[d], ws, d, clock[d]), {p}))
    BY <1>2, <1>4, <1>5, <1>9, <1>10, MidRows, CascadeOnce
<1>12. \A x \in k \ known[d] : \E n \in DOMAIN ws : ws[n].target = x
    BY <1>5 DEF k
<1>13. QED
    BY <1>2, <1>4, <1>5, <1>6, <1>11, <1>12 DEF Transaction, ws, w, k

\* setItemsChecked: the items it checks are not flipped back.
LEMMA SetCheckedTransaction ==
    ASSUME TypeOK, NEW d \in Device,
           NEW i \in Active(known[d], rows[d]), NEW b \in BOOLEAN, NEW changed,
           changed = {j \in {i} \union Children(known[d], rows[d], i) :
                        rows[d][j].val["checked"] # b},
           Local(d, "SET_ITEM_CHECKED", known[d],
                 PutAll("SET_ITEM_CHECKED", changed, "checked", b),
                 Parents(known[d], rows[d]))
    PROVE  Transaction(d, "SET_ITEM_CHECKED", known[d],
                       PutAll("SET_ITEM_CHECKED", changed, "checked", b),
                       Parents(known[d], rows[d]))
<1> DEFINE k == known[d]
           r == rows[d]
           group == {i} \union Children(k, r, i)
           ws == PutAll("SET_ITEM_CHECKED", changed, "checked", b)
           mid == Written(r, ws, d, clock[d])
           P == Parents(k, r)
<1>2. k \in SUBSET Item /\ r \in [Item -> Row] /\ group \in SUBSET k
    BY DEF TypeOK, Active, Children, ChildrenOf
<1>3. changed \in SUBSET k /\ changed \in SUBSET Item
    BY <1>2
<1>4. Local(d, "SET_ITEM_CHECKED", k, ws, P)
    OBVIOUS
<1>5. ws \in Seq(WriteTo(k))
    BY <1>2, <1>3, PutsType, FieldValues DEF Operation
<1>6. PutsAll(ws, "SET_ITEM_CHECKED", changed, "checked", b) /\ PutsOnce(ws)
    BY <1>3, PutSetOnce
<1>7. /\ mid \in [Item -> Row]
      /\ AfterWrites(mid, r, ws, d, clock[d])
      /\ ws \in Seq(Write)
    <2> HIDE DEF ws
    <2>1. WriteTo(k) \subseteq Write
        BY DEF WriteTo
    <2>2. ws \in Seq(Write)
        BY <1>5, <2>1
    <2>3. QED
        BY <1>2, <1>5, <2>2, MidRows
<1> HIDE DEF ws
<1>8. \A n \in DOMAIN ws : /\ ws[n].op = "SET_ITEM_CHECKED" /\ DOMAIN ws[n].puts = {"checked"}
                           /\ ws[n].puts["checked"] = b
                           /\ ws[n].target \in changed
    BY <1>6, PutPuts DEF PutsAll
<1>9. \A n \in DOMAIN ws : LifecyclePut(ws[n])
    BY <1>8 DEF LifecyclePut
<1> HIDE DEF mid
<1>10. \A j \in Item : /\ mid[j].val["life"] = r[j].val["life"]
                       /\ mid[j].val["parent"] = r[j].val["parent"]
                       /\ mid[j].at["parent"] = r[j].at["parent"]
    <2>1. \A f \in {"life", "parent"} : f \in Field /\ \A n \in DOMAIN ws : f \notin DOMAIN ws[n].puts
        BY <1>8 DEF Field
    <2>2. QED
        BY <1>7, <2>1 DEF AfterWrites
<1>11. Parents(k, mid) = Parents(k, r) /\ \A p : Children(k, mid, p) = Children(k, r, p)
    BY <1>2, <1>7, <1>10, SameForest
<1>12. \A j \in group : mid[j].val["checked"] = b
    <2> SUFFICES ASSUME NEW j \in group
                 PROVE  mid[j].val["checked"] = b
        OBVIOUS
    <2>1. j \in Item /\ "checked" \in Field
        BY <1>2 DEF Field
    <2>2. CASE j \in changed
        <3>2. PICK n \in DOMAIN ws : ws[n].target = j
            BY <1>6, <2>2, PutPuts DEF PutsAll
        <3>3. HoldWrites(mid, ws, d, clock[d])
            BY <1>6, <1>7, WrittenHolds DEF mid
        <3>4. QED
            BY <1>8, <3>2, <3>3 DEF HoldWrites
    <2>3. CASE j \notin changed
        <3>1. r[j].val["checked"] = b
            BY <2>3
        <3>2. \A n \in DOMAIN ws : ws[n].target # j
            BY <1>8, <2>3
        <3>3. mid[j].val["checked"] = r[j].val["checked"]
            BY <1>7, <2>1, <3>2 DEF AfterWrites
        <3>4. QED
            BY <3>1, <3>3
    <2>4. QED
        BY <2>2, <2>3
<1>13. \A j \in changed : j \notin Flipping(k, mid, P)
    <2> SUFFICES ASSUME NEW j \in changed, j \in Parents(k, mid),
                        mid[j].val["checked"]
                          # \A c \in Children(k, mid, j) : mid[c].val["checked"]
                 PROVE  FALSE
        BY DEF Flipping
    <2>1. j \in group
        OBVIOUS
    <2>2. j = i
        BY <1>2, <1>11, <2>1, ChildIsNoParent
    <2>3. /\ Children(k, mid, j) # {}
          /\ \A c \in Children(k, mid, j) : mid[c].val["checked"] = b
          /\ mid[j].val["checked"] = b
        BY <1>11, <1>12, <2>1, <2>2 DEF Parents
    <2>4. QED
        BY <2>3
<1>14. PutsOnce(ws \o Flips(k, mid, P))
    BY <1>2, <1>5, <1>6, <1>7, <1>8, <1>13, CascadeOnce
<1>15. QED
    BY <1>2, <1>4, <1>5, <1>8, <1>9, <1>14 DEF Transaction, mid, ws

\* deleteItems: promotions and tombstones are of different fields.
LEMMA DeleteItemsTransaction ==
    ASSUME TypeOK, NEW d \in Device, NEW targets \in SUBSET Active(known[d], rows[d]),
           NEW orphans, NEW P,
           orphans = UNION {Children(known[d], rows[d], p) : p \in targets} \ targets,
           Local(d, "DELETE_ITEM", known[d],
                 PutAll("SET_ITEM_PLACEMENT", orphans, "parent", NoItem)
                 \o PutAll("DELETE_ITEM", targets, "life", "DELETED"), P)
    PROVE  Transaction(d, "DELETE_ITEM", known[d],
                 PutAll("SET_ITEM_PLACEMENT", orphans, "parent", NoItem)
                 \o PutAll("DELETE_ITEM", targets, "life", "DELETED"), P)
<1> DEFINE k == known[d]
           moves == PutAll("SET_ITEM_PLACEMENT", orphans, "parent", NoItem)
           marks == PutAll("DELETE_ITEM", targets, "life", "DELETED")
           ws == moves \o marks
<1>2. /\ k \in SUBSET Item
      /\ targets \in SUBSET k /\ orphans \in SUBSET k
      /\ targets \in SUBSET Item /\ orphans \in SUBSET Item
    BY DEF TypeOK, Active, Children, ChildrenOf
<1>3. Local(d, "DELETE_ITEM", k, ws, P)
    OBVIOUS
<1>4. moves \in Seq(WriteTo(k)) /\ marks \in Seq(WriteTo(k))
    BY <1>2, PutsType, FieldValues DEF Operation, Lifecycle
<1>5. PutsAll(moves, "SET_ITEM_PLACEMENT", orphans, "parent", NoItem) /\ PutsOnce(moves)
    BY <1>2, PutSetOnce
<1>6. PutsAll(marks, "DELETE_ITEM", targets, "life", "DELETED") /\ PutsOnce(marks)
    BY <1>2, PutSetOnce
<1> HIDE DEF moves, marks
<1>7. \A n \in DOMAIN moves : /\ moves[n].op = "SET_ITEM_PLACEMENT"
                              /\ DOMAIN moves[n].puts = {"parent"}
    BY <1>5, PutPuts DEF PutsAll
<1>8. \A n \in DOMAIN marks : /\ marks[n].op = "DELETE_ITEM"
                              /\ DOMAIN marks[n].puts = {"life"}
                              /\ marks[n].puts["life"] = "DELETED"
    BY <1>6, PutPuts DEF PutsAll
<1>9. /\ PutsOnce(ws)
      /\ \A n \in DOMAIN ws : \/ \E m \in DOMAIN moves : ws[n] = moves[m]
                              \/ \E m \in DOMAIN marks : ws[n] = marks[m]
    <2>1. \A m \in DOMAIN moves, n \in DOMAIN marks :
             DOMAIN moves[m].puts \intersect DOMAIN marks[n].puts = {}
        BY <1>7, <1>8
    <2>2. QED
        BY <1>4, <1>5, <1>6, <2>1, PutsOnceConcat
<1>10. ws \in Seq(WriteTo(k))
    BY <1>4
<1> HIDE DEF ws
<1>11. \A n \in DOMAIN ws : /\ LifecyclePut(ws[n])
                            /\ ws[n].op = "DELETE_ITEM" \/ ws[n].op = "SET_ITEM_PLACEMENT"
                            /\ "checked" \notin DOMAIN ws[n].puts
    <2>1. \A m \in DOMAIN moves : LifecyclePut(moves[m])
        BY <1>7 DEF LifecyclePut
    <2>2. \A m \in DOMAIN marks : LifecyclePut(marks[m])
        BY <1>8 DEF LifecyclePut
    <2>3. QED
        BY <1>7, <1>8, <1>9, <2>1, <2>2
<1>12. PutsOnce(ws \o Flips(k, Written(rows[d], ws, d, clock[d]), P))
    BY <1>2, <1>9, <1>10, <1>11, MidRows, CascadeOnce
<1>13. QED
    BY <1>2, <1>3, <1>10, <1>11, <1>12 DEF Transaction, ws, moves, marks
-----------------------------------------------------------------------------
(* What a transaction records.                                             *)

\* What a transaction of device d on the known items k with the writes ws
\* adds to the history (recordLocal).
Recording(d, k, ws) ==
    /\ seq' \in [Device -> Nat] /\ \A e \in Device : seq[e] <= seq'[e]
    /\ known' = [known EXCEPT ![d] = k]
    /\ changes \subseteq changes'
    /\ \A c \in changes' \ changes :
          /\ c.actor = d /\ c.target \in k
          /\ c.seq \in Nat /\ seq[d] < c.seq /\ c.seq <= seq'[d]
          /\ \/ \E n \in DOMAIN ws : c.op = ws[n].op /\ c.puts = ws[n].puts
             \/ c.op = "SET_ITEM_CHECKED" /\ DOMAIN c.puts = {"checked"}
    /\ \A c1, c2 \in changes' \ changes : c1.seq = c2.seq => c1 = c2
    /\ \A n \in DOMAIN ws : \E c \in changes' : c.target = ws[n].target

\* Commit does, and the rows it leaves hold what it recorded.
LEMMA CommitRecords ==
    ASSUME IInv, NEW d \in Device, NEW base, NEW k, NEW r, NEW P,
           Committable(d, base, k, r),
           NEW ws \in Seq(WriteTo(k)),
           Commit(d, base, k, r, ws, P)
    PROVE  /\ Recording(d, k, ws)
           /\ PutsOnce(ws \o Flips(k, Written(r, ws, d, base), P)) =>
                 \A c \in changes' \ changes : Covers(rows'[d], c)
<1> DEFINE flips == Flips(k, Written(r, ws, d, base), P)
           all == ws \o flips
           W == Written(r, all, d, base)
<1>1. /\ base \in Nat /\ k \in SUBSET Item /\ r \in [Item -> Row]
    BY DEF Committable
<1>2. Written(r, ws, d, base) \in [Item -> Row]
    <2>1. WriteTo(k) \subseteq Write
        BY DEF WriteTo
    <2>2. ws \in Seq(Write)
        BY <2>1
    <2>3. QED
        BY <1>1, <2>2, WrittenRows DEF AfterWrites
<1>3. flips \in Seq(WriteTo(k))
    BY <1>1, <1>2, FlipsType
<1>4. \A n \in DOMAIN flips : /\ flips[n].op = "SET_ITEM_CHECKED"
                              /\ DOMAIN flips[n].puts = {"checked"}
    <2>1. Completes(flips, k, Written(r, ws, d, base), P)
        BY <1>1, FlipsOnce
    <2> HIDE DEF flips
    <2>2. QED
        BY <2>1, PutPuts DEF Completes
<1>5. /\ clock \in [Device -> Nat] /\ seq \in [Device -> Nat]
      /\ known \in [Device -> SUBSET Item] /\ rows \in [Device -> [Item -> Row]]
    BY DEF IInv, TypeOK
<1>6. /\ seq' = [seq EXCEPT ![d] = @ + Len(all)]
      /\ known' = [known EXCEPT ![d] = k]
      /\ rows' = [rows EXCEPT ![d] = W]
      /\ changes' = changes \union Recorded(all, d, base, seq[d])
    BY DEF Commit
<1> HIDE DEF flips
<1>7. all \in Seq(WriteTo(k))
    BY <1>3
<1>8. /\ Len(all) \in Nat /\ Len(ws) \in Nat /\ Len(ws) <= Len(all)
      /\ DOMAIN all = 1 .. Len(all) /\ DOMAIN ws = 1 .. Len(ws)
      /\ \A n \in DOMAIN all : \/ n \in DOMAIN ws /\ all[n] = ws[n]
                               \/ n - Len(ws) \in DOMAIN flips /\ all[n] = flips[n - Len(ws)]
      /\ \A n \in DOMAIN ws : n \in DOMAIN all /\ all[n] = ws[n]
    BY <1>3
<1> HIDE DEF all
<1>9. \A n \in DOMAIN all : all[n] \in WriteTo(k)
    BY <1>7, <1>8
<1>10. \A n \in DOMAIN all : /\ all[n].target \in k /\ all[n].puts \in Payload
                             /\ DOMAIN all[n].puts \subseteq Field
    BY <1>9 DEF WriteTo, Write, Payload
<1> DEFINE Chg(n) == [op |-> all[n].op, target |-> all[n].target, puts |-> all[n].puts,
                      actor |-> d, seq |-> seq[d] + n,
                      stamp |-> [clock |-> base + n, actor |-> d]]
<1>11. Recorded(all, d, base, seq[d]) = {Chg(n) : n \in DOMAIN all}
    BY DEF Recorded
<1>12. \A n \in DOMAIN all : /\ Chg(n).op = all[n].op /\ Chg(n).target = all[n].target
                             /\ Chg(n).puts = all[n].puts /\ Chg(n).actor = d
                             /\ Chg(n).seq = seq[d] + n
                             /\ Chg(n).stamp = [clock |-> base + n, actor |-> d]
                             /\ Chg(n) \in changes'
    BY <1>6, <1>11
<1>13. \A c \in changes' \ changes : \E n \in DOMAIN all : c = Chg(n)
    BY <1>6, <1>11
<1> HIDE DEF Chg, W
<1>14. seq' \in [Device -> Nat] /\ seq'[d] = seq[d] + Len(all)
       /\ \A e \in Device : seq[e] <= seq'[e]
    BY <1>5, <1>6, <1>8
<1>15. ASSUME NEW c \in changes' \ changes
       PROVE  /\ c.actor = d /\ c.target \in k
              /\ c.seq \in Nat /\ seq[d] < c.seq /\ c.seq <= seq'[d]
              /\ \/ \E n \in DOMAIN ws : c.op = ws[n].op /\ c.puts = ws[n].puts
                 \/ c.op = "SET_ITEM_CHECKED" /\ DOMAIN c.puts = {"checked"}
    <2>1. PICK n \in DOMAIN all : c = Chg(n)
        BY <1>13
    <2>2. c.actor = d /\ c.target \in k /\ c.seq = seq[d] + n
        BY <2>1, <1>10, <1>12
    <2>3. seq[d] \in Nat /\ n \in 1 .. Len(all)
        BY <1>5, <1>8
    <2>4. c.seq \in Nat /\ seq[d] < c.seq /\ c.seq <= seq'[d]
        BY <2>2, <2>3, <1>8, <1>14
    <2>5. c.op = all[n].op /\ c.puts = all[n].puts
        BY <2>1, <1>12
    <2>6. \/ \E m \in DOMAIN ws : c.op = ws[m].op /\ c.puts = ws[m].puts
          \/ c.op = "SET_ITEM_CHECKED" /\ DOMAIN c.puts = {"checked"}
        BY <2>5, <1>4, <1>8
    <2>7. QED
        BY <2>2, <2>4, <2>6
<1>16. ASSUME NEW c1 \in changes' \ changes, NEW c2 \in changes' \ changes, c1.seq = c2.seq
       PROVE  c1 = c2
    <2>1. PICK n \in DOMAIN all : c1 = Chg(n)
        BY <1>13
    <2>2. PICK m \in DOMAIN all : c2 = Chg(m)
        BY <1>13
    <2>3. seq[d] + n = seq[d] + m
        BY <1>12, <1>16, <2>1, <2>2
    <2>4. n = m
        <3>1. seq[d] \in Nat /\ n \in Nat /\ m \in Nat
            BY <1>5, <1>8
        <3>2. QED
            BY <2>3, <3>1
    <2>5. QED
        BY <2>1, <2>2, <2>4
<1>17. \A n \in DOMAIN ws : \E c \in changes' : c.target = ws[n].target
    BY <1>8, <1>12
<1>18. Recording(d, k, ws)
    BY <1>6, <1>14, <1>15, <1>16, <1>17 DEF Recording
<1>19. ASSUME PutsOnce(all), NEW c \in changes' \ changes
       PROVE  Covers(rows'[d], c)
    <2>1. PICK n \in DOMAIN all : c = Chg(n)
        BY <1>13
    <2>2. PutsOnce(all) /\ all \in Seq(Write)
        <3>1. WriteTo(k) \subseteq Write
            BY DEF WriteTo
        <3>2. QED
            BY <1>7, <1>19, <3>1
    <2>3. HoldWrites(W, all, d, base)
        BY <2>2, WrittenHolds DEF W
    <2>4. \A m \in DOMAIN all : \A f \in DOMAIN all[m].puts :
             W[all[m].target].at[f] = [clock |-> base + m, actor |-> d]
        BY <2>3 DEF HoldWrites
    <2>5. \A f \in DOMAIN c.puts : W[c.target].at[f] = c.stamp
        BY <1>12, <2>1, <2>4
    <2>6. c.stamp = [clock |-> base + n, actor |-> d] /\ base + n \in Nat /\ d \in Nat
        BY <1>1, <1>8, <1>12, <2>1, DeviceAssumption
    <2>7. ~After(c.stamp, c.stamp)
        BY <2>6 DEF After
    <2>8. rows'[d] = W
        BY <1>5, <1>6
    <2>9. QED
        BY <2>5, <2>7, <2>8 DEF Covers
<1>20. QED
    BY <1>18, <1>19 DEF all, flips
-----------------------------------------------------------------------------
(* Checkpoints.                                                            *)

\* advanceCheckpoint passes only numbers it has seen.
LEMMA AdvancedReaches ==
    ASSUME NEW current \in Nat, NEW seen \in SUBSET Nat, IsFiniteSet(seen)
    PROVE  /\ Advanced(current, seen) \in Nat /\ current <= Advanced(current, seen)
           /\ \A m \in Nat : current < m /\ m <= Advanced(current, seen) => m \in seen
<1> DEFINE run == {n \in seen : n > current /\ \A m \in (current + 1) .. n : m \in seen}
           K == Cardinality(run)
<1>1. IsFiniteSet(run) /\ K \in Nat
    BY FS_Subset, FS_CardinalityType
<1>2. Advanced(current, seen) = current + K
    BY DEF Advanced
<1>3. ASSUME NEW m \in Nat, current < m, m <= current + K, m \notin seen
      PROVE  FALSE
    <2>1. \A n \in run : n \in (current + 1) .. (m - 1)
        <3> SUFFICES ASSUME NEW n \in run, n >= m
                     PROVE  FALSE
            OBVIOUS
        <3>1. n \in Nat /\ m \in (current + 1) .. n
            BY <1>3
        <3>2. QED
            BY <1>3, <3>1
    <2>2. /\ IsFiniteSet((current + 1) .. (m - 1))
          /\ Cardinality((current + 1) .. (m - 1)) = (m - 1) - current
        <3>1. current + 1 \in Int /\ m - 1 \in Int /\ m - 1 >= current
            BY <1>3
        <3>2. Cardinality((current + 1) .. (m - 1))
                = IF current + 1 > m - 1 THEN 0 ELSE (m - 1) - (current + 1) + 1
            BY <3>1, FS_Interval
        <3>3. IsFiniteSet((current + 1) .. (m - 1))
            BY <3>1, FS_Interval
        <3>4. QED
            BY <1>3, <3>2, <3>3
    <2>3. K <= Cardinality((current + 1) .. (m - 1))
        <3>1. run \subseteq (current + 1) .. (m - 1)
            BY <2>1
        <3> HIDE DEF run
        <3>2. QED
            BY <2>2, <3>1, FS_Subset
    <2> HIDE DEF K
    <2>4. QED
        BY <1>1, <1>3, <2>2, <2>3
<1> HIDE DEF K
<1>4. QED
    BY <1>1, <1>2, <1>3

\* The sequences of source a among the applied changes S.
SeenFrom(S, a) == {o.seq : o \in {x \in S : x.actor = a}}

LEMMA SeenFinite ==
    ASSUME NEW S \in SUBSET Change, IsFiniteSet(S), NEW a
    PROVE  SeenFrom(S, a) \in SUBSET Nat /\ IsFiniteSet(SeenFrom(S, a))
<1> DEFINE mine == {x \in S : x.actor = a}
           g == [o \in mine |-> o.seq]
<1>1. IsFiniteSet(mine)
    BY FS_Subset
<1>2. g \in Surjection(mine, SeenFrom(S, a))
    BY DEF Surjection, SeenFrom
<1>3. IsFiniteSet(SeenFrom(S, a))
    BY <1>1, <1>2, FS_Surjection
<1>4. \A x \in Change : x.seq \in Nat
    BY DEF Change
<1>5. QED
    BY <1>3, <1>4 DEF SeenFrom

\* What applyRemote does to the checkpoints.
LEMMA RemoteCheckpoint ==
    ASSUME IInv, Numbered, NEW d \in Device, NEW c \in changes, ApplyRemote(d, c)
    PROVE  /\ applied' = [applied EXCEPT ![d] = @ \union {c}]
           /\ applied'[d] = applied[d] \union {c}
           /\ checkpoint' \in [Device -> [Device -> Nat]]
           /\ \A e, a \in Device :
                 e # d \/ a # c.actor => checkpoint'[e][a] = checkpoint[e][a]
           /\ checkpoint'[d][c.actor] <= seq[c.actor]
           /\ \A o \in changes :
                 /\ o.actor = c.actor
                 /\ checkpoint[d][c.actor] < o.seq /\ o.seq <= checkpoint'[d][c.actor]
                 => o \in applied'[d]
<1>1. /\ applied \in [Device -> SUBSET Change] /\ c \in Change /\ c.actor \in Device
      /\ \A e \in Device : IsFiniteSet(applied[e])
      /\ checkpoint \in [Device -> [Device -> Nat]] /\ seq \in [Device -> Nat]
      /\ changes \subseteq Change
    BY DEF IInv, TypeOK, Change
<1> DEFINE cur == checkpoint[d][c.actor]
           seen == SeenFrom(applied'[d], c.actor)
           n == Advanced(cur, seen)
<1>2. /\ applied' = [applied EXCEPT ![d] = @ \union {c}]
      /\ applied'[d] = applied[d] \union {c}
      /\ applied'[d] \in SUBSET Change
    BY <1>1 DEF ApplyRemote
<1>3. IsFiniteSet(applied'[d])
    <2>1. IsFiniteSet(applied[d])
        BY <1>1
    <2>2. IsFiniteSet(applied[d] \union {c})
        BY <2>1, FS_AddElement
    <2>3. QED
        BY <1>2, <2>2
<1>4. checkpoint' = [checkpoint EXCEPT ![d][c.actor] = n]
    BY <1>1 DEF ApplyRemote, SeenFrom
<1>5. seen \in SUBSET Nat /\ IsFiniteSet(seen) /\ cur \in Nat
    BY <1>1, <1>2, <1>3, SeenFinite
<1>6. /\ n \in Nat /\ cur <= n
      /\ \A m \in Nat : cur < m /\ m <= n => m \in seen
    BY <1>5, AdvancedReaches
<1>7. checkpoint'[d][c.actor] = n
    BY <1>1, <1>4
<1>8. /\ checkpoint' \in [Device -> [Device -> Nat]]
      /\ \A e, a \in Device :
            e # d \/ a # c.actor => checkpoint'[e][a] = checkpoint[e][a]
    <2> HIDE DEF n
    <2>1. QED
        BY <1>1, <1>4, <1>6
<1>9. applied'[d] \subseteq changes
    BY <1>2 DEF Numbered
<1>10. \A m \in seen : \E o \in changes : /\ o \in applied'[d] /\ o.actor = c.actor
                                          /\ o.seq = m
    BY <1>9 DEF SeenFrom
<1>11. n <= seq[c.actor]
    <2>1. cur <= seq[c.actor] /\ seq[c.actor] \in Nat
        BY <1>1 DEF Numbered
    <2>2. CASE n = cur
        BY <2>1, <2>2
    <2>3. CASE n # cur
        <3>1. n \in seen
            BY <1>5, <1>6, <2>3
        <3>2. PICK o \in changes : o.actor = c.actor /\ o.seq = n
            BY <1>10, <3>1
        <3>3. QED
            BY <2>1, <3>2 DEF Numbered
    <2>4. QED
        BY <2>2, <2>3
<1>12. ASSUME NEW o \in changes, o.actor = c.actor, cur < o.seq, o.seq <= n
       PROVE  o \in applied'[d]
    <2>1. o.seq \in Nat
        BY <1>1 DEF Change
    <2>2. o.seq \in seen
        BY <1>6, <1>12, <2>1
    <2>3. PICK x \in changes : x \in applied'[d] /\ x.actor = c.actor /\ x.seq = o.seq
        BY <1>10, <2>2
    <2>4. x = o
        BY <1>12, <2>3 DEF Numbered
    <2>5. QED
        BY <2>3, <2>4
<1>13. QED
    BY <1>2, <1>7, <1>8, <1>11, <1>12
-----------------------------------------------------------------------------
(* The history.                                                            *)

\* A transaction keeps the history, if what the handler does to the applied
\* changes and to the checkpoints does.
LEMMA HistoryKept ==
    ASSUME HistoryInv, IInv', NEW d \in Device, NEW k \in SUBSET Item, NEW ws,
           Recording(d, k, ws),
           \A n \in DOMAIN ws : LifecyclePut(ws[n]),
           \A i \in k : \E c \in changes' : c.target = i,
           \A e \in Device : applied'[e] \subseteq changes',
           \A e, a \in Device : checkpoint'[e][a] <= seq'[a],
           UNCHANGED packages
    PROVE  HistoryInv'
<1>1. /\ known \in [Device -> SUBSET Item] /\ seq \in [Device -> Nat]
      /\ changes \subseteq Change
      /\ packages \subseteq [known : SUBSET Item, rows : [Item -> Row],
                             checkpoint : [Device -> Nat]]
    BY DEF HistoryInv, IInv, TypeOK
<1>2. /\ seq' \in [Device -> Nat] /\ \A e \in Device : seq[e] <= seq'[e]
      /\ known' = [known EXCEPT ![d] = k]
      /\ changes \subseteq changes'
    BY DEF Recording
<1>3. KnownRecorded'
    <2>1. \A e \in Device : known'[e] \subseteq {c.target : c \in changes'}
        <3> SUFFICES ASSUME NEW e \in Device, NEW i \in known'[e]
                     PROVE  \E c \in changes' : c.target = i
            OBVIOUS
        <3>1. CASE e = d
            BY <1>1, <1>2, <3>1
        <3>2. CASE e # d
            BY <1>1, <1>2, <3>2 DEF HistoryInv, KnownRecorded
        <3>3. QED
            BY <3>1, <3>2
    <2>2. \A pkg \in packages :
             /\ pkg.known \subseteq {c.target : c \in changes'}
             /\ \A i \in Item \ pkg.known : pkg.rows[i] = Blank
        BY <1>2 DEF HistoryInv, KnownRecorded
    <2>3. QED
        BY <2>1, <2>2 DEF KnownRecorded
<1>4. \A c \in changes : c.seq \in 1 .. seq[c.actor] /\ c.actor \in Device /\ c.seq \in Nat
    BY <1>1 DEF HistoryInv, Numbered, Change
<1>5. \A c \in changes' \ changes : /\ c.actor = d /\ c.seq \in Nat
                                    /\ seq[d] < c.seq /\ c.seq <= seq'[d]
    BY DEF Recording
<1>6. \A c \in changes' : c.seq \in 1 .. seq'[c.actor]
    <2>1. ASSUME NEW c \in changes
          PROVE  c.seq \in 1 .. seq'[c.actor]
        <3>1. seq[c.actor] \in Nat /\ seq'[c.actor] \in Nat /\ seq[c.actor] <= seq'[c.actor]
            BY <1>1, <1>2, <1>4
        <3>2. QED
            BY <1>4, <3>1
    <2>2. ASSUME NEW c \in changes' \ changes
          PROVE  c.seq \in 1 .. seq'[c.actor]
        <3>1. seq[d] \in Nat /\ seq'[d] \in Nat
            BY <1>1, <1>2
        <3>2. QED
            BY <1>5, <3>1
    <2>3. QED
        BY <2>1, <2>2
<1>7. ASSUME NEW c1 \in changes', NEW c2 \in changes', c1.actor = c2.actor, c1.seq = c2.seq
      PROVE  c1 = c2
    <2>1. CASE c1 \in changes /\ c2 \in changes
        BY <1>7, <2>1 DEF HistoryInv, Numbered
    <2>2. CASE c1 \in changes' \ changes /\ c2 \in changes' \ changes
        BY <1>7, <2>2 DEF Recording
    <2>3. ASSUME NEW x \in changes, NEW y \in changes' \ changes, x.actor = y.actor
          PROVE  x.seq # y.seq
        <3>1. x.seq \in 1 .. seq[d] /\ seq[d] \in Nat
            BY <1>1, <1>4, <1>5, <2>3
        <3>2. QED
            BY <1>5, <3>1
    <2>4. QED
        BY <1>7, <2>1, <2>2, <2>3
<1>8. \A pkg \in packages : \A a \in Device : pkg.checkpoint[a] <= seq'[a]
    <2> SUFFICES ASSUME NEW pkg \in packages, NEW a \in Device
                 PROVE  pkg.checkpoint[a] <= seq'[a]
        OBVIOUS
    <2>1. /\ pkg.checkpoint[a] <= seq[a] /\ pkg.checkpoint[a] \in Nat
          /\ seq[a] \in Nat /\ seq'[a] \in Nat /\ seq[a] <= seq'[a]
        BY <1>1, <1>2 DEF HistoryInv, Numbered
    <2>2. QED
        BY <2>1
<1>9. Numbered'
    BY <1>6, <1>7, <1>8 DEF Numbered
<1>10. \A c \in changes' : LifecyclePut(c)
    <2>1. \A c \in changes : LifecyclePut(c)
        BY DEF HistoryInv
    <2>2. ASSUME NEW c \in changes' \ changes
          PROVE  LifecyclePut(c)
        <3>1. \/ \E n \in DOMAIN ws : c.op = ws[n].op /\ c.puts = ws[n].puts
              \/ c.op = "SET_ITEM_CHECKED" /\ DOMAIN c.puts = {"checked"}
            BY DEF Recording
        <3>2. QED
            BY <3>1 DEF LifecyclePut
    <2>3. QED
        BY <2>1, <2>2
<1>11. QED
    BY <1>3, <1>9, <1>10 DEF HistoryInv

\* A step of the store as the exchange sees it: device d records changes of
\* known items only, and its rows then hold them.
Step(d, k, ws) ==
    /\ Recording(d, k, ws)
    /\ \A c \in changes' \ changes : Covers(rows'[d], c)
    /\ IInv' /\ NoFieldRegresses

\* A user operation is such a step.
LEMMA TransactionKeepsHistory ==
    ASSUME HistoryInv, NEW d \in Device, NEW op, NEW k, NEW ws, NEW P,
           Transaction(d, op, k, ws, P)
    PROVE  HistoryInv' /\ Step(d, k, ws)
<1>1. IInv /\ KnownRecorded /\ Numbered
    BY DEF HistoryInv
<1>2. /\ Local(d, op, k, ws, P) /\ k \in SUBSET Item /\ known[d] \subseteq k
      /\ ws \in Seq(WriteTo(k))
      /\ PutsOnce(ws \o Flips(k, Written(rows[d], ws, d, clock[d]), P))
      /\ \A n \in DOMAIN ws : LifecyclePut(ws[n])
      /\ \A i \in k \ known[d] : \E n \in DOMAIN ws : ws[n].target = i
    BY DEF Transaction
<1>3. IInv' /\ NoFieldRegresses
    BY <1>1, <1>2, LocalPreserves
<1>4. Commit(d, clock[d], k, rows[d], ws, P) /\ UNCHANGED <<applied, checkpoint, packages>>
    BY <1>2 DEF Local
<1>5. Committable(d, clock[d], k, rows[d])
    <2>1. /\ clock[d] \in Nat /\ rows[d] \in [Item -> Row]
          /\ \A i \in Item \ known[d] : rows[d][i] = Blank
        BY <1>1 DEF IInv, TypeOK
    <2>2. Backed(rows[d]) /\ ClockDominatesRows
        BY <1>1 DEF IInv, FieldsBacked, AllRows
    <2>3. QED
        BY <1>2, <2>1, <2>2 DEF Committable, ClockDominatesRows
<1>6. Recording(d, k, ws) /\ \A c \in changes' \ changes : Covers(rows'[d], c)
    BY <1>1, <1>2, <1>4, <1>5, CommitRecords
<1>7. \A i \in k : \E c \in changes' : c.target = i
    <2> SUFFICES ASSUME NEW i \in k
                 PROVE  \E c \in changes' : c.target = i
        OBVIOUS
    <2>1. CASE i \in known[d]
        BY <1>1, <1>6, <2>1 DEF KnownRecorded, Recording
    <2>2. CASE i \notin known[d]
        <3>1. PICK n \in DOMAIN ws : ws[n].target = i
            BY <1>2, <2>2
        <3>2. QED
            BY <1>6, <3>1 DEF Recording
    <2>3. QED
        BY <2>1, <2>2
<1>8. \A e \in Device : applied'[e] \subseteq changes'
    BY <1>1, <1>4, <1>6 DEF Numbered, Recording
<1>9. \A e, a \in Device : checkpoint'[e][a] <= seq'[a]
    <2> SUFFICES ASSUME NEW e \in Device, NEW a \in Device
                 PROVE  checkpoint'[e][a] <= seq'[a]
        OBVIOUS
    <2>1. /\ checkpoint[e][a] \in Nat /\ seq[a] \in Nat /\ seq'[a] \in Nat
          /\ checkpoint[e][a] <= seq[a] /\ seq[a] <= seq'[a]
        BY <1>1, <1>6 DEF IInv, TypeOK, Numbered, Recording
    <2>2. checkpoint'[e][a] = checkpoint[e][a]
        BY <1>4
    <2>3. QED
        BY <2>1, <2>2
<1>10. HistoryInv'
    BY <1>2, <1>3, <1>4, <1>6, <1>7, <1>8, <1>9, HistoryKept
<1>11. QED
    BY <1>3, <1>6, <1>10 DEF Step

\* The cascade alone puts each field once.
LEMMA EmptyCascadeOnce ==
    ASSUME NEW k \in SUBSET Item, NEW r \in [Item -> Row], NEW P,
           NEW d \in Device, NEW base \in Nat
    PROVE  PutsOnce(<<>> \o Flips(k, Written(r, <<>>, d, base), P))
<1>1. <<>> \in Seq(Write) /\ <<>> \in Seq(WriteTo(k)) /\ DOMAIN <<>> = {}
    OBVIOUS
<1>2. Written(r, <<>>, d, base) \in [Item -> Row]
    BY <1>1, WrittenRows DEF AfterWrites
<1>3. PutsOnce(<<>>)
    BY <1>1 DEF PutsOnce
<1>4. QED
    BY <1>1, <1>2, <1>3, CascadeOnce

\* So is applyRemote.
LEMMA RemoteKeepsHistory ==
    ASSUME HistoryInv, NEW d \in Device, NEW c \in changes, ApplyRemote(d, c)
    PROVE  HistoryInv' /\ Step(d, KnownAfter(known[d], c), <<>>)
<1> DEFINE k == KnownAfter(known[d], c)
           F == Overwrites(known[d], rows[d], c)
           r == [rows[d] EXCEPT ![c.target] = Merged(@, c, F)]
           base == Observed(clock[d], c.stamp.clock)
           P == Recomputed(k, rows[d], r, c, F)
<1>1. IInv /\ KnownRecorded /\ Numbered
    BY DEF HistoryInv
<1>2. IInv' /\ NoFieldRegresses
    BY <1>1, ApplyRemotePreserves
<1>3. Commit(d, base, k, r, <<>>, P) /\ UNCHANGED packages
    BY DEF ApplyRemote
<1>4. Committable(d, base, k, r)
    BY <1>1, RemoteCommittable
<1> HIDE DEF k, F, r, base, P
<1>5. k \in SUBSET Item /\ r \in [Item -> Row] /\ base \in Nat
    BY <1>4 DEF Committable
<1>6. <<>> \in Seq(WriteTo(k)) /\ DOMAIN <<>> = {}
    OBVIOUS
<1>7. PutsOnce(<<>> \o Flips(k, Written(r, <<>>, d, base), P))
    BY <1>5, EmptyCascadeOnce
<1>8. Recording(d, k, <<>>) /\ \A x \in changes' \ changes : Covers(rows'[d], x)
    BY <1>1, <1>3, <1>4, <1>6, <1>7, CommitRecords
<1>9. \A i \in k : \E x \in changes' : x.target = i
    BY <1>1, <1>8 DEF KnownRecorded, Recording, k, KnownAfter
<1>10. \A e \in Device : applied'[e] \subseteq changes'
    <2>1. /\ applied' = [applied EXCEPT ![d] = @ \union {c}]
          /\ applied \in [Device -> SUBSET Change]
        BY <1>1, RemoteCheckpoint DEF IInv, TypeOK
    <2>2. changes \subseteq changes'
        BY <1>8 DEF Recording
    <2>3. QED
        BY <1>1, <2>1, <2>2 DEF Numbered
<1>11. \A e, a \in Device : checkpoint'[e][a] <= seq'[a]
    <2> SUFFICES ASSUME NEW e \in Device, NEW a \in Device
                 PROVE  checkpoint'[e][a] <= seq'[a]
        OBVIOUS
    <2>1. /\ checkpoint[e][a] \in Nat /\ checkpoint'[e][a] \in Nat
          /\ seq[a] \in Nat /\ seq'[a] \in Nat
          /\ checkpoint[e][a] <= seq[a] /\ seq[a] <= seq'[a]
        BY <1>1, <1>2, <1>8 DEF IInv, TypeOK, Numbered, Recording
    <2>2. checkpoint'[e][a] <= seq[a]
        <3>1. CASE e = d /\ a = c.actor
            BY <1>1, <3>1, RemoteCheckpoint
        <3>2. CASE ~(e = d /\ a = c.actor)
            <4>1. checkpoint'[e][a] = checkpoint[e][a]
                BY <1>1, <3>2, RemoteCheckpoint
            <4>2. QED
                BY <2>1, <4>1
        <3>3. QED
            BY <3>1, <3>2
    <2>3. QED
        BY <2>1, <2>2
<1>12. HistoryInv'
    BY <1>2, <1>3, <1>5, <1>6, <1>8, <1>9, <1>10, <1>11, HistoryKept
<1>13. QED
    BY <1>2, <1>8, <1>12 DEF Step, k

\* And importSnapshot.
LEMMA ImportKeepsHistory ==
    ASSUME HistoryInv, NEW d \in Device, NEW pkg \in packages, Import(d, pkg)
    PROVE  HistoryInv' /\ Step(d, known[d] \union pkg.known, <<>>)
<1> DEFINE k == known[d] \union pkg.known
           r == [i \in Item |-> IF i \in pkg.known
                               THEN MergedRow(rows[d][i], pkg.rows[i]) ELSE rows[d][i]]
           P == IF k # known[d] \/ r # rows[d]
                THEN Parents(known[d], rows[d]) \union Parents(k, r) ELSE {}
<1>1. IInv /\ KnownRecorded /\ Numbered
    BY DEF HistoryInv
<1>2. IInv' /\ NoFieldRegresses
    BY <1>1, ImportPreserves
<1>3. PICK seen \in PackageClocks(pkg) :
        /\ \A n \in PackageClocks(pkg) : n <= seen
        /\ Commit(d, Observed(clock[d], seen), k, r, <<>>, P)
    BY DEF Import
<1> DEFINE base == Observed(clock[d], seen)
<1>4. Committable(d, base, k, r)
    BY <1>1, <1>3, ImportCommittable
<1>5. Commit(d, base, k, r, <<>>, P) /\ UNCHANGED <<applied, packages>>
    BY <1>3 DEF Import
<1> HIDE DEF k, r, base, P
<1>6. k \in SUBSET Item /\ r \in [Item -> Row] /\ base \in Nat
    BY <1>4 DEF Committable
<1>7. <<>> \in Seq(WriteTo(k)) /\ DOMAIN <<>> = {}
    OBVIOUS
<1>8. PutsOnce(<<>> \o Flips(k, Written(r, <<>>, d, base), P))
    BY <1>6, EmptyCascadeOnce
<1>9. Recording(d, k, <<>>) /\ \A x \in changes' \ changes : Covers(rows'[d], x)
    BY <1>1, <1>4, <1>5, <1>7, <1>8, CommitRecords
<1>10. \A i \in k : \E x \in changes' : x.target = i
    BY <1>1, <1>9 DEF KnownRecorded, Recording, k
<1>11. \A e \in Device : applied'[e] \subseteq changes'
    BY <1>1, <1>5, <1>9 DEF Numbered, Recording
<1>12. \A e, a \in Device : checkpoint'[e][a] <= seq'[a]
    <2> SUFFICES ASSUME NEW e \in Device, NEW a \in Device
                 PROVE  checkpoint'[e][a] <= seq'[a]
        OBVIOUS
    <2>1. /\ checkpoint \in [Device -> [Device -> Nat]]
          /\ checkpoint[e][a] \in Nat /\ pkg.checkpoint[a] \in Nat
          /\ seq[a] \in Nat /\ seq'[a] \in Nat
          /\ checkpoint[e][a] <= seq[a] /\ pkg.checkpoint[a] <= seq[a] /\ seq[a] <= seq'[a]
        BY <1>1, <1>9 DEF IInv, TypeOK, Numbered, Recording
    <2>2. checkpoint'[e][a] = checkpoint[e][a] \/ checkpoint'[e][a] = pkg.checkpoint[a]
        BY <2>1 DEF Import
    <2>3. QED
        BY <2>1, <2>2
<1>13. HistoryInv'
    BY <1>2, <1>5, <1>6, <1>7, <1>9, <1>10, <1>11, <1>12, HistoryKept
<1>14. QED
    BY <1>2, <1>9, <1>13 DEF Step, k

\* exportSnapshot keeps the history: what it sends of its own changes it has
\* numbered already.
LEMMA ExportKeepsHistory ==
    ASSUME HistoryInv, NEW d \in Device, Export(d)
    PROVE  HistoryInv' /\ IInv' /\ NoFieldRegresses
<1> DEFINE sent == [checkpoint[d] EXCEPT ![d] = IF @ >= seq[d] THEN @ ELSE seq[d]]
           pkg == [known |-> known[d], rows |-> rows[d], checkpoint |-> sent]
<1>1. IInv /\ KnownRecorded /\ Numbered
    BY DEF HistoryInv
<1>2. IInv' /\ NoFieldRegresses
    BY <1>1, ExportPreserves
<1>3. /\ packages' = packages \union {pkg}
      /\ UNCHANGED <<clock, seq, known, rows, changes, applied, checkpoint>>
    BY DEF Export
<1>4. /\ \A i \in Item \ known[d] : rows[d][i] = Blank
      /\ checkpoint[d] \in [Device -> Nat] /\ seq \in [Device -> Nat]
    BY <1>1 DEF IInv, TypeOK
<1>5. \A a \in Device : sent[a] <= seq[a]
    <2> SUFFICES ASSUME NEW a \in Device
                 PROVE  sent[a] <= seq[a]
        OBVIOUS
    <2>1. checkpoint[d][a] <= seq[a] /\ seq[a] \in Nat
        BY <1>1, <1>4 DEF Numbered
    <2>2. sent[a] = checkpoint[d][a] \/ sent[a] = seq[a]
        BY <1>4
    <2>3. QED
        BY <2>1, <2>2
<1>6. pkg.known = known[d] /\ pkg.rows = rows[d] /\ pkg.checkpoint = sent
    OBVIOUS
<1> HIDE DEF pkg, sent
<1>7. KnownRecorded'
    BY <1>1, <1>3, <1>4, <1>6 DEF KnownRecorded
<1>8. Numbered'
    BY <1>1, <1>3, <1>5, <1>6 DEF Numbered
<1>9. \A c \in changes' : LifecyclePut(c)
    BY <1>3 DEF HistoryInv
<1>10. QED
    BY <1>2, <1>7, <1>8, <1>9 DEF HistoryInv

\* Every user operation is a transaction.
LEMMA UserTransactions ==
    ASSUME HistoryInv, NEW d \in Device,
           \/ AddItem(d) \/ SetText(d) \/ SetChecked(d)
           \/ MoveItem(d) \/ DeleteItems(d) \/ RestoreItem(d)
    PROVE  \E op, k, ws, P : Transaction(d, op, k, ws, P)
<1>1. TypeOK /\ KnownRecorded
    BY DEF HistoryInv, IInv
<1>2. CASE AddItem(d)
    BY <1>1, <1>2, AddItemTransaction DEF AddItem
<1>3. CASE SetChecked(d)
    BY <1>1, <1>3, SetCheckedTransaction DEF SetChecked
<1>4. CASE DeleteItems(d)
    BY <1>1, <1>4, DeleteItemsTransaction DEF DeleteItems
<1>5. QED
    BY <1>1, <1>2, <1>3, <1>4, SinglePutTransactions

\* Every step keeps the history.
LEMMA NextKeepsHistory ==
    ASSUME HistoryInv, [Next]_vars
    PROVE  HistoryInv'
<1>1. ASSUME UNCHANGED <<seq, known, changes, applied, checkpoint, packages>>, IInv'
      PROVE  HistoryInv'
    BY <1>1 DEF HistoryInv, KnownRecorded, Numbered
<1>2. IInv'
    BY NextPreserves DEF HistoryInv
<1>3. CASE UNCHANGED vars
    BY <1>1, <1>2, <1>3 DEF vars
<1>4. ASSUME NEW d \in Device,
             \/ AddItem(d) \/ SetText(d) \/ SetChecked(d)
             \/ MoveItem(d) \/ DeleteItems(d) \/ RestoreItem(d)
      PROVE  HistoryInv'
    BY <1>4, UserTransactions, TransactionKeepsHistory
<1>5. ASSUME NEW d \in Device, EditElsewhere(d)
      PROVE  HistoryInv'
    BY <1>1, <1>2, <1>5 DEF EditElsewhere
<1>6. ASSUME NEW d \in Device, NEW c \in changes, ApplyRemote(d, c)
      PROVE  HistoryInv'
    BY <1>6, RemoteKeepsHistory
<1>7. ASSUME NEW d \in Device, Export(d)
      PROVE  HistoryInv'
    BY <1>7, ExportKeepsHistory
<1>8. ASSUME NEW d \in Device, NEW pkg \in packages, Import(d, pkg)
      PROVE  HistoryInv'
    BY <1>8, ImportKeepsHistory
<1>9. QED
    BY <1>3, <1>4, <1>5, <1>6, <1>7, <1>8 DEF Next

\* An empty history is one.
LEMMA InitHistory == Init => HistoryInv
<1> SUFFICES ASSUME Init
             PROVE  HistoryInv
    OBVIOUS
<1>1. IInv
    BY InitEstablishes
<1>2. /\ changes = {} /\ packages = {} /\ known = [d \in Device |-> {}]
      /\ applied = [d \in Device |-> {}] /\ seq = [d \in Device |-> 0]
      /\ checkpoint = [d \in Device |-> [a \in Device |-> 0]]
    BY DEF Init
<1>3. KnownRecorded
    BY <1>2 DEF KnownRecorded
<1>4. Numbered
    BY <1>2 DEF Numbered
<1>5. QED
    BY <1>1, <1>2, <1>3, <1>4 DEF HistoryInv

\* Every reachable history: rows are of recorded items, the changes of a
\* device are numbered without repetition, no checkpoint is ahead of its
\* source, and only deletions and restores put lifecycles.
THEOREM HistoryInvariant == Spec => []HistoryInv
<1>1. Init => HistoryInv
    BY InitHistory
<1>2. HistoryInv /\ [Next]_vars => HistoryInv'
    BY NextKeepsHistory
<1>3. QED
    BY <1>1, <1>2, PTL DEF Spec

\* A tombstone goes away only on the strength of a restore of that item that
\* is newer than it (applyItemLifecycle, mergeImportedItem).
THEOREM RestoreRevives == Spec => OnlyRestoreRevives
<1> DEFINE Revived ==
      \A d \in Device, i \in Item :
          rows[d][i].val["life"] = "DELETED" /\ rows'[d][i].val["life"] = "ACTIVE"
            => \E c \in changes' : /\ c.op = "RESTORE_ITEM" /\ c.target = i
                                   /\ c.stamp = rows'[d][i].at["life"]
                                   /\ After(c.stamp, rows[d][i].at["life"])
<1>1. HistoryInv /\ HistoryInv' /\ [Next]_vars => [Revived]_vars
    <2> SUFFICES ASSUME HistoryInv, HistoryInv', [Next]_vars, ~UNCHANGED vars,
                        NEW d \in Device, NEW i \in Item,
                        rows[d][i].val["life"] = "DELETED",
                        rows'[d][i].val["life"] = "ACTIVE"
                 PROVE  \E c \in changes' : /\ c.op = "RESTORE_ITEM" /\ c.target = i
                                            /\ c.stamp = rows'[d][i].at["life"]
                                            /\ After(c.stamp, rows[d][i].at["life"])
        OBVIOUS
    <2>1. NoFieldRegresses
        BY NextPreserves DEF HistoryInv
    <2>2. "life" \in Field
        BY DEF Field
    <2>3. After(rows'[d][i].at["life"], rows[d][i].at["life"])
        BY <2>1, <2>2 DEF NoFieldRegresses
    <2>4. rows[d][i].at["life"] \in Stamp
        BY <2>2 DEF HistoryInv, IInv, TypeOK, Row
    <2>5. rows'[d][i].at["life"] # Zero
        BY <2>3, <2>4 DEF After, Stamp, Zero
    <2>6. FieldsBacked'
        BY DEF HistoryInv, IInv
    <2>7. PICK c \in changes' : /\ c.target = i /\ "life" \in DOMAIN c.puts
                               /\ c.stamp = rows'[d][i].at["life"]
                               /\ c.puts["life"] = rows'[d][i].val["life"]
        BY <2>2, <2>5, <2>6 DEF FieldsBacked, AllRows, Backed
    <2>8. LifecyclePut(c)
        BY DEF HistoryInv
    <2>9. c.op = "RESTORE_ITEM"
        BY <2>7, <2>8 DEF LifecyclePut
    <2>10. QED
        BY <2>3, <2>7, <2>9
<1>2. OnlyRestoreRevives <=> [][Revived]_vars
    BY DEF OnlyRestoreRevives
<1>3. QED
    BY <1>1, <1>2, HistoryInvariant, PTL DEF Spec
-----------------------------------------------------------------------------
(* What a device holds stays held.                                         *)

\* The order of stamps is total: what is not after t is not after anything
\* that is after t, and two stamps of which none is after the other are one.
LEMMA NotAfterOrder ==
    ASSUME NEW s \in Stamp, NEW t \in Stamp, NEW u \in Stamp
    PROVE  /\ ~After(s, t) /\ (u = t \/ After(u, t)) => ~After(s, u)
           /\ ~After(s, t) /\ t.clock < u.clock => ~After(s, u)
           /\ ~After(s, t) /\ ~After(t, u) => ~After(s, u)
           /\ ~After(s, t) /\ ~After(t, s) => s = t
BY DEF After, Stamp

\* The types of what Covers compares.
LEMMA CoversTypes ==
    ASSUME NEW c \in Change, NEW r \in [Item -> Row]
    PROVE  /\ c.target \in Item /\ c.stamp \in Stamp /\ DOMAIN c.puts \subseteq Field
           /\ \A f \in DOMAIN c.puts : r[c.target].at[f] \in Stamp
<1>1. c.target \in Item /\ c.stamp \in Stamp /\ c.puts \in Payload
    BY DEF Change
<1>2. DOMAIN c.puts \subseteq Field
    BY <1>1 DEF Payload
<1>3. r[c.target].at \in [Field -> Stamp]
    BY <1>1 DEF Row
<1>4. QED
    BY <1>1, <1>2, <1>3

\* No step takes away what a device holds.
LEMMA CoversKept ==
    ASSUME IInv, IInv', NoFieldRegresses, NEW e \in Device, NEW c \in Change,
           Covers(rows[e], c)
    PROVE  Covers(rows'[e], c)
<1>1. rows[e] \in [Item -> Row] /\ rows'[e] \in [Item -> Row]
    BY DEF IInv, TypeOK
<1>2. SUFFICES ASSUME NEW f \in DOMAIN c.puts
               PROVE  ~After(c.stamp, rows'[e][c.target].at[f])
    BY DEF Covers
<1>3. /\ c.target \in Item /\ f \in Field /\ c.stamp \in Stamp
      /\ rows[e][c.target].at[f] \in Stamp /\ rows'[e][c.target].at[f] \in Stamp
    BY <1>1, CoversTypes
<1>4. \/ rows'[e][c.target].at[f] = rows[e][c.target].at[f]
      \/ After(rows'[e][c.target].at[f], rows[e][c.target].at[f])
    BY <1>3 DEF NoFieldRegresses
<1>5. ~After(c.stamp, rows[e][c.target].at[f])
    BY DEF Covers
<1>6. QED
    BY <1>3, <1>4, <1>5, NotAfterOrder

\* A transaction keeps what the rows it starts from hold.
LEMMA CommittedCovers ==
    ASSUME IInv, NEW d \in Device, NEW base, NEW k, NEW r,
           Committable(d, base, k, r), Committed(d, base, r),
           NEW c \in Change, Covers(r, c)
    PROVE  Covers(rows'[d], c)
<1>1. r \in [Item -> Row] /\ rows'[d] \in [Item -> Row] /\ base \in Nat
    BY DEF Committable, Committed
<1>2. SUFFICES ASSUME NEW f \in DOMAIN c.puts
               PROVE  ~After(c.stamp, rows'[d][c.target].at[f])
    BY DEF Covers
<1>3. /\ c.target \in Item /\ f \in Field /\ c.stamp \in Stamp
      /\ r[c.target].at[f] \in Stamp /\ rows'[d][c.target].at[f] \in Stamp
    BY <1>1, CoversTypes
<1>4. ~After(c.stamp, r[c.target].at[f]) /\ r[c.target].at[f].clock <= base
    BY <1>3 DEF Covers, Committable
<1>5. CASE rows'[d][c.target].at[f] = r[c.target].at[f]
    BY <1>4, <1>5
<1>6. CASE rows'[d][c.target].at[f].clock > base
    <2>1. r[c.target].at[f].clock < rows'[d][c.target].at[f].clock
        BY <1>1, <1>3, <1>4, <1>6 DEF Stamp
    <2>2. QED
        BY <1>3, <1>4, <2>1, NotAfterOrder
<1>7. QED
    BY <1>3, <1>5, <1>6 DEF Committed

\* Nothing is deleted while no change puts a lifecycle.
LEMMA AllActive ==
    ASSUME IInv, NothingDeleted, NEW d \in Device
    PROVE  /\ \A i \in Item : rows[d][i].val["life"] = "ACTIVE"
           /\ Active(known[d], rows[d]) = known[d]
<1>1. Backed(rows[d]) /\ "life" \in Field
    BY DEF IInv, FieldsBacked, AllRows, Field
<1>2. Blank.val["life"] = "ACTIVE"
    BY DEF Blank
<1>3. \A i \in Item : rows[d][i].val["life"] = "ACTIVE"
    BY <1>1, <1>2 DEF Backed, NothingDeleted
<1>4. known[d] \subseteq Item
    BY DEF IInv, TypeOK
<1>5. QED
    BY <1>3, <1>4 DEF Active

\* No step deletes when the users delete nothing.
LEMMA NothingDeletedKept ==
    ASSUME "DELETE_ITEM" \notin Operations, HistoryInv, NothingDeleted, NEW d \in Device,
           NEW k, NEW ws, Step(d, k, ws),
           \/ ws = <<>>
           \/ \E op, P : Transaction(d, op, k, ws, P)
    PROVE  NothingDeleted'
<1>1. \A n \in DOMAIN ws : "life" \notin DOMAIN ws[n].puts
    <2>1. CASE ws = <<>>
        BY <2>1
    <2>2. ASSUME NEW op, NEW P, Transaction(d, op, k, ws, P)
          PROVE  \A n \in DOMAIN ws : "life" \notin DOMAIN ws[n].puts
        <3>1. op # "DELETE_ITEM"
            BY <2>2 DEF Transaction, Local
        <3>2. op # "RESTORE_ITEM"
            <4>1. \A i \in known[d] : rows[d][i].val["life"] = "ACTIVE"
                BY AllActive DEF HistoryInv, IInv, TypeOK
            <4>2. QED
                BY <2>2, <4>1 DEF Transaction
        <3>3. \A n \in DOMAIN ws :
                 /\ LifecyclePut(ws[n])
                 /\ ws[n].op \in {"DELETE_ITEM", "RESTORE_ITEM"} => ws[n].op = op
            BY <2>2 DEF Transaction
        <3>4. QED
            BY <3>1, <3>2, <3>3 DEF LifecyclePut
    <2>3. QED
        BY <2>1, <2>2
<1>2. \A c \in changes' \ changes : "life" \notin DOMAIN c.puts
    <2> SUFFICES ASSUME NEW c \in changes' \ changes
                 PROVE  "life" \notin DOMAIN c.puts
        OBVIOUS
    <2>1. \/ \E n \in DOMAIN ws : c.op = ws[n].op /\ c.puts = ws[n].puts
          \/ c.op = "SET_ITEM_CHECKED" /\ DOMAIN c.puts = {"checked"}
        BY DEF Step, Recording
    <2>2. QED
        BY <1>1, <2>1
<1>3. QED
    BY <1>2 DEF NothingDeleted

\* Device d receives the changes T, and holds them.
Receives(d, k, T) ==
    /\ \A c \in T : c \in changes /\ c.target \in k /\ Covers(rows'[d], c)
    /\ \A e \in Device : applied'[e] \subseteq applied[e] \union T
    /\ \A e \in Device : e # d => applied'[e] = applied[e]

\* A step of device d keeps what is held, if what d has newly received, the
\* set T, and what its new checkpoints pass is held afterwards.
LEMMA HeldKept ==
    ASSUME ExchangeInv, HistoryInv', NothingDeleted', NEW d \in Device,
           NEW k, NEW ws, Step(d, k, ws), known[d] \subseteq k, UNCHANGED packages,
           NEW T,
           Receives(d, k, T),
           \A e, a \in Device : checkpoint'[e][a] <= seq[a],
           \A e \in Device : \A c \in changes :
              c.seq <= checkpoint'[e][c.actor] => Covers(rows'[e], c)
    PROVE  ExchangeInv'
<1>1. HistoryInv /\ IInv /\ IInv' /\ NoFieldRegresses
    BY DEF ExchangeInv, HistoryInv, Step
<1>2. /\ known \in [Device -> SUBSET Item] /\ seq \in [Device -> Nat]
      /\ checkpoint' \in [Device -> [Device -> Nat]]
      /\ changes \subseteq Change /\ changes' \subseteq Change
      /\ packages \subseteq [known : SUBSET Item, rows : [Item -> Row],
                             checkpoint : [Device -> Nat]]
    BY <1>1 DEF IInv, TypeOK
<1>3. /\ known' = [known EXCEPT ![d] = k]
      /\ \A c \in changes' \ changes : c.actor = d /\ c.target \in k
      /\ \A c \in changes' \ changes : c.seq \in Nat /\ seq[d] < c.seq
      /\ \A c \in changes' \ changes : Covers(rows'[d], c)
    BY DEF Step, Recording
<1>4. ReceivedHeld'
    <2> SUFFICES ASSUME NEW e \in Device, NEW c \in Received(e)'
                 PROVE  c.target \in known'[e] /\ Covers(rows'[e], c)
        BY DEF ReceivedHeld
    <2>1. \A x \in Device : known[x] \subseteq known'[x]
        BY <1>2, <1>3
    <2>2. CASE c \in Received(e)
        <3>1. c.target \in known[e] /\ Covers(rows[e], c)
            BY <2>2 DEF ExchangeInv, ReceivedHeld
        <3>2. c \in Change
            BY <1>1, <2>2 DEF Received, IInv, TypeOK
        <3>3. QED
            BY <1>1, <2>1, <3>1, <3>2, CoversKept
    <2>3. CASE c \notin Received(e)
        <3>1. e = d
            BY <1>3, <2>3 DEF Received, Receives
        <3>2. c \in T \/ c \in changes' \ changes
            BY <2>3 DEF Received, Receives
        <3>3. known'[d] = k
            BY <1>2, <1>3
        <3>4. QED
            BY <1>3, <3>1, <3>2, <3>3 DEF Receives
    <2>4. QED
        BY <2>2, <2>3
<1>5. CheckpointCoversState'
    <2> SUFFICES ASSUME NEW e \in Device, NEW c \in changes',
                        c.seq <= checkpoint'[e][c.actor]
                 PROVE  Covers(rows'[e], c)
        BY DEF CheckpointCoversState
    <2>1. CASE c \in changes
        BY <2>1
    <2>2. CASE c \notin changes
        <3>1. c.actor = d /\ c.seq \in Nat /\ seq[d] < c.seq /\ seq[d] \in Nat
            BY <1>2, <1>3, <2>2
        <3>2. checkpoint'[e][d] <= seq[d] /\ checkpoint'[e][d] \in Nat
            BY <1>2
        <3>3. QED
            BY <3>1, <3>2
    <2>3. QED
        BY <2>1, <2>2
<1>6. PackagesCoverState'
    <2> SUFFICES ASSUME NEW pkg \in packages, NEW c \in changes',
                        c.seq <= pkg.checkpoint[c.actor]
                 PROVE  Covers(pkg.rows, c)
        BY DEF PackagesCoverState
    <2>1. CASE c \in changes
        BY <2>1 DEF ExchangeInv, PackagesCoverState
    <2>2. CASE c \notin changes
        <3>1. c.actor = d /\ c.seq \in Nat /\ seq[d] < c.seq /\ seq[d] \in Nat
            BY <1>2, <1>3, <2>2
        <3>2. pkg.checkpoint[d] <= seq[d] /\ pkg.checkpoint[d] \in Nat
            BY <1>1, <1>2 DEF HistoryInv, Numbered
        <3>3. QED
            BY <3>1, <3>2
    <2>3. QED
        BY <2>1, <2>2
<1>7. QED
    BY <1>4, <1>5, <1>6 DEF ExchangeInv

\* The user operations keep what is held.
LEMMA TransactionKeepsHeld ==
    ASSUME "DELETE_ITEM" \notin Operations, ExchangeInv, NEW d \in Device,
           NEW op, NEW k, NEW ws, NEW P, Transaction(d, op, k, ws, P)
    PROVE  ExchangeInv'
<1>1. HistoryInv /\ NothingDeleted /\ IInv /\ Numbered
    BY DEF ExchangeInv, HistoryInv
<1>2. HistoryInv' /\ Step(d, k, ws)
    BY <1>1, TransactionKeepsHistory
<1>3. NothingDeleted'
    BY <1>1, <1>2, NothingDeletedKept
<1>4. known[d] \subseteq k /\ UNCHANGED <<applied, checkpoint, packages>>
    BY DEF Transaction, Local
<1>5. \A e, a \in Device : checkpoint'[e][a] <= seq[a]
    BY <1>1, <1>4 DEF Numbered
<1>6. \A e \in Device : \A c \in changes :
         c.seq <= checkpoint'[e][c.actor] => Covers(rows'[e], c)
    <2> SUFFICES ASSUME NEW e \in Device, NEW c \in changes,
                        c.seq <= checkpoint'[e][c.actor]
                 PROVE  Covers(rows'[e], c)
        OBVIOUS
    <2>1. Covers(rows[e], c)
        BY <1>4 DEF ExchangeInv, CheckpointCoversState
    <2>2. c \in Change
        BY <1>1 DEF IInv, TypeOK
    <2>3. QED
        BY <1>1, <1>2, <2>1, <2>2, CoversKept DEF Step
<1>7. Receives(d, k, {})
    BY <1>4 DEF Receives
<1>8. QED
    BY <1>2, <1>3, <1>4, <1>5, <1>6, <1>7, HeldKept

\* applyRemote holds the change it marks applied.
LEMMA RemoteHolds ==
    ASSUME ExchangeInv, NEW d \in Device, NEW c \in changes, ApplyRemote(d, c)
    PROVE  c.target \in KnownAfter(known[d], c) /\ Covers(rows'[d], c)
<1> DEFINE k == KnownAfter(known[d], c)
           F == Overwrites(known[d], rows[d], c)
           r == [rows[d] EXCEPT ![c.target] = Merged(@, c, F)]
           base == Observed(clock[d], c.stamp.clock)
           P == Recomputed(k, rows[d], r, c, F)
<1>1. IInv /\ NothingDeleted /\ LifecyclePut(c)
    BY DEF ExchangeInv, HistoryInv
<1>2. c \in Change /\ rows[d] \in [Item -> Row]
    BY <1>1 DEF IInv, TypeOK
<1>3. /\ c.target \in Item /\ c.stamp \in Stamp /\ DOMAIN c.puts \subseteq Field
      /\ c.puts \in Payload
    BY <1>2, CoversTypes DEF Change
<1>4. c.op # "RESTORE_ITEM" /\ c.target \in k
    BY <1>1 DEF LifecyclePut, NothingDeleted, KnownAfter
<1>5. F \in SUBSET DOMAIN c.puts
    BY DEF Overwrites
<1>6. \A f \in DOMAIN c.puts : f \notin F => ~After(c.stamp, rows[d][c.target].at[f])
    <2>1. rows[d][c.target].val["life"] = "ACTIVE"
        BY <1>1, <1>3, AllActive
    <2>2. QED
        BY <1>4, <2>1 DEF Overwrites
<1>7. Committable(d, base, k, r)
    BY <1>1, RemoteCommittable
<1>8. r[c.target] = Merged(rows[d][c.target], c, F)
    BY <1>2, <1>3
<1>9. Commit(d, base, k, r, <<>>, P)
    BY DEF ApplyRemote
<1> HIDE DEF k, F, r, base, P
<1>10. Committed(d, base, r)
    <2>1. <<>> \in Seq(WriteTo(k))
        OBVIOUS
    <2>2. QED
        BY <1>1, <1>7, <1>9, <2>1, CommitPreserves
<1>11. Covers(r, c)
    <2> SUFFICES ASSUME NEW f \in DOMAIN c.puts
                 PROVE  ~After(c.stamp, r[c.target].at[f])
        BY DEF Covers
    <2>1. rows[d][c.target] \in Row /\ f \in Field
        BY <1>2, <1>3
    <2>2. CASE f \in F
        <3>1. r[c.target].at[f] = c.stamp
            BY <1>2, <1>5, <1>8, <2>1, <2>2, MergedType
        <3>2. QED
            BY <1>3, <3>1 DEF After, Stamp
    <2>3. CASE f \notin F
        <3>1. r[c.target].at[f] = rows[d][c.target].at[f]
            BY <1>2, <1>5, <1>8, <2>1, <2>3, MergedType
        <3>2. QED
            BY <1>6, <2>3, <3>1
    <2>4. QED
        BY <2>2, <2>3
<1>12. Covers(rows'[d], c)
    BY <1>1, <1>2, <1>7, <1>10, <1>11, CommittedCovers
<1>13. QED
    BY <1>4, <1>12 DEF k

\* applyRemote keeps what is held.
LEMMA RemoteKeepsHeld ==
    ASSUME "DELETE_ITEM" \notin Operations, ExchangeInv,
           NEW d \in Device, NEW c \in changes, ApplyRemote(d, c)
    PROVE  ExchangeInv'
<1> DEFINE k == KnownAfter(known[d], c)
<1>1. HistoryInv /\ NothingDeleted /\ IInv /\ Numbered
    BY DEF ExchangeInv, HistoryInv
<1>2. HistoryInv' /\ Step(d, k, <<>>)
    BY <1>1, RemoteKeepsHistory
<1>3. NothingDeleted'
    BY <1>1, <1>2, NothingDeletedKept
<1>4. known[d] \subseteq k /\ UNCHANGED packages
    BY DEF ApplyRemote, KnownAfter
<1>5. c.target \in k /\ Covers(rows'[d], c)
    BY RemoteHolds
<1>6. /\ applied' = [applied EXCEPT ![d] = @ \union {c}]
      /\ applied'[d] = applied[d] \union {c}
      /\ \A e, a \in Device :
            e # d \/ a # c.actor => checkpoint'[e][a] = checkpoint[e][a]
      /\ checkpoint'[d][c.actor] <= seq[c.actor]
      /\ \A o \in changes :
            /\ o.actor = c.actor
            /\ checkpoint[d][c.actor] < o.seq /\ o.seq <= checkpoint'[d][c.actor]
            => o \in applied'[d]
    BY <1>1, RemoteCheckpoint
<1>7. /\ applied \in [Device -> SUBSET Change]
      /\ checkpoint \in [Device -> [Device -> Nat]] /\ changes \subseteq Change
    BY <1>1 DEF IInv, TypeOK
<1>8. Receives(d, k, {c})
    BY <1>5, <1>6, <1>7 DEF Receives
<1>9. \A e, a \in Device : checkpoint'[e][a] <= seq[a]
    BY <1>1, <1>6 DEF Numbered
<1>10. ASSUME NEW e \in Device, NEW o \in changes, o.seq <= checkpoint'[e][o.actor]
       PROVE  Covers(rows'[e], o)
    <2>1. o \in Change /\ o.actor \in Device /\ o.seq \in Nat
        BY <1>7 DEF Change
    <2>2. ASSUME Covers(rows[e], o)
          PROVE  Covers(rows'[e], o)
        BY <1>1, <1>2, <2>1, <2>2, CoversKept DEF Step
    <2>3. CASE o.seq <= checkpoint[e][o.actor]
        BY <2>2, <2>3 DEF ExchangeInv, CheckpointCoversState
    <2>4. CASE ~(o.seq <= checkpoint[e][o.actor])
        <3>1. e = d /\ o.actor = c.actor
            BY <1>6, <1>10, <2>1, <2>4
        <3>2. checkpoint[d][c.actor] < o.seq
            BY <1>7, <2>1, <2>4, <3>1
        <3>3. o \in applied[d] \/ o = c
            BY <1>6, <1>10, <3>1, <3>2
        <3>4. CASE o \in applied[d]
            BY <2>2, <3>1, <3>4 DEF ExchangeInv, ReceivedHeld, Received
        <3>5. CASE o = c
            BY <1>5, <3>1, <3>5
        <3>6. QED
            BY <3>3, <3>4, <3>5
    <2>5. QED
        BY <2>3, <2>4
<1> HIDE DEF k
<1>11. QED
    BY <1>2, <1>3, <1>4, <1>5, <1>8, <1>9, <1>10, HeldKept

\* importSnapshot keeps what is held, and holds what the package held.
LEMMA ImportHolds ==
    ASSUME ExchangeInv, NEW d \in Device, NEW pkg \in packages, Import(d, pkg)
    PROVE  \A c \in changes : Covers(pkg.rows, c) => Covers(rows'[d], c)
<1> DEFINE k == known[d] \union pkg.known
           r == [i \in Item |-> IF i \in pkg.known
                               THEN MergedRow(rows[d][i], pkg.rows[i]) ELSE rows[d][i]]
           P == IF k # known[d] \/ r # rows[d]
                THEN Parents(known[d], rows[d]) \union Parents(k, r) ELSE {}
<1>1. IInv /\ KnownRecorded
    BY DEF ExchangeInv, HistoryInv
<1>2. PICK seen \in PackageClocks(pkg) :
        /\ \A n \in PackageClocks(pkg) : n <= seen
        /\ Commit(d, Observed(clock[d], seen), k, r, <<>>, P)
    BY DEF Import
<1> DEFINE base == Observed(clock[d], seen)
<1>3. Committable(d, base, k, r)
    BY <1>1, <1>2, ImportCommittable
<1>4. Commit(d, base, k, r, <<>>, P)
    BY <1>2
<1>5. \A i \in Item : /\ i \in pkg.known => r[i] = MergedRow(rows[d][i], pkg.rows[i])
                      /\ i \notin pkg.known => r[i] = rows[d][i]
    OBVIOUS
<1> HIDE DEF k, r, base, P
<1>6. Committed(d, base, r)
    <2>1. <<>> \in Seq(WriteTo(k))
        OBVIOUS
    <2>2. QED
        BY <1>1, <1>3, <1>4, <2>1, CommitPreserves
<1>7. /\ rows[d] \in [Item -> Row] /\ pkg.rows \in [Item -> Row] /\ changes \subseteq Change
      /\ clock \in [Device -> Nat]
    BY <1>1 DEF IInv, TypeOK
<1>8. ASSUME NEW c \in changes, Covers(pkg.rows, c)
      PROVE  Covers(r, c)
    <2>1. /\ c \in Change /\ c.target \in Item /\ c.stamp \in Stamp
          /\ DOMAIN c.puts \subseteq Field
        BY <1>7, CoversTypes
    <2>2. SUFFICES ASSUME NEW f \in DOMAIN c.puts
                   PROVE  ~After(c.stamp, r[c.target].at[f])
        BY DEF Covers
    <2> DEFINE mine == rows[d][c.target]
               theirs == pkg.rows[c.target]
    <2>3. ~After(c.stamp, theirs.at[f]) /\ f \in Field
        BY <1>8, <2>1 DEF Covers
    <2>4. c.target \in pkg.known
        <3>1. ASSUME c.target \notin pkg.known
              PROVE  FALSE
            <4>1. theirs = Blank
                BY <1>1, <2>1, <3>1 DEF KnownRecorded
            <4>2. \A g \in Field : Blank.at[g] = Zero
                BY DEF Blank
            <4>3. theirs.at[f] = Zero
                BY <2>3, <4>1, <4>2
            <4>4. c.stamp.clock >= 1
                BY <1>1, <1>7, <2>1 DEF IInv, StampsDrawn, Change
            <4>5. QED
                BY <2>1, <2>3, <4>3, <4>4 DEF After, Zero, Stamp
        <3>2. QED
            BY <3>1
    <2>5. r[c.target] = MergedRow(mine, theirs)
        BY <1>5, <2>1, <2>4
    <2>6. mine.at[f] \in Stamp /\ theirs.at[f] \in Stamp
        BY <1>7, <2>1, <2>3, CoversTypes
    <2>7. CASE After(theirs.at[f], mine.at[f])
        <3>1. r[c.target].at[f] = theirs.at[f]
            BY <2>3, <2>5, <2>7 DEF MergedRow, Taken
        <3>2. QED
            BY <2>3, <3>1
    <2>8. CASE ~After(theirs.at[f], mine.at[f])
        <3>1. r[c.target].at[f] = mine.at[f]
            BY <2>3, <2>5, <2>8 DEF MergedRow, Taken
        <3>2. ~After(c.stamp, mine.at[f])
            BY <2>1, <2>3, <2>6, <2>8, NotAfterOrder
        <3>3. QED
            BY <3>1, <3>2
    <2>9. QED
        BY <2>7, <2>8
<1>9. QED
    BY <1>1, <1>3, <1>6, <1>7, <1>8, CommittedCovers

LEMMA ImportKeepsHeld ==
    ASSUME "DELETE_ITEM" \notin Operations, ExchangeInv,
           NEW d \in Device, NEW pkg \in packages, Import(d, pkg)
    PROVE  ExchangeInv'
<1> DEFINE k == known[d] \union pkg.known
<1>1. HistoryInv /\ NothingDeleted /\ IInv /\ Numbered
    BY DEF ExchangeInv, HistoryInv
<1>2. HistoryInv' /\ Step(d, k, <<>>)
    BY <1>1, ImportKeepsHistory
<1>3. NothingDeleted'
    BY <1>1, <1>2, NothingDeletedKept
<1>4. known[d] \subseteq k /\ UNCHANGED <<applied, packages>>
    BY DEF Import
<1>5. /\ checkpoint \in [Device -> [Device -> Nat]] /\ changes \subseteq Change
      /\ seq \in [Device -> Nat] /\ pkg.checkpoint \in [Device -> Nat]
    BY <1>1 DEF IInv, TypeOK
<1>6. \A e, a \in Device : \/ checkpoint'[e][a] = checkpoint[e][a]
                           \/ e = d /\ checkpoint'[e][a] = pkg.checkpoint[a]
    BY <1>5 DEF Import
<1>7. \A e, a \in Device : checkpoint'[e][a] <= seq[a]
    BY <1>1, <1>6 DEF Numbered
<1>8. ASSUME NEW e \in Device, NEW c \in changes, c.seq <= checkpoint'[e][c.actor]
      PROVE  Covers(rows'[e], c)
    <2>1. c \in Change /\ c.actor \in Device
        BY <1>5 DEF Change
    <2>2. CASE c.seq <= checkpoint[e][c.actor]
        <3>1. Covers(rows[e], c)
            BY <2>2 DEF ExchangeInv, CheckpointCoversState
        <3>2. QED
            BY <1>1, <1>2, <2>1, <3>1, CoversKept DEF Step
    <2>3. CASE e = d /\ c.seq <= pkg.checkpoint[c.actor]
        <3>1. Covers(pkg.rows, c)
            BY <2>3 DEF ExchangeInv, PackagesCoverState
        <3>2. QED
            BY <2>3, <3>1, ImportHolds
    <2>4. QED
        BY <1>6, <1>8, <2>1, <2>2, <2>3
<1>9. Receives(d, k, {})
    BY <1>4 DEF Receives
<1> HIDE DEF k
<1>10. QED
    BY <1>2, <1>3, <1>4, <1>7, <1>8, <1>9, HeldKept

\* exportSnapshot: the rows of a package hold what its checkpoints say.
LEMMA ExportKeepsHeld ==
    ASSUME ExchangeInv, NEW d \in Device, Export(d)
    PROVE  ExchangeInv'
<1> DEFINE sent == [checkpoint[d] EXCEPT ![d] = IF @ >= seq[d] THEN @ ELSE seq[d]]
           pkg == [known |-> known[d], rows |-> rows[d], checkpoint |-> sent]
<1>1. HistoryInv /\ IInv /\ Numbered
    BY DEF ExchangeInv, HistoryInv
<1>2. HistoryInv'
    BY <1>1, ExportKeepsHistory
<1>3. /\ packages' = packages \union {pkg}
      /\ UNCHANGED <<clock, seq, known, rows, changes, applied, checkpoint>>
    BY DEF Export
<1>4. checkpoint[d] \in [Device -> Nat] /\ changes \subseteq Change
    BY <1>1 DEF IInv, TypeOK
<1>5. NothingDeleted' /\ ReceivedHeld' /\ CheckpointCoversState'
    BY <1>3 DEF ExchangeInv, NothingDeleted, ReceivedHeld, Received, CheckpointCoversState
<1>6. ASSUME NEW c \in changes, c.seq <= sent[c.actor]
      PROVE  Covers(rows[d], c)
    <2>1. CASE c.actor = d
        BY <2>1 DEF ExchangeInv, ReceivedHeld, Received
    <2>2. CASE c.actor # d
        <3>1. c.actor \in Device
            BY <1>4 DEF Change
        <3>2. c.seq <= checkpoint[d][c.actor]
            BY <1>4, <1>6, <2>2, <3>1
        <3>3. QED
            BY <3>2 DEF ExchangeInv, CheckpointCoversState
    <2>3. QED
        BY <2>1, <2>2
<1>7. pkg.rows = rows[d] /\ pkg.checkpoint = sent
    OBVIOUS
<1> HIDE DEF pkg, sent
<1>8. PackagesCoverState'
    BY <1>3, <1>6, <1>7 DEF ExchangeInv, PackagesCoverState
<1>9. QED
    BY <1>2, <1>5, <1>8 DEF ExchangeInv

\* Every step keeps what is held.
LEMMA NextKeepsHeld ==
    ASSUME "DELETE_ITEM" \notin Operations, ExchangeInv, [Next]_vars
    PROVE  ExchangeInv'
<1>1. HistoryInv'
    BY NextKeepsHistory DEF ExchangeInv
<1>2. ASSUME UNCHANGED <<seq, known, rows, changes, applied, checkpoint, packages>>
      PROVE  ExchangeInv'
    <2>1. NothingDeleted' /\ ReceivedHeld' /\ CheckpointCoversState' /\ PackagesCoverState'
        BY <1>2 DEF ExchangeInv, NothingDeleted, ReceivedHeld, Received,
                    CheckpointCoversState, PackagesCoverState
    <2>2. QED
        BY <1>1, <2>1 DEF ExchangeInv
<1>3. CASE UNCHANGED vars
    BY <1>2, <1>3 DEF vars
<1>4. ASSUME NEW d \in Device,
             \/ AddItem(d) \/ SetText(d) \/ SetChecked(d)
             \/ MoveItem(d) \/ DeleteItems(d) \/ RestoreItem(d)
      PROVE  ExchangeInv'
    <2>1. HistoryInv
        BY DEF ExchangeInv
    <2>2. PICK op, k, ws, P : Transaction(d, op, k, ws, P)
        BY <1>4, <2>1, UserTransactions
    <2>3. QED
        BY <2>2, TransactionKeepsHeld
<1>5. ASSUME NEW d \in Device, EditElsewhere(d)
      PROVE  ExchangeInv'
    BY <1>2, <1>5 DEF EditElsewhere
<1>6. ASSUME NEW d \in Device, NEW c \in changes, ApplyRemote(d, c)
      PROVE  ExchangeInv'
    BY <1>6, RemoteKeepsHeld
<1>7. ASSUME NEW d \in Device, Export(d)
      PROVE  ExchangeInv'
    BY <1>7, ExportKeepsHeld
<1>8. ASSUME NEW d \in Device, NEW pkg \in packages, Import(d, pkg)
      PROVE  ExchangeInv'
    BY <1>8, ImportKeepsHeld
<1>9. QED
    BY <1>3, <1>4, <1>5, <1>6, <1>7, <1>8 DEF Next
-----------------------------------------------------------------------------
(* The theorems about the exchange.  While an item is deleted, applyRemote *)
(* marks a field change of it applied and drops it; the theorems are about *)
(* stores whose users delete nothing.                                      *)

\* What a device has received it holds, and what the checkpoints of devices
\* and packages pass, their rows hold.
THEOREM ExchangeInvariant ==
    ASSUME "DELETE_ITEM" \notin Operations
    PROVE  Spec => []ExchangeInv
<1>1. Init => ExchangeInv
    <2> SUFFICES ASSUME Init
                 PROVE  ExchangeInv
        OBVIOUS
    <2>1. HistoryInv
        BY InitHistory
    <2>2. /\ changes = {} /\ packages = {} /\ applied = [d \in Device |-> {}]
        BY DEF Init
    <2>3. QED
        BY <2>1, <2>2 DEF ExchangeInv, NothingDeleted, ReceivedHeld, Received,
                          CheckpointCoversState, PackagesCoverState
<1>2. ExchangeInv /\ [Next]_vars => ExchangeInv'
    BY NextKeepsHeld
<1>3. QED
    BY <1>1, <1>2, PTL DEF Spec

\* No change up to a checkpoint needs sending again (advanceCheckpoint,
\* importSnapshot), packages and repeated deliveries included.
THEOREM CheckpointsCoverState ==
    ASSUME "DELETE_ITEM" \notin Operations
    PROVE  Spec => []CheckpointCoversState
<1>1. ExchangeInv => CheckpointCoversState
    BY DEF ExchangeInv
<1>2. QED
    BY <1>1, ExchangeInvariant, PTL

\* Devices that have received every change show the same items with the same
\* fields, whatever the order of the changes and whatever packages they read.
THEOREM DevicesConverge ==
    ASSUME "DELETE_ITEM" \notin Operations
    PROVE  Spec => []Convergence
<1>1. ExchangeInv => Convergence
    <2> SUFFICES ASSUME ExchangeInv, NEW d \in Device, NEW e \in Device,
                        Received(d) = changes, Received(e) = changes
                 PROVE  Visible(d) = Visible(e)
        BY DEF Convergence
    <2>1. HistoryInv /\ IInv /\ NothingDeleted /\ KnownRecorded
        BY DEF ExchangeInv, HistoryInv
    <2>2. /\ rows[d] \in [Item -> Row] /\ rows[e] \in [Item -> Row]
          /\ known[d] \subseteq Item /\ changes \subseteq Change
        BY <2>1 DEF IInv, TypeOK
    <2>3. known[d] = known[e]
        <3>1. \A x \in Device : known[x] \subseteq {c.target : c \in changes}
            BY <2>1 DEF KnownRecorded
        <3>2. \A x \in Device : Received(x) = changes => {c.target : c \in changes} \subseteq known[x]
            BY DEF ExchangeInv, ReceivedHeld
        <3>3. QED
            BY <3>1, <3>2
    <2>4. \A x \in Device : Active(known[x], rows[x]) = known[x]
        BY <2>1, AllActive
    <2>5. ASSUME NEW x \in Device, NEW y \in Device, Received(y) = changes,
                 NEW i \in Item, NEW f \in Field
          PROVE  ~After(rows[x][i].at[f], rows[y][i].at[f])
        <3>1. rows[y][i].at[f] \in Stamp
            BY <2>1 DEF IInv, TypeOK, Row
        <3>2. Backed(rows[x])
            BY <2>1 DEF IInv, FieldsBacked, AllRows
        <3>3. CASE rows[x][i].at[f] = Zero
            BY <3>1, <3>3 DEF After, Stamp, Zero
        <3>4. ASSUME NEW c \in changes, c.target = i, f \in DOMAIN c.puts,
                     c.stamp = rows[x][i].at[f]
              PROVE  ~After(rows[x][i].at[f], rows[y][i].at[f])
            BY <2>5, <3>4 DEF ExchangeInv, ReceivedHeld, Covers
        <3>5. QED
            BY <3>2, <3>3, <3>4 DEF Backed
    <2>6. \A i \in Item, f \in Field : rows[d][i].val[f] = rows[e][i].val[f]
        <3> SUFFICES ASSUME NEW i \in Item, NEW f \in Field
                     PROVE  rows[d][i].val[f] = rows[e][i].val[f]
            OBVIOUS
        <3>1. rows[d][i].at[f] \in Stamp /\ rows[e][i].at[f] \in Stamp
            BY <2>2 DEF Row
        <3>2. /\ ~After(rows[d][i].at[f], rows[e][i].at[f])
              /\ ~After(rows[e][i].at[f], rows[d][i].at[f])
            BY <2>5
        <3>3. rows[d][i].at[f] = rows[e][i].at[f]
            BY <3>1, <3>2, NotAfterOrder
        <3>4. StampIdentifiesWrite
            BY <2>1, InvIdentifies
        <3>5. QED
            BY <3>3, <3>4 DEF StampIdentifiesWrite, AllRows
    <2>7. \A i \in known[d] : rows[d][i].val = rows[e][i].val
        <3> SUFFICES ASSUME NEW i \in known[d]
                     PROVE  rows[d][i].val = rows[e][i].val
            OBVIOUS
        <3>1. rows[d][i].val \in Values /\ rows[e][i].val \in Values /\ i \in Item
            BY <2>2 DEF Row
        <3>2. \A v \in Values : v = [f \in Field |-> v[f]]
            BY DEF Values, Field
        <3>3. QED
            BY <2>6, <3>1, <3>2
    <2>8. QED
        BY <2>3, <2>4, <2>7 DEF Visible
<1>2. QED
    BY <1>1, ExchangeInvariant, PTL
=============================================================================
