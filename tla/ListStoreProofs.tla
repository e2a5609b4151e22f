--------------------------- MODULE ListStoreProofs ---------------------------
(***************************************************************************)
(* Theorems about ListStore for any devices, items, texts and bounds.      *)
(*                                                                         *)
(* The argument: a device's clock is at or above every stamp it drew or    *)
(* stored, so a stamp it draws is new (StampsDrawn) and newer than what    *)
(* it replaces; every stamped field anywhere is backed by the one change   *)
(* with that stamp (Backed), so equal stamps mean equal values.            *)
(***************************************************************************)
EXTENDS ListStore, FiniteSetTheorems, TLAPS

-----------------------------------------------------------------------------
(* Stamps.                                                                 *)

\* The order of stamps is transitive and irreflexive (VersionStamp.compareTo).
LEMMA AfterOrder ==
    ASSUME NEW s \in Stamp, NEW t \in Stamp, NEW u \in Stamp
    PROVE  /\ After(s, t) /\ After(t, u) => After(s, u)
           /\ ~After(s, s)
BY DEF After, Stamp

\* A clock that has observed another value is above both.
LEMMA ObservedAbove ==
    ASSUME NEW own \in Nat, NEW seen \in Nat
    PROVE  /\ Observed(own, seen) \in Nat
           /\ Observed(own, seen) > own
           /\ Observed(own, seen) > seen
BY DEF Observed

\* SetToSeq lists a finite set: a transaction of finitely many writes.
LEMMA SetToSeqType ==
    ASSUME NEW S, IsFiniteSet(S)
    PROVE  SetToSeq(S) \in Seq(S)
<1>1. /\ Cardinality(S) \in Nat
      /\ ExistsBijection(1 .. Cardinality(S), S)
    BY FS_CardinalityType
<1>2. PICK g \in Bijection(1 .. Cardinality(S), S) : TRUE
    BY <1>1 DEF ExistsBijection
<1>3. g \in [1 .. Cardinality(S) -> S] /\ IsInjective(g)
    BY <1>2 DEF Bijection, Injection, Surjection, IsInjective
<1>4. SetToSeq(S) \in [1 .. Cardinality(S) -> S]
    BY <1>3 DEF SetToSeq
<1>5. QED
    BY <1>1, <1>4 DEF Seq
-----------------------------------------------------------------------------
(* Values, rows and transactions.                                          *)

\* A change of one field has a payload (recordLocal of the setters).
LEMMA PutType ==
    ASSUME NEW op \in Operation, NEW i \in Item, NEW f \in Field, NEW v,
           NEW w \in Values, [w EXCEPT ![f] = v] \in Values
    PROVE  /\ Put(op, i, f, v) \in Write
           /\ Put(op, i, f, v).target = i
<1> DEFINE u == [w EXCEPT ![f] = v]
<1>1. {f} \in SUBSET Field
    OBVIOUS
<1>2. u[f] = v
    BY DEF Values, Field
<1>3. [g \in {f} |-> v] = [g \in {f} |-> u[g]]
    BY <1>2
<1>4. [g \in {f} |-> u[g]] \in Payload
    <2>1. \A F \in SUBSET Field : \A x \in Values : [g \in F |-> x[g]] \in Payload
        BY DEF Payload
    <2>2. u \in Values
        OBVIOUS
    <2>3. QED
        BY <1>1, <2>1, <2>2
<1>5. QED
    BY <1>3, <1>4 DEF Put, Write

\* The row ensureRemoteItem inserts is a row.
LEMMA BlankType == Blank \in Row
BY DEF Blank, Row, Values, Field, Lifecycle, Stamp, Zero

\* Taking some fields from a payload leaves a row a row (row.copy).
LEMMA RowCopy ==
    ASSUME NEW w \in Values, NEW v, DOMAIN v = Field,
           \A f \in Field : \/ v[f] = w[f]
                            \/ \E p \in Payload : f \in DOMAIN p /\ v[f] = p[f],
           v = [f \in Field |-> v[f]]
    PROVE  v \in Values
<1>1. \A p \in Payload : \A f \in DOMAIN p : f \in Field /\ \E u \in Values : p[f] = u[f]
    BY DEF Payload
<1>2. \A f \in Field : \E u \in Values : v[f] = u[f]
    BY <1>1
<1>3. v["text"] \in Text \union {""}
    BY <1>2 DEF Values, Field
<1>4. v["checked"] \in BOOLEAN
    BY <1>2 DEF Values, Field
<1>5. v["parent"] \in Item \union {NoItem}
    BY <1>2 DEF Values, Field
<1>6. v["life"] \in Lifecycle
    BY <1>2 DEF Values, Field
<1>7. QED
    BY <1>3, <1>4, <1>5, <1>6 DEF Values, Field

\* The rows W are the rows r after the writes ws: a field that is not put
\* keeps value and stamp, a field that is has those of one of the writes.
AfterWrites(W, r, ws, d, base) ==
    /\ W \in [Item -> Row]
    /\ \A i \in Item, f \in Field :
          \/ W[i].val[f] = r[i].val[f] /\ W[i].at[f] = r[i].at[f]
          \/ \E n \in DOMAIN ws :
                /\ ws[n].target = i /\ f \in DOMAIN ws[n].puts
                /\ W[i].val[f] = ws[n].puts[f]
                /\ W[i].at[f] = [clock |-> base + n, actor |-> d]

\* Written computes them.
LEMMA WrittenRows ==
    ASSUME NEW r \in [Item -> Row], NEW ws \in Seq(Write),
           NEW d \in Device, NEW base \in Nat
    PROVE  AfterWrites(Written(r, ws, d, base), r, ws, d, base)
<1> DEFINE W == Written(r, ws, d, base)
<1>1. \A i \in Item, f \in Field : Puts(ws, i, f) # {} =>
        (CHOOSE n \in Puts(ws, i, f) : TRUE) \in Puts(ws, i, f)
    OBVIOUS
<1>2. ASSUME NEW i \in Item, NEW f \in Field
      PROVE  \/ W[i].val[f] = r[i].val[f] /\ W[i].at[f] = r[i].at[f]
             \/ \E n \in DOMAIN ws :
                   /\ ws[n].target = i /\ f \in DOMAIN ws[n].puts
                   /\ W[i].val[f] = ws[n].puts[f]
                   /\ W[i].at[f] = [clock |-> base + n, actor |-> d]
    <2>1. CASE Puts(ws, i, f) = {}
        BY <2>1 DEF Written
    <2>2. CASE Puts(ws, i, f) # {}
        <3> DEFINE n == CHOOSE n \in Puts(ws, i, f) : TRUE
        <3>1. n \in DOMAIN ws /\ ws[n].target = i /\ f \in DOMAIN ws[n].puts
            BY <1>1, <2>2 DEF Puts
        <3>2. /\ W[i].val[f] = ws[n].puts[f]
              /\ W[i].at[f] = [clock |-> base + n, actor |-> d]
            BY <2>2 DEF Written
        <3>3. QED
            BY <3>1, <3>2
    <2>3. QED
        BY <2>1, <2>2
<1>3. \A n \in DOMAIN ws : n \in Nat /\ ws[n].puts \in Payload
    <2>1. DOMAIN ws = 1 .. Len(ws) /\ Len(ws) \in Nat
        OBVIOUS
    <2>2. \A n \in 1 .. Len(ws) : ws[n] \in Write
        OBVIOUS
    <2>3. \A x \in Write : x.puts \in Payload
        BY DEF Write
    <2>4. QED
        BY <2>1, <2>2, <2>3
<1>4. ASSUME NEW i \in Item
      PROVE  W[i] \in Row
    <2> DEFINE pick(f) == CHOOSE n \in Puts(ws, i, f) : TRUE
               value(f) == IF Puts(ws, i, f) = {} THEN r[i].val[f] ELSE ws[pick(f)].puts[f]
               stamp(f) == IF Puts(ws, i, f) = {} THEN r[i].at[f]
                           ELSE [clock |-> base + pick(f), actor |-> d]
    <2>0. W[i] = [val |-> [f \in Field |-> value(f)], at |-> [f \in Field |-> stamp(f)]]
        BY DEF Written
    <2> HIDE DEF value, stamp, W
    <2>1. /\ W[i] = [val |-> W[i].val, at |-> W[i].at]
          /\ W[i].val = [f \in Field |-> W[i].val[f]]
          /\ W[i].at = [f \in Field |-> W[i].at[f]]
          /\ DOMAIN W[i].val = Field
        BY <2>0
    <2>2. r[i].val \in Values /\ r[i].at \in [Field -> Stamp]
        BY DEF Row
    <2>3. \A f \in Field : \/ W[i].val[f] = r[i].val[f]
                           \/ \E p \in Payload : f \in DOMAIN p /\ W[i].val[f] = p[f]
        <3> SUFFICES ASSUME NEW f \in Field
                     PROVE  \/ W[i].val[f] = r[i].val[f]
                            \/ \E p \in Payload : f \in DOMAIN p /\ W[i].val[f] = p[f]
            OBVIOUS
        <3>1. ASSUME NEW n \in DOMAIN ws,
                     f \in DOMAIN ws[n].puts, W[i].val[f] = ws[n].puts[f]
              PROVE  \E p \in Payload : f \in DOMAIN p /\ W[i].val[f] = p[f]
            BY <1>3, <3>1
        <3> QED
            BY <1>2, <3>1
    <2>4. W[i].val \in Values
        BY <2>1, <2>2, <2>3, RowCopy
    <2>5. \A f \in Field : W[i].at[f] \in Stamp
        <3> SUFFICES ASSUME NEW f \in Field
                     PROVE  W[i].at[f] \in Stamp
            OBVIOUS
        <3>1. \A n \in DOMAIN ws : [clock |-> base + n, actor |-> d] \in Stamp
            BY <1>3, DeviceAssumption DEF Stamp
        <3> QED
            BY <1>2, <2>2, <3>1
    <2>6. W[i].at \in [Field -> Stamp]
        BY <2>1, <2>5
    <2>7. QED
        BY <2>1, <2>4, <2>6 DEF Row
<1>5. W \in [Item -> Row]
    BY <1>4 DEF Written
<1>6. QED
    BY <1>2, <1>5 DEF AfterWrites

\* A write that can be made on the known items k.
WriteTo(k) == {w \in Write : w.target \in k}

\* The completion cascade is a sequence of writes to known items.
LEMMA FlipsType ==
    ASSUME NEW k \in SUBSET Item, NEW r \in [Item -> Row], NEW P
    PROVE  Flips(k, r, P) \in Seq(WriteTo(k))
<1> DEFINE flipping == {p \in P \intersect Parents(k, r) :
               r[p].val["checked"] # \A c \in Children(k, r, p) : r[c].val["checked"]}
           write(p) == Put("SET_ITEM_CHECKED", p, "checked", ~r[p].val["checked"])
           puts == {write(p) : p \in flipping}
           f == [p \in flipping |-> write(p)]
<1>1. flipping \in SUBSET Item /\ flipping \subseteq k
    BY DEF Parents, Active
<1>2. IsFiniteSet(flipping)
    BY <1>1, ItemAssumption, FS_Subset
<1>3. f \in Surjection(flipping, puts)
    <2>1. \A p \in flipping : f[p] = write(p)
        OBVIOUS
    <2>2. f \in [flipping -> puts]
        OBVIOUS
    <2>3. \A t \in puts : \E p \in flipping : f[p] = t
        BY <2>1
    <2>4. QED
        BY <2>2, <2>3 DEF Surjection
<1>4. IsFiniteSet(puts)
    BY <1>2, <1>3, FS_Surjection
<1>5. ASSUME NEW p \in flipping
      PROVE  write(p) \in WriteTo(k)
    <2>1. p \in Item /\ p \in k /\ r[p].val \in Values
        BY <1>1 DEF Row
    <2>2. [r[p].val EXCEPT !["checked"] = ~r[p].val["checked"]] \in Values
        BY <2>1 DEF Values
    <2>3. "SET_ITEM_CHECKED" \in Operation /\ "checked" \in Field
        BY DEF Operation, Field
    <2>4. QED
        BY <2>1, <2>2, <2>3, PutType DEF WriteTo
<1>6. puts \subseteq WriteTo(k)
    BY <1>5
<1>7. SetToSeq(puts) \in Seq(puts)
    BY <1>4, SetToSeqType
<1>8. SetToSeq(puts) \in Seq(WriteTo(k))
    <2> HIDE DEF puts
    <2> QED
        BY <1>6, <1>7
<1>9. QED
    BY <1>8 DEF Flips
-----------------------------------------------------------------------------
(* The transaction every handler ends in.                                  *)

\* What holds of the rows a handler hands to Commit: rows of known items,
\* backed by recorded changes, with no stamp above the clock it has reached.
Committable(d, base, k, r) ==
    /\ base \in Nat /\ base >= clock[d]
    /\ k \in SUBSET Item
    /\ r \in [Item -> Row]
    /\ \A i \in Item \ k : r[i] = Blank
    /\ Backed(r)
    /\ \A i \in Item, f \in Field : r[i].at[f].clock <= base

\* The part of the invariant a transaction has to re-establish, and what the
\* transaction does to the rows.
Committed(d, base, r) ==
    /\ clock' \in [Device -> Nat]
    /\ seq' \in [Device -> Nat]
    /\ known' \in [Device -> SUBSET Item]
    /\ rows' \in [Device -> [Item -> Row]]
    /\ \A e \in Device : \A i \in Item \ known'[e] : rows'[e][i] = Blank
    /\ changes \subseteq changes'
    /\ changes' \subseteq Change
    /\ StampsDrawn'
    /\ ClockDominatesRows'
    /\ \A e \in Device : Backed(rows[e])'
    /\ \A e \in Device \ {d} : rows'[e] = rows[e]
    /\ \A i \in Item, f \in Field :
          \/ /\ rows'[d][i].val[f] = r[i].val[f]
             /\ rows'[d][i].at[f] = r[i].at[f]
          \/ /\ rows'[d][i].at[f] \in Stamp
             /\ rows'[d][i].at[f].clock > base

\* Recorded changes only add evidence (ListChangeEntity rows are never edited).
LEMMA BackedMonotone ==
    ASSUME NEW r, Backed(r), changes \subseteq changes'
    PROVE  \A i \in Item, f \in Field :
              \/ r[i].at[f] = Zero /\ r[i].val[f] = Blank.val[f]
              \/ \E c \in changes' : /\ c.target = i /\ f \in DOMAIN c.puts
                                    /\ c.stamp = r[i].at[f] /\ c.puts[f] = r[i].val[f]
BY DEF Backed

\* The transaction re-establishes the invariant: its stamps are new, newer
\* than what they replace, and each is backed by the change recorded with it.
LEMMA CommitPreserves ==
    ASSUME IInv, NEW d \in Device, NEW base, NEW k, NEW r, NEW P,
           Committable(d, base, k, r),
           NEW ws \in Seq(WriteTo(k)),
           Commit(d, base, k, r, ws, P)
    PROVE  Committed(d, base, r)
<1> DEFINE all == ws \o Flips(k, Written(r, ws, d, base), P)
           W == Written(r, all, d, base)
           new == Recorded(all, d, base, seq[d])
<1>1. /\ base \in Nat /\ base >= clock[d] /\ k \in SUBSET Item /\ r \in [Item -> Row]
      /\ \A i \in Item \ k : r[i] = Blank
      /\ \A i \in Item, f \in Field : r[i].at[f].clock <= base
      /\ Backed(r)
    BY DEF Committable
<1>2. all \in Seq(WriteTo(k))
    <2>1. WriteTo(k) \subseteq Write
        BY DEF WriteTo
    <2>2. ws \in Seq(Write)
        BY <2>1
    <2>3. Written(r, ws, d, base) \in [Item -> Row]
        BY <1>1, <2>2, WrittenRows DEF AfterWrites
    <2>4. Flips(k, Written(r, ws, d, base), P) \in Seq(WriteTo(k))
        BY <1>1, <2>3, FlipsType
    <2>5. QED
        BY <2>4
<1>3. /\ clock' = [clock EXCEPT ![d] = base + Len(all)]
      /\ seq' = [seq EXCEPT ![d] = @ + Len(all)]
      /\ known' = [known EXCEPT ![d] = k]
      /\ rows' = [rows EXCEPT ![d] = W]
      /\ changes' = changes \union new
    BY DEF Commit, ClockAfter
<1>4. /\ clock \in [Device -> Nat] /\ seq \in [Device -> Nat]
      /\ known \in [Device -> SUBSET Item] /\ rows \in [Device -> [Item -> Row]]
      /\ changes \subseteq Change
      /\ \A e \in Device : \A i \in Item \ known[e] : rows[e][i] = Blank
    BY DEF IInv, TypeOK
<1> HIDE DEF all
<1>5. /\ Len(all) \in Nat /\ DOMAIN all = 1 .. Len(all)
      /\ \A n \in DOMAIN all : n \in Nat /\ n >= 1 /\ n <= Len(all)
                              /\ all[n] \in Write /\ all[n].target \in k
    <2>1. \A n \in 1 .. Len(all) : all[n] \in WriteTo(k)
        BY <1>2
    <2>2. Len(all) \in Nat /\ DOMAIN all = 1 .. Len(all)
        BY <1>2
    <2>3. QED
        BY <2>1, <2>2 DEF WriteTo
<1>6. /\ W \in [Item -> Row]
      /\ \A i \in Item, f \in Field :
            \/ W[i].val[f] = r[i].val[f] /\ W[i].at[f] = r[i].at[f]
            \/ \E n \in DOMAIN all :
                 /\ all[n].target = i /\ f \in DOMAIN all[n].puts
                 /\ W[i].val[f] = all[n].puts[f]
                 /\ W[i].at[f] = [clock |-> base + n, actor |-> d]
    <2>1. all \in Seq(Write)
        BY <1>2, <1>5
    <2>2. base \in Nat /\ r \in [Item -> Row]
        BY <1>1
    <2>3. AfterWrites(W, r, all, d, base)
        BY <2>1, <2>2, WrittenRows
    <2>4. QED
        BY <2>3 DEF AfterWrites
<1>7. d \in Nat /\ Device \subseteq Nat
    BY DeviceAssumption
<1> DEFINE Chg(n) == [op |-> all[n].op, target |-> all[n].target, puts |-> all[n].puts,
                      actor |-> d, seq |-> seq[d] + n,
                      stamp |-> [clock |-> base + n, actor |-> d]]
<1>8. new = {Chg(n) : n \in DOMAIN all}
    BY DEF Recorded
<1>9. ASSUME NEW n \in DOMAIN all
      PROVE  /\ Chg(n) \in Change
             /\ Chg(n).stamp = [clock |-> base + n, actor |-> d]
             /\ Chg(n).stamp.clock = base + n /\ Chg(n).stamp.actor = d
             /\ Chg(n).actor = d
             /\ Chg(n).target = all[n].target
             /\ Chg(n).puts = all[n].puts
    BY <1>4, <1>5, <1>7, <1>1 DEF Change, Write, Stamp
<1> HIDE DEF W, new, Chg
<1>10. /\ clock' \in [Device -> Nat] /\ seq' \in [Device -> Nat]
       /\ known' \in [Device -> SUBSET Item] /\ rows' \in [Device -> [Item -> Row]]
       /\ changes \subseteq changes'
       /\ \A e \in Device \ {d} : rows'[e] = rows[e]
       /\ rows'[d] = W
    BY <1>1, <1>3, <1>4, <1>5, <1>6
<1>11. changes' \subseteq Change
    BY <1>3, <1>4, <1>8, <1>9
<1>12. \A e \in Device : \A i \in Item \ known'[e] : rows'[e][i] = Blank
    <2> SUFFICES ASSUME NEW i \in Item \ k
                 PROVE  W[i] = Blank
        BY <1>3, <1>4, <1>10
    <2>1. \A n \in DOMAIN all : all[n].target # i
        BY <1>5
    <2>2. \A f \in Field : W[i].val[f] = r[i].val[f] /\ W[i].at[f] = r[i].at[f]
        BY <1>6, <2>1
    <2>3. r[i] = Blank
        BY <1>1
    <2>4. W[i] \in Row /\ Blank \in Row
        BY <1>6, BlankType
    <2>5. W[i].val = Blank.val /\ W[i].at = Blank.at
        <3>1. \A u, v \in Values : (\A f \in Field : u[f] = v[f]) => u = v
            <4>1. \A u \in Values : u = [f \in Field |-> u[f]]
                BY DEF Values, Field
            <4>2. QED
                BY <4>1
        <3>2. \A u, v \in [Field -> Stamp] : (\A f \in Field : u[f] = v[f]) => u = v
            OBVIOUS
        <3>3. /\ W[i].val \in Values /\ Blank.val \in Values
              /\ W[i].at \in [Field -> Stamp] /\ Blank.at \in [Field -> Stamp]
            BY <2>4 DEF Row
        <3>4. \A f \in Field : W[i].val[f] = Blank.val[f] /\ W[i].at[f] = Blank.at[f]
            BY <2>2, <2>3
        <3>5. QED
            BY <3>1, <3>2, <3>3, <3>4
    <2>6. QED
        BY <2>4, <2>5 DEF Row
<1>13. \A e \in Device : clock[e] <= clock'[e]
    BY <1>1, <1>3, <1>4, <1>5
<1>14. StampsDrawn'
    <2>1. ASSUME NEW c \in changes'
          PROVE  c.stamp.actor = c.actor /\ c.stamp.clock \in 1 .. clock'[c.actor]
        <3>1. CASE c \in changes
            <4>1. /\ c.stamp.actor = c.actor /\ c.stamp.clock \in 1 .. clock[c.actor]
                  /\ c.actor \in Device
                BY <3>1, <1>4 DEF IInv, StampsDrawn, Change
            <4>2. QED
                BY <4>1, <1>13, <1>4, <1>10
        <3>2. CASE c \in new
            <4>1. PICK n \in DOMAIN all : c = Chg(n)
                BY <3>2, <1>8
            <4>2. clock'[d] = base + Len(all)
                BY <1>3, <1>4
            <4>3. c.stamp.actor = d /\ c.actor = d /\ c.stamp.clock = base + n
                BY <4>1, <1>9
            <4>4. base + n \in 1 .. (base + Len(all))
                BY <1>1, <1>5
            <4>5. QED
                BY <4>2, <4>3, <4>4
        <3>3. QED
            BY <3>1, <3>2, <1>3
    <2>2. ASSUME NEW c1 \in changes, NEW c2 \in new
          PROVE  c1.stamp # c2.stamp
        <3>1. PICK n \in DOMAIN all : c2 = Chg(n)
            BY <1>8
        <3>2. /\ c1.stamp.actor = c1.actor /\ c1.stamp.clock \in 1 .. clock[c1.actor]
              /\ c1.actor \in Device
            BY <1>4 DEF IInv, StampsDrawn, Change
        <3>3. c2.stamp.actor = d /\ c2.stamp.clock = base + n /\ base + n > clock[d]
            <4>1. c2.stamp.actor = d /\ c2.stamp.clock = base + n
                BY <3>1, <1>9
            <4>2. base \in Nat /\ base >= clock[d] /\ clock[d] \in Nat /\ n \in Nat /\ n >= 1
                BY <1>1, <1>4, <1>5
            <4>3. QED
                BY <4>1, <4>2
        <3>4. QED
            BY <3>2, <3>3, <1>4
    <2>3. ASSUME NEW c1 \in new, NEW c2 \in new, c1.stamp = c2.stamp
          PROVE  c1 = c2
        <3>1. PICK n \in DOMAIN all : c1 = Chg(n)
            BY <1>8
        <3>2. PICK m \in DOMAIN all : c2 = Chg(m)
            BY <1>8
        <3>3. c1.stamp.clock = base + n /\ c2.stamp.clock = base + m
            BY <3>1, <3>2, <1>9
        <3>4. n = m
            BY <3>3, <2>3, <1>1, <1>5
        <3>5. QED
            BY <3>1, <3>2, <3>4
    <2>4. \A c1, c2 \in changes' : c1.stamp = c2.stamp => c1 = c2
        <3>1. \A c1, c2 \in changes : c1.stamp = c2.stamp => c1 = c2
            BY DEF IInv, StampsDrawn
        <3>2. QED
            BY <3>1, <2>2, <2>3, <1>3
    <2>5. QED
        BY <2>1, <2>4 DEF StampsDrawn
<1>15. \A i \in Item, f \in Field :
          \/ W[i].val[f] = r[i].val[f] /\ W[i].at[f] = r[i].at[f]
          \/ /\ W[i].at[f] \in Stamp
             /\ W[i].at[f].clock > base /\ W[i].at[f].clock <= base + Len(all)
    <2>1. ASSUME NEW n \in DOMAIN all
          PROVE  LET t == [clock |-> base + n, actor |-> d]
                 IN  t \in Stamp /\ t.clock > base /\ t.clock <= base + Len(all)
        BY <1>1, <1>5, <1>7 DEF Stamp
    <2>2. ASSUME NEW i \in Item, NEW f \in Field, NEW n \in DOMAIN all,
                 W[i].at[f] = [clock |-> base + n, actor |-> d]
          PROVE  /\ W[i].at[f] \in Stamp
                 /\ W[i].at[f].clock > base /\ W[i].at[f].clock <= base + Len(all)
        BY <2>1, <2>2
    <2>3. QED
        BY <1>6, <2>2
<1>16. ClockDominatesRows'
    <2> SUFFICES ASSUME NEW e \in Device, NEW i \in Item, NEW f \in Field
                 PROVE  rows'[e][i].at[f].clock <= clock'[e]
        BY DEF ClockDominatesRows
    <2>1. CASE e # d
        BY <2>1, <1>3, <1>4, <1>10 DEF IInv, ClockDominatesRows
    <2>2. CASE e = d
        <3>1. clock'[d] = base + Len(all)
            BY <1>3, <1>4
        <3>2. r[i].at[f].clock <= base /\ r[i].at[f].clock \in Nat
            BY <1>1 DEF Row, Stamp
        <3>3. W[i].at[f].clock <= base + Len(all)
            BY <3>2, <1>1, <1>5, <1>15
        <3>4. QED
            BY <2>2, <3>1, <3>3, <1>10
    <2>3. QED
        BY <2>1, <2>2
<1>17. \A e \in Device : Backed(rows[e])'
    <2> SUFFICES ASSUME NEW e \in Device
                 PROVE  Backed(rows[e])'
        OBVIOUS
    <2>1. CASE e # d
        <3>1. Backed(rows[e])
            BY DEF IInv, FieldsBacked, AllRows
        <3>2. rows'[e] = rows[e] /\ changes \subseteq changes'
            BY <2>1, <1>10
        <3>3. QED
            BY <3>1, <3>2, BackedMonotone DEF Backed
    <2>2. CASE e = d
        <3> SUFFICES ASSUME NEW i \in Item, NEW f \in Field
                     PROVE  \/ W[i].at[f] = Zero /\ W[i].val[f] = Blank.val[f]
                            \/ \E c \in changes' :
                                 /\ c.target = i /\ f \in DOMAIN c.puts
                                 /\ c.stamp = W[i].at[f] /\ c.puts[f] = W[i].val[f]
            BY <2>2, <1>10 DEF Backed
        <3>1. CASE W[i].val[f] = r[i].val[f] /\ W[i].at[f] = r[i].at[f]
            <4>1. \/ r[i].at[f] = Zero /\ r[i].val[f] = Blank.val[f]
                  \/ \E c \in changes' : /\ c.target = i /\ f \in DOMAIN c.puts
                                        /\ c.stamp = r[i].at[f] /\ c.puts[f] = r[i].val[f]
                BY <1>1, <1>10 DEF Backed
            <4>2. QED
                BY <3>1, <4>1
        <3>2. ASSUME NEW n \in DOMAIN all,
                     all[n].target = i, f \in DOMAIN all[n].puts,
                     W[i].val[f] = all[n].puts[f],
                     W[i].at[f] = [clock |-> base + n, actor |-> d]
              PROVE  \E c \in changes' :
                        /\ c.target = i /\ f \in DOMAIN c.puts
                        /\ c.stamp = W[i].at[f] /\ c.puts[f] = W[i].val[f]
            <4>1. Chg(n) \in changes'
                BY <1>3, <1>8
            <4>2. QED
                BY <3>2, <4>1, <1>9
        <3>3. QED
            BY <3>1, <3>2, <1>6
    <2>3. QED
        BY <2>1, <2>2
<1>18. QED
    BY <1>10, <1>11, <1>12, <1>14, <1>15, <1>16, <1>17 DEF Committed

\* The rows r of device d are at least as new as those it stores.
Grown(d, r) ==
    \A i \in Item, f \in Field :
        \/ r[i].val[f] = rows[d][i].val[f] /\ r[i].at[f] = rows[d][i].at[f]
        \/ After(r[i].at[f], rows[d][i].at[f])

\* A transaction on top of grown rows takes no field back.
LEMMA CommittedNeverRegresses ==
    ASSUME IInv, NEW d \in Device, NEW base, NEW k, NEW r,
           Committable(d, base, k, r), Grown(d, r), Committed(d, base, r)
    PROVE  NoFieldRegresses
<1> SUFFICES ASSUME NEW e \in Device, NEW i \in Item, NEW f \in Field
             PROVE  \/ /\ rows'[e][i].val[f] = rows[e][i].val[f]
                       /\ rows'[e][i].at[f] = rows[e][i].at[f]
                    \/ After(rows'[e][i].at[f], rows[e][i].at[f])
    BY DEF NoFieldRegresses
<1>1. CASE e # d
    BY <1>1 DEF Committed
<1>2. CASE e = d
    <2>1. \/ r[i].val[f] = rows[d][i].val[f] /\ r[i].at[f] = rows[d][i].at[f]
          \/ After(r[i].at[f], rows[d][i].at[f])
        BY DEF Grown
    <2>2. /\ rows[d][i].at[f] \in Stamp /\ rows[d][i].at[f].clock <= clock[d]
          /\ clock[d] \in Nat
        BY DEF IInv, TypeOK, ClockDominatesRows, Row
    <2>3. base \in Nat /\ base >= clock[d]
        BY DEF Committable
    <2>4. CASE /\ rows'[d][i].val[f] = r[i].val[f]
               /\ rows'[d][i].at[f] = r[i].at[f]
        BY <1>2, <2>1, <2>4
    <2>5. CASE rows'[d][i].at[f] \in Stamp /\ rows'[d][i].at[f].clock > base
        BY <1>2, <2>2, <2>3, <2>5 DEF After, Stamp
    <2>6. QED
        BY <2>4, <2>5 DEF Committed
<1>3. QED
    BY <1>1, <1>2

\* The rest of the invariant, for a handler that ends in a transaction.
LEMMA CommittedInvariant ==
    ASSUME IInv, NEW d \in Device, NEW base, NEW r, Committed(d, base, r),
           applied' \in [Device -> SUBSET Change],
           \A e \in Device : IsFiniteSet(applied'[e]),
           checkpoint' \in [Device -> [Device -> Nat]],
           UNCHANGED packages
    PROVE  IInv'
<1>1. TypeOK'
    BY DEF IInv, TypeOK, Committed
<1>2. FieldsBacked'
    <2>1. ASSUME NEW pkg \in packages'
          PROVE  Backed(pkg.rows)'
        <3>1. pkg \in packages
            OBVIOUS
        <3>2. Backed(pkg.rows)
            BY <3>1 DEF IInv, FieldsBacked, AllRows
        <3>3. changes \subseteq changes'
            BY DEF Committed
        <3>4. QED
            BY <3>2, <3>3, BackedMonotone DEF Backed
    <2>2. \A e \in Device : Backed(rows[e])'
        BY DEF Committed
    <2>3. QED
        BY <2>1, <2>2 DEF FieldsBacked, AllRows
<1>3. StampsDrawn' /\ ClockDominatesRows'
    BY DEF Committed
<1>4. QED
    BY <1>1, <1>2, <1>3 DEF IInv

\* A user operation starts from the rows the device stores.
LEMMA LocalPreserves ==
    ASSUME IInv, NEW d \in Device, NEW op, NEW P,
           NEW k \in SUBSET Item, known[d] \subseteq k,
           NEW ws \in Seq(WriteTo(k)), Local(d, op, k, ws, P)
    PROVE  IInv' /\ NoFieldRegresses
<1>1. Committable(d, clock[d], k, rows[d])
    <2>1. /\ clock[d] \in Nat /\ rows[d] \in [Item -> Row]
          /\ \A i \in Item \ known[d] : rows[d][i] = Blank
        BY DEF IInv, TypeOK
    <2>2. Backed(rows[d]) /\ ClockDominatesRows
        BY DEF IInv, FieldsBacked, AllRows
    <2>3. QED
        BY <2>1, <2>2 DEF Committable, ClockDominatesRows
<1>2. Commit(d, clock[d], k, rows[d], ws, P) /\ UNCHANGED <<applied, checkpoint, packages>>
    BY DEF Local
<1>3. Committed(d, clock[d], rows[d])
    BY <1>1, <1>2, CommitPreserves
<1>4. IInv'
    BY <1>2, <1>3, CommittedInvariant DEF IInv, TypeOK
<1>5. Grown(d, rows[d])
    BY DEF Grown
<1>6. QED
    BY <1>1, <1>3, <1>4, <1>5, CommittedNeverRegresses
-----------------------------------------------------------------------------
(* The writes of the user operations.                                      *)

\* Changing one field of several items is a sequence of writes.
LEMMA PutsType ==
    ASSUME NEW k \in SUBSET Item, NEW S \in SUBSET k, NEW op \in Operation,
           NEW f \in Field, NEW v, [Blank.val EXCEPT ![f] = v] \in Values
    PROVE  /\ \A i \in k : <<Put(op, i, f, v)>> \in Seq(WriteTo(k))
           /\ PutAll(op, S, f, v) \in Seq(WriteTo(k))
<1> DEFINE puts == {Put(op, i, f, v) : i \in S}
           g == [i \in S |-> Put(op, i, f, v)]
<1>1. Blank.val \in Values
    BY BlankType DEF Row
<1>2. \A i \in k : Put(op, i, f, v) \in WriteTo(k)
    BY <1>1, PutType DEF WriteTo
<1>3. IsFiniteSet(S)
    BY ItemAssumption, FS_Subset
<1>4. g \in Surjection(S, puts)
    <2>1. \A i \in S : g[i] = Put(op, i, f, v)
        OBVIOUS
    <2>2. g \in [S -> puts]
        OBVIOUS
    <2>3. \A t \in puts : \E i \in S : g[i] = t
        BY <2>1
    <2>4. QED
        BY <2>2, <2>3 DEF Surjection
<1>5. IsFiniteSet(puts)
    BY <1>3, <1>4, FS_Surjection
<1>6. puts \subseteq WriteTo(k)
    BY <1>2
<1>7. SetToSeq(puts) \in Seq(puts)
    BY <1>5, SetToSeqType
<1>8. SetToSeq(puts) \in Seq(WriteTo(k))
    <2> HIDE DEF puts
    <2> QED
        BY <1>6, <1>7
<1>9. QED
    BY <1>2, <1>8 DEF PutAll

\* The values a single-field change can put.
LEMMA FieldValues ==
    /\ \A t \in Text : [Blank.val EXCEPT !["text"] = t] \in Values
    /\ \A b \in BOOLEAN : [Blank.val EXCEPT !["checked"] = b] \in Values
    /\ \A p \in Item \union {NoItem} : [Blank.val EXCEPT !["parent"] = p] \in Values
    /\ \A l \in Lifecycle : [Blank.val EXCEPT !["life"] = l] \in Values
    /\ {"text", "checked", "parent", "life"} \subseteq Field
BY DEF Blank, Values, Lifecycle, Field

\* addItem and addSubItem keep the invariant.
LEMMA AddItemPreserves ==
    ASSUME IInv, NEW d \in Device, AddItem(d)
    PROVE  IInv' /\ NoFieldRegresses
<1>1. PICK i \in Item, t \in Text, p \in Item \union {NoItem} :
        Local(d, "CREATE_ITEM", known[d] \union {i},
              <<[op |-> "CREATE_ITEM", target |-> i,
                 puts |-> [text |-> t, checked |-> FALSE, parent |-> p]]>>, {p})
    BY DEF AddItem
<1> DEFINE k == known[d] \union {i}
           payload == [text |-> t, checked |-> FALSE, parent |-> p]
           v == [text |-> t, checked |-> FALSE, parent |-> p, life |-> "ACTIVE"]
           w == [op |-> "CREATE_ITEM", target |-> i, puts |-> payload]
<1>2. k \in SUBSET Item /\ known[d] \subseteq k
    BY DEF IInv, TypeOK
<1>3. payload \in Payload
    <2>1. v \in Values
        BY DEF Values, Lifecycle
    <2>2. payload = [f \in {"text", "checked", "parent"} |-> v[f]]
        <3>1. DOMAIN payload = {"text", "checked", "parent"}
            OBVIOUS
        <3>2. payload = [f \in DOMAIN payload |-> payload[f]]
            OBVIOUS
        <3>3. /\ payload["text"] = v["text"]
              /\ payload["checked"] = v["checked"]
              /\ payload["parent"] = v["parent"]
            OBVIOUS
        <3> HIDE DEF payload, v
        <3> QED
            BY <3>1, <3>2, <3>3
    <2>3. {"text", "checked", "parent"} \in SUBSET Field
        BY DEF Field
    <2>4. QED
        BY <2>1, <2>2, <2>3 DEF Payload
<1>4. w \in WriteTo(k)
    BY <1>3 DEF WriteTo, Write, Operation
<1>5. <<w>> \in Seq(WriteTo(k))
    BY <1>4
<1>6. QED
    BY <1>1, <1>2, <1>5, LocalPreserves

\* setItemText keeps it.
LEMMA SetTextPreserves ==
    ASSUME IInv, NEW d \in Device, SetText(d)
    PROVE  IInv' /\ NoFieldRegresses
<1>1. PICK i \in Active(known[d], rows[d]), t \in Text :
        Local(d, "SET_ITEM_TEXT", known[d], <<Put("SET_ITEM_TEXT", i, "text", t)>>, {})
    BY DEF SetText
<1>2. known[d] \in SUBSET Item /\ i \in known[d]
    BY DEF IInv, TypeOK, Active
<1>3. <<Put("SET_ITEM_TEXT", i, "text", t)>> \in Seq(WriteTo(known[d]))
    BY <1>2, PutsType, FieldValues DEF Operation
<1>4. QED
    BY <1>1, <1>2, <1>3, LocalPreserves

\* setItemsChecked keeps it.
LEMMA SetCheckedPreserves ==
    ASSUME IInv, NEW d \in Device, SetChecked(d)
    PROVE  IInv' /\ NoFieldRegresses
<1>1. PICK i \in Active(known[d], rows[d]), b \in BOOLEAN :
        LET changed == {j \in {i} \union Children(known[d], rows[d], i) :
                          rows[d][j].val["checked"] # b}
        IN  Local(d, "SET_ITEM_CHECKED", known[d],
                  PutAll("SET_ITEM_CHECKED", changed, "checked", b),
                  Parents(known[d], rows[d]))
    BY DEF SetChecked
<1> DEFINE changed == {j \in {i} \union Children(known[d], rows[d], i) :
                         rows[d][j].val["checked"] # b}
<1>2. known[d] \in SUBSET Item /\ changed \in SUBSET known[d]
    BY DEF IInv, TypeOK, Active, Children, ChildrenOf
<1>3. PutAll("SET_ITEM_CHECKED", changed, "checked", b)
        \in Seq(WriteTo(known[d]))
    <2> HIDE DEF changed
    <2> QED
        BY <1>2, PutsType, FieldValues DEF Operation
<1>4. QED
    BY <1>1, <1>2, <1>3, LocalPreserves

\* moveItem keeps it.
LEMMA MoveItemPreserves ==
    ASSUME IInv, NEW d \in Device, MoveItem(d)
    PROVE  IInv' /\ NoFieldRegresses
<1>1. PICK i \in Active(known[d], rows[d]), p \in Item \union {NoItem} :
        Local(d, "SET_ITEM_PLACEMENT", known[d],
              <<Put("SET_ITEM_PLACEMENT", i, "parent", p)>>,
              OldParent(known[d], rows[d], i) \union {p})
    BY DEF MoveItem
<1>2. known[d] \in SUBSET Item /\ i \in known[d]
    BY DEF IInv, TypeOK, Active
<1>3. <<Put("SET_ITEM_PLACEMENT", i, "parent", p)>> \in Seq(WriteTo(known[d]))
    BY <1>2, PutsType, FieldValues DEF Operation
<1>4. QED
    BY <1>1, <1>2, <1>3, LocalPreserves

\* deleteItems keeps it.
LEMMA DeleteItemsPreserves ==
    ASSUME IInv, NEW d \in Device, DeleteItems(d)
    PROVE  IInv' /\ NoFieldRegresses
<1>1. PICK targets \in SUBSET Active(known[d], rows[d]) :
        LET orphans == UNION {Children(known[d], rows[d], p) : p \in targets} \ targets
            parents == Parents(known[d], rows[d])
            grouped == parents \union UNION {Children(known[d], rows[d], p) : p \in parents}
        IN  Local(d, "DELETE_ITEM", known[d],
                  PutAll("SET_ITEM_PLACEMENT", orphans, "parent", NoItem)
                  \o PutAll("DELETE_ITEM", targets, "life", "DELETED"),
                  grouped \ targets)
    BY DEF DeleteItems
<1> DEFINE orphans == UNION {Children(known[d], rows[d], p) : p \in targets} \ targets
<1>2. /\ known[d] \in SUBSET Item
      /\ targets \in SUBSET known[d] /\ orphans \in SUBSET known[d]
    BY DEF IInv, TypeOK, Active, Children, ChildrenOf
<1> HIDE DEF orphans
<1>3. PutAll("SET_ITEM_PLACEMENT", orphans, "parent", NoItem)
        \in Seq(WriteTo(known[d]))
    BY <1>2, PutsType, FieldValues DEF Operation
<1>4. PutAll("DELETE_ITEM", targets, "life", "DELETED")
        \in Seq(WriteTo(known[d]))
    BY <1>2, PutsType, FieldValues DEF Operation, Lifecycle
<1>5. PutAll("SET_ITEM_PLACEMENT", orphans, "parent", NoItem)
        \o PutAll("DELETE_ITEM", targets, "life", "DELETED")
        \in Seq(WriteTo(known[d]))
    BY <1>3, <1>4
<1>6. QED
    BY <1>1, <1>2, <1>5, LocalPreserves DEF orphans

\* restoreItem keeps it.
LEMMA RestoreItemPreserves ==
    ASSUME IInv, NEW d \in Device, RestoreItem(d)
    PROVE  IInv' /\ NoFieldRegresses
<1>1. PICK i \in known[d] \ Active(known[d], rows[d]) :
        Local(d, "RESTORE_ITEM", known[d], <<Put("RESTORE_ITEM", i, "life", "ACTIVE")>>,
              {rows[d][i].val["parent"]})
    BY DEF RestoreItem
<1>2. known[d] \in SUBSET Item /\ i \in known[d]
    BY DEF IInv, TypeOK
<1>3. <<Put("RESTORE_ITEM", i, "life", "ACTIVE")>> \in Seq(WriteTo(known[d]))
    BY <1>2, PutsType, FieldValues DEF Operation, Lifecycle
<1>4. QED
    BY <1>1, <1>2, <1>3, LocalPreserves

\* Work on another collection keeps it.
LEMMA EditElsewherePreserves ==
    ASSUME IInv, NEW d \in Device, EditElsewhere(d)
    PROVE  IInv' /\ NoFieldRegresses
<1>1. /\ clock \in [Device -> Nat]
      /\ clock' = [clock EXCEPT ![d] = @ + 1]
      /\ UNCHANGED <<seq, known, rows, changes, applied, checkpoint, packages>>
    BY DEF EditElsewhere, IInv, TypeOK
<1>2. clock' \in [Device -> Nat] /\ \A e \in Device : clock'[e] >= clock[e]
    BY <1>1
<1>3. TypeOK'
    BY <1>1, <1>2 DEF IInv, TypeOK
<1>4. StampsDrawn'
    <2>1. \A c \in changes : c.actor \in Device /\ c.stamp.clock \in 1 .. clock[c.actor]
        BY DEF IInv, TypeOK, StampsDrawn, Change
    <2>2. ASSUME NEW c \in changes
          PROVE  c.stamp.clock \in 1 .. clock'[c.actor]
        <3>1. clock[c.actor] \in Nat /\ clock'[c.actor] \in Nat
              /\ clock'[c.actor] >= clock[c.actor]
            BY <1>1, <1>2, <2>1
        <3>2. QED
            BY <2>1, <3>1
    <2>3. QED
        BY <1>1, <2>2 DEF IInv, StampsDrawn
<1>5. FieldsBacked'
    BY <1>1 DEF IInv, FieldsBacked, AllRows, Backed
<1>6. ClockDominatesRows'
    <2>1. \A e \in Device, i \in Item, f \in Field :
             rows[e][i].at[f].clock \in Nat /\ rows[e][i].at[f].clock <= clock[e]
        BY DEF IInv, TypeOK, ClockDominatesRows, Row, Stamp
    <2>2. QED
        BY <1>1, <1>2, <2>1 DEF ClockDominatesRows
<1>7. QED
    BY <1>1, <1>3, <1>4, <1>5, <1>6 DEF IInv, NoFieldRegresses
-----------------------------------------------------------------------------
(* Exchange.                                                               *)

\* The fields of a row are a payload that puts all of them.
LEMMA ValuesArePayloads ==
    ASSUME NEW v \in Values
    PROVE  v \in Payload
<1>1. v = [f \in Field |-> v[f]]
    BY DEF Values, Field
<1>2. Field \in SUBSET Field
    OBVIOUS
<1>3. QED
    BY <1>1, <1>2 DEF Payload

\* The row taken partly from a payload and its stamps is a row.
LEMMA TakenType ==
    ASSUME NEW row \in Row, NEW p \in Payload, NEW at \in [Field -> Stamp],
           NEW F \in SUBSET DOMAIN p
    PROVE  /\ Taken(row, F, p, at) \in Row
           /\ \A f \in Field : f \notin F =>
                 /\ Taken(row, F, p, at).val[f] = row.val[f]
                 /\ Taken(row, F, p, at).at[f] = row.at[f]
           /\ \A f \in F :
                 /\ Taken(row, F, p, at).val[f] = p[f]
                 /\ Taken(row, F, p, at).at[f] = at[f]
<1> DEFINE v == [f \in Field |-> IF f \in F THEN p[f] ELSE row.val[f]]
<1>1. row.val \in Values /\ row.at \in [Field -> Stamp]
    BY DEF Row
<1>2. \A f \in Field : \/ v[f] = row.val[f]
                       \/ f \in DOMAIN p /\ v[f] = p[f]
    OBVIOUS
<1>3. DOMAIN v = Field /\ v = [f \in Field |-> v[f]]
    OBVIOUS
<1>4. v \in Values
    <2> HIDE DEF v
    <2> QED
        BY <1>1, <1>2, <1>3, RowCopy
<1>5. [f \in Field |-> IF f \in F THEN at[f] ELSE row.at[f]] \in [Field -> Stamp]
    BY <1>1
<1>6. Taken(row, F, p, at) \in Row
    BY <1>4, <1>5 DEF Row, Taken
<1>7. F \subseteq Field
    BY DEF Payload
<1>8. QED
    BY <1>6, <1>7 DEF Taken

\* What applyCreateItem, applyItemField and applyItemLifecycle write.
LEMMA MergedType ==
    ASSUME NEW row \in Row, NEW c \in Change, NEW F \in SUBSET DOMAIN c.puts
    PROVE  /\ Merged(row, c, F) \in Row
           /\ \A f \in Field : f \notin F =>
                 Merged(row, c, F).val[f] = row.val[f] /\ Merged(row, c, F).at[f] = row.at[f]
           /\ \A f \in F :
                 Merged(row, c, F).val[f] = c.puts[f] /\ Merged(row, c, F).at[f] = c.stamp
<1> DEFINE at == [f \in Field |-> c.stamp]
<1>1. c.puts \in Payload /\ c.stamp \in Stamp
    BY DEF Change
<1>2. at \in [Field -> Stamp] /\ \A f \in Field : at[f] = c.stamp
    BY <1>1
<1>3. F \subseteq Field
    BY <1>1 DEF Payload
<1>4. Merged(row, c, F) = Taken(row, F, c.puts, at)
    BY DEF Merged
<1> HIDE DEF at
<1>5. QED
    BY <1>1, <1>2, <1>3, <1>4, TakenType

\* What mergeImportedItem writes.
LEMMA MergedRowType ==
    ASSUME NEW mine \in Row, NEW theirs \in Row
    PROVE  /\ MergedRow(mine, theirs) \in Row
           /\ \A f \in Field :
                 \/ /\ MergedRow(mine, theirs).val[f] = mine.val[f]
                    /\ MergedRow(mine, theirs).at[f] = mine.at[f]
                 \/ /\ MergedRow(mine, theirs).val[f] = theirs.val[f]
                    /\ MergedRow(mine, theirs).at[f] = theirs.at[f]
                    /\ After(theirs.at[f], mine.at[f])
<1> DEFINE F == {f \in Field : After(theirs.at[f], mine.at[f])}
<1>1. theirs.val \in Values /\ theirs.at \in [Field -> Stamp]
    BY DEF Row
<1>2. theirs.val \in Payload
    BY <1>1, ValuesArePayloads
<1>3. F \in SUBSET DOMAIN theirs.val
    BY <1>1 DEF Values, Field
<1>4. MergedRow(mine, theirs) = Taken(mine, F, theirs.val, theirs.at)
    BY DEF MergedRow
<1>5. \A f \in F : After(theirs.at[f], mine.at[f])
    OBVIOUS
<1> HIDE DEF F
<1>6. QED
    BY <1>1, <1>2, <1>3, <1>4, <1>5, TakenType

\* The rows a received change leaves are backed by it and by what was there.
LEMMA RemoteCommittable ==
    ASSUME IInv, NEW d \in Device, NEW c \in changes,
           NEW k, k = KnownAfter(known[d], c),
           NEW F, F = Overwrites(known[d], rows[d], c),
           NEW r, r = [rows[d] EXCEPT ![c.target] = Merged(@, c, F)]
    PROVE  /\ Committable(d, Observed(clock[d], c.stamp.clock), k, r)
           /\ Grown(d, r)
<1> DEFINE base == Observed(clock[d], c.stamp.clock)
           j == c.target
<1>1. /\ clock[d] \in Nat /\ known[d] \in SUBSET Item /\ rows[d] \in [Item -> Row]
      /\ \A i \in Item \ known[d] : rows[d][i] = Blank
      /\ c \in Change
    BY DEF IInv, TypeOK
<1>2. j \in Item /\ c.stamp \in Stamp /\ c.stamp.clock \in Nat /\ rows[d][j] \in Row
    BY <1>1 DEF Change, Stamp
<1>3. F \in SUBSET DOMAIN c.puts /\ F \subseteq Field
      /\ \A f \in F : After(c.stamp, rows[d][j].at[f])
    BY <1>1 DEF Overwrites, Change, Payload
<1>4. /\ Merged(rows[d][j], c, F) \in Row
      /\ \A f \in Field : f \notin F => /\ Merged(rows[d][j], c, F).val[f] = rows[d][j].val[f]
                                       /\ Merged(rows[d][j], c, F).at[f] = rows[d][j].at[f]
      /\ \A f \in F : /\ Merged(rows[d][j], c, F).val[f] = c.puts[f]
                       /\ Merged(rows[d][j], c, F).at[f] = c.stamp
    BY <1>1, <1>2, <1>3, MergedType
<1>5. /\ r \in [Item -> Row]
      /\ r[j] = Merged(rows[d][j], c, F)
      /\ \A i \in Item \ {j} : r[i] = rows[d][i]
    BY <1>1, <1>2, <1>4
<1>6. base \in Nat /\ base >= clock[d] /\ base >= c.stamp.clock
    BY <1>1, <1>2, ObservedAbove
<1>7. k \in SUBSET Item /\ known[d] \subseteq k
    BY <1>1, <1>2 DEF KnownAfter
<1>8. \A i \in Item \ k : r[i] = Blank
    <2> SUFFICES ASSUME NEW i \in Item \ k
                 PROVE  r[i] = Blank
        OBVIOUS
    <2>1. rows[d][i] = Blank
        BY <1>1, <1>7
    <2>2. CASE i = j
        <3>1. F = {}
            BY <2>2 DEF KnownAfter, Overwrites
        <3>2. r[i] = [val |-> [f \in Field |-> Blank.val[f]], at |-> [f \in Field |-> Blank.at[f]]]
            BY <1>5, <2>1, <2>2, <3>1 DEF Merged, Taken
        <3>3. Blank.val = [f \in Field |-> Blank.val[f]] /\ Blank.at = [f \in Field |-> Blank.at[f]]
            BY DEF Blank, Field
        <3>4. Blank = [val |-> Blank.val, at |-> Blank.at]
            BY DEF Blank
        <3>5. QED
            BY <3>2, <3>3, <3>4
    <2>3. QED
        BY <1>5, <2>1, <2>2
<1>9. Backed(r)
    <2> SUFFICES ASSUME NEW i \in Item, NEW f \in Field
                 PROVE  \/ r[i].at[f] = Zero /\ r[i].val[f] = Blank.val[f]
                        \/ \E x \in changes : /\ x.target = i /\ f \in DOMAIN x.puts
                                             /\ x.stamp = r[i].at[f] /\ x.puts[f] = r[i].val[f]
        BY DEF Backed
    <2>1. CASE i = j /\ f \in F
        BY <1>3, <1>4, <1>5, <2>1
    <2>2. CASE ~(i = j /\ f \in F)
        <3>1. r[i].at[f] = rows[d][i].at[f] /\ r[i].val[f] = rows[d][i].val[f]
            BY <1>4, <1>5, <2>2
        <3>2. Backed(rows[d])
            BY DEF IInv, FieldsBacked, AllRows
        <3>3. QED
            BY <3>1, <3>2 DEF Backed
    <2>3. QED
        BY <2>1, <2>2
<1>10. \A i \in Item, f \in Field : r[i].at[f].clock <= base
    <2> SUFFICES ASSUME NEW i \in Item, NEW f \in Field
                 PROVE  r[i].at[f].clock <= base
        OBVIOUS
    <2>1. CASE i = j /\ f \in F
        BY <1>4, <1>5, <1>6, <2>1
    <2>2. CASE ~(i = j /\ f \in F)
        <3>1. r[i].at[f] = rows[d][i].at[f]
            BY <1>4, <1>5, <2>2
        <3>2. rows[d][i].at[f].clock \in Nat /\ rows[d][i].at[f].clock <= clock[d]
            BY <1>1 DEF IInv, ClockDominatesRows, Row, Stamp
        <3>3. QED
            BY <1>1, <1>6, <3>1, <3>2
    <2>3. QED
        BY <2>1, <2>2
<1>11. Grown(d, r)
    BY <1>3, <1>4, <1>5 DEF Grown
<1>12. QED
    BY <1>5, <1>6, <1>7, <1>8, <1>9, <1>10, <1>11 DEF Committable

\* advanceCheckpoint counts a finite set of applied sequences.
LEMMA AdvancedType ==
    ASSUME NEW S \in SUBSET Change, IsFiniteSet(S), NEW a, NEW n \in Nat
    PROVE  Advanced(n, {o.seq : o \in {x \in S : x.actor = a}}) \in Nat
<1> DEFINE mine == {x \in S : x.actor = a}
           seen == {o.seq : o \in mine}
           run == {m \in seen : m > n /\ \A q \in (n + 1) .. m : q \in seen}
           g == [o \in mine |-> o.seq]
<1>1. IsFiniteSet(mine)
    BY FS_Subset
<1>2. g \in Surjection(mine, seen)
    BY DEF Surjection
<1>3. IsFiniteSet(seen)
    BY <1>1, <1>2, FS_Surjection
<1>4. IsFiniteSet(run)
    BY <1>3, FS_Subset
<1>5. Cardinality(run) \in Nat
    BY <1>4, FS_CardinalityType
<1>6. Advanced(n, seen) = n + Cardinality(run)
    BY DEF Advanced
<1>7. QED
    BY <1>5, <1>6

\* applyRemote keeps it.
LEMMA ApplyRemotePreserves ==
    ASSUME IInv, NEW d \in Device, NEW c \in changes, ApplyRemote(d, c)
    PROVE  IInv' /\ NoFieldRegresses
<1> DEFINE k == KnownAfter(known[d], c)
           F == Overwrites(known[d], rows[d], c)
           r == [rows[d] EXCEPT ![c.target] = Merged(@, c, F)]
           base == Observed(clock[d], c.stamp.clock)
           P == Recomputed(k, rows[d], r, c, F)
<1>1. Commit(d, base, k, r, <<>>, P) /\ UNCHANGED packages
    BY DEF ApplyRemote
<1>2. Committable(d, base, k, r) /\ Grown(d, r)
    BY RemoteCommittable
<1> HIDE DEF k, F, r, base, P
<1>3. Committed(d, base, r)
    <2>1. <<>> \in Seq(WriteTo(k))
        OBVIOUS
    <2>2. QED
        BY <1>1, <1>2, <2>1, CommitPreserves
<1>4. /\ applied \in [Device -> SUBSET Change] /\ c \in Change /\ c.actor \in Device
      /\ \A e \in Device : IsFiniteSet(applied[e])
      /\ checkpoint \in [Device -> [Device -> Nat]]
    BY DEF IInv, TypeOK, Change
<1>5. /\ applied' = [applied EXCEPT ![d] = @ \union {c}]
      /\ applied' \in [Device -> SUBSET Change]
      /\ \A e \in Device : IsFiniteSet(applied'[e])
    <2>1. applied' = [applied EXCEPT ![d] = @ \union {c}]
        BY DEF ApplyRemote
    <2>2. applied'[d] = applied[d] \union {c}
        BY <1>4, <2>1
    <2>3. IsFiniteSet(applied'[d])
        <3>1. IsFiniteSet(applied[d])
            BY <1>4
        <3>2. IsFiniteSet(applied[d] \union {c})
            BY <3>1, FS_AddElement
        <3>3. QED
            BY <2>2, <3>2
    <2>4. QED
        BY <1>4, <2>1, <2>3
<1>6. checkpoint' \in [Device -> [Device -> Nat]]
    <2> DEFINE seen == {o.seq : o \in {x \in applied'[d] : x.actor = c.actor}}
               n == Advanced(checkpoint[d][c.actor], seen)
    <2>1. checkpoint' = [checkpoint EXCEPT ![d][c.actor] = n]
        BY <1>4 DEF ApplyRemote
    <2>2. n \in Nat
        <3>1. /\ applied'[d] \in SUBSET Change /\ IsFiniteSet(applied'[d])
              /\ checkpoint[d][c.actor] \in Nat
            BY <1>4, <1>5
        <3>2. \A S \in SUBSET Change : IsFiniteSet(S) =>
                 Advanced(checkpoint[d][c.actor],
                          {o.seq : o \in {x \in S : x.actor = c.actor}}) \in Nat
            BY <3>1, AdvancedType
        <3>3. QED
            BY <3>1, <3>2
    <2> HIDE DEF n
    <2>3. QED
        BY <1>4, <2>1, <2>2
<1>7. IInv'
    BY <1>1, <1>3, <1>5, <1>6, CommittedInvariant
<1>8. QED
    BY <1>2, <1>3, <1>7, CommittedNeverRegresses

\* The rows an imported package leaves are backed by what backed either side.
LEMMA ImportCommittable ==
    ASSUME IInv, NEW d \in Device, NEW pkg \in packages,
           NEW seen \in PackageClocks(pkg), \A n \in PackageClocks(pkg) : n <= seen,
           NEW k, k = known[d] \union pkg.known,
           NEW r, r = [i \in Item |-> IF i \in pkg.known
                                    THEN MergedRow(rows[d][i], pkg.rows[i]) ELSE rows[d][i]]
    PROVE  Committable(d, Observed(clock[d], seen), k, r) /\ Grown(d, r)
<1> DEFINE base == Observed(clock[d], seen)
<1>1. /\ clock[d] \in Nat /\ known[d] \in SUBSET Item /\ rows[d] \in [Item -> Row]
      /\ \A i \in Item \ known[d] : rows[d][i] = Blank
      /\ pkg.known \in SUBSET Item /\ pkg.rows \in [Item -> Row]
    BY DEF IInv, TypeOK
<1>2. ASSUME NEW i \in Item, NEW f \in Field
      PROVE  /\ rows[d][i].at[f].clock \in Nat /\ rows[d][i].at[f].clock <= clock[d]
             /\ pkg.rows[i].at[f].clock \in Nat
             /\ i \in pkg.known => pkg.rows[i].at[f].clock <= seen
    <2>1. rows[d][i].at[f] \in Stamp /\ pkg.rows[i].at[f] \in Stamp
        BY <1>1 DEF Row
    <2>2. rows[d][i].at[f].clock <= clock[d]
        BY DEF IInv, ClockDominatesRows
    <2>3. i \in pkg.known => pkg.rows[i].at[f].clock \in PackageClocks(pkg)
        BY DEF PackageClocks
    <2>4. QED
        BY <2>1, <2>2, <2>3 DEF Stamp
<1>3. seen \in Nat
    BY <1>1, <1>2 DEF PackageClocks
<1>4. base \in Nat /\ base >= clock[d] /\ base >= seen
    <2>1. clock[d] \in Nat
        BY <1>1
    <2>2. base \in Nat /\ base > clock[d] /\ base > seen
        BY <1>3, <2>1, ObservedAbove
    <2> HIDE DEF base
    <2>3. QED
        BY <1>3, <2>1, <2>2
<1>5. ASSUME NEW i \in Item
      PROVE  /\ r[i] \in Row
             /\ i \notin pkg.known => r[i] = rows[d][i]
             /\ \A f \in Field :
                   \/ r[i].val[f] = rows[d][i].val[f] /\ r[i].at[f] = rows[d][i].at[f]
                   \/ /\ i \in pkg.known
                      /\ r[i].val[f] = pkg.rows[i].val[f] /\ r[i].at[f] = pkg.rows[i].at[f]
                      /\ After(r[i].at[f], rows[d][i].at[f])
    <2>1. rows[d][i] \in Row /\ pkg.rows[i] \in Row
        BY <1>1
    <2>2. CASE i \in pkg.known
        <3>1. r[i] = MergedRow(rows[d][i], pkg.rows[i])
            BY <2>2
        <3>2. QED
            BY <2>1, <2>2, <3>1, MergedRowType
    <2>3. CASE i \notin pkg.known
        <3>1. r[i] = rows[d][i]
            BY <2>3
        <3>2. QED
            BY <2>1, <2>3, <3>1
    <2>4. QED
        BY <2>2, <2>3
<1>6. r \in [Item -> Row]
    BY <1>5
<1>7. k \in SUBSET Item /\ \A i \in Item \ k : r[i] = Blank
    BY <1>1, <1>5
<1>8. Backed(r)
    <2>1. Backed(rows[d]) /\ Backed(pkg.rows)
        BY DEF IInv, FieldsBacked, AllRows
    <2>2. QED
        BY <1>5, <2>1 DEF Backed
<1>9. \A i \in Item, f \in Field : r[i].at[f].clock <= base
    <2> SUFFICES ASSUME NEW i \in Item, NEW f \in Field
                 PROVE  r[i].at[f].clock <= base
        OBVIOUS
    <2>1. CASE r[i].at[f] = rows[d][i].at[f]
        BY <1>1, <1>2, <1>4, <2>1
    <2>2. CASE i \in pkg.known /\ r[i].at[f] = pkg.rows[i].at[f]
        BY <1>2, <1>3, <1>4, <2>2
    <2>3. QED
        BY <1>5, <2>1, <2>2
<1>10. Grown(d, r)
    BY <1>5 DEF Grown
<1>11. QED
    BY <1>4, <1>6, <1>7, <1>8, <1>9, <1>10 DEF Committable

\* importSnapshot keeps it.
LEMMA ImportPreserves ==
    ASSUME IInv, NEW d \in Device, NEW pkg \in packages, Import(d, pkg)
    PROVE  IInv' /\ NoFieldRegresses
<1> DEFINE k == known[d] \union pkg.known
           r == [i \in Item |-> IF i \in pkg.known
                               THEN MergedRow(rows[d][i], pkg.rows[i]) ELSE rows[d][i]]
           P == IF k # known[d] \/ r # rows[d]
                THEN Parents(known[d], rows[d]) \union Parents(k, r) ELSE {}
<1>1. PICK seen \in PackageClocks(pkg) :
        /\ \A n \in PackageClocks(pkg) : n <= seen
        /\ Commit(d, Observed(clock[d], seen), k, r, <<>>, P)
    BY DEF Import
<1>2. UNCHANGED <<applied, packages>>
    BY DEF Import
<1> DEFINE base == Observed(clock[d], seen)
<1>3. Committable(d, base, k, r) /\ Grown(d, r)
    BY <1>1, ImportCommittable
<1>4. Commit(d, base, k, r, <<>>, P)
    BY <1>1
<1> HIDE DEF k, r, base, P
<1>5. Committed(d, base, r)
    <2>1. <<>> \in Seq(WriteTo(k))
        OBVIOUS
    <2>2. QED
        BY <1>3, <1>4, <2>1, CommitPreserves
<1>6. checkpoint' \in [Device -> [Device -> Nat]]
    <2> DEFINE own == checkpoint[d]
               new == [a \in Device |-> IF pkg.checkpoint[a] > own[a]
                                       THEN pkg.checkpoint[a] ELSE own[a]]
    <2>1. checkpoint \in [Device -> [Device -> Nat]] /\ pkg.checkpoint \in [Device -> Nat]
        BY DEF IInv, TypeOK
    <2>2. checkpoint' = [checkpoint EXCEPT ![d] = new]
        BY <2>1 DEF Import
    <2>3. new \in [Device -> Nat]
        BY <2>1
    <2> HIDE DEF new
    <2>4. QED
        BY <2>1, <2>2, <2>3
<1>7. IInv'
    BY <1>2, <1>5, <1>6, CommittedInvariant DEF IInv, TypeOK
<1>8. QED
    BY <1>3, <1>5, <1>7, CommittedNeverRegresses

\* exportSnapshot keeps it: a package is backed by what backs its rows.
LEMMA ExportPreserves ==
    ASSUME IInv, NEW d \in Device, Export(d)
    PROVE  IInv' /\ NoFieldRegresses
<1> DEFINE sent == [checkpoint[d] EXCEPT ![d] = IF @ >= seq[d] THEN @ ELSE seq[d]]
           pkg == [known |-> known[d], rows |-> rows[d], checkpoint |-> sent]
<1>1. /\ packages' = packages \union {pkg}
      /\ UNCHANGED <<clock, seq, known, rows, changes, applied, checkpoint>>
    BY DEF Export
<1>2. /\ known[d] \in SUBSET Item /\ rows[d] \in [Item -> Row]
      /\ checkpoint[d] \in [Device -> Nat] /\ seq[d] \in Nat
    BY DEF IInv, TypeOK
<1>3. sent \in [Device -> Nat]
    BY <1>2
<1>4. pkg \in [known : SUBSET Item, rows : [Item -> Row], checkpoint : [Device -> Nat]]
    BY <1>2, <1>3
<1>5. TypeOK'
    <2> HIDE DEF pkg
    <2> QED
        BY <1>1, <1>4 DEF IInv, TypeOK
<1>6. FieldsBacked'
    <2>1. AllRows' \subseteq AllRows
        <3>1. pkg.rows = rows[d]
            OBVIOUS
        <3> HIDE DEF pkg
        <3> QED
            BY <1>1, <3>1 DEF AllRows
    <2>2. \A x : Backed(x) => Backed(x)'
        BY <1>1 DEF Backed
    <2>3. QED
        BY <2>1, <2>2 DEF IInv, FieldsBacked
<1>7. StampsDrawn' /\ ClockDominatesRows'
    BY <1>1 DEF IInv, StampsDrawn, ClockDominatesRows
<1>8. QED
    BY <1>1, <1>5, <1>6, <1>7 DEF IInv, NoFieldRegresses
-----------------------------------------------------------------------------
(* The theorems.                                                           *)

\* An empty database satisfies the invariant.
LEMMA InitEstablishes == Init => IInv
<1> SUFFICES ASSUME Init
             PROVE  IInv
    OBVIOUS
<1>1. /\ clock = [d \in Device |-> 0] /\ seq = [d \in Device |-> 0]
      /\ known = [d \in Device |-> {}] /\ rows = [d \in Device |-> [i \in Item |-> Blank]]
      /\ changes = {} /\ applied = [d \in Device |-> {}]
      /\ checkpoint = [d \in Device |-> [a \in Device |-> 0]] /\ packages = {}
    BY DEF Init
<1>2. Blank \in Row
    BY BlankType
<1>3. TypeOK
    <2>1. \A d \in Device : IsFiniteSet(applied[d])
        BY <1>1, FS_EmptySet
    <2>2. QED
        BY <1>1, <1>2, <2>1 DEF TypeOK
<1>4. StampsDrawn
    BY <1>1 DEF StampsDrawn
<1>5. \A i \in Item, f \in Field, d \in Device :
         rows[d][i].at[f] = Zero /\ rows[d][i].val[f] = Blank.val[f]
    BY <1>1 DEF Blank
<1>6. FieldsBacked
    BY <1>1, <1>5 DEF FieldsBacked, AllRows, Backed
<1>7. ClockDominatesRows
    BY <1>1, <1>5 DEF ClockDominatesRows, Zero
<1>8. QED
    BY <1>3, <1>4, <1>6, <1>7 DEF IInv

\* Every handler keeps the invariant and takes no field back.
LEMMA NextPreserves ==
    ASSUME IInv, [Next]_vars
    PROVE  IInv' /\ [NoFieldRegresses]_vars
<1>1. CASE UNCHANGED vars
    BY <1>1 DEF vars, IInv, TypeOK, StampsDrawn, FieldsBacked, AllRows, Backed,
                ClockDominatesRows
<1>2. ASSUME NEW d \in Device, AddItem(d)
      PROVE  IInv' /\ NoFieldRegresses
    BY <1>2, AddItemPreserves
<1>3. ASSUME NEW d \in Device, SetText(d)
      PROVE  IInv' /\ NoFieldRegresses
    BY <1>3, SetTextPreserves
<1>4. ASSUME NEW d \in Device, SetChecked(d)
      PROVE  IInv' /\ NoFieldRegresses
    BY <1>4, SetCheckedPreserves
<1>5. ASSUME NEW d \in Device, MoveItem(d)
      PROVE  IInv' /\ NoFieldRegresses
    BY <1>5, MoveItemPreserves
<1>6. ASSUME NEW d \in Device, DeleteItems(d)
      PROVE  IInv' /\ NoFieldRegresses
    BY <1>6, DeleteItemsPreserves
<1>7. ASSUME NEW d \in Device, RestoreItem(d)
      PROVE  IInv' /\ NoFieldRegresses
    BY <1>7, RestoreItemPreserves
<1>8. ASSUME NEW d \in Device, EditElsewhere(d)
      PROVE  IInv' /\ NoFieldRegresses
    BY <1>8, EditElsewherePreserves
<1>9. ASSUME NEW d \in Device, NEW c \in changes, ApplyRemote(d, c)
      PROVE  IInv' /\ NoFieldRegresses
    BY <1>9, ApplyRemotePreserves
<1>10. ASSUME NEW d \in Device, Export(d)
       PROVE  IInv' /\ NoFieldRegresses
    BY <1>10, ExportPreserves
<1>11. ASSUME NEW d \in Device, NEW pkg \in packages, Import(d, pkg)
       PROVE  IInv' /\ NoFieldRegresses
    BY <1>11, ImportPreserves
<1>12. QED
    BY <1>1, <1>2, <1>3, <1>4, <1>5, <1>6, <1>7, <1>8, <1>9, <1>10, <1>11 DEF Next

\* The inductive invariant holds: types, stamps drawn once, fields backed by
\* the changes that stamped them, clocks at or above every stored stamp.
THEOREM Invariance == Spec => []IInv
<1>1. Init => IInv
    BY InitEstablishes
<1>2. IInv /\ [Next]_vars => IInv'
    BY NextPreserves
<1>3. QED
    BY <1>1, <1>2, PTL DEF Spec

\* Tables keep their types, and a device has fields only for items it knows.
THEOREM TypeCorrect == Spec => []TypeOK
<1>1. IInv => TypeOK
    BY DEF IInv
<1>2. QED
    BY <1>1, Invariance, PTL

\* A device's clock is never behind a stamp it stores (nextStamp, applyRemote
\* and importSnapshot).
THEOREM ClockDominates == Spec => []ClockDominatesRows
<1>1. IInv => ClockDominatesRows
    BY DEF IInv
<1>2. QED
    BY <1>1, Invariance, PTL

\* A stamp backed by one change identifies what it wrote.
LEMMA InvIdentifies == IInv => StampIdentifiesWrite
<1> SUFFICES ASSUME IInv, NEW r \in AllRows, NEW s \in AllRows,
                    NEW i \in Item, NEW f \in Field, r[i].at[f] = s[i].at[f]
             PROVE  r[i].val[f] = s[i].val[f]
    BY DEF StampIdentifiesWrite
<1>1. Backed(r) /\ Backed(s)
    BY DEF IInv, FieldsBacked
<1>2. \A c \in changes : c.stamp # Zero
    <2>1. \A c \in changes : c.actor \in Device /\ c.stamp.clock \in 1 .. clock[c.actor]
        BY DEF IInv, TypeOK, StampsDrawn, Change
    <2>2. QED
        BY <2>1 DEF Zero
<1>3. \A c, e \in changes : c.stamp = e.stamp => c = e
    BY DEF IInv, StampsDrawn
<1>4. QED
    BY <1>1, <1>2, <1>3 DEF Backed

\* Rows with the same stamp for a field hold the same value, so dropping the
\* incoming side of a tie (applyItemField, mergeImportedItem) loses nothing.
THEOREM StampsIdentifyWrites == Spec => []StampIdentifiesWrite
BY InvIdentifies, Invariance, PTL

\* No transaction takes a field back to an older stamp.
THEOREM NeverRegress == Spec => FieldsNeverRegress
<1>1. IInv /\ [Next]_vars => [NoFieldRegresses]_vars
    BY NextPreserves
<1>2. QED
    BY <1>1, Invariance, PTL DEF Spec, FieldsNeverRegress
=============================================================================
