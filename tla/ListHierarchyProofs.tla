------------------------- MODULE ListHierarchyProofs -------------------------
(***************************************************************************)
(* What EffectiveHierarchyNormalizer.derive computes, for any placements   *)
(* of any number of items.  derive examines one candidate after another;   *)
(* the proofs go by induction over the set of candidates examined, as the  *)
(* search for a smallest set without the property at hand (SmallestSet).   *)
(***************************************************************************)
EXTENDS ListHierarchy, FiniteSetTheorems, WellFoundedInduction, TLAPS

\* Among some subsets of a finite set there is one that contains no other.
LEMMA SmallestSet ==
    ASSUME NEW S, IsFiniteSet(S), NEW B, B \subseteq SUBSET S, B # {}
    PROVE  \E X \in B : \A Y \in B : Y \subseteq X => Y = X
<1>1. IsWellFoundedOn(StrictSubsetOrdering(S), FiniteSubsetsOf(S))
    BY FS_StrictSubsetOrderingWellFounded
<1>2. B \subseteq FiniteSubsetsOf(S)
    BY FS_Subset DEF FiniteSubsetsOf
<1>3. \E X \in B : \A Y \in B : <<Y, X>> \notin StrictSubsetOrdering(S)
    BY <1>1, <1>2, WFMin
<1>4. QED
    BY <1>3 DEF StrictSubsetOrdering
-----------------------------------------------------------------------------
(* The order in which candidates are examined.                             *)

\* Placements as a device stores them.
Placements(at, S) == IsFiniteSet(S) /\ S \subseteq Nat /\ \A i \in S : at[i] \in Stamp

\* Candidates are examined in a strict total order.
LEMMA PrecedesOrder ==
    ASSUME NEW at, NEW i \in Nat, NEW j \in Nat, NEW k \in Nat,
           at[i] \in Stamp, at[j] \in Stamp, at[k] \in Stamp
    PROVE  /\ i # j => Precedes(at, i, j) \/ Precedes(at, j, i)
           /\ Precedes(at, i, j) /\ Precedes(at, j, k) => Precedes(at, i, k)
BY DEF Precedes, After, Stamp

IsLast(at, S, c) == c \in S /\ \A o \in S \ {c} : Precedes(at, o, c)
LastExamined(at, S) == CHOOSE c \in S : \A o \in S \ {c} : Precedes(at, o, c)

\* One of them is the last.
LEMMA LastExaminedExists ==
    ASSUME NEW at, NEW S, Placements(at, S), S # {}
    PROVE  LastExamined(at, S) \in S
<1> DEFINE B == {X \in SUBSET S : X # {} /\ ~ \E c \in X : IsLast(at, X, c)}
<1>1. ASSUME B # {}
      PROVE  FALSE
    <2>0. B \subseteq SUBSET S /\ IsFiniteSet(S)
        BY DEF Placements
    <2> HIDE DEF B
    <2>1. PICK X \in B : \A Y \in B : Y \subseteq X => Y = X
        BY <1>1, <2>0, SmallestSet
    <2> USE DEF B
    <2>2. PICK x \in X : TRUE
        OBVIOUS
    <2>3. CASE X = {x}
        BY <2>3 DEF IsLast
    <2>4. CASE X # {x}
        <3>1. X \ {x} \in SUBSET S /\ X \ {x} # {} /\ X \ {x} \notin B
            BY <2>1, <2>2, <2>4
        <3>2. PICK y \in X \ {x} : IsLast(at, X \ {x}, y)
            BY <3>1
        <3>3. \A i \in X : i \in Nat /\ at[i] \in Stamp
            BY DEF Placements
        <3>4. CASE Precedes(at, x, y)
            <4>1. IsLast(at, X, y)
                BY <3>2, <3>4 DEF IsLast
            <4>2. QED
                BY <4>1
        <3>5. CASE Precedes(at, y, x)
            <4>1. ASSUME NEW o \in X \ {x}
                  PROVE  Precedes(at, o, x)
                <5>1. o = y \/ Precedes(at, o, y)
                    BY <3>2 DEF IsLast
                <5>2. QED
                    BY <5>1, <3>3, <3>5, <2>2, PrecedesOrder
            <4>2. IsLast(at, X, x)
                BY <2>2, <4>1 DEF IsLast
            <4>3. QED
                BY <2>2, <4>2
        <3>6. QED
            BY <2>2, <3>2, <3>3, <3>4, <3>5, PrecedesOrder
    <2>5. QED
        BY <2>3, <2>4
<1>2. \E c \in S : IsLast(at, S, c)
    BY <1>1
<1>3. QED
    BY <1>2 DEF IsLast, LastExamined
-----------------------------------------------------------------------------
(* The recursion of derive is well defined.                                *)

\* What is accepted of the candidates S, if g says what is accepted of fewer.
AcceptedFrom(parent, at, g, S) ==
    IF S = {} THEN {}
    ELSE IF Acceptable(parent, g[S \ {LastExamined(at, S)}], LastExamined(at, S))
         THEN g[S \ {LastExamined(at, S)}] \union {LastExamined(at, S)}
         ELSE g[S \ {LastExamined(at, S)}]

Accepts(parent, at, g, Z) ==
    g = [S \in SUBSET Z |-> AcceptedFrom(parent, at, g, S)]

\* It depends on fewer candidates only.
LEMMA AcceptedFromFewer ==
    ASSUME NEW parent, NEW at, NEW g, NEW h, NEW S, Placements(at, S),
           \A X \in SUBSET S : X # S => g[X] = h[X]
    PROVE  AcceptedFrom(parent, at, g, S) = AcceptedFrom(parent, at, h, S)
<1>1. CASE S = {}
    BY <1>1 DEF AcceptedFrom
<1>2. CASE S # {}
    <2>1. LastExamined(at, S) \in S
        BY <1>2, LastExaminedExists
    <2>2. S \ {LastExamined(at, S)} \in SUBSET S /\ S \ {LastExamined(at, S)} # S
        BY <2>1
    <2>3. g[S \ {LastExamined(at, S)}] = h[S \ {LastExamined(at, S)}]
        BY <2>2
    <2>4. QED
        BY <2>3 DEF AcceptedFrom
<1>3. QED
    BY <1>1, <1>2

\* So there is one result at most ...
LEMMA AcceptsUnique ==
    ASSUME NEW parent, NEW at, NEW Y, NEW Z, Placements(at, Y),
           NEW g, Accepts(parent, at, g, Y), NEW h, Accepts(parent, at, h, Z)
    PROVE  \A S \in SUBSET (Y \intersect Z) : g[S] = h[S]
<1> DEFINE B == {S \in SUBSET (Y \intersect Z) : g[S] # h[S]}
<1>1. ASSUME B # {}
      PROVE  FALSE
    <2>0. B \subseteq SUBSET Y /\ IsFiniteSet(Y)
        BY DEF Placements
    <2> HIDE DEF B
    <2>1. PICK S \in B : \A X \in B : X \subseteq S => X = S
        BY <1>1, <2>0, SmallestSet
    <2> USE DEF B
    <2>2. S \in SUBSET Y /\ S \in SUBSET Z /\ g[S] # h[S]
        BY <2>1
    <2>3. \A X \in SUBSET S : X # S => g[X] = h[X]
        BY <2>1, <2>2
    <2>4. Placements(at, S)
        BY <2>2, FS_Subset DEF Placements
    <2>5. AcceptedFrom(parent, at, g, S) = AcceptedFrom(parent, at, h, S)
        BY <2>3, <2>4, AcceptedFromFewer
    <2>6. /\ g[S] = AcceptedFrom(parent, at, g, S)
          /\ h[S] = AcceptedFrom(parent, at, h, S)
        BY <2>2 DEF Accepts
    <2>7. QED
        BY <2>2, <2>5, <2>6
<1>2. QED
    BY <1>1

\* ... and there is one.
LEMMA AcceptsExists ==
    ASSUME NEW parent, NEW at, NEW Z, Placements(at, Z)
    PROVE  \E g : Accepts(parent, at, g, Z)
<1> DEFINE Solvable(S) == \E g : Accepts(parent, at, g, S)
           B == {S \in SUBSET Z : ~Solvable(S)}
<1>1. ASSUME B # {}
      PROVE  FALSE
    <2>0. B \subseteq SUBSET Z /\ IsFiniteSet(Z)
        BY DEF Placements
    <2> HIDE DEF B
    <2>1. PICK S \in B : \A X \in B : X \subseteq S => X = S
        BY <1>1, <2>0, SmallestSet
    <2> USE DEF B
    <2>2. \A X \in SUBSET S : X # S => Solvable(X)
        BY <2>1
    <2>3. S \in SUBSET Z /\ ~Solvable(S)
        BY <2>1
    <2>4. \A X \in SUBSET S : Placements(at, X)
        BY <2>3, FS_Subset DEF Placements
    <2> DEFINE solution(X) == CHOOSE g : Accepts(parent, at, g, X)
               below == [X \in SUBSET S |-> solution(X)[X]]
               h == [X \in SUBSET S |-> AcceptedFrom(parent, at, below, X)]
    <2>5. \A X \in SUBSET S : X # S => Accepts(parent, at, solution(X), X)
        BY <2>2
    <2> HIDE DEF solution
    <2>6. ASSUME NEW X \in SUBSET S, X # S
          PROVE  below[X] = AcceptedFrom(parent, at, below, X)
        <3>1. Accepts(parent, at, solution(X), X)
            BY <2>5, <2>6
        <3>2. below[X] = solution(X)[X]
            OBVIOUS
        <3>3. solution(X)[X] = AcceptedFrom(parent, at, solution(X), X)
            BY <3>1 DEF Accepts
        <3>4. ASSUME NEW W \in SUBSET X, W # X
              PROVE  solution(X)[W] = below[W]
            <4>1. W \in SUBSET S /\ W # S
                BY <2>6, <3>4
            <4>2. Accepts(parent, at, solution(W), W) /\ Placements(at, X)
                BY <2>4, <2>5, <4>1
            <4>3. W \in SUBSET (X \intersect W)
                OBVIOUS
            <4>4. solution(X)[W] = solution(W)[W]
                BY <3>1, <4>2, <4>3, AcceptsUnique
            <4>5. QED
                BY <4>1, <4>4
        <3>5. AcceptedFrom(parent, at, solution(X), X) = AcceptedFrom(parent, at, below, X)
            BY <2>4, <3>4, AcceptedFromFewer
        <3>6. QED
            BY <3>2, <3>3, <3>5
    <2> HIDE DEF below
    <2>7. \A X \in SUBSET S : X # S => h[X] = below[X]
        BY <2>6
    <2>8. ASSUME NEW X \in SUBSET S
          PROVE  AcceptedFrom(parent, at, h, X) = AcceptedFrom(parent, at, below, X)
        <3>1. \A W \in SUBSET X : W # X => W \in SUBSET S /\ W # S
            OBVIOUS
        <3>2. \A W \in SUBSET X : W # X => h[W] = below[W]
            BY <2>7, <3>1
        <3> HIDE DEF h
        <3>3. QED
            BY <2>4, <3>2, AcceptedFromFewer
    <2>9. Accepts(parent, at, h, S)
        BY <2>8 DEF Accepts
    <2>10. QED
        BY <2>3, <2>9
<1>2. QED
    BY <1>1

\* AcceptedChildren is that result, for all candidates.
LEMMA AcceptedChildrenIs ==
    ASSUME NEW parent, NEW at, NEW active,
           Placements(at, Candidates(parent, active))
    PROVE  \E g : /\ Accepts(parent, at, g, Candidates(parent, active))
                  /\ AcceptedChildren(parent, at, active) = g[Candidates(parent, active)]
<1> DEFINE cands == Candidates(parent, active)
           g == CHOOSE g : Accepts(parent, at, g, cands)
<1>1. Accepts(parent, at, g, cands)
    BY AcceptsExists
<1>2. AcceptedChildren(parent, at, active) = g[cands]
    BY DEF AcceptedChildren, Accepts, AcceptedFrom, LastExamined
<1>3. QED
    BY <1>1, <1>2
-----------------------------------------------------------------------------
(* What is accepted.                                                       *)

\* A is a two-level choice among the candidates S that cannot be enlarged.
MaximalForest(parent, S, A) ==
    /\ A \subseteq S
    /\ \A c \in A : parent[c] \notin A
    /\ \A c \in S \ A : ~Acceptable(parent, A, c)

\* Examining one more candidate keeps the choice maximal: what was rejected
\* before stays unacceptable next to more accepted children.
LEMMA ExamineOne ==
    ASSUME NEW parent, NEW S, NEW A, NEW l, l \notin S, MaximalForest(parent, S, A)
    PROVE  MaximalForest(parent, S \union {l},
                         IF Acceptable(parent, A, l) THEN A \union {l} ELSE A)
<1>1. CASE Acceptable(parent, A, l)
    <2>1. \A c \in A \union {l} : parent[c] \notin A \union {l}
        BY <1>1 DEF Acceptable, MaximalForest
    <2>2. \A c \in (S \union {l}) \ (A \union {l}) : ~Acceptable(parent, A \union {l}, c)
        BY DEF Acceptable, MaximalForest
    <2>3. QED
        BY <1>1, <2>1, <2>2 DEF MaximalForest
<1>2. CASE ~Acceptable(parent, A, l)
    BY <1>2 DEF MaximalForest
<1>3. QED
    BY <1>1, <1>2

\* So the choice is maximal for every set of candidates.
LEMMA AcceptsMaximalForest ==
    ASSUME NEW parent, NEW at, NEW Z, Placements(at, Z), NEW g, Accepts(parent, at, g, Z)
    PROVE  \A S \in SUBSET Z : MaximalForest(parent, S, g[S])
<1> DEFINE B == {S \in SUBSET Z : ~MaximalForest(parent, S, g[S])}
<1>1. ASSUME B # {}
      PROVE  FALSE
    <2>0. B \subseteq SUBSET Z /\ IsFiniteSet(Z)
        BY DEF Placements
    <2> HIDE DEF B
    <2>1. PICK S \in B : \A X \in B : X \subseteq S => X = S
        BY <1>1, <2>0, SmallestSet
    <2> USE DEF B
    <2>2. S \in SUBSET Z /\ ~MaximalForest(parent, S, g[S])
        BY <2>1
    <2>3. g[S] = AcceptedFrom(parent, at, g, S)
        BY <2>2 DEF Accepts
    <2>4. CASE S = {}
        BY <2>2, <2>3, <2>4 DEF AcceptedFrom, MaximalForest
    <2>5. CASE S # {}
        <3> DEFINE l == LastExamined(at, S)
                   before == S \ {l}
        <3>1. Placements(at, S)
            BY <2>2, FS_Subset DEF Placements
        <3>2. l \in S
            BY <2>5, <3>1, LastExaminedExists
        <3>3. before \in SUBSET Z /\ before \subseteq S /\ before # S
            BY <2>2, <3>2
        <3>4. MaximalForest(parent, before, g[before])
            BY <2>1, <3>3
        <3>5. g[S] = IF Acceptable(parent, g[before], l)
                     THEN g[before] \union {l} ELSE g[before]
            BY <2>3, <2>5 DEF AcceptedFrom
        <3>6. l \notin before /\ before \union {l} = S
            BY <3>2
        <3> HIDE DEF before, l
        <3>7. QED
            BY <2>2, <3>4, <3>5, <3>6, ExamineOne
    <2>6. QED
        BY <2>4, <2>5
<1>2. QED
    BY <1>1

\* derive accepts a two-level forest among the candidates, and rejects no
\* candidate that would still fit.
THEOREM AcceptedIsMaximal ==
    ASSUME NEW parent, NEW at, NEW active,
           Placements(at, Candidates(parent, active))
    PROVE  MaximalForest(parent, Candidates(parent, active),
                         AcceptedChildren(parent, at, active))
<1>1. PICK g : /\ Accepts(parent, at, g, Candidates(parent, active))
               /\ AcceptedChildren(parent, at, active) = g[Candidates(parent, active)]
    BY AcceptedChildrenIs
<1>2. \A S \in SUBSET Candidates(parent, active) : MaximalForest(parent, S, g[S])
    BY <1>1, AcceptsMaximalForest
<1>3. QED
    BY <1>1, <1>2

\* Requests that form a two-level forest are all granted.
LEMMA TwoLevelsGranted ==
    ASSUME NEW parent, NEW at, NEW active,
           Placements(at, Candidates(parent, active)),
           \A c \in Candidates(parent, active) :
              parent[c] \notin Candidates(parent, active)
    PROVE  AcceptedChildren(parent, at, active) = Candidates(parent, active)
<1> DEFINE S == Candidates(parent, active)
           A == AcceptedChildren(parent, at, active)
<1>1. MaximalForest(parent, S, A)
    BY AcceptedIsMaximal
<1>2. \A c \in S : Acceptable(parent, A, c)
    BY <1>1 DEF MaximalForest, Acceptable
<1>3. QED
    BY <1>1, <1>2 DEF MaximalForest
=============================================================================
