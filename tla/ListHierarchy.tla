---------------------------- MODULE ListHierarchy ----------------------------
(***************************************************************************)
(* EffectiveHierarchyNormalizer.derive: the two-level forest a device      *)
(* shows, computed from the placements its users requested.  It is a       *)
(* derived view: requested placements are never changed by it.             *)
(*                                                                         *)
(* `parent` maps an item to the parent its placement requests (NoItem for  *)
(* top level), `at` to the stamp of that placement, and `active` is the    *)
(* set of items whose lifecycle is ACTIVE.                                 *)
(***************************************************************************)
EXTENDS ListStamps

NoItem == 0

\* Requests that name an active parent; a missing parent is no candidate.
Candidates(parent, active) == {i \in active : parent[i] \in active}

\* Candidate i is examined before candidate j: the greater placement stamp
\* first, the smaller item id when the stamps tie.
Precedes(at, i, j) ==
    \/ After(at[i], at[j])
    \/ at[i] = at[j] /\ i < j

\* Mutant: an item that has children may become a child.
AcceptableOwner(parent, accepted, c) ==
    /\ parent[c] # c
    /\ parent[c] \notin accepted

\* Candidate c survives next to the already accepted children `accepted`:
\* its parent is no child, and it has no child itself.
Acceptable(parent, accepted, c) ==
    /\ parent[c] # c
    /\ parent[c] \notin accepted
    /\ \A k \in accepted : parent[k] # c

\* The children derive() accepts, examining the candidates one at a time.
AcceptedChildren(parent, at, active) ==
    LET cands == Candidates(parent, active)
        accepted[S \in SUBSET cands] ==
            IF S = {} THEN {}
            ELSE LET last == CHOOSE c \in S : \A o \in S \ {c} : Precedes(at, o, c)
                     before == accepted[S \ {last}]
                 IN  IF Acceptable(parent, before, last)
                     THEN before \union {last}
                     ELSE before
    IN  accepted[cands]

\* The children shown under p, and the rows shown at top level.
ChildrenOf(parent, at, active, p) ==
    {c \in active : parent[c] = p /\ c \in AcceptedChildren(parent, at, active)}

TopLevel(parent, at, active) == active \ AcceptedChildren(parent, at, active)
=============================================================================
