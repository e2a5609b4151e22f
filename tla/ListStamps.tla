----------------------------- MODULE ListStamps -----------------------------
(***************************************************************************)
(* VersionStamp of the shared Lists contract: a Lamport clock value and    *)
(* the identity of the actor that drew it, ordered by clock, then by actor *)
(* (ListSyncModels.kt).  Actor identities are UUID strings; all the code   *)
(* ever does with one is to compare it, so an actor is a natural number    *)
(* here and 0 stands for the empty string of a field nobody has written.   *)
(***************************************************************************)
EXTENDS Naturals

Stamp == [clock : Nat, actor : Nat]

\* The stamp of a field that no change has set yet: VersionStamp(0, "").
Zero == [clock |-> 0, actor |-> 0]

\* s > t in the order of VersionStamp.compareTo.
After(s, t) ==
    \/ s.clock > t.clock
    \/ s.clock = t.clock /\ s.actor > t.actor

\* Mutant: the observed clock is ignored.
ObservedNothing(own, seen) == own + 1

\* The clock of an actor that has just observed another clock value.
Observed(own, seen) == (IF own >= seen THEN own ELSE seen) + 1
=============================================================================
