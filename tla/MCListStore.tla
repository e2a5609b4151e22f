---------------------------- MODULE MCListStore ----------------------------
(* Instances of ListStore for TLC. *)
EXTENDS ListStore

\* Every user operation, those that leave lifecycles alone, and those of one
\* hierarchy.
AllOperations == Operation \union {"ELSEWHERE"}
ContentOperations == AllOperations \ {"DELETE_ITEM", "RESTORE_ITEM"}
HierarchyOperations == {"CREATE_ITEM", "SET_ITEM_CHECKED", "SET_ITEM_PLACEMENT", "DELETE_ITEM"}
=============================================================================
