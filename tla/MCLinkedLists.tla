------------------------------ MODULE MCLinkedLists ----------------------------
(***************************************************************************)
(* Two lists that share elements; two of the elements have the same key.   *)
(***************************************************************************)
EXTENDS LinkedLists, TLC

CONSTANTS L, D, e1, e2, e3, e4, e5

MCElem == {e1, e2, e3, e4, e5}

MCKey == e1 :> 1 @@ e2 :> 2 @@ e3 :> 2 @@ e4 :> 3 @@ e5 :> 4

================================================================================
