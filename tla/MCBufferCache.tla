----------------------------- MODULE MCBufferCache -----------------------------
(***************************************************************************)
(* The instance of BufferCache that TLC checks: more sectors than slots,   *)
(* so that every slot is evicted dirty and clean, and two slots, so that   *)
(* the hand passes over one to the other and around to the first.          *)
(***************************************************************************)
EXTENDS BufferCache

CONSTANTS d0, d1, none

MCData == {d0, d1}

================================================================================
