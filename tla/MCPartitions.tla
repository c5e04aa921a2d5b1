------------------------------ MODULE MCPartitions -----------------------------
(***************************************************************************)
(* Every partition table of two entries, and of three with fewer numbers,  *)
(* for the sector numbers around the image and some whose sums wrap.       *)
(***************************************************************************)
EXTENDS Partitions

Entries(offsets, sizes) ==
    {[type |-> "primary", offset |-> 0, size |-> 0]}
    \cup [type : {"extended"}, offset : offsets, size : {1}]
    \cup [type : {"primary"}, offset : offsets, size : sizes]

MCTables == [1 .. 2 -> Entries(0 .. 7 \cup {11, 15}, 1 .. 6 \cup {8, 12, 15})]
            \cup [1 .. 3 -> Entries({0, 1, 3, 5, 13}, {1, 2, 3, 5})]

================================================================================
