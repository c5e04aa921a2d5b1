------------------------------ MODULE SectorStore ------------------------------
(***************************************************************************)
(* What the buffer cache of a3/fs/cache.c promises to the file system that *)
(* calls it (a3/fs/cache.h): a sector-addressed store in which a read      *)
(* returns the last value written, whatever is cached where.  The medium   *)
(* lags behind the store: a sector reaches it at some later moment, when   *)
(* the cache is closed at the latest, and what never reached it is lost    *)
(* when the process ends.                                                  *)
(***************************************************************************)
EXTENDS Naturals

CONSTANTS
    DeviceSize,     \* number of sectors of the device
    Data,           \* what a sector can hold
    NoData          \* the data of an answer that carries none

VARIABLES
    store,          \* the contents of the sectors, as their users see them
    durable,        \* the contents of the medium
    ret             \* the answer to the last completed call

vars == <<store, durable, ret>>

Sector == 0 .. DeviceSize - 1

Answer(op, s, d) == [op |-> op, sector |-> s, data |-> d]

NoAnswer == Answer("none", 0, NoData)

Init == /\ store \in [Sector -> Data]
        /\ durable = store
        /\ ret = NoAnswer

Read(s) == /\ ret' = Answer("read", s, store[s])
           /\ UNCHANGED <<store, durable>>

Write(s, d) == /\ store' = [store EXCEPT ![s] = d]
               /\ ret' = Answer("write", s, d)
               /\ UNCHANGED durable

\* The store copies one sector to the medium, at a moment of its own choosing.
WriteBack(s) == /\ durable' = [durable EXCEPT ![s] = store[s]]
                /\ UNCHANGED <<store, ret>>

\* Closing answers only once nothing is left to write back.
Close == /\ durable = store
         /\ ret' = Answer("close", 0, NoData)
         /\ UNCHANGED <<store, durable>>

\* Recovery looks at the medium itself, which may be older than the store.
Recover(s) == /\ ret' = Answer("recover", s, durable[s])
              /\ UNCHANGED <<store, durable>>

\* The process ends, in whatever way, and a new one mounts the device.
Restart == /\ store' = durable
           /\ ret' = NoAnswer
           /\ UNCHANGED durable

Next == \/ \E s \in Sector : Read(s) \/ WriteBack(s) \/ Recover(s)
        \/ \E s \in Sector, d \in Data : Write(s, d)
        \/ Close
        \/ Restart

Spec == Init /\ [][Next]_vars

================================================================================
