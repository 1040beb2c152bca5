----------------------------- MODULE WriteBackMap -----------------------------
(* What a write-back copy of a durable table promises, whatever its batching.

   One process at a time holds a working copy (`mem`) of a durable map (`disk`).
   It edits the working copy entry by entry; the durable map may lag behind it,
   but whenever the durable map changes it becomes the WHOLE working copy: never
   a mixture of old and new rows, never a row the process did not write.  When
   the process ends, for whatever reason, only the durable map remains.

   StateStore implements this twice, once per table it owns (see
   StateStore!StateMap and StateStore!IdentityMap).                           *)

CONSTANTS Keys,        \* the keys of the map
          Rows,        \* the rows a key may hold; every row has a field `target`
          Absent,      \* the value of a key that has no row
          Blank        \* a row's target when it names no target object

VARIABLES up,          \* a process holds a working copy
          mem,         \* its working copy
          disk         \* the durable map

vars == <<up, mem, disk>>

Empty == [k \in Keys |-> Absent]

(* Once a row names a target object, a rewrite of the row still names one: a
   blanked id would make the next run create the object a second time.        *)
KeepsTarget(old, new) ==
    old # Absent => (old.target # Blank => new.target # Blank)

Init == /\ up = FALSE
        /\ mem = Empty
        /\ disk = Empty

Open == /\ ~up
        /\ up' = TRUE
        /\ mem' = disk
        /\ UNCHANGED disk

(* The write may or may not carry the whole working copy to the durable map.  *)
Write == /\ up
         /\ \E k \in Keys, r \in Rows :
               /\ KeepsTarget(mem[k], r)
               /\ mem' = [mem EXCEPT ![k] = r]
         /\ disk' \in {disk, mem'}
         /\ UNCHANGED up

Sync == /\ up
        /\ disk' = mem
        /\ UNCHANGED <<up, mem>>

Close == /\ up
         /\ up' = FALSE
         /\ mem' = Empty
         /\ UNCHANGED disk

Next == Open \/ Write \/ Sync \/ Close

Spec == Init /\ [][Next]_vars
===============================================================================
