---------------------------- MODULE MCAllocator ----------------------------
(***************************************************************************)
(* TLC instances of Allocator: three candidates drawn from records that    *)
(* tell rich from poor, contested from free, capped, current and listed.   *)
(***************************************************************************)
EXTENDS Allocator

Record(signal, others, current, risky, listed) ==
  [signal |-> signal, staked |-> others + current, current |-> current,
   risky |-> risky, listed |-> listed]

Varied ==
  {Record(0, 8, 0, FALSE, "qm"),      \* earns nothing
   Record(1, 8, 0, FALSE, "no"),      \* poor
   Record(1, 8, 0, FALSE, "qm"),
   Record(1, 8, 4, FALSE, "no"),
   Record(4, 0, 0, FALSE, "no"),      \* nobody else is there
   Record(4, 8, 0, TRUE, "no"),
   Record(4, 40, 4, FALSE, "no"),     \* crowded
   Record(9, 8, 6, FALSE, "no"),      \* rich
   Record(9, 8, 0, FALSE, "no"),
   Record(9, 20, 14, FALSE, "no")}    \* rich at first, saturated now

(* Floors off, a gas floor, a higher floor for new allocations. *)
NoFloor == [gas |-> 0, rewards |-> 0]
AllFloors == {NoFloor, [gas |-> 3, rewards |-> 0], [gas |-> 1, rewards |-> 6]}

(* One poor deployment after the other, in free slots. *)
Poor == {Record(s, 400, 0, FALSE, "no") : s \in 2 .. 7}

(* Listed in Qm or in bytes32 form, or not at all. *)
Listed == {Record(1, 40, 0, FALSE, "no"), Record(9, 8, 0, FALSE, "no")}
            \cup {Record(1, 40, 0, FALSE, l) : l \in {"qm", "bytes32"}}

Unfloored == {NoFloor}
Floored == {[gas |-> 2, rewards |-> 9]}
=============================================================================
