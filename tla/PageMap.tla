------------------------------ MODULE PageMap ------------------------------
(***************************************************************************)
(* What the address-space manager of a box promises: a map from pages to   *)
(* mappings that changes by one range at a time.  A mapping at a fixed     *)
(* place replaces what is there; a mapping whose place the manager chooses *)
(* goes to free pages only; an unmapped range is free.                     *)
(***************************************************************************)
EXTENDS Integers

CONSTANTS
  Pages,        \* the pages of the box
  FixedInfos,   \* mappings with a given place
  Any,          \* mappings the manager places
  Free          \* no mapping

VARIABLE map

Ranges == {first .. last : first, last \in Pages} \ {{}}

Init == map = [p \in Pages |-> Free]

Put(range, info) == map' = [p \in Pages |-> IF p \in range THEN info ELSE map[p]]

MapAt == \E range \in Ranges, info \in FixedInfos : Put(range, info)

MapAny == \E range \in Ranges : (\A p \in range : map[p] = Free) /\ Put(range, Any)

Unmap == \E range \in Ranges : Put(range, Free)

\* Putting back what was there is no step.
Next == map' # map /\ (MapAt \/ MapAny \/ Unmap)

Spec == Init /\ [][Next]_map
=============================================================================
