---------------------------- MODULE MCSlotRepair ----------------------------
(***************************************************************************)
(* An instance of SlotRepair for TLC: four cells of one bit.               *)
(***************************************************************************)
EXTENDS SlotRepair, FiniteSets

CONSTANT eof

Slot(cs, p, n) == [cells |-> cs, page |-> p, slice |-> n]

Container(ss, c, u) == [slots |-> ss, cms |-> c, unverifiable |-> u]

MCLayouts ==
    { \* two pages, two slots
      Container(<<Slot({3}, {1}, 1), Slot({4}, {2}, 1)>>, {}, FALSE),
      \* one page under two directories
      Container(<<Slot({3}, {1, 2}, 1), Slot({4}, {1, 2}, 1)>>, {}, FALSE),
      \* two slices, the second one signed by a developer
      Container(<<Slot({3}, {1}, 1), Slot({4}, {2}, 2)>>, {2}, FALSE),
      \* a page that holds a later slot
      Container(<<Slot({3}, {1, 4}, 1), Slot({4}, {2}, 1)>>, {}, FALSE),
      \* overlapping slots, and a page that holds one of them
      Container(<<Slot({3}, {1, 4}, 1), Slot({3, 4}, {2}, 1)>>, {}, FALSE),
      \* no directory that could be verified
      Container(<<>>, {}, TRUE),
      Container(<<Slot({3}, {1}, 1)>>, {}, TRUE) }

(* A toy hash: the parity of the page, the two ways around for even and    *)
(* odd cells.                                                              *)
MCSum(s, d) == [c \in s.cells |-> (Cardinality({x \in s.page : d[x] = 1}) + c) % 2]

=============================================================================
