------------------------------- MODULE MCHeap -------------------------------
(* Constants of Heap for TLC: 4-byte pages, growth steps of one and two pages. *)
EXTENDS Heap

Region(b, l, u) == [base |-> b, length |-> l, usable |-> u]

\* Ample memory; a hole that splits it; almost none.
MCMemoryMaps ==
  { {Region(0, 24, TRUE)},
    {Region(0, 8, TRUE), Region(8, 4, FALSE), Region(12, 12, TRUE)},
    {Region(0, 4, TRUE)} }

MCIdentityLimits == {20, U64_MAX}
=============================================================================
