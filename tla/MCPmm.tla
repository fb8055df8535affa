------------------------------- MODULE MCPmm -------------------------------
(* Constants of Pmm for TLC. *)
EXTENDS Pmm

Region(b, l, u) == [base |-> b, length |-> l, usable |-> u]

\* A map with a hole, one whose usable regions are not page aligned, one larger
\* than the bitmap, and one whose only usable page is page 0.
MCMemoryMaps ==
  { {Region(0, 6, TRUE), Region(6, 2, FALSE), Region(8, 4, TRUE)},
    {Region(0, 3, FALSE), Region(3, 6, TRUE)},
    {Region(0, 20, TRUE)},
    {Region(0, 2, TRUE)} }

MCLimits == {0, 4, 6, 12, U64_MAX}
MCBases == {0, 2, 3, 4, 6, 8, 10, 12}
MCLengths == {0, 3}
=============================================================================
