------------------------------ MODULE MCMemory ------------------------------
(* The memory tests of MemoryTests for TLC.                                *)
EXTENDS MemoryTests

(* The test pages the tests name.                                          *)
UsedPages == {0, 4, 5, 6, 15, 18, 20, 24, 25, 29, 33, 43, 49, 50} \cup (75 .. 81) \cup {83, 85}
             \cup {89, 90, 93, 94, 95, 96, 100, 101, 109, 110, 250}
=============================================================================
