----------------------------- MODULE MCAppImage -----------------------------
(* Applications for TLC: pages of two cells, a header of one cell, words of *)
(* 32 values.                                                              *)
EXTENDS AppImage

Sizes == 0 .. 7

\* Files that are as large as their header says, larger or smaller; then sizes
\* up to the largest a word holds.
AnyApps ==
    [magic : BOOLEAN, size : {1, 4, 8, 15}, code : Sizes, data : Sizes, bss : {0, 1, 3, 5},
     entry : {7, 8, 9, 14}]
    \cup [magic : {TRUE}, size : {1, 8, 31}, code : {1, 2, 31}, data : {1, 2, 31},
          bss : {0, 1, 3, 6, 30, 31}, entry : {8}]

\* All pages free, and what earlier applications may leave.
SomeFree ==
    {[code |-> {0, 1, 2}, data |-> {0, 1, 2, 3}], [code |-> {1, 2}, data |-> {0, 2, 3}],
     [code |-> {2}, data |-> {}], [code |-> {0, 2}, data |-> {1, 2, 3}]}
=============================================================================
