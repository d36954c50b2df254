---------------------------- MODULE MCFirstStage ----------------------------
(* Images for TLC, with pages of two cells and memories of 8 pages: what the *)
(* linker script makes has at most a page of vdso, the file may have more,   *)
(* end early, or go on behind what the header speaks of.                     *)
EXTENDS FirstStage

AnyImage == [code : {-64, -41, -40, -1, 0, 1, 2, 6, 7, 8}, data : {-9, -1, 0, 1, 6, 7, 9},
             vdso : {-1, 0, 1, 2, 3, 7, 8}, entry : {39, 40, 45, 90}, file : {1, 9, 10, 18, 23},
             initrd : {1, 6, 8, 14, 15}, magic : BOOLEAN, aligned : BOOLEAN]
=============================================================================
