------------------------------- MODULE MCTasks -------------------------------
(* A new task's regions: zero, as the heap is at boot, or what a block of  *)
(* the heap held before; a length can be that of a file's buffer, and the  *)
(* pages can be those of the task itself.                                  *)
EXTENDS Tasks

MCZeroed == {NoRegion}
MCReused == {NoRegion, [start |-> 1, len |-> PageSize], [start |-> 3, len |-> 1]}
=============================================================================
