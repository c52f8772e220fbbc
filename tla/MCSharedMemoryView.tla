------------------------- MODULE MCSharedMemoryView -------------------------
(* Model values for SharedMemoryView: see the bounds in README.md.         *)
EXTENDS SharedMemoryView
=============================================================================
