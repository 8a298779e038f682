---------------------------- MODULE MCBufferPool ----------------------------
(* A small instance of BufferPool for TLC: MCBufferPool.cfg gives the        *)
(* constants, as model values.  No symmetry: the run checks liveness.        *)
EXTENDS BufferPool
=============================================================================
