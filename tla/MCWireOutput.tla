---------------------------- MODULE MCWireOutput ----------------------------
(* WireOutput on a tiny address space: every offset, adapter and nesting.  *)
EXTENDS WireOutput
=============================================================================
