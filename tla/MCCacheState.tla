--------------------------- MODULE MCCacheState -----------------------------
(***************************************************************************)
(* A small cache for TLC: two prefixes of one session, two cells, objects  *)
(* of one or two bytes, three ids.                                         *)
(***************************************************************************)
EXTENDS CacheState

MCPrefix == {1, 2}
MCByteSize == {1, 2}
MCTime == {0, 1}
=============================================================================
