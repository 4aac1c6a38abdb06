---------------------------- MODULE MCAudioCache ----------------------------
(***************************************************************************)
(* AudioCache on small instances.  MCAudioCache.cfg: three downloads, two  *)
(* bodies and two cleanup jobs that purge one entry each.                  *)
(* MCAudioCacheFlight.cfg: two downloads, no cleanup.                      *)
(***************************************************************************)
EXTENDS AudioCache, TLC

\* The bodies are interchangeable.
ContentSymmetry == Permutations(Contents)
=============================================================================
