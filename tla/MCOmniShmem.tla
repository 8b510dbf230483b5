---------------------------- MODULE MCOmniShmem ----------------------------
(***************************************************************************)
(* Small instances of OmniShmem for TLC.                                    *)
(***************************************************************************)
EXTENDS OmniShmem, TLC

Symmetry == Permutations(Backends) \cup Permutations(Names)
              \cup Permutations(Blocks) \cup Permutations(RefIds)
============================================================================
