--------------------------- MODULE MCDiskBackend ---------------------------
(***************************************************************************)
(* Small instances of DiskBackend.                                          *)
(***************************************************************************)
EXTENDS DiskBackend, TLC

MCSymmetry == Permutations(Clients) \cup Permutations(Datas) \cup Permutations(Metas)
=============================================================================
