---------------------------- MODULE MCRknpuIommu ----------------------------
(***************************************************************************)
(* An instance of RknpuIommu for TLC.                                      *)
(***************************************************************************)
EXTENDS RknpuIommu

TwoDomains == {0, 1}
OutOfRange == -1
=============================================================================
