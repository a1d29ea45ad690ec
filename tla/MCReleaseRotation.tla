-------------------------- MODULE MCReleaseRotation --------------------------
(* Names for the instance of module ReleaseRotation that TLC checks.        *)
EXTENDS ReleaseRotation
CONSTANTS sd, sp, s1, a1, f1, f2
=============================================================================
