--------------------------- MODULE MCArtifactCache ---------------------------
(***************************************************************************)
(* ArtifactCache with two processes and two releases.                      *)
(***************************************************************************)
EXTENDS ArtifactCache
=============================================================================
