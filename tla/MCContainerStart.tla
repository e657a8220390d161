--------------------------- MODULE MCContainerStart ---------------------------
(***************************************************************************)
(* Instances of ContainerStart for TLC.                                    *)
(***************************************************************************)
EXTENDS ContainerStart

CONSTANTS h1, h2
=============================================================================
