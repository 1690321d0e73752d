------------------------- MODULE MCResourceManager -------------------------
(* An instance of ResourceManager for TLC.                                 *)
EXTENDS ResourceManager
=============================================================================
