---------------------------- MODULE MCRenderThread ----------------------------
(* Instances of RenderThread for TLC. *)
EXTENDS RenderThread
=============================================================================
