---------------------------- MODULE MCMediaSession ----------------------------
(* The session on its own, over media of two frames. *)
EXTENDS MediaSession
===============================================================================
