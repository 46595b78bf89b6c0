--------------------------- MODULE MCMediaPipeline ---------------------------
(* The pipeline on a small instance; the .cfg files set the bounds.          *)
EXTENDS MediaPipeline
===============================================================================
