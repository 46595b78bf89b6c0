---------------------------- MODULE MCAudioOutput ----------------------------
(* Two generations of up to four frames over a ring of three.                *)
EXTENDS AudioOutput
===============================================================================
