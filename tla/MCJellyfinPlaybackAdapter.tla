----------------------- MODULE MCJellyfinPlaybackAdapter -----------------------
(* Two items, two media, one replay and two logins; at most two requests are  *)
(* under way when the user asks for more.                                     *)
EXTENDS JellyfinPlaybackAdapter
================================================================================
