------------------------------- MODULE MCBus -------------------------------
(* Two addresses of code are enough to tell a fetch of the old address from *)
(* one of the new.                                                          *)
EXTENDS Bus
=============================================================================
