---------------------------- MODULE MCUsbSession ----------------------------
(***************************************************************************)
(* UsbSession for TLC: the longest payload a frame can have and one more,  *)
(* two ticks, so that a challenge may come back, and two frames a session, *)
(* so that one of an earlier session may be accepted in either place.      *)
(***************************************************************************)
EXTENDS UsbSession
=============================================================================
