---------------------------- MODULE MCRateLimiter ----------------------------
(***************************************************************************)
(* RateLimiter for TLC: more channels than slots, a window longer than the *)
(* allowance, and a clock that wraps within a few windows.                 *)
(***************************************************************************)
EXTENDS RateLimiter
=============================================================================
