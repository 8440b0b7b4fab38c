---------------------------- MODULE MCRateLimiter ----------------------------
(* Small limits, and token counts, on which TLC checks RateLimiter. *)
EXTENDS RateLimiter

MCLimits == [region |-> 2, global |-> 1]
=============================================================================
