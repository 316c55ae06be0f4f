---------------------------- MODULE MCRateLimiter ----------------------------
(***************************************************************************)
(* RateLimiter for TLC: the second has 8 nanoseconds and the source may    *)
(* send 3 packets in it, so that a token takes a number of nanoseconds     *)
(* that is not whole and every remainder of the division occurs.           *)
(***************************************************************************)
EXTENDS RateLimiter
=============================================================================
