--------------------------- MODULE MCRateLimiter ----------------------------
(* Small instances of RateLimiter: two connections share a bucket.         *)
EXTENDS RateLimiter

=============================================================================
