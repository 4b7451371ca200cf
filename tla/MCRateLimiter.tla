---------------------------- MODULE MCRateLimiter ----------------------------
(* Two units of tokens, and one request or none: a prompt can cost more than *)
(* a bucket holds, and three requests can sleep at one bucket.              *)
EXTENDS RateLimiter

MCLimits == {[b \in Buckets |-> IF b = "tpm" THEN 2 ELSE rpm] : rpm \in {0, 1}}
=============================================================================
