---------------------------- MODULE MCHttpRetry ----------------------------
(* Instances of HttpRetry for TLC: two transient codes, two that are not. *)
EXTENDS HttpRetry

MCCodes == {429, 503, 400, 501}
=============================================================================
