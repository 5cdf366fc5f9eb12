----------------------------- MODULE MCApiClient -------------------------------
(* Three jobs over a small bucket.  The configuration gives the constants. *)
EXTENDS ApiClient
=============================================================================
