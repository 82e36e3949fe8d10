---------------------------- MODULE MCHttpClient ----------------------------
(* Instances of HttpClient: no retry, though a negative number was asked   *)
(* for, and one; goroutines are alike.                                     *)
EXTENDS HttpClient

MCRetryArgs == {-1, 1}
Symmetry    == Permutations(Client)
=============================================================================
