-------------------------- MODULE MCHttpTransport --------------------------
(* A small instance of HttpTransport.                                      *)
EXTENDS HttpTransport, TLC

TaskSymmetry == Permutations(Tasks)
=============================================================================
