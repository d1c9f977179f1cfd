-------------------------- MODULE MCExchangeClient --------------------------
(* A small instance of ExchangeClient.                                     *)
EXTENDS ExchangeClient, TLC

\* A negative nonce, one that times of the model reach too, the last one that
\* fits and the first that does not.
MCExplicitNonces == {-1, 2, NonceLimit - 1, NonceLimit}
TaskSymmetry == Permutations(Tasks)
=============================================================================
