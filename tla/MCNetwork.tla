------------------------------ MODULE MCNetwork ------------------------------
(* Connection blocks are interchangeable, and fewer than the slots of both  *)
(* servers, so that each is taken by either.                                *)
EXTENDS Network, TLC

Interchangeable == Permutations(Pcbs)

\* The CLI gets the characters typed and nothing of the negotiation, wherever the
\* stream is cut into segments: no option or subnegotiation byte becomes a key
\* ("true if byte is normal data to pass to keyIn()", telnet_server.c:122), and
\* no later character is taken for part of a command that is over.
KeysAreData == Tel!OnlyTyped

ASSUME KeysAreData
=============================================================================
