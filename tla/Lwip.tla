-------------------------------- MODULE Lwip ---------------------------------
(***************************************************************************)
(* lwIP as the servers of src/Robot/net use it: connection blocks (pcbs)   *)
(* whose callbacks carry a server's slot as their argument. A pcb that is  *)
(* closed can be the next connection's at once.                            *)
(***************************************************************************)
EXTENDS Integers, FiniteSets, FiniteSetsExt

CONSTANTS Pcbs, NULL

ASSUME NullAssumption == NULL \notin Pcbs

VARIABLE
  owner     \* per pcb: the slot its callbacks get, as <<server, slot>>

Nobody == <<"none", 0>>

LwipInit == owner = [p \in Pcbs |-> Nobody]

IsFree(p) == owner[p] = Nobody

\* tcp_close() and a reset free the blocks, in state w of a server's record.
Released(w, ps) == [w EXCEPT !.owner = [p \in Pcbs |-> IF p \in ps THEN Nobody ELSE w.owner[p]]]
=============================================================================
