-------------------------- MODULE MCConnectionPool --------------------------
(***************************************************************************)
(* Two workers for TLC: payment p has been retried in the other worker;    *)
(* q, of the same worker as p, is from the same account, and g only reads. *)
(***************************************************************************)
EXTENDS ConnectionPool, TLC

CONSTANTS p, retry, q, g, w1, w2

MC_WorkerOf == [r \in Requests |-> IF r = retry THEN w2 ELSE w1]

MC_KeyOf == p :> "key" @@ retry :> "key" @@ q :> "other key"

MC_AccountOf == [r \in Payers |-> "account"]
=============================================================================
