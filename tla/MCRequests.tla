----------------------------- MODULE MCRequests -----------------------------
(* Instances of Requests for TLC. *)
EXTENDS Requests, TLC

CONSTANTS t1, t2, t3

(* Every handler, among writers of each lock and latencies under a guard. *)
MCKinds ==
  t1 :> DOMAIN Program @@ t2 :> {"mknod", "open"} @@ t3 :> {"release", "update"}
=============================================================================
