---------------------------- MODULE MCInjectors ----------------------------
(* Instances of Injectors for TLC. *)
EXTENDS Injectors, TLC

CONSTANTS t1, t2

MCRequests ==
  t1 :> {[method |-> m, path |-> p, len |-> IF m \in {"read", "write"} THEN n ELSE 0] :
           m \in Known, p \in {"in", "out"}, n \in {0, 3}}
    @@ t2 :> {[method |-> "flush", path |-> "in", len |-> 0]}

AnyPath == [kind |-> "none"]
BadGlob == [kind |-> "invalid"]
Glob(paths) == [kind |-> "glob", matches |-> paths]

Conf(type, methods, path, percent) == [type |-> type, methods |-> methods, path |-> path, percent |-> percent]

Fault(weights, methods, path, percent) == Conf("fault", methods, path, percent) @@ [weights |-> weights]
Mistake(occurrences, length, methods, path, percent) ==
  Conf("mistake", methods, path, percent) @@ [max_occurrences |-> occurrences, max_length |-> length]

MCConfs ==
  {<<>>,
   <<Fault(<<1, 0, 2>>, {"read", "mknod"}, Glob({"in"}), 100), Conf("latency", {}, AnyPath, 50)>>,
   <<Conf("latency", {"no such method"}, AnyPath, 100), Fault(<<3, 3>>, {"write", "no such method"}, BadGlob, 50)>>,
   <<Conf("override", {}, Glob({"in"}), 100), Fault(<<0, 0>>, {}, AnyPath, 100), Conf("latency", {}, AnyPath, 0)>>,
   <<Mistake(2, 1, {"read", "write"}, Glob({"in"}), 100), Mistake(0, 2, {}, AnyPath, 100),
     Mistake(2, 1, {"read", "write"}, Glob({"in"}), 100)>>,
   <<Mistake(1, 9, {}, AnyPath, 50), Fault(<<3, 2>>, {"unlink"}, AnyPath, 100)>>}
=============================================================================
