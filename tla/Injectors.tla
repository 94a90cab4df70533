----------------------------- MODULE Injectors -----------------------------
(***************************************************************************)
(* What the injectors (src/src/injector/) do to a request on its way       *)
(* through a handler of HookFs (src/src/hookfs/mod.rs), while the switch   *)
(* enable_injection is turned on and off and the RPC method update         *)
(* (src/src/jsonrpc.rs) replaces the list of injectors.                    *)
(*                                                                         *)
(* A handler is the sequence of the points at which the list is asked, and *)
(* of "work", where it does to the backing file system what it was asked.  *)
(* A task holds the injector's read guard from the beginning to the end of *)
(* a point, across the latencies that pass in it.                          *)
(***************************************************************************)
EXTENDS Integers, Sequences, FiniteSets

CONSTANTS
  Task,       \* bound: the requests of a behaviour
  Requests,   \* what each task may be asked for: records of a method, a path and the length of the data
  Confs,      \* the lists of InjectorConfig that are given to build
  Width,      \* bits of an i32
  MaxUpdates  \* bound: calls of update

(* The names Method::try_from knows, of those that occur here. *)
Known == {"getattr", "mknod", "unlink", "open", "read", "write", "flush", "release"}

(* InjectorConfig *)
IsConf(c) ==
  /\ c.type \in {"fault", "latency", "override", "mistake"} /\ c.percent \in Int
  /\ c.type = "fault" => c.weights \in Seq(Int)
  /\ c.type = "override" => c.methods = {}
  /\ c.type = "mistake" => c.max_occurrences \in Nat /\ c.max_length \in Nat

(* That the power of two is positive follows; the provers do not compute powers. *)
ASSUME InjectorsAssumption ==
  /\ MaxUpdates \in Nat /\ Width \in Nat \ {0} /\ 2 ^ (Width - 1) \in Nat \ {0}
  /\ \A list \in Confs : DOMAIN list = 1..Len(list) /\ Len(list) \in Nat /\ \A i \in DOMAIN list : IsConf(list[i])
  /\ \A t \in Task : \A r \in Requests[t] : r.method \in Known /\ r.len \in Nat

VARIABLES
  injectors,   \* the MultiInjector in use
  switch,      \* enable_injection: "before", "on", "after"
  req,         \* what each task does, and what was done to its request
  updates      \* calls of update so far

vars == <<injectors, switch, req, updates>>

-----------------------------------------------------------------------------
(* Filter *)

(* Faulty variant: a list without a known name is an empty list. *)
FilterMethodsLax(names) == IF names \cap Known = {} THEN Known ELSE names \cap Known

(* Filter::build: names that are not known are dropped, an empty or absent list means all. *)
FilterMethods(names) == IF names = {} THEN Known ELSE names \cap Known

(* An empty or absent path, or one that is not a pattern, matches every path. *)
FilterPath(path, p) == path.kind = "glob" => p \in path.matches

(* Filter::filter: the answers it may give; percent is compared with a number drawn from [0, 100). *)
Filter(c, method, p) ==
  IF FilterPath(c.path, p) /\ method \in FilterMethods(c.methods)
  THEN (IF c.percent < 100 THEN {FALSE} ELSE {}) \cup (IF c.percent > 0 THEN {TRUE} ELSE {})
  ELSE {FALSE}

-----------------------------------------------------------------------------
(* FaultInjector: weights are i32, and a release build wraps around. *)

Limit == 2 ^ (Width - 1)

Wrap(n) == ((n + Limit) % (2 * Limit)) - Limit

(* The sums of the first n weights. *)
Sums(weights) ==
  LET S[n \in 0..Len(weights)] == IF n = 0 THEN 0 ELSE S[n - 1] + weights[n]
  IN S

Sum(weights) == Sums(weights)[Len(weights)]

Least(S) == CHOOSE n \in S : \A m \in S : n <= m

(* build *)
WeightSum(weights) == Wrap(Sum(weights))

(* (rand * sum) as i32, which rounds towards zero *)
Attempts(weights) ==
  LET sum == WeightSum(weights) IN IF sum > 0 THEN 0..(sum - 1) ELSE (IF sum = 0 THEN 0 ELSE sum + 1)..0

(* Faulty variant: the weight counts only when the attempt is positive. *)
PickLate(weights, attempt) ==
  LET Hit == {j \in DOMAIN weights : Wrap(attempt - Sums(weights)[j]) <= 0}
  IN IF Hit = {} THEN 0 ELSE Least(Hit)

(* The loop of inject: which error is returned, 0 for none. *)
Pick(weights, attempt) ==
  LET Hit == {j \in DOMAIN weights : Wrap(attempt - Sums(weights)[j]) < 0}
  IN IF Hit = {} THEN 0 ELSE Least(Hit)

-----------------------------------------------------------------------------
(* MistakeInjector: which bytes handle may overwrite, as sets of their positions. *)

Smaller(m, n) == IF m < n THEN m ELSE n

(* Faulty variant: what is left of the data is not looked at. *)
StretchesLong(c, len) ==
  {pos..(pos + n - 1) : pos \in 0..(IF len = 0 THEN 0 ELSE len - 1),
                        n \in IF c.max_length = 0 THEN {0} ELSE 1..c.max_length}

(* One occurrence: a position, and a length that is 0 only when it must be. *)
Stretches(c, len) ==
  UNION {LET l == Smaller(c.max_length, len - pos)
         IN {pos..(pos + n - 1) : n \in IF l = 0 THEN {0} ELSE 1..l}
         : pos \in 0..(IF len = 0 THEN 0 ELSE len - 1)}

(* Faulty variant: one occurrence too many. *)
HandleOften(c, len) ==
  {UNION S : S \in {R \in SUBSET Stretches(c, len) : Cardinality(R) \in 1..(c.max_occurrences + 1)}}

(* handle: at least one occurrence, unless none is allowed. *)
Handle(c, len) ==
  IF c.max_occurrences = 0
  THEN {{}}
  ELSE {UNION S : S \in {R \in SUBSET Stretches(c, len) : Cardinality(R) \in 1..c.max_occurrences}}

-----------------------------------------------------------------------------
(* HookFs: the points of a handler. *)

(* Faulty variant: mknod asks for the second time when the node has been made. *)
MknodPointsLate == <<"inject", "work", "inject", "attr", "reply">>

(* mknod asks twice: by inject_with_parent_and_name!, and under inode_map's guard. *)
MknodPoints == <<"inject", "inject", "work", "attr", "reply">>

(* getattr is like lookup, setattr, mkdir, symlink, link and create; unlink like rmdir; open like     *)
(* opendir, statfs, getxattr and listxattr; read like readlink; flush like fsync, access and readdir; *)
(* release like releasedir, forget and fsyncdir.                                                      *)
Points(method) ==
  CASE method = "getattr" -> <<"inject", "work", "attr", "reply">>
    [] method = "mknod"   -> MknodPoints
    [] method = "unlink"  -> <<"inject", "attr", "work">>
    [] method = "open"    -> <<"inject", "work", "reply">>
    [] method = "read"    -> <<"inject", "work", "reply">>
    [] method = "write"   -> <<"inject", "data", "work", "reply">>
    [] method = "flush"   -> <<"inject", "work">>
    [] method = "release" -> <<"work">>

NoRequest == [pc |-> "idle"]

Active(t) == req[t].pc \in {"next", "guard"}

Point(t) == Head(req[t].todo)

(* A request arrives; acted and asked are history: the injectors, with     *)
(* their places in the list, that did something to it, and those that were *)
(* to.                                                                     *)
Arrive(t) ==
  /\ req[t] = NoRequest
  /\ \E r \in Requests[t] :
       req' = [req EXCEPT ![t] =
         [pc |-> "next", todo |-> Points(r.method), turn |-> 1, method |-> r.method, path |-> r.path, len |-> r.len,
          fault |-> 0, delayed |-> FALSE, overridden |-> FALSE, damaged |-> {}, worked |-> FALSE,
          acted |-> {}, asked |-> {}, under |-> <<>>, lit |-> switch = "on"]]
  /\ UNCHANGED <<injectors, switch, updates>>

Finish(r) == [r EXCEPT !.pc = "done", !.todo = <<>>, !.turn = 1, !.under = <<>>]

Advance(r) == IF Len(r.todo) = 1 THEN Finish(r) ELSE [Finish(r) EXCEPT !.pc = "next", !.todo = Tail(r.todo)]

(* The system calls; one that fails ends the request. *)
Work(t) ==
  /\ req[t].pc = "next" /\ Point(t) = "work"
  /\ \/ req' = [req EXCEPT ![t] = Advance([@ EXCEPT !.worked = TRUE])]
     \/ req' = [req EXCEPT ![t] = Finish(@)]
  /\ UNCHANGED <<injectors, switch, updates>>

(* Faulty variant: inject_attr! and inject_reply! do not ask for the switch either. *)
EntersLax(t) == Point(t) # "inject" \/ switch = "on"

(* inject!, inject_attr! and inject_reply! read enable_injection, inject_write_data! does not. *)
Enters(t) == Point(t) = "data" \/ switch = "on"

(* injector.read().await *)
EnterPoint(t) ==
  /\ req[t].pc = "next" /\ Point(t) # "work"
  /\ req' = [req EXCEPT ![t] = IF Enters(t) THEN [@ EXCEPT !.pc = "guard", !.under = injectors] ELSE Advance(@)]
  /\ UNCHANGED <<injectors, switch, updates>>

(* Whether an injector does anything at a point (Injector's default methods do not). *)
Concerned(c, t) ==
  \/ c.type \in {"fault", "latency"} /\ Point(t) = "inject"
  \/ c.type = "override" /\ Point(t) = "attr"
  \/ c.type = "mistake" /\ (Point(t) = "data" \/ (Point(t) = "reply" /\ req[t].method = "read"))

(* AttrOverrideInjector passes LOOKUP to a filter without methods, so any method will do. *)
Passes(c, t) == Filter(c, req[t].method, req[t].path)

(* What an injector makes of a request that passes its filter. *)
InjectFault(c, r) == {[r EXCEPT !.fault = Pick(c.weights, a)] : a \in Attempts(c.weights)}

InjectLatency(c, r) == {[r EXCEPT !.delayed = TRUE]}

InjectAttr(c, r) == {[r EXCEPT !.overridden = TRUE]}

InjectMistake(c, r) == {[r EXCEPT !.damaged = @ \cup D] : D \in Handle(c, r.len)}

Injected(c, r) ==
  CASE c.type = "fault"    -> InjectFault(c, r)
    [] c.type = "latency"  -> InjectLatency(c, r)
    [] c.type = "override" -> InjectAttr(c, r)
    [] c.type = "mistake"  -> InjectMistake(c, r)

(* MultiInjector: the injectors in their order; a fault ends the request and drops the guard. *)
NextInjector(t) ==
  /\ req[t].pc = "guard" /\ req[t].turn <= Len(injectors)
  /\ LET c == injectors[req[t].turn]
         i == [at |-> req[t].turn, conf |-> c]
         r == [req[t] EXCEPT !.turn = @ + 1]
         s == [r EXCEPT !.asked = @ \cup {i}]
     IN IF ~Concerned(c, t)
        THEN req' = [req EXCEPT ![t] = r]
        ELSE \/ FALSE \in Passes(c, t) /\ req' = [req EXCEPT ![t] = s]
             \/ /\ TRUE \in Passes(c, t)
                /\ \E u \in Injected(c, [s EXCEPT !.acted = @ \cup {i}]) :
                     req' = [req EXCEPT ![t] = IF u.fault # 0 THEN Finish(u) ELSE u]
  /\ UNCHANGED <<injectors, switch, updates>>

(* The guard is dropped. *)
LeavePoint(t) ==
  /\ req[t].pc = "guard" /\ req[t].turn > Len(injectors)
  /\ req' = [req EXCEPT ![t] = Advance(@)]
  /\ UNCHANGED <<injectors, switch, updates>>

-----------------------------------------------------------------------------
(* main.rs and jsonrpc.rs *)

Enable ==
  /\ switch = "before" /\ switch' = "on"
  /\ req' = [t \in Task |-> IF Active(t) THEN [req[t] EXCEPT !.lit = TRUE] ELSE req[t]]
  /\ UNCHANGED <<injectors, updates>>

Disable == switch = "on" /\ switch' = "after" /\ UNCHANGED <<injectors, req, updates>>

(* Faulty variant: the list is replaced without the lock. *)
UpdateUnlocked ==
  /\ updates < MaxUpdates /\ updates' = updates + 1
  /\ injectors' \in Confs
  /\ UNCHANGED <<switch, req>>

(* update: MultiInjector::build, then injector.write().await *)
Update ==
  /\ updates < MaxUpdates /\ updates' = updates + 1
  /\ \A t \in Task : req[t].pc # "guard"
  /\ injectors' \in Confs
  /\ UNCHANGED <<switch, req>>

Init ==
  /\ injectors \in Confs
  /\ switch = "before"
  /\ req = [t \in Task |-> NoRequest]
  /\ updates = 0

Step(t) == Arrive(t) \/ Work(t) \/ EnterPoint(t) \/ NextInjector(t) \/ LeavePoint(t)

Next == (\E t \in Task : Step(t)) \/ Enable \/ Disable \/ Update

Spec == Init /\ [][Next]_vars

-----------------------------------------------------------------------------
(* Properties *)

Seen(t) == req[t].pc # "idle"

(* Types; handle overwrites bytes that exist (anything else is a panic),   *)
(* and an error is one of the list.                                        *)
TypeOK ==
  /\ injectors \in Confs
  /\ switch \in {"before", "on", "after"}
  /\ updates \in 0..MaxUpdates
  /\ \A t \in Task : Seen(t) =>
       /\ req[t].pc \in {"next", "guard", "done"}
       /\ req[t].turn \in 1..(Len(req[t].under) + 1)
       /\ req[t].damaged \subseteq 0..(req[t].len - 1)
       /\ req[t].fault # 0 => \E i \in req[t].acted : i.conf.type = "fault" /\ req[t].fault \in DOMAIN i.conf.weights

(* While a request waits in a latency or goes through the injectors of one *)
(* point, update does not put another list under it.                       *)
OneList == \A t \in Task : req[t].pc = "guard" => injectors = req[t].under

(* While the switch is off nothing is injected into a request, however     *)
(* many updates come: no fault, no latency, no attribute, and no mistake   *)
(* in what is read.  Data to be written is the exception.                  *)
OffQuiet ==
  \A t \in Task : Seen(t) /\ ~req[t].lit =>
    /\ req[t].fault = 0 /\ ~req[t].delayed /\ ~req[t].overridden
    /\ req[t].damaged # {} => req[t].method = "write"

(* An injected error means that the file system was not touched. *)
FaultFirst == \A t \in Task : Seen(t) /\ req[t].fault # 0 => ~req[t].worked

AsksFor(c, r) ==
  /\ c.methods = {} \/ r.method \in c.methods
  /\ c.path.kind = "glob" => r.path \in c.path.matches

(* Injectors act on what their configuration asks for: never on another    *)
(* method, another path or with percent 0, always with percent 100.        *)
ActsAsAsked ==
  \A t \in Task : Seen(t) =>
    /\ \A i \in req[t].acted : AsksFor(i.conf, req[t]) /\ i.conf.percent > 0
    /\ \A i \in req[t].asked : AsksFor(i.conf, req[t]) /\ i.conf.percent >= 100 => i \in req[t].acted

(* As long as the sum of the weights is an i32 and none is negative, an    *)
(* error is returned for as many of the attempts as its weight says.       *)
WeightsExact ==
  \A i \in DOMAIN injectors :
    LET c == injectors[i]
    IN c.type = "fault" /\ (\A j \in DOMAIN c.weights : c.weights[j] >= 0) /\ Sum(c.weights) < Limit =>
         \A j \in DOMAIN c.weights :
           Cardinality({a \in Attempts(c.weights) : Pick(c.weights, a) = j}) = c.weights[j]

Mistakes(acted) == {i \in acted : i.conf.type = "mistake"}

(* Max_length bytes for each of max_occurrences of each injector that acted. *)
Allowance(r) ==
  Cardinality(UNION {{i} \X ((1..i.conf.max_occurrences) \X (1..i.conf.max_length)) : i \in Mistakes(r.acted)})

(* Mistakes overwrite no more bytes than their occurrences and lengths     *)
(* allow, and at least one when they act on data there is.                 *)
MistakeConfined ==
  \A t \in Task : Seen(t) =>
    /\ Cardinality(req[t].damaged) <= Allowance(req[t])
    /\ req[t].len > 0 /\ Allowance(req[t]) > 0 => req[t].damaged # {}
=============================================================================
