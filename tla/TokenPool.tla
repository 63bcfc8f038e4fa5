----------------------------- MODULE TokenPool -----------------------------
(***************************************************************************)
(* What fastipc.Semaphore promises its callers: a pool of tokens in which  *)
(* every call has at most one effect, at one instant between the call and  *)
(* its result.  A post() adds all its tokens or, if they do not fit, none; *)
(* a wait() that returns True has taken one token; one that returns False  *)
(* has taken none and was allowed to give up.                              *)
(***************************************************************************)
EXTENDS Integers

CONSTANTS
    Threads,    \* the callers
    Initial,    \* tokens at first
    Max,        \* the most tokens the pool can hold
    Args        \* what post() may be asked to add

VARIABLES
    value,      \* tokens in the pool
    op,         \* the call each thread made last
    add,        \* the argument of post()
    res         \* its result, "pending" until it has one

vars == <<value, op, add, res>>

Init ==
    /\ value = Initial
    /\ op = [t \in Threads |-> "none"]
    /\ add = [t \in Threads |-> 0]
    /\ res = [t \in Threads |-> "None"]

Call(t) ==
    /\ res[t] # "pending"
    /\ \E o \in {"post", "block", "timed", "poll"} : op' = [op EXCEPT ![t] = o]
    /\ \E n \in Args : add' = [add EXCEPT ![t] = n]
    /\ res' = [res EXCEPT ![t] = "pending"]
    /\ UNCHANGED value

Result(t, r) ==
    /\ res[t] = "pending"
    /\ res' = [res EXCEPT ![t] = r]
    /\ UNCHANGED <<op, add>>

Post(t) ==
    /\ op[t] = "post"
    /\ value + add[t] <= Max
    /\ value' = value + add[t]
    /\ Result(t, "None")

Overflow(t) ==
    /\ op[t] = "post"
    /\ value + add[t] > Max
    /\ Result(t, "OverflowError")
    /\ UNCHANGED value

Take(t) ==
    /\ op[t] \in {"block", "timed", "poll"}
    /\ value > 0
    /\ value' = value - 1
    /\ Result(t, "True")

GiveUp(t) ==
    /\ op[t] \in {"timed", "poll"}
    /\ Result(t, "False")
    /\ UNCHANGED value

Next ==
    \E t \in Threads :
        Call(t) \/ Post(t) \/ Overflow(t) \/ Take(t) \/ GiveUp(t)

Spec == Init /\ [][Next]_vars
=============================================================================
