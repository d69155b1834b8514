----------------------------- MODULE JobContract -----------------------------
(***************************************************************************)
(* What the queue of automation jobs promises: the result of a job appears   *)
(* once and stays, a job is called done when its result is there or nobody   *)
(* needs it any more, and what is done stays done.  A job that is given up   *)
(* may be taken up again, and its result may still appear.                   *)
(***************************************************************************)
EXTENDS Naturals

CONSTANT Jobs

VARIABLES
    state,             \* open, done or dropped
    result,            \* how often the result was produced
    needed             \* whether anybody still waits for it

contract == <<state, result, needed>>

Init ==
    /\ state = [j \in Jobs |-> "open"]
    /\ result = [j \in Jobs |-> 0]
    /\ needed = [j \in Jobs |-> TRUE]

Produce(j) ==
    /\ result[j] = 0 /\ needed[j]
    /\ result' = [result EXCEPT ![j] = 1]
    /\ UNCHANGED <<state, needed>>

LoseInterest(j) ==
    /\ needed[j]
    /\ needed' = [needed EXCEPT ![j] = FALSE]
    /\ UNCHANGED <<state, result>>

Finish(j) ==
    /\ state[j] = "open" /\ (result[j] = 1 \/ ~needed[j])
    /\ state' = [state EXCEPT ![j] = "done"]
    /\ UNCHANGED <<result, needed>>

GiveUp(j) ==
    /\ state[j] = "open"
    /\ state' = [state EXCEPT ![j] = "dropped"]
    /\ UNCHANGED <<result, needed>>

TakeUp(j) ==
    /\ state[j] = "dropped"
    /\ state' = [state EXCEPT ![j] = "open"]
    /\ UNCHANGED <<result, needed>>

Next ==
    \E j \in Jobs : Produce(j) \/ LoseInterest(j) \/ Finish(j) \/ GiveUp(j) \/ TakeUp(j)

Spec == Init /\ [][Next]_contract
=============================================================================
