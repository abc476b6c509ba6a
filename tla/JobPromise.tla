----------------------------- MODULE JobPromise -----------------------------
(***************************************************************************)
(* What a submitted job promises its owner, with the pool left out         *)
(* (crates/alacritree_common/src/jobs.rs, Job and ProgressReader): a job   *)
(* ends once, in one way; the owner learns a value only of a job that      *)
(* returned and a failure only of a job that panicked, each at most once   *)
(* and only while it keeps the handle; giving the handle up ends a job     *)
(* that has not ended.                                                     *)
(***************************************************************************)
CONSTANT Jobs

VARIABLES
    owner,   \* none, keeps or gone: the owner and its handle
    end,     \* how the job ended
    seen     \* what the owner has taken

vars == <<owner, end, seen>>

Init ==
    /\ owner = [j \in Jobs |-> "none"]
    /\ end = [j \in Jobs |-> "none"]
    /\ seen = [j \in Jobs |-> "nothing"]

Submit(j) ==
    /\ owner[j] = "none"
    /\ owner' = [owner EXCEPT ![j] = "keeps"]
    /\ UNCHANGED <<end, seen>>

Finish(j, e) ==
    /\ owner[j] # "none" /\ end[j] = "none"
    /\ end' = [end EXCEPT ![j] = e]
    /\ UNCHANGED <<owner, seen>>

(* Giving up says nothing of a job that already ended.                     *)
GiveUp(j) ==
    /\ owner[j] = "keeps"
    /\ owner' = [owner EXCEPT ![j] = "gone"]
    /\ end' = [end EXCEPT ![j] = IF @ = "none" THEN "Cancelled" ELSE @]
    /\ UNCHANGED seen

(* One look at every handle kept: a set of jobs is taken together.         *)
Outcome(j) == IF end[j] = "Returned" THEN "value" ELSE "failed"
Look(taken) ==
    /\ \A j \in taken : /\ owner[j] = "keeps" /\ seen[j] = "nothing"
                         /\ end[j] \in {"Returned", "Panicked"}
    /\ seen' = [j \in Jobs |-> IF j \in taken THEN Outcome(j) ELSE seen[j]]
    /\ UNCHANGED <<owner, end>>

Next ==
    \/ \E j \in Jobs : Submit(j) \/ GiveUp(j)
    \/ \E j \in Jobs, e \in {"Returned", "Panicked"} : Finish(j, e)
    \/ \E taken \in SUBSET Jobs : Look(taken)

Spec == Init /\ [][Next]_vars
=============================================================================
