------------------------------ MODULE JobPool ------------------------------
(***************************************************************************)
(* What a pool of workers promises of its jobs (addWork and Work, the      *)
(* callable of HttpRequestToResponse.h): a job that was accepted is run at *)
(* most once, and nothing else is run.                                     *)
(***************************************************************************)
EXTENDS Naturals, Sequences

CONSTANT Job

VARIABLES given,   \* the jobs the pool accepted
          done     \* the jobs it ran, in the order it began them

Init == given = {} /\ done = <<>>

Give == \E j \in Job \ given :
          given' = given \union {j} /\ UNCHANGED done

Run == \E j \in given :
         /\ \A k \in 1..Len(done) : done[k] # j
         /\ done' = Append(done, j) /\ UNCHANGED given

Spec == Init /\ [][Give \/ Run]_<<given, done>>
=============================================================================
