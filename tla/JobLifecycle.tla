---------------------------- MODULE JobLifecycle ----------------------------
(***************************************************************************)
(* What the scheduler promises of each job, without saying how: a job      *)
(* waits, is placed on a node, and is either accepted there or waits       *)
(* again; it is accepted once at most, and given up only after             *)
(* MAX_DISPATCH_ATTEMPTS refusals in a row.  An accepted job ends, its end *)
(* is reported, and the report is recorded, unless the agent or the report *)
(* is lost on the way.  Scheduler implements it (Scheduler!LifecycleSpec). *)
(***************************************************************************)
EXTENDS Entities, Naturals

CONSTANT MAX_DISPATCH_ATTEMPTS

VARIABLES
  phase,    \* job -> how far it is
  refusals  \* job -> failed dispatches since it was submitted

lifeVars == <<phase, refusals>>

Phase == {"new", "waiting", "placed", "running", "reported", "recorded",
          "given_up", "lost"}

-----------------------------------------------------------------------------
LifeInit ==
  /\ phase = [j \in Job |-> "new"]
  /\ refusals = [j \in Job |-> 0]

Becomes(j, from, to) ==
  /\ phase[j] = from
  /\ phase' = [phase EXCEPT ![j] = to]

Submitted(j) == Becomes(j, "new", "waiting") /\ UNCHANGED refusals

Placed(j) == Becomes(j, "waiting", "placed") /\ UNCHANGED refusals

(* The count starts again: nobody needs it any more. *)
Accepted(j) ==
  /\ Becomes(j, "placed", "running")
  /\ refusals' = [refusals EXCEPT ![j] = 0]

Refused(j) ==
  /\ Becomes(j, "placed", "waiting")
  /\ refusals[j] + 1 < MAX_DISPATCH_ATTEMPTS
  /\ refusals' = [refusals EXCEPT ![j] = refusals[j] + 1]

GivenUp(j) ==
  /\ Becomes(j, "placed", "given_up")
  /\ refusals[j] + 1 = MAX_DISPATCH_ATTEMPTS
  /\ refusals' = [refusals EXCEPT ![j] = 0]

Ended(j) == Becomes(j, "running", "reported") /\ UNCHANGED refusals

Recorded(j) == Becomes(j, "reported", "recorded") /\ UNCHANGED refusals

ReportLost(j) == Becomes(j, "reported", "lost") /\ UNCHANGED refusals

(* An agent takes all its jobs with it. *)
AgentLost(accepted) ==
  /\ \A j \in accepted : phase[j] = "running"
  /\ phase' = [j \in Job |-> IF j \in accepted THEN "lost" ELSE phase[j]]
  /\ UNCHANGED refusals

LifeNext ==
  \/ \E j \in Job :
       \/ Submitted(j) \/ Placed(j) \/ Accepted(j) \/ Refused(j) \/ GivenUp(j)
       \/ Ended(j) \/ Recorded(j) \/ ReportLost(j)
  \/ \E accepted \in SUBSET Job : AgentLost(accepted)

LifeSpec == LifeInit /\ [][LifeNext]_lifeVars
=============================================================================
