------------------------------ MODULE JobStore ------------------------------
(***************************************************************************)
(* scheduler/db.py: the jobs and job_results tables.  Every function opens *)
(* one connection, runs in one SQLite transaction and commits, so one      *)
(* function is one action.  A table is a function from its primary key; an *)
(* UPDATE of a key that has no row changes nothing and reports no error.   *)
(* Of a row only the columns the scheduler reads back are kept.            *)
(***************************************************************************)
EXTENDS Entities

CONSTANTS
  NoNode, \* dispatched_to_node of a job never dispatched (NULL)
  Run,    \* experiment run ids
  NoRun   \* run_id of a job submitted outside any run (NULL)

ASSUME NullAssumption == NoNode \notin Node /\ NoRun \notin Run

VARIABLES
  jobs,        \* job id -> [status, dispatched_to_node, run_id]
  job_results  \* job id -> [node_id, success]

storeVars == <<jobs, job_results>>

Terminal == {"completed", "failed"}
Status == {"queued", "dispatched"} \cup Terminal

NoRows == [key \in {} |-> key]

-----------------------------------------------------------------------------
StoreInit ==
  /\ jobs = NoRows
  /\ job_results = NoRows

(* INSERT INTO jobs ... 'queued': an error, and no change, when the key    *)
(* has a row already.                                                      *)
db_submit_job(j, run) ==
  /\ j \notin DOMAIN jobs
  /\ jobs' = [k \in DOMAIN jobs \cup {j} |->
                IF k # j THEN jobs[k]
                ELSE [status |-> "queued", dispatched_to_node |-> NoNode, run_id |-> run]]
  /\ UNCHANGED job_results

(* UPDATE jobs SET status = ... WHERE job_id = j *)
SetStatus(j, status) ==
  jobs' = [k \in DOMAIN jobs |->
             IF k = j THEN [jobs[k] EXCEPT !.status = status] ELSE jobs[k]]

(* Mutant: 'dispatched' is written unconditionally. *)
db_dispatch_job_unconditionally(j, n) ==
  /\ jobs' = [k \in DOMAIN jobs |->
                IF k # j THEN jobs[k]
                ELSE [jobs[k] EXCEPT !.dispatched_to_node = n, !.status = "dispatched"]]
  /\ UNCHANGED job_results

(* Mutant: a row that is terminal is not touched at all. *)
db_dispatch_job_unless_terminal(j, n) ==
  /\ jobs' = [k \in DOMAIN jobs |->
                IF k # j \/ jobs[k].status \in Terminal THEN jobs[k]
                ELSE [jobs[k] EXCEPT !.dispatched_to_node = n, !.status = "dispatched"]]
  /\ UNCHANGED job_results

(* The node is recorded in any case; the status moves on only when it is   *)
(* not terminal.                                                           *)
db_dispatch_job(j, n) ==
  /\ jobs' = [k \in DOMAIN jobs |->
                IF k # j THEN jobs[k]
                ELSE [jobs[k] EXCEPT
                        !.dispatched_to_node = n,
                        !.status = IF @ \in Terminal THEN @ ELSE "dispatched"]]
  /\ UNCHANGED job_results

(* INSERT OR REPLACE the result, then set the status from it, in one       *)
(* transaction.                                                            *)
db_record_job_result(j, n, success) ==
  /\ job_results' = [k \in DOMAIN job_results \cup {j} |->
                       IF k = j THEN [node_id |-> n, success |-> success]
                       ELSE job_results[k]]
  /\ SetStatus(j, IF success THEN "completed" ELSE "failed")

db_mark_job_failed(j) ==
  /\ SetStatus(j, "failed")
  /\ UNCHANGED job_results

-----------------------------------------------------------------------------
(* The most general caller: any function, any job, any order. *)
StoreNext ==
  \E j \in Job :
    \/ \E run \in Run \cup {NoRun} : db_submit_job(j, run)
    \/ \E n \in Node : db_dispatch_job(j, n)
    \/ \E n \in Node, success \in BOOLEAN : db_record_job_result(j, n, success)
    \/ db_mark_job_failed(j)

StoreSpec == StoreInit /\ [][StoreNext]_storeVars

-----------------------------------------------------------------------------
JobRow == [status : Status, dispatched_to_node : Node \cup {NoNode}, run_id : Run \cup {NoRun}]
ResultRow == [node_id : Node, success : BOOLEAN]

StoreTypeOK ==
  /\ DOMAIN jobs \subseteq Job
  /\ \A j \in DOMAIN jobs : jobs[j] \in JobRow
  /\ DOMAIN job_results \subseteq Job
  /\ \A j \in DOMAIN job_results : job_results[j] \in ResultRow

(* A finished job is never resurrected (dispatch_job, db.py:292-297): once *)
(* its status is completed or failed, no later write, however late, takes  *)
(* it back to queued or dispatched, and no write removes its row, changes  *)
(* its run or removes its result.                                          *)
TerminalSticky ==
  [][ /\ \A j \in DOMAIN jobs :
           /\ j \in DOMAIN jobs'
           /\ jobs'[j].run_id = jobs[j].run_id
           /\ jobs[j].status \in Terminal => jobs'[j].status \in Terminal
      /\ DOMAIN job_results \subseteq DOMAIN job_results' ]_storeVars

=============================================================================
