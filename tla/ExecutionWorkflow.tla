-------------------------- MODULE ExecutionWorkflow --------------------------
(***************************************************************************)
(* The life of one command job: execution/workflow.py, the job endpoints   *)
(* of server/execution_api.py and the job file of execution/store.py.      *)
(*                                                                         *)
(* Every endpoint is a plain function that FastAPI runs in a thread pool,  *)
(* and the CLI is one more process on the same directory.  Each handler    *)
(* reads the job file, checks it, changes its copy in memory and writes    *)
(* the whole file back; nothing locks the file.  So a handler is modelled  *)
(* in its own steps: one step reads and checks (the early returns are its  *)
(* guard) and prepares the copy to be written, then one step per file that *)
(* is written.  A worker is a pool thread or a CLI process.                *)
(*                                                                         *)
(* One job is enough: job ids are random and no handler touches two jobs.  *)
(* Commands stand for the job's inline_commands with the targets they are  *)
(* for; only the guardrails' verdict on them matters here.                 *)
(*                                                                         *)
(* MayExecute is empty as shipped: no role in rbac's matrix holds the      *)
(* capability EXECUTE_REAL and nothing grants it to a user, so a           *)
(* deployment extends the matrix (as the tests do) before any job runs.    *)
(***************************************************************************)
EXTENDS Integers, FiniteSets

CONSTANTS
    User,        \* authenticated users
    Worker,      \* pool threads and CLI processes
    Commands,    \* the command sets a job can carry
    RoleOf,      \* RoleOf[u]: the tier _role_for_user gives u
    MayApprove,  \* users holding the APPROVE_JOB capability of the endpoint
    MayExecute,  \* users who pass tier3's activation gates
    Verdict,     \* Verdict[c]: what guardrails.preflight says of c
    Nobody,      \* no user
    NoJob,       \* no copy of the job in memory
    NoCommands   \* no commands in memory

Status == {"draft", "review", "approved", "scheduled", "running", "done",
           "failed", "rejected", "blocked", "rolled_back", "canceled"}

Risk == {"safe", "low", "medium", "high", "critical"}

Role == {"viewer", "auditor", "operator", "engineer", "security_admin",
         "super_admin"}

ASSUME WorkflowAssumption ==
    /\ IsFiniteSet(User)
    /\ RoleOf \in [User -> Role]
    /\ MayApprove \subseteq User
    /\ MayExecute \subseteq User
    /\ Verdict \in [Commands -> [risk : Risk, blocked : BOOLEAN]]
    /\ Nobody \notin User

------------------------------------------------------------------------------
(* rbac.py: each tier inherits what the tiers below it may do. *)

AtLeast(role) ==
    CASE role = "operator"       -> Role \ {"viewer", "auditor"}
      [] role = "security_admin" -> {"security_admin", "super_admin"}
      [] role = "super_admin"    -> {"super_admin"}

\* The weakest mode, read_only, needs an operator.  The mode of a job is
\* not read again by the workflow.
can_create(role) == role \in AtLeast("operator")

can_rollback(role) == role \in AtLeast("security_admin")

role_can_approve(role, risk) ==
    role \in CASE risk \in {"safe", "low"}    -> AtLeast("operator")
               [] risk \in {"medium", "high"} -> AtLeast("security_admin")
               [] risk = "critical"           -> AtLeast("super_admin")

approvals_needed(risk) ==
    CASE risk \in {"safe", "low"}    -> 0
      [] risk \in {"medium", "high"} -> 1
      [] risk = "critical"           -> 2

------------------------------------------------------------------------------
Job == [status : Status, commands : Commands, risk : Risk,
        approvals_required : 0..2, approvers : SUBSET User,
        created_by : User, rollback_plan : BOOLEAN]

\* Where a worker is: between requests, or before the file it writes next.
\* "record" and "plan" are approve's other two files, "mark" is run_real
\* between its own status check and mark_running, "start" is the write of
\* mark_running, "executing" is the device loop.
Point == {"idle", "record", "plan", "save", "unlink", "mark", "start",
          "executing"}

Saving == {"save", "start"}

VARIABLES
    file,        \* the job file: not there yet, readable, torn, deleted
    job,         \* what it holds
    approvals,   \* saved approvals: <<approver, commands of the copy read>>
    rollbacks,   \* commands a saved rollback plan undoes
    executions,  \* commands sent to devices (saved executions)
    pc,          \* where each worker is
    copy,        \* the job as the worker is about to write it
    actor,       \* the approver the worker acts for
    snapshot     \* the commands run_real read before mark_running

store == <<file, job, approvals, rollbacks, executions>>
memory == <<pc, copy, actor, snapshot>>
vars == <<store, memory>>

TypeOK ==
    /\ file \in {"none", "saved", "torn", "deleted"}
    /\ job \in Job \cup {NoJob}
    /\ file # "none" => job \in Job
    /\ approvals \subseteq User \X Commands
    /\ rollbacks \subseteq Commands
    /\ executions \subseteq Commands
    /\ pc \in [Worker -> Point]
    /\ copy \in [Worker -> Job \cup {NoJob}]
    /\ \A w \in Worker : pc[w] \in Saving \cup {"record", "plan"} => copy[w] \in Job
    /\ actor \in [Worker -> User \cup {Nobody}]
    /\ \A w \in Worker : pc[w] = "record" => actor[w] \in User
    /\ snapshot \in [Worker -> Commands \cup {NoCommands}]
    /\ \A w \in Worker : pc[w] \in {"mark", "start", "executing"} => snapshot[w] \in Commands

Init ==
    /\ file = "none"
    /\ job = NoJob
    /\ approvals = {}
    /\ rollbacks = {}
    /\ executions = {}
    /\ pc = [w \in Worker |-> "idle"]
    /\ copy = [w \in Worker |-> NoJob]
    /\ actor = [w \in Worker |-> Nobody]
    /\ snapshot = [w \in Worker |-> NoCommands]

------------------------------------------------------------------------------
(* Reading and writing the job file. *)

OtherSaving(w) == \E v \in Worker \ {w} : pc[v] \in Saving

\* get_job returns None when there is no file, when it does not parse, and
\* when another worker has truncated it and not written it yet.
Unreadable(w) == file # "saved" \/ OtherSaving(w)

\* A request of worker w that finds the job: it may read the content from
\* before a write that another worker has begun.
Reads(w) == pc[w] = "idle" /\ file = "saved"

\* The handler has passed its checks and is about to write new.
Prepare(w, new, point) ==
    /\ pc' = [pc EXCEPT ![w] = point]
    /\ copy' = [copy EXCEPT ![w] = new]

Return(w) ==
    /\ pc' = [pc EXCEPT ![w] = "idle"]
    /\ copy' = [copy EXCEPT ![w] = NoJob]
    /\ actor' = [actor EXCEPT ![w] = Nobody]
    /\ snapshot' = [snapshot EXCEPT ![w] = NoCommands]

\* store.save_job writes the whole record.  Two writers at once each
\* truncate and write the same file, which can leave a mix that does not
\* parse.
save_job(w) ==
    /\ file' \in {"saved"} \cup (IF OtherSaving(w) THEN {"torn"} ELSE {})
    /\ job' = copy[w]
    /\ UNCHANGED <<approvals, rollbacks, executions>>

SaveJob(w) ==
    /\ pc[w] = "save"
    /\ save_job(w)
    /\ Return(w)

------------------------------------------------------------------------------
(* Authoring. *)

Draft(u, c) ==
    [status |-> "draft", commands |-> c, risk |-> "safe",
     approvals_required |-> 1, approvers |-> {}, created_by |-> u,
     rollback_plan |-> FALSE]

\* create_job checks the author's role; the builder's save-draft endpoint
\* saves without it, but only commands its guardrails let through.  Either
\* writes a fresh file nobody else knows of.  The risk a builder puts in the
\* draft is overwritten by submit before anything reads it.
CreateJob(u, c) ==
    /\ file = "none"
    /\ \/ can_create(RoleOf[u])
       \/ ~Verdict[c].blocked
    /\ file' = "saved"
    /\ job' = Draft(u, c)
    /\ UNCHANGED <<approvals, rollbacks, executions, memory>>

\* Defect: the PUT endpoint without its DRAFT check.
EditAnyJob(w, c) ==
    /\ Reads(w)
    /\ Prepare(w, [job EXCEPT !.commands = c], "save")
    /\ UNCHANGED <<store, actor, snapshot>>

EditJob(w, c) ==
    /\ Reads(w)
    /\ job.status = "draft"
    /\ Prepare(w, [job EXCEPT !.commands = c], "save")
    /\ UNCHANGED <<store, actor, snapshot>>

DeleteJob(w) ==
    /\ Reads(w)
    /\ job.status = "draft"
    /\ pc' = [pc EXCEPT ![w] = "unlink"]
    /\ UNCHANGED <<store, copy, actor, snapshot>>

Unlink(w) ==
    /\ pc[w] = "unlink"
    /\ file' = "deleted"
    /\ Return(w)
    /\ UNCHANGED <<job, approvals, rollbacks, executions>>

Submitted(j) ==
    LET verdict == Verdict[j.commands]
        needed == approvals_needed(verdict.risk)
    IN  IF verdict.blocked
        THEN [j EXCEPT !.risk = verdict.risk, !.status = "blocked"]
        ELSE [j EXCEPT !.risk = verdict.risk, !.approvals_required = needed,
                       !.status = IF needed = 0 THEN "approved" ELSE "review"]

\* Defect: any job can be submitted again.
SubmitAnyJob(w) ==
    /\ Reads(w)
    /\ Prepare(w, Submitted(job), "save")
    /\ UNCHANGED <<store, actor, snapshot>>

submit_for_review(w) ==
    /\ Reads(w)
    /\ job.status = "draft"
    /\ Prepare(w, Submitted(job), "save")
    /\ UNCHANGED <<store, actor, snapshot>>

------------------------------------------------------------------------------
(* Approval. *)

Approved(j, u) ==
    LET who == j.approvers \cup {u}
        enough == Cardinality(who) >= j.approvals_required
    IN  [j EXCEPT !.approvers = who,
                  !.status = IF enough THEN "approved" ELSE @,
                  !.rollback_plan = IF enough THEN TRUE ELSE @]

\* Defect: the approval row does not name its approver.
ApproveAnonymously(w, u) ==
    /\ Reads(w)
    /\ u \in MayApprove
    /\ job.status = "review"
    /\ role_can_approve(RoleOf[u], job.risk)
    /\ u \notin job.approvers
    /\ u # job.created_by
    /\ Prepare(w, Approved(job, u), "record")
    /\ UNCHANGED <<store, actor, snapshot>>

approve(w, u) ==
    /\ Reads(w)
    /\ u \in MayApprove
    /\ job.status = "review"
    /\ role_can_approve(RoleOf[u], job.risk)
    /\ u \notin job.approvers
    /\ u # job.created_by
    /\ Prepare(w, Approved(job, u), "record")
    /\ actor' = [actor EXCEPT ![w] = u]
    /\ UNCHANGED <<store, snapshot>>

\* Defect: the job is written as approved before its plan is.
SaveApprovalWithoutPlan(w) ==
    /\ pc[w] = "record"
    /\ approvals' = approvals \cup {<<actor[w], copy[w].commands>>}
    /\ pc' = [pc EXCEPT ![w] = "save"]
    /\ actor' = [actor EXCEPT ![w] = Nobody]
    /\ UNCHANGED <<file, job, rollbacks, executions, copy, snapshot>>

\* store.save_approval, before the job is written.
SaveApproval(w) ==
    /\ pc[w] = "record"
    /\ approvals' = approvals \cup {<<actor[w], copy[w].commands>>}
    /\ pc' = [pc EXCEPT ![w] = IF copy[w].status = "approved" THEN "plan" ELSE "save"]
    /\ actor' = [actor EXCEPT ![w] = Nobody]
    /\ UNCHANGED <<file, job, rollbacks, executions, copy, snapshot>>

\* The last approval generates the plan from the commands and saves it.
SaveRollback(w) ==
    /\ pc[w] = "plan"
    /\ rollbacks' = rollbacks \cup {copy[w].commands}
    /\ pc' = [pc EXCEPT ![w] = "save"]
    /\ UNCHANGED <<file, job, approvals, executions, copy, actor, snapshot>>

\* A rejection's own record is written after the job and read by nothing.
reject(w) ==
    /\ Reads(w)
    /\ job.status \in {"review", "approved"}
    /\ Prepare(w, [job EXCEPT !.status = "rejected"], "save")
    /\ UNCHANGED <<store, actor, snapshot>>

cancel(w) ==
    /\ Reads(w)
    /\ job.status \notin {"done", "failed", "rolled_back", "canceled"}
    /\ Prepare(w, [job EXCEPT !.status = "canceled"], "save")
    /\ UNCHANGED <<store, actor, snapshot>>

\* Whatever the status, a job with a plan can be marked rolled back; the
\* plan's commands are not sent by this code.
rollback(w, u) ==
    /\ Reads(w)
    /\ can_rollback(RoleOf[u])
    /\ job.rollback_plan
    /\ Prepare(w, [job EXCEPT !.status = "rolled_back"], "save")
    /\ UNCHANGED <<store, actor, snapshot>>

------------------------------------------------------------------------------
(* Running.  tier3.run_real reads the job, and goes on working from that   *)
(* copy; mark_running, mark_done and mark_failed read the file again.      *)

\* Defect: run_real leaves the status check to mark_running.
RunUnchecked(w, u) ==
    /\ Reads(w)
    /\ u \in MayExecute
    /\ pc' = [pc EXCEPT ![w] = "mark"]
    /\ snapshot' = [snapshot EXCEPT ![w] = job.commands]
    /\ UNCHANGED <<store, copy, actor>>

run_real(w, u) ==
    /\ Reads(w)
    /\ u \in MayExecute
    /\ job.status = "approved"
    /\ pc' = [pc EXCEPT ![w] = "mark"]
    /\ snapshot' = [snapshot EXCEPT ![w] = job.commands]
    /\ UNCHANGED <<store, copy, actor>>

mark_running(w) ==
    /\ pc[w] = "mark"
    /\ file = "saved"
    /\ job.status = "approved"
    /\ Prepare(w, [job EXCEPT !.status = "running"], "start")
    /\ UNCHANGED <<store, actor, snapshot>>

\* mark_running raises and run_real ends without touching a device.
RunRefused(w) ==
    /\ pc[w] = "mark"
    /\ Unreadable(w) \/ job.status # "approved"
    /\ Return(w)
    /\ UNCHANGED store

StartRun(w) ==
    /\ pc[w] = "start"
    /\ save_job(w)
    /\ pc' = [pc EXCEPT ![w] = "executing"]
    /\ copy' = [copy EXCEPT ![w] = NoJob]
    /\ UNCHANGED <<actor, snapshot>>

\* One pass of the device loop that reaches a device.
ExecuteOne(w) ==
    /\ pc[w] = "executing"
    /\ executions' = executions \cup {snapshot[w]}
    /\ UNCHANGED <<file, job, approvals, rollbacks, memory>>

\* mark_done and mark_failed look at no status: they overwrite whatever the
\* job has become.
FinishRun(w, outcome) ==
    /\ pc[w] = "executing"
    /\ file = "saved"
    /\ Prepare(w, [job EXCEPT !.status = outcome], "save")
    /\ snapshot' = [snapshot EXCEPT ![w] = NoCommands]
    /\ UNCHANGED <<store, actor>>

\* They raise when the file cannot be read: the job stays as it is.
FinishLost(w) ==
    /\ pc[w] = "executing"
    /\ Unreadable(w)
    /\ Return(w)
    /\ UNCHANGED store

------------------------------------------------------------------------------
\* The process dies: every request is lost, and a file being written may
\* stay truncated.
Crash ==
    /\ \E w \in Worker : pc[w] # "idle"
    /\ file' \in {file} \cup (IF \E w \in Worker : pc[w] \in Saving THEN {"torn"} ELSE {})
    /\ pc' = [w \in Worker |-> "idle"]
    /\ copy' = [w \in Worker |-> NoJob]
    /\ actor' = [w \in Worker |-> Nobody]
    /\ snapshot' = [w \in Worker |-> NoCommands]
    /\ UNCHANGED <<job, approvals, rollbacks, executions>>

Handler(w) ==
    \/ \E c \in Commands : EditJob(w, c)
    \/ DeleteJob(w)
    \/ submit_for_review(w)
    \/ \E u \in User : approve(w, u)
    \/ reject(w)
    \/ cancel(w)
    \/ \E u \in User : rollback(w, u)
    \/ \E u \in User : run_real(w, u)

Continue(w) ==
    \/ SaveJob(w)
    \/ Unlink(w)
    \/ SaveApproval(w)
    \/ SaveRollback(w)
    \/ mark_running(w)
    \/ RunRefused(w)
    \/ StartRun(w)
    \/ ExecuteOne(w)
    \/ \E outcome \in {"done", "failed"} : FinishRun(w, outcome)
    \/ FinishLost(w)

Next ==
    \/ \E u \in User, c \in Commands : CreateJob(u, c)
    \/ \E w \in Worker : Handler(w) \/ Continue(w)
    \/ Crash

Spec == Init /\ [][Next]_vars

------------------------------------------------------------------------------
(* What must hold. *)

\* The users whose saved approval of the commands counts for them.
Consenting(c, author) ==
    {u \in User : /\ <<u, c>> \in approvals
                  /\ u # author
                  /\ role_can_approve(RoleOf[u], Verdict[c].risk)}

\* A job that stands as approved or running carries commands the guardrails
\* let through, and at least as many qualified people other than its author
\* as those commands' risk asks for have approved these very commands: no
\* interleaving of edit, submit, approve and run carries an approval over to
\* other commands (workflow.approve, submit_for_review, PUT of a draft).
QuorumBehindStatus ==
    file # "none" /\ job.status \in {"approved", "running"} =>
        /\ ~Verdict[job.commands].blocked
        /\ job.approvers \subseteq Consenting(job.commands, job.created_by)
        /\ Cardinality(job.approvers) >= approvals_needed(Verdict[job.commands].risk)

\* A job that names a rollback plan names one that was saved for the
\* commands it carries now, and a job somebody had to approve has one before
\* it can run, also across crashes (approve saves the plan before the job).
PlanMatchesCommands ==
    file # "none" =>
        /\ job.rollback_plan => job.commands \in rollbacks
        /\ job.status \in {"approved", "running"} /\ job.approvals_required > 0
              => job.rollback_plan

Quiescent == \A w \in Worker : pc[w] = "idle"

Closed == file # "none" /\ job.status \in {"rejected", "blocked", "canceled",
                                           "rolled_back", "done", "failed"}

\* Once a job is closed with no handler in flight, nothing reopens it: no
\* later request brings it back to draft, review, approved or running.
ClosedForGood == [](Quiescent /\ Closed => []Closed)

\* The consent contract that the job's files and handlers implement.
Rule == INSTANCE TwoPersonRule WITH
    Needed <- [c \in Commands |-> approvals_needed(Verdict[c].risk)],
    Qualified <- [c \in Commands |->
                    {u \in User : role_can_approve(RoleOf[u], Verdict[c].risk)}],
    Forbidden <- {c \in Commands : Verdict[c].blocked},
    author <- IF file = "none" THEN Nobody ELSE job.created_by,
    consents <- approvals,
    executed <- executions

\* Commands reach a device only with the consents their risk asks for,
\* whatever the interleaving of handlers, crashes and torn files.
ImplementsTwoPersonRule == Rule!Contract

\* workflow.py, lines 8-13: the module "refuses illegal jumps (you cannot
\* APPROVED -> DRAFT, you cannot ROLLED_BACK -> RUNNING)".
NoIllegalJump ==
    [][file # "none" =>
         /\ job.status = "approved" => job'.status # "draft"
         /\ job.status = "rolled_back" => job'.status # "running"]_job
==============================================================================
