----------------------- MODULE ExecutionWorkflowProofs -----------------------
(***************************************************************************)
(* Theorems about ExecutionWorkflow, for every set of users, workers and   *)
(* commands.  The invariants the runs check are not inductive: a job file  *)
(* is overwritten by copies that handlers read long before, so what is     *)
(* true of the file has to be true of every copy in flight, taking into    *)
(* account the files the handler will still write before the job.          *)
(***************************************************************************)
EXTENDS ExecutionWorkflow, FiniteSetTheorems, TLAPS

Writing == {"record", "plan", "save", "start"}

\* What every record of the job satisfies, given the saved approvals apps
\* and the commands plans that saved rollback plans undo.
RecordSound(j, apps, plans) ==
    /\ j.status = "draft" => j.approvers = {}
    /\ j.status \in {"draft", "review"} => ~j.rollback_plan
    /\ j.status \in {"review", "approved", "running"} =>
         /\ ~Verdict[j.commands].blocked
         /\ j.risk = Verdict[j.commands].risk
         /\ j.approvals_required = approvals_needed(j.risk)
    /\ j.status \in {"approved", "running"} =>
         /\ Cardinality(j.approvers) >= j.approvals_required
         /\ j.approvals_required > 0 => j.rollback_plan
    /\ j.rollback_plan => j.commands \in plans
    /\ \A u \in j.approvers :
         /\ u # j.created_by
         /\ role_can_approve(RoleOf[u], Verdict[j.commands].risk)
         /\ <<u, j.commands>> \in apps

\* The approval row and the plan that approve writes before the job.
PromisedApprovals(w) ==
    IF pc[w] = "record" THEN approvals \cup {<<actor[w], copy[w].commands>>}
                        ELSE approvals

PromisedPlans(w) ==
    IF pc[w] \in {"record", "plan"} /\ copy[w].status = "approved"
    THEN rollbacks \cup {copy[w].commands} ELSE rollbacks

FileSound == file # "none" => RecordSound(job, approvals, rollbacks)

CopySound(w) ==
    pc[w] \in Writing =>
        /\ copy[w].created_by = job.created_by
        /\ RecordSound(copy[w], PromisedApprovals(w), PromisedPlans(w))
        /\ pc[w] = "record" => actor[w] \in copy[w].approvers

\* The commands a runner works from had their quorum when it read them, and
\* approvals are never withdrawn.
Permitted(c, apps) ==
    /\ ~Verdict[c].blocked
    /\ Cardinality({u \in User : <<u, c>> \in apps}) >= approvals_needed(Verdict[c].risk)

SnapshotSound(w) ==
    pc[w] \in {"mark", "start", "executing"} => Permitted(snapshot[w], approvals)

WorkerSound(w) ==
    /\ pc[w] # "idle" => file # "none"
    /\ CopySound(w)
    /\ SnapshotSound(w)

IInv == TypeOK /\ FileSound /\ \A w \in Worker : WorkerSound(w)

------------------------------------------------------------------------------
(* Facts about the records handlers build. *)

\* rbac.approvals_needed asks for no, one or two approvals.
LEMMA NeededType ==
    ASSUME NEW r \in Risk
    PROVE  approvals_needed(r) \in 0..2
BY DEF approvals_needed, Risk

\* guardrails.preflight returns a known risk and a verdict.
LEMMA VerdictType ==
    ASSUME NEW c \in Commands
    PROVE  /\ Verdict[c].risk \in Risk
           /\ Verdict[c].blocked \in BOOLEAN
BY WorkflowAssumption

\* More saved approvals or plans never spoil a record.
LEMMA RecordMonotone ==
    ASSUME NEW j, NEW apps, NEW plans, NEW moreApps, NEW morePlans,
           RecordSound(j, apps, plans),
           apps \subseteq moreApps, plans \subseteq morePlans
    PROVE  RecordSound(j, moreApps, morePlans)
BY DEF RecordSound

\* A fresh job (create_job, save-draft) claims nothing.
LEMMA DraftSound ==
    ASSUME NEW u \in User, NEW c \in Commands, NEW apps, NEW plans
    PROVE  /\ Draft(u, c) \in Job
           /\ RecordSound(Draft(u, c), apps, plans)
BY DEF Draft, Job, Status, Risk, RecordSound

\* Changing the commands of a draft (PUT) breaks no claim: nobody has
\* approved a draft.
LEMMA EditSound ==
    ASSUME NEW j \in Job, NEW c \in Commands, NEW apps, NEW plans,
           j.status = "draft", RecordSound(j, apps, plans)
    PROVE  /\ [j EXCEPT !.commands = c] \in Job
           /\ RecordSound([j EXCEPT !.commands = c], apps, plans)
           /\ [j EXCEPT !.commands = c].created_by = j.created_by
BY DEF Job, RecordSound

\* submit_for_review turns a draft into a record whose risk and quorum are
\* those of the commands it carries.
LEMMA SubmittedSound ==
    ASSUME NEW j \in Job, NEW apps, NEW plans,
           j.status = "draft", RecordSound(j, apps, plans)
    PROVE  /\ Submitted(j) \in Job
           /\ RecordSound(Submitted(j), apps, plans)
           /\ Submitted(j).created_by = j.created_by
<1> DEFINE v == Verdict[j.commands]
           n == approvals_needed(v.risk)
<1>1. v.risk \in Risk /\ v.blocked \in BOOLEAN
  BY VerdictType DEF Job
<1>2. n \in 0..2
  BY <1>1, NeededType
<1>3. CASE v.blocked
  BY <1>1, <1>3 DEF Submitted, Job, Status, RecordSound
<1>4. CASE ~v.blocked /\ n = 0
  <2> DEFINE s == [j EXCEPT !.risk = v.risk, !.approvals_required = n, !.status = "approved"]
  <2>1. Submitted(j) = s
    BY <1>4 DEF Submitted
  <2>2. s \in Job /\ s.approvers = {} /\ s.created_by = j.created_by
    BY <1>1, <1>2 DEF Job, Status, RecordSound
  <2>3. Cardinality({}) = 0
    BY FS_EmptySet
  <2>4. RecordSound(s, apps, plans)
    BY <1>1, <1>4, <2>2, <2>3 DEF RecordSound, Job
  <2> QED
    BY <2>1, <2>2, <2>4
<1>5. CASE ~v.blocked /\ n # 0
  <2> DEFINE s == [j EXCEPT !.risk = v.risk, !.approvals_required = n, !.status = "review"]
  <2>1. Submitted(j) = s
    BY <1>5 DEF Submitted
  <2>2. s \in Job /\ s.approvers = {} /\ s.created_by = j.created_by
    BY <1>1, <1>2 DEF Job, Status, RecordSound
  <2>3. RecordSound(s, apps, plans)
    BY <1>1, <1>5, <2>2 DEF RecordSound, Job
  <2> QED
    BY <2>1, <2>2, <2>3
<1> QED
  BY <1>3, <1>4, <1>5

\* workflow.approve adds an approver to a record under review; the result
\* is sound once the approval row, and the plan of a last approval, are saved.
LEMMA ApprovedSound ==
    ASSUME NEW j \in Job, NEW u \in User, NEW apps, NEW plans,
           j.status = "review", RecordSound(j, apps, plans),
           u # j.created_by, role_can_approve(RoleOf[u], j.risk)
    PROVE  /\ Approved(j, u) \in Job
           /\ Approved(j, u).created_by = j.created_by
           /\ Approved(j, u).commands = j.commands
           /\ u \in Approved(j, u).approvers
           /\ RecordSound(Approved(j, u), apps \cup {<<u, j.commands>>},
                IF Approved(j, u).status = "approved" THEN plans \cup {j.commands} ELSE plans)
<1> DEFINE who == j.approvers \cup {u}
           enough == Cardinality(who) >= j.approvals_required
<1>1. who \in SUBSET User
  BY DEF Job
<1>2. \A x \in who : /\ x # j.created_by
                     /\ role_can_approve(RoleOf[x], Verdict[j.commands].risk)
                     /\ <<x, j.commands>> \in apps \cup {<<u, j.commands>>}
  BY DEF RecordSound
<1>3. CASE enough
  <2> DEFINE s == [j EXCEPT !.approvers = who, !.status = "approved", !.rollback_plan = TRUE]
  <2>1. Approved(j, u) = s
    BY <1>3 DEF Approved
  <2>2. /\ s \in Job /\ s.approvers = who /\ s.created_by = j.created_by
        /\ s.status = "approved" /\ s.rollback_plan /\ s.commands = j.commands
        /\ s.risk = j.risk /\ s.approvals_required = j.approvals_required
    BY <1>1 DEF Job, Status
  <2>3. RecordSound(s, apps \cup {<<u, j.commands>>}, plans \cup {j.commands})
    BY <1>2, <1>3, <2>2 DEF RecordSound
  <2> QED
    BY <2>1, <2>2, <2>3
<1>4. CASE ~enough
  <2> DEFINE s == [j EXCEPT !.approvers = who]
  <2>1. Approved(j, u) = s
    BY <1>4 DEF Approved, Job
  <2>2. /\ s \in Job /\ s.approvers = who /\ s.created_by = j.created_by
        /\ s.status = "review" /\ s.rollback_plan = j.rollback_plan
        /\ s.commands = j.commands /\ s.risk = j.risk
        /\ s.approvals_required = j.approvals_required
    BY <1>1 DEF Job
  <2>3. RecordSound(s, apps \cup {<<u, j.commands>>}, plans)
    BY <1>2, <2>2 DEF RecordSound
  <2> QED
    BY <2>1, <2>2, <2>3
<1> QED
  BY <1>3, <1>4

\* Moving a record to a status that claims nothing keeps it sound.
LEMMA ClosedSound ==
    ASSUME NEW j \in Job, NEW apps, NEW plans, RecordSound(j, apps, plans),
           NEW s \in {"rejected", "canceled", "rolled_back", "done", "failed"}
    PROVE  /\ [j EXCEPT !.status = s] \in Job
           /\ RecordSound([j EXCEPT !.status = s], apps, plans)
           /\ [j EXCEPT !.status = s].created_by = j.created_by
BY DEF Job, Status, RecordSound

\* mark_running keeps what made the job approved.
LEMMA RunningSound ==
    ASSUME NEW j \in Job, NEW apps, NEW plans, RecordSound(j, apps, plans),
           j.status = "approved"
    PROVE  /\ [j EXCEPT !.status = "running"] \in Job
           /\ RecordSound([j EXCEPT !.status = "running"], apps, plans)
           /\ [j EXCEPT !.status = "running"].created_by = j.created_by
BY DEF Job, Status, RecordSound

\* The people who approved given commands can be counted.
LEMMA ConsentsFinite ==
    ASSUME NEW c, NEW apps
    PROVE  /\ IsFiniteSet({u \in User : <<u, c>> \in apps})
           /\ Cardinality({u \in User : <<u, c>> \in apps}) \in Nat
<1>1. IsFiniteSet({u \in User : <<u, c>> \in apps})
  BY FS_Subset, WorkflowAssumption
<1> QED
  BY <1>1, FS_CardinalityType

\* Permission to run commands survives further approvals.
LEMMA PermittedMonotone ==
    ASSUME NEW c \in Commands, NEW apps, NEW moreApps,
           Permitted(c, apps), apps \subseteq moreApps
    PROVE  Permitted(c, moreApps)
<1> DEFINE few == {u \in User : <<u, c>> \in apps}
           many == {u \in User : <<u, c>> \in moreApps}
<1>1. few \in SUBSET many
  OBVIOUS
<1>2. IsFiniteSet(many) /\ Cardinality(few) \in Nat /\ Cardinality(many) \in Nat
  BY ConsentsFinite
<1>3. Cardinality(few) <= Cardinality(many)
  BY <1>1, <1>2, FS_Subset
<1>4. approvals_needed(Verdict[c].risk) \in 0..2
  BY VerdictType, NeededType
<1> QED
  BY <1>2, <1>3, <1>4 DEF Permitted

\* The quorum of an approved record is a quorum of saved approvals.
LEMMA ApprovedIsPermitted ==
    ASSUME NEW j \in Job, NEW apps, NEW plans,
           RecordSound(j, apps, plans), j.status = "approved"
    PROVE  Permitted(j.commands, apps)
<1> DEFINE all == {u \in User : <<u, j.commands>> \in apps}
<1>1. j.approvers \in SUBSET all
  BY DEF RecordSound, Job
<1>2. IsFiniteSet(all) /\ Cardinality(all) \in Nat
  BY ConsentsFinite
<1>3. Cardinality(j.approvers) <= Cardinality(all)
  BY <1>1, <1>2, FS_Subset
<1>4. IsFiniteSet(j.approvers) /\ Cardinality(j.approvers) \in Nat
  BY <1>1, <1>2, FS_Subset, FS_CardinalityType
<1>5. j.approvals_required \in 0..2
  BY DEF Job
<1> QED
  BY <1>2, <1>3, <1>4, <1>5 DEF RecordSound, Permitted

------------------------------------------------------------------------------
(* Steps preserve the invariant. *)

\* Before the first request the invariant holds.
THEOREM InitInvariant == Init => IInv
BY DEF Init, IInv, TypeOK, FileSound, WorkerSound, CopySound, SnapshotSound,
       Writing, Saving, Point

\* A worker that does not move stays sound while the store only gains
\* approvals and plans and the job keeps its author.
LEMMA BystanderSound ==
    ASSUME NEW v \in Worker, TypeOK, WorkerSound(v),
           pc'[v] = pc[v], copy'[v] = copy[v], actor'[v] = actor[v],
           snapshot'[v] = snapshot[v],
           approvals \subseteq approvals', rollbacks \subseteq rollbacks',
           file # "none" => file' # "none" /\ job'.created_by = job.created_by
    PROVE  WorkerSound(v)'
<1>1. (pc[v] # "idle" => file # "none")'
  BY DEF WorkerSound
<1>2. CopySound(v)'
  <2> SUFFICES ASSUME pc[v] \in Writing
               PROVE  /\ copy[v].created_by = job'.created_by
                      /\ RecordSound(copy[v], PromisedApprovals(v)', PromisedPlans(v)')
                      /\ pc[v] = "record" => actor[v] \in copy[v].approvers
    BY DEF CopySound
  <2>1. CopySound(v) /\ file # "none"
    BY DEF WorkerSound, Writing
  <2>2. /\ PromisedApprovals(v) \subseteq PromisedApprovals(v)'
        /\ PromisedPlans(v) \subseteq PromisedPlans(v)'
    BY DEF PromisedApprovals, PromisedPlans
  <2>3. RecordSound(copy[v], PromisedApprovals(v)', PromisedPlans(v)')
    BY <2>1, <2>2, RecordMonotone DEF CopySound
  <2> QED
    BY <2>1, <2>3 DEF CopySound
<1>3. SnapshotSound(v)'
  <2> SUFFICES ASSUME pc[v] \in {"mark", "start", "executing"}
               PROVE  Permitted(snapshot[v], approvals')
    BY DEF SnapshotSound
  <2>1. snapshot[v] \in Commands /\ Permitted(snapshot[v], approvals)
    BY DEF TypeOK, WorkerSound, SnapshotSound
  <2> QED
    BY <2>1, PermittedMonotone
<1> QED
  BY <1>1, <1>2, <1>3 DEF WorkerSound

\* A handler that has built a sound copy of the job it read and goes on to
\* write it.
LEMMA PrepareSound ==
    ASSUME IInv, NEW w \in Worker, NEW new \in Job, NEW point \in Saving,
           file # "none", RecordSound(new, approvals, rollbacks),
           new.created_by = job.created_by,
           point = "start" => pc[w] = "mark",
           Prepare(w, new, point),
           \/ snapshot' = snapshot
           \/ point = "save" /\ snapshot' = [snapshot EXCEPT ![w] = NoCommands],
           UNCHANGED <<store, actor>>
    PROVE  IInv'
<1> USE DEF store
<1>1. TypeOK'
  BY DEF IInv, TypeOK, Prepare, Saving, Point
<1>2. FileSound'
  BY DEF IInv, FileSound
<1>3. ASSUME NEW v \in Worker, v # w
      PROVE  WorkerSound(v)'
  <2>1. /\ pc'[v] = pc[v] /\ copy'[v] = copy[v]
        /\ actor'[v] = actor[v] /\ snapshot'[v] = snapshot[v]
    BY <1>3 DEF IInv, TypeOK, Prepare
  <2> QED
    BY <2>1, BystanderSound DEF IInv
<1>4. WorkerSound(w)'
  <2>1. pc'[w] = point /\ copy'[w] = new
    BY DEF IInv, TypeOK, Prepare
  <2>2. PromisedApprovals(w)' = approvals /\ PromisedPlans(w)' = rollbacks
    BY <2>1 DEF PromisedApprovals, PromisedPlans, Saving
  <2>3. CopySound(w)'
    BY <2>1, <2>2 DEF CopySound, Saving
  <2>4. SnapshotSound(w)'
    <3>1. CASE point = "save"
      BY <2>1, <3>1 DEF SnapshotSound
    <3>2. CASE point = "start"
      BY <2>1, <3>2 DEF SnapshotSound, IInv, WorkerSound
    <3> QED
      BY <3>1, <3>2 DEF Saving
  <2> QED
    BY <2>3, <2>4 DEF WorkerSound
<1> QED
  BY <1>1, <1>2, <1>3, <1>4 DEF IInv

\* A request that ends, having written its copy of the job or nothing.
LEMMA ReturnSound ==
    ASSUME IInv, NEW w \in Worker, Return(w),
           file # "none", file' \in {"saved", "torn", "deleted"},
           job' = job \/ (pc[w] = "save" /\ job' = copy[w]),
           UNCHANGED <<approvals, rollbacks, executions>>
    PROVE  IInv'
<1>1. /\ job' \in Job /\ job'.created_by = job.created_by
      /\ RecordSound(job', approvals, rollbacks)
  <2>1. CASE job' = job
    BY <2>1 DEF IInv, TypeOK, FileSound
  <2>2. CASE pc[w] = "save" /\ job' = copy[w]
    BY <2>2 DEF IInv, TypeOK, WorkerSound, CopySound, Writing, Saving,
                PromisedApprovals, PromisedPlans
  <2> QED
    BY <2>1, <2>2
<1>2. TypeOK'
  BY <1>1 DEF IInv, TypeOK, Return, Saving, Point
<1>3. FileSound'
  BY <1>1 DEF FileSound
<1>4. ASSUME NEW v \in Worker, v # w
      PROVE  WorkerSound(v)'
  <2>1. /\ pc'[v] = pc[v] /\ copy'[v] = copy[v]
        /\ actor'[v] = actor[v] /\ snapshot'[v] = snapshot[v]
    BY <1>4 DEF IInv, TypeOK, Return
  <2> QED
    BY <1>1, <2>1, BystanderSound DEF IInv
<1>5. WorkerSound(w)'
  <2>1. pc'[w] = "idle"
    BY DEF IInv, TypeOK, Return
  <2> QED
    BY <2>1 DEF WorkerSound, CopySound, SnapshotSound, Writing
<1> QED
  BY <1>2, <1>3, <1>4, <1>5 DEF IInv

\* A step of one worker: the others stay sound, so only its own soundness
\* and the files' have to be shown.
LEMMA StepSound ==
    ASSUME IInv, NEW w \in Worker, TypeOK', FileSound', WorkerSound(w)',
           \A v \in Worker \ {w} :
               /\ pc'[v] = pc[v] /\ copy'[v] = copy[v]
               /\ actor'[v] = actor[v] /\ snapshot'[v] = snapshot[v],
           approvals \subseteq approvals', rollbacks \subseteq rollbacks',
           file # "none" => file' # "none" /\ job'.created_by = job.created_by
    PROVE  IInv'
<1>1. ASSUME NEW v \in Worker, v # w
      PROVE  WorkerSound(v)'
  BY <1>1, BystanderSound DEF IInv
<1> QED
  BY <1>1 DEF IInv

\* CreateJob keeps the invariant: it writes a draft before any worker moves.
LEMMA CreateSound ==
    ASSUME IInv, NEW u \in User, NEW c \in Commands, CreateJob(u, c)
    PROVE  IInv'
<1>1. TypeOK' /\ FileSound'
  BY DraftSound DEF IInv, TypeOK, FileSound, CreateJob, memory
<1>2. ASSUME NEW v \in Worker
      PROVE  WorkerSound(v)'
  BY DEF IInv, WorkerSound, CopySound, SnapshotSound, Writing, CreateJob, memory
<1> QED
  BY <1>1, <1>2 DEF IInv

\* The read of DELETE keeps the invariant.
LEMMA DeleteSound ==
    ASSUME IInv, NEW w \in Worker, DeleteJob(w)
    PROVE  IInv'
<1> USE DEF DeleteJob, Reads, store
<1>1. TypeOK' /\ FileSound'
  BY DEF IInv, TypeOK, FileSound, Saving, Point
<1>2. WorkerSound(w)'
  <2>1. pc'[w] = "unlink" /\ file' # "none"
    BY DEF IInv, TypeOK
  <2> QED
    BY <2>1 DEF WorkerSound, CopySound, SnapshotSound, Writing
<1> QED
  BY <1>1, <1>2, StepSound DEF IInv, TypeOK

\* The read of approve keeps the invariant: its copy becomes true with the
\* two files it is about to save.
LEMMA ApproveSound ==
    ASSUME IInv, NEW w \in Worker, NEW u \in User, approve(w, u)
    PROVE  IInv'
<1> DEFINE new == Approved(job, u)
<1> USE DEF approve, Reads, Prepare, store
<1>1. /\ job \in Job /\ file # "none" /\ RecordSound(job, approvals, rollbacks)
  BY DEF IInv, TypeOK, FileSound
<1>2. /\ new \in Job /\ new.created_by = job.created_by
      /\ new.commands = job.commands /\ u \in new.approvers
      /\ RecordSound(new, approvals \cup {<<u, job.commands>>},
           IF new.status = "approved" THEN rollbacks \cup {job.commands} ELSE rollbacks)
  BY <1>1, ApprovedSound
<1> HIDE DEF new
<1>3. /\ pc' = [pc EXCEPT ![w] = "record"] /\ copy' = [copy EXCEPT ![w] = new]
  BY DEF new
<1>4. TypeOK' /\ FileSound'
  BY <1>2, <1>3 DEF IInv, TypeOK, FileSound, Saving, Point
<1>5. pc'[w] = "record" /\ copy'[w] = new /\ actor'[w] = u
  BY <1>3 DEF IInv, TypeOK
<1>6. WorkerSound(w)'
  <2>1. /\ PromisedApprovals(w)' = approvals \cup {<<u, job.commands>>}
        /\ PromisedPlans(w)' = IF new.status = "approved"
                               THEN rollbacks \cup {job.commands} ELSE rollbacks
    BY <1>2, <1>5 DEF PromisedApprovals, PromisedPlans
  <2> QED
    BY <1>1, <1>2, <1>5, <2>1 DEF WorkerSound, CopySound, SnapshotSound, Writing
<1> QED
  BY <1>3, <1>4, <1>6, StepSound DEF IInv, TypeOK

\* Saving the approval row keeps the invariant: the row is the promised one.
LEMMA SaveApprovalSound ==
    ASSUME IInv, NEW w \in Worker, SaveApproval(w)
    PROVE  IInv'
<1> USE DEF SaveApproval
<1> DEFINE new == copy[w]
<1>1. /\ new \in Job /\ file # "none" /\ actor[w] \in User /\ job \in Job
      /\ new.commands \in Commands
  BY DEF IInv, TypeOK, WorkerSound, Job
<1>2. TypeOK'
  BY <1>1 DEF IInv, TypeOK, Saving, Point
<1>3. FileSound'
  BY RecordMonotone DEF IInv, FileSound
<1>4. /\ pc'[w] = (IF new.status = "approved" THEN "plan" ELSE "save")
      /\ copy'[w] = new
  BY DEF IInv, TypeOK
<1>5. CopySound(w)'
  <2>1. /\ new.created_by = job.created_by
        /\ RecordSound(new, PromisedApprovals(w), PromisedPlans(w))
    BY DEF IInv, WorkerSound, CopySound, Writing
  <2>2. /\ PromisedApprovals(w)' = PromisedApprovals(w)
        /\ PromisedPlans(w)' = PromisedPlans(w)
    BY <1>4 DEF PromisedApprovals, PromisedPlans
  <2> QED
    BY <1>4, <2>1, <2>2 DEF CopySound
<1>6. WorkerSound(w)'
  BY <1>1, <1>4, <1>5 DEF WorkerSound, SnapshotSound
<1> QED
  BY <1>2, <1>3, <1>6, StepSound DEF IInv, TypeOK

\* Saving the rollback plan keeps the invariant.
LEMMA SaveRollbackSound ==
    ASSUME IInv, NEW w \in Worker, SaveRollback(w)
    PROVE  IInv'
<1> USE DEF SaveRollback
<1> DEFINE new == copy[w]
<1>1. /\ new \in Job /\ file # "none" /\ job \in Job /\ new.commands \in Commands
  BY DEF IInv, TypeOK, WorkerSound, Job
<1>2. TypeOK'
  BY <1>1 DEF IInv, TypeOK, Saving, Point
<1>3. FileSound'
  BY RecordMonotone DEF IInv, FileSound
<1>4. pc'[w] = "save" /\ copy'[w] = new
  BY DEF IInv, TypeOK
<1>5. CopySound(w)'
  <2>1. /\ new.created_by = job.created_by
        /\ RecordSound(new, PromisedApprovals(w), PromisedPlans(w))
    BY DEF IInv, WorkerSound, CopySound, Writing
  <2>2. /\ PromisedApprovals(w)' = PromisedApprovals(w)
        /\ PromisedPlans(w) \subseteq PromisedPlans(w)'
    BY <1>4 DEF PromisedApprovals, PromisedPlans
  <2>3. RecordSound(new, PromisedApprovals(w)', PromisedPlans(w)')
    BY <2>1, <2>2, RecordMonotone
  <2> QED
    BY <1>4, <2>1, <2>3 DEF CopySound
<1>6. WorkerSound(w)'
  BY <1>1, <1>4, <1>5 DEF WorkerSound, SnapshotSound
<1> QED
  BY <1>2, <1>3, <1>6, StepSound DEF IInv, TypeOK

\* The read of run_real keeps the invariant: the commands it takes along had
\* their quorum.
LEMMA RunSound ==
    ASSUME IInv, NEW w \in Worker, NEW u \in User, run_real(w, u)
    PROVE  IInv'
<1> USE DEF run_real, Reads, store
<1>1. /\ job \in Job /\ job.commands \in Commands /\ file # "none"
      /\ RecordSound(job, approvals, rollbacks)
  BY DEF IInv, TypeOK, FileSound, Job
<1>2. Permitted(job.commands, approvals)
  BY <1>1, ApprovedIsPermitted
<1>3. TypeOK' /\ FileSound'
  BY <1>1 DEF IInv, TypeOK, FileSound, Saving, Point
<1>4. pc'[w] = "mark" /\ snapshot'[w] = job.commands
  BY DEF IInv, TypeOK
<1>5. WorkerSound(w)'
  BY <1>1, <1>2, <1>4 DEF WorkerSound, CopySound, SnapshotSound, Writing
<1> QED
  BY <1>3, <1>5, StepSound DEF IInv, TypeOK

\* The write of mark_running keeps the invariant.
LEMMA StartSound ==
    ASSUME IInv, NEW w \in Worker, StartRun(w)
    PROVE  IInv'
<1> USE DEF StartRun, save_job
<1>1. /\ copy[w] \in Job /\ file # "none"
      /\ copy[w].created_by = job.created_by
      /\ RecordSound(copy[w], approvals, rollbacks)
  BY DEF IInv, TypeOK, WorkerSound, CopySound, Writing, Saving,
         PromisedApprovals, PromisedPlans
<1>2. TypeOK' /\ FileSound'
  BY <1>1 DEF IInv, TypeOK, FileSound, Saving, Point
<1>3. pc'[w] = "executing" /\ file' # "none"
  BY DEF IInv, TypeOK
<1>4. WorkerSound(w)'
  BY <1>3 DEF IInv, WorkerSound, CopySound, SnapshotSound, Writing
<1> QED
  BY <1>1, <1>2, <1>3, <1>4, StepSound DEF IInv, TypeOK

\* A pass of the device loop keeps the invariant.
LEMMA ExecuteSound ==
    ASSUME IInv, NEW w \in Worker, ExecuteOne(w)
    PROVE  IInv'
<1> USE DEF ExecuteOne, memory
<1>1. TypeOK' /\ FileSound'
  BY DEF IInv, TypeOK, FileSound
<1>2. WorkerSound(w)'
  BY BystanderSound DEF IInv
<1> QED
  BY <1>1, <1>2, StepSound DEF IInv

\* A crash keeps the invariant: no record depends on a handler finishing.
LEMMA CrashSound ==
    ASSUME IInv, Crash
    PROVE  IInv'
<1>1. file # "none"
  BY DEF IInv, WorkerSound, Crash
<1>2. TypeOK' /\ FileSound'
  BY <1>1 DEF IInv, TypeOK, FileSound, Crash, Saving, Point
<1>3. ASSUME NEW v \in Worker
      PROVE  WorkerSound(v)'
  BY DEF WorkerSound, CopySound, SnapshotSound, Writing, Crash
<1> QED
  BY <1>2, <1>3 DEF IInv

\* Every first step of a handler keeps the invariant.
LEMMA HandlerSound ==
    ASSUME IInv, NEW w \in Worker, Handler(w)
    PROVE  IInv'
<1>1. ASSUME Reads(w)
      PROVE  /\ job \in Job /\ file # "none" /\ pc[w] = "idle"
             /\ RecordSound(job, approvals, rollbacks)
  BY <1>1 DEF Reads, IInv, TypeOK, FileSound
<1>2. ASSUME NEW c \in Commands, EditJob(w, c)
      PROVE  IInv'
  <2>1. Reads(w) /\ job.status = "draft"
    BY <1>2 DEF EditJob
  <2> DEFINE new == [job EXCEPT !.commands = c]
  <2>2. new \in Job /\ RecordSound(new, approvals, rollbacks)
        /\ new.created_by = job.created_by
    BY <1>1, <2>1, EditSound
  <2> QED
    BY <1>1, <1>2, <2>1, <2>2, PrepareSound DEF EditJob, Saving
<1>3. CASE DeleteJob(w)
  BY <1>3, DeleteSound
<1>4. CASE submit_for_review(w)
  <2>1. Reads(w) /\ job.status = "draft"
    BY <1>4 DEF submit_for_review
  <2>2. Submitted(job) \in Job /\ RecordSound(Submitted(job), approvals, rollbacks)
        /\ Submitted(job).created_by = job.created_by
    BY <1>1, <2>1, SubmittedSound
  <2> QED
    BY <1>1, <1>4, <2>1, <2>2, PrepareSound DEF submit_for_review, Saving
<1>5. ASSUME NEW u \in User, approve(w, u)
      PROVE  IInv'
  BY <1>5, ApproveSound
<1>6. ASSUME Reads(w), NEW s \in {"rejected", "canceled", "rolled_back"},
             Prepare(w, [job EXCEPT !.status = s], "save"),
             UNCHANGED <<store, actor, snapshot>>
      PROVE  IInv'
  <2> DEFINE new == [job EXCEPT !.status = s]
  <2>1. new \in Job /\ RecordSound(new, approvals, rollbacks)
        /\ new.created_by = job.created_by
    BY <1>1, <1>6, ClosedSound
  <2> QED
    BY <1>1, <1>6, <2>1, PrepareSound DEF Saving
<1>7. CASE reject(w)
  BY <1>6, <1>7 DEF reject
<1>8. CASE cancel(w)
  BY <1>6, <1>8 DEF cancel
<1>9. ASSUME NEW u \in User, rollback(w, u)
      PROVE  IInv'
  BY <1>6, <1>9 DEF rollback
<1>10. ASSUME NEW u \in User, run_real(w, u)
       PROVE  IInv'
  BY <1>10, RunSound
<1> QED
  BY <1>2, <1>3, <1>4, <1>5, <1>7, <1>8, <1>9, <1>10 DEF Handler

\* Every further step of a handler keeps the invariant.
LEMMA ContinueSound ==
    ASSUME IInv, NEW w \in Worker, Continue(w)
    PROVE  IInv'
<1>1. /\ job \in Job \cup {NoJob} /\ (file # "none" => job \in Job)
      /\ (pc[w] # "idle" => file # "none")
      /\ (file # "none" => RecordSound(job, approvals, rollbacks))
  BY DEF IInv, TypeOK, FileSound, WorkerSound
<1>2. CASE SaveJob(w)
  <2>1. file' \in {"saved", "torn", "deleted"}
    BY <1>2 DEF SaveJob, save_job
  <2> QED
    BY <1>1, <1>2, <2>1, ReturnSound DEF SaveJob, save_job
<1>3. CASE Unlink(w)
  BY <1>1, <1>3, ReturnSound DEF Unlink
<1>4. CASE SaveApproval(w)
  BY <1>4, SaveApprovalSound
<1>5. CASE SaveRollback(w)
  BY <1>5, SaveRollbackSound
<1>6. CASE mark_running(w)
  <2> DEFINE new == [job EXCEPT !.status = "running"]
  <2>1. new \in Job /\ RecordSound(new, approvals, rollbacks)
        /\ new.created_by = job.created_by
    BY <1>1, <1>6, RunningSound DEF mark_running
  <2> QED
    BY <1>1, <1>6, <2>1, PrepareSound DEF mark_running, Saving
<1>7. CASE RunRefused(w)
  BY <1>1, <1>7, ReturnSound DEF RunRefused, store, IInv, TypeOK
<1>8. CASE StartRun(w)
  BY <1>8, StartSound
<1>9. CASE ExecuteOne(w)
  BY <1>9, ExecuteSound
<1>10. ASSUME NEW s \in {"done", "failed"}, FinishRun(w, s)
       PROVE  IInv'
  <2> DEFINE new == [job EXCEPT !.status = s]
  <2>1. file # "none"
    BY <1>10 DEF FinishRun
  <2>2. new \in Job /\ RecordSound(new, approvals, rollbacks)
        /\ new.created_by = job.created_by
    BY <1>1, <2>1, ClosedSound
  <2> QED
    BY <1>10, <2>1, <2>2, PrepareSound DEF FinishRun, Saving
<1>11. CASE FinishLost(w)
  BY <1>1, <1>11, ReturnSound DEF FinishLost, store, IInv, TypeOK
<1> QED
  BY <1>2, <1>3, <1>4, <1>5, <1>6, <1>7, <1>8, <1>9, <1>10, <1>11 DEF Continue

\* The invariant is inductive.
THEOREM NextInvariant == IInv /\ [Next]_vars => IInv'
<1> SUFFICES ASSUME IInv, [Next]_vars
             PROVE  IInv'
  OBVIOUS
<1>1. ASSUME NEW u \in User, NEW c \in Commands, CreateJob(u, c)
      PROVE  IInv'
  BY <1>1, CreateSound
<1>2. ASSUME NEW w \in Worker, Handler(w)
      PROVE  IInv'
  BY <1>2, HandlerSound
<1>3. ASSUME NEW w \in Worker, Continue(w)
      PROVE  IInv'
  BY <1>3, ContinueSound
<1>4. CASE Crash
  BY <1>4, CrashSound
<1>5. CASE UNCHANGED vars
  <2>1. TypeOK' /\ FileSound'
    BY <1>5 DEF IInv, TypeOK, FileSound, vars, store, memory
  <2>2. ASSUME NEW v \in Worker
        PROVE  WorkerSound(v)'
    BY <1>5, BystanderSound DEF IInv, vars, store, memory
  <2> QED
    BY <2>1, <2>2 DEF IInv
<1> QED
  BY <1>1, <1>2, <1>3, <1>4, <1>5 DEF Next

\* The inductive invariant holds of every reachable state.
THEOREM Invariant == Spec => []IInv
BY InitInvariant, NextInvariant, PTL DEF Spec

\* Every reachable state is well typed.
THEOREM TypeCorrect == Spec => []TypeOK
<1>1. IInv => TypeOK
  BY DEF IInv
<1> QED
  BY <1>1, Invariant, PTL

\* An approved or running job carries commands the guardrails let through
\* and the quorum their risk asks for, for any number of users, of pool
\* threads and processes, and any guardrail verdicts.
THEOREM QuorumHolds == Spec => []QuorumBehindStatus
<1>1. IInv => QuorumBehindStatus
  BY DEF IInv, TypeOK, FileSound, RecordSound, QuorumBehindStatus, Consenting, Job
<1> QED
  BY <1>1, Invariant, PTL

\* A job that names a rollback plan has one saved for its commands, and a
\* job somebody had to approve has one when it can run.
THEOREM PlanHolds == Spec => []PlanMatchesCommands
<1>1. IInv => PlanMatchesCommands
  BY DEF IInv, TypeOK, FileSound, RecordSound, PlanMatchesCommands, Job
<1> QED
  BY <1>1, Invariant, PTL

------------------------------------------------------------------------------
(* The workflow implements the consent contract. *)

\* Once the job exists its author never changes and its file is never again
\* one that was never written: what the refinement mapping reads is stable.
LEMMA AuthorKept ==
    ASSUME IInv, Next, file # "none"
    PROVE  file' # "none" /\ job'.created_by = job.created_by
<1>1. job \in Job
  BY DEF IInv, TypeOK
<1>2. ASSUME NEW w \in Worker, save_job(w), pc[w] \in Saving
      PROVE  file' # "none" /\ job'.created_by = job.created_by
  BY <1>2 DEF save_job, Saving, IInv, WorkerSound, CopySound, Writing
<1>3. ASSUME NEW u \in User, NEW c \in Commands, CreateJob(u, c)
      PROVE  FALSE
  BY <1>3 DEF CreateJob
<1>4. ASSUME NEW w \in Worker, Handler(w)
      PROVE  UNCHANGED store
  BY <1>4 DEF Handler, EditJob, DeleteJob, submit_for_review, approve, reject,
              cancel, rollback, run_real
<1>5. ASSUME NEW w \in Worker, Continue(w)
      PROVE  file' # "none" /\ job'.created_by = job.created_by
  <2>1. CASE SaveJob(w) \/ StartRun(w)
    BY <1>2, <2>1 DEF SaveJob, StartRun, Saving
  <2>2. CASE Unlink(w)
    BY <2>2 DEF Unlink
  <2>3. CASE SaveApproval(w) \/ SaveRollback(w) \/ ExecuteOne(w)
    BY <2>3 DEF SaveApproval, SaveRollback, ExecuteOne
  <2>4. CASE mark_running(w) \/ RunRefused(w) \/ FinishLost(w)
    BY <2>4 DEF mark_running, RunRefused, FinishLost, store
  <2>5. CASE \E s \in {"done", "failed"} : FinishRun(w, s)
    BY <2>5 DEF FinishRun, store
  <2> QED
    BY <1>5, <2>1, <2>2, <2>3, <2>4, <2>5 DEF Continue
<1>6. CASE Crash
  BY <1>6 DEF Crash
<1> QED
  BY <1>3, <1>4, <1>5, <1>6 DEF Next, store

\* The initial state is one of the contract's.
LEMMA RefinesInit == Init => Rule!ContractInit
BY DEF Init, Rule!ContractInit

\* Every step is a step of the contract or leaves its state alone.
LEMMA RefinesNext ==
    ASSUME IInv, [Next]_vars
    PROVE  [Rule!ContractNext]_(Rule!contractVars)
<1> DEFINE authorNow == IF file = "none" THEN Nobody ELSE job.created_by
<1>1. ASSUME file # "none"
      PROVE  authorNow \in User /\ authorNow # Nobody
  BY <1>1, WorkflowAssumption DEF IInv, TypeOK, Job
<1>2. ASSUME Next, UNCHANGED <<approvals, executions>>, file # "none"
      PROVE  UNCHANGED Rule!contractVars
  BY <1>2, AuthorKept DEF Rule!contractVars
<1>3. ASSUME NEW u \in User, NEW c \in Commands, CreateJob(u, c)
      PROVE  Rule!ContractNext
  <2>1. Rule!Write(u)
    BY <1>3 DEF CreateJob, Draft, Rule!Write
  <2> QED
    BY <2>1 DEF Rule!ContractNext
<1>4. ASSUME NEW w \in Worker, Handler(w)
      PROVE  UNCHANGED Rule!contractVars
  BY <1>4 DEF Handler, EditJob, DeleteJob, submit_for_review, approve, reject,
              cancel, rollback, run_real, store, Rule!contractVars
<1>5. ASSUME NEW w \in Worker, SaveApproval(w), Next
      PROVE  Rule!ContractNext
  <2> DEFINE u == actor[w]
             c == copy[w].commands
  <2>1. pc[w] = "record" /\ file # "none" /\ u \in User /\ c \in Commands
    BY <1>5 DEF SaveApproval, IInv, TypeOK, WorkerSound, Job
  <2>2. /\ u # job.created_by
        /\ role_can_approve(RoleOf[u], Verdict[c].risk)
    BY <2>1 DEF IInv, WorkerSound, CopySound, RecordSound, Writing
  <2>3. /\ approvals' = approvals \cup {<<u, c>>}
        /\ executions' = executions /\ file' = file /\ job' = job
    BY <1>5 DEF SaveApproval
  <2>4. Rule!Consent(u, c)
    BY <1>1, <2>1, <2>2, <2>3 DEF Rule!Consent
  <2> QED
    BY <2>1, <2>4 DEF Rule!ContractNext
<1>6. ASSUME NEW w \in Worker, ExecuteOne(w)
      PROVE  Rule!ContractNext
  <2>1. file # "none" /\ snapshot[w] \in Commands /\ Permitted(snapshot[w], approvals)
    BY <1>6 DEF ExecuteOne, IInv, TypeOK, WorkerSound, SnapshotSound
  <2>2. /\ executions' = executions \cup {snapshot[w]}
        /\ approvals' = approvals /\ file' = file /\ job' = job
    BY <1>6 DEF ExecuteOne
  <2>3. Rule!Cardinality({u \in User : <<u, snapshot[w]>> \in approvals})
          = Cardinality({u \in User : <<u, snapshot[w]>> \in approvals})
    BY Zenon DEF Rule!Cardinality, Cardinality
  <2>4. Rule!Execute(snapshot[w])
    BY <1>1, <2>1, <2>2, <2>3 DEF Permitted, Rule!Execute
  <2> QED
    BY <2>1, <2>4 DEF Rule!ContractNext
<1>7. ASSUME NEW w \in Worker, Continue(w), ~SaveApproval(w), ~ExecuteOne(w), Next
      PROVE  UNCHANGED Rule!contractVars
  <2>1. pc[w] # "idle"
    BY <1>7 DEF Continue, SaveJob, Unlink, SaveRollback, mark_running, RunRefused,
                StartRun, FinishRun, FinishLost, Saving
  <2>2. file # "none"
    BY <2>1 DEF IInv, WorkerSound
  <2>3. UNCHANGED <<approvals, executions>>
    BY <1>7 DEF Continue, SaveJob, Unlink, SaveRollback, mark_running, RunRefused,
                StartRun, FinishRun, FinishLost, save_job, store
  <2> QED
    BY <1>2, <1>7, <2>2, <2>3
<1>8. CASE Crash
  <2>1. file # "none" /\ Next
    BY <1>8 DEF Crash, IInv, WorkerSound, Next
  <2>2. UNCHANGED <<approvals, executions>>
    BY <1>8 DEF Crash
  <2> QED
    BY <1>2, <2>1, <2>2
<1>9. CASE UNCHANGED vars
  BY <1>9 DEF vars, store, Rule!contractVars
<1> QED
  BY <1>3, <1>4, <1>5, <1>6, <1>7, <1>8, <1>9 DEF Next

\* Commands reach a device only with the consents their risk asks for from
\* qualified people other than the author.
THEOREM Implements == Spec => ImplementsTwoPersonRule
<1>1. Init => Rule!ContractInit
  BY RefinesInit
<1>2. IInv /\ [Next]_vars => [Rule!ContractNext]_(Rule!contractVars)
  BY RefinesNext
<1> QED
  BY <1>1, <1>2, Invariant, PTL DEF Spec, ImplementsTwoPersonRule, Rule!Contract

------------------------------------------------------------------------------
(* A closed job stays closed. *)

Closing == {"rejected", "blocked", "canceled", "rolled_back", "done", "failed"}

\* Closed alone is not inductive: a cancel or rollback may be on its way to
\* write the closed job again.
Settled ==
    /\ file # "none"
    /\ job.status \in Closing
    /\ \A w \in Worker : /\ pc[w] \in {"idle", "save", "unlink"}
                         /\ pc[w] = "save" => copy[w].status \in Closing

\* No request finds anything to do with a settled job but close it again.
LEMMA SettledStep ==
    ASSUME TypeOK, Settled, [Next]_vars
    PROVE  Settled'
<1> USE DEF Settled, Closing
<1>1. ASSUME NEW u \in User, NEW c \in Commands, CreateJob(u, c)
      PROVE  FALSE
  BY <1>1 DEF CreateJob
<1>2. ASSUME NEW w \in Worker, NEW s \in Closing,
             Prepare(w, [job EXCEPT !.status = s], "save"), UNCHANGED store
      PROVE  Settled'
  <2>1. [job EXCEPT !.status = s].status = s
    BY DEF TypeOK, Job
  <2> QED
    BY <1>2, <2>1 DEF Prepare, store, TypeOK
<1>3. ASSUME NEW w \in Worker, Handler(w)
      PROVE  Settled'
  <2>1. CASE reject(w) \/ cancel(w) \/ \E u \in User : rollback(w, u)
    BY <1>2, <2>1 DEF reject, cancel, rollback
  <2> QED
    BY <1>3, <2>1 DEF Handler, EditJob, DeleteJob, submit_for_review, approve, run_real
<1>4. ASSUME NEW w \in Worker, Continue(w)
      PROVE  Settled'
  <2>1. CASE SaveJob(w)
    BY <2>1 DEF SaveJob, save_job, Return, TypeOK
  <2>2. CASE Unlink(w)
    BY <2>2 DEF Unlink, Return, TypeOK
  <2> QED
    BY <1>4, <2>1, <2>2 DEF Continue, SaveApproval, SaveRollback, mark_running,
       RunRefused, StartRun, ExecuteOne, FinishRun, FinishLost
<1>5. CASE Crash
  BY <1>5 DEF Crash
<1>6. CASE UNCHANGED vars
  BY <1>6 DEF vars, store, memory
<1> QED
  BY <1>1, <1>3, <1>4, <1>5, <1>6 DEF Next

\* Once a job is closed with no handler in flight, no later request brings
\* it back.
THEOREM StaysClosed == Spec => ClosedForGood
<1>1. Quiescent /\ Closed => Settled
  BY DEF Quiescent, Closed, Settled, Closing
<1>2. Settled => Closed
  BY DEF Closed, Settled, Closing
<1>3. TypeOK /\ Settled /\ [Next]_vars => Settled'
  BY SettledStep
<1> QED
  BY <1>1, <1>2, <1>3, TypeCorrect, PTL DEF Spec, ClosedForGood
==============================================================================
