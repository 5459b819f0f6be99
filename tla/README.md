# SafeCadence NetRisk: a verification project

SafeCadence NetRisk (`src/safecadence`) collects the state of network
devices and identity systems, analyses it, and can change both: command jobs
over SSH behind approvals, policy write-back to identity providers, and a
two-node deployment of the server itself. Most of its source is analysis,
reporting and user interface. What can go wrong in an order nobody wrote a test
for is in a few parts: the execution engine, the cluster, the forwarding probe, the
identity write-back, and some protocols over plain files. This project models those parts in TLA+, checks them with TLC
and proves theorems about them with TLAPS.

Paths below are relative to the package `src/safecadence/`, those that start
with `docs/`, `examples/` or `tests/` to the repository's root.

## 1. Inventory

### The execution engine (`execution/`, `server/execution_api.py`)

| Part | State | Operations |
|---|---|---|
| `store.py` | one JSON file per job, approval, rollback plan, execution; an append-only audit log | `save_*`, `get_job`, `delete_job`, `write_audit` |
| `workflow.py` | none of its own: every function reads the job file, checks, and writes the whole record back | `create_job`, `submit_for_review`, `approve`, `reject`, `cancel`, `mark_running`, `mark_done`, `mark_failed`, `rollback` |
| `rbac.py` | a role matrix | `can`, `approvals_needed`, `role_can_approve` |
| `guardrails.py` | patterns | `preflight` (risk, blocked, lockout) |
| `tier3.py` | the emergency-stop flag file; per run a failure counter and a rate window | `run_real`, `emergency_stop_now`, `emergency_clear` |
| `server/execution_api.py` | none | the endpoints; edit and delete of a draft are here |

The endpoints are plain `def` functions that FastAPI runs in a thread pool; the
CLI is another process on the same directory. Nothing takes a lock, and
`write_text` is not atomic. So the hard behaviour is the interleaving of
handlers that read, check and write back, a run that works from its own copy of
the job, and crashes between the files a handler writes.

What makes it correct: commands reach a device only after enough qualified
people other than the author approved these very commands; a job that can be
rolled back has a plan for its commands; a closed job stays closed; an
emergency stop, a failure threshold and a rate limit hold during a run; a run
ends.

### The cluster (`cluster/`)

| Part | State | Operations |
|---|---|---|
| `peer_sync/writer.py` | table `peer_events` (seq, kind, payload, hmac) | `record_event`, `list_events_since`, `trim_events_below` |
| `peer_sync/streamer.py` | last acked seq, a socket | connect, stream, trim |
| `peer_sync/applier.py` | `last_applied_seq` | `serve`, `apply_event` |
| `peer_sync/heartbeat.py`, `peer_sync/__init__.py` | the node's role; time stamps of the last event and heartbeat | promote, demote, the monitor's `tick` |
| `failover.py`, `guards.py`, `ui/app.py` | a Redis key with a time to live | take, renew, release the lease; the transfer endpoint; `active_only` |

All threads of a node share one SQLite connection (`ui/app.py:256`), so they see
each other's uncommitted rows and commit each other's work. Acks, connections
and processes can be lost between any two steps. Correct means: nothing is
deleted before the standby confirmed it, the standby skips nothing, it repeats a
handler only where it must, it catches up, and only one node acts at a time.

The lease loop, the transfer endpoint and the guard each read the key and act
on it in a later command, so another node may come in between; commands fail or
lose their reply, nodes crash, start again under the same name, and stall.

### The forwarding probe (`integrations/probe.py`, `probe_cli.py`)

| Part | State | Operations |
|---|---|---|
| `ProbeSpool` | SQLite: numbered batches, the next number, a cursor per log | `follow_once`, `stage`, `heartbeat`, `pending`, `acknowledge` |
| `ProbeCollector` | SQLite: a receipt per batch, events by digest, the newest health | `accept` |
| `examples/probe/netrisk-forward.service`, `.timer` | none | follow, heartbeat and deliver in turn, every 30 seconds |

Every command is a process of its own on one spool. The cursor is read outside
the transaction that moves it; requests and replies get lost, and a request may
be served after its sender has given up; logs rotate and are emptied in place.
Correct means: no line is passed over, no number is lost or used twice, the
collector never meets a gap or a collision by bad luck, and the queue drains.

### Protocols over files and services

| Part | State | Hard behaviour |
|---|---|---|
| `workflow/approval_chains.py`, `reports/risk_acceptance.py` | JSONL events, folded; one JSON list of acceptances | sign and cancel race; the acceptance is applied before the event is appended; every change rewrites the list |
| `identity/transactional.py`, `write_back.py`, `confirm_token.py`, `platform/adapters/identity_adapters.py` | per-target results; a signed token | partial commits and their rollback; lost replies; a token used twice |
| `identity/jit.py` | a JSON store of grants | read-modify-write races; expiry reported once |
| `audit/log.py`, `custody.py` | hash chains | two writers fork a chain |
| `queue/` | Redis lists and hashes, a fallback in memory | lost replies, jobs stranded in the fallback, at-most-once |
| `daemon.py` | findings of the last cycle | a failed cycle forgets them |

### The rest

Discovery, adapters, policy and compliance evaluation, scoring, analysis,
reports, user interfaces, billing and the field applications are I/O or pure
functions over collected data. `PROJECT.json` lists them as not modelled with
the reason. Who a user is and which capabilities he holds (`auth/`,
`capabilities/`) enters the models as constants.

## 2. Plan

The order is that of what a failure costs. All of it but the last item is done,
and the safety properties of all six are proved.

1. `ExecutionWorkflow` with its abstract specification `TwoPersonRule`, and
   `Tier3Run`, one run over its devices.
2. `PeerSync`, the replication protocol, with its liveness.
3. `ProbeForwarding` with its abstract specification `ProbeChannel`.
4. `FailoverLease`: lease, expiry, transfer and the `active_only` guard under a
   timing assumption.
5. `ApprovalChains`: sign, cancel and the two files they write.
6. `IdentityWriteBack`: tokens, commits over several systems, rollbacks.
7. Left: `JitGrants` and `AuditChain`, whose hazards are rewrites of a file as in
   `ApprovalChains`.

Each module takes its parameters as CONSTANTS with a named assumption, has one
action per operation or step of one, and declares no RECURSIVE operator, so that
it can be proved about. Constants a `.cfg` cannot write (functions, sequences,
symmetries) are in an `MC` module. Runs stay within two or three actors, one job
or three events, and one or two failures.

## 3. What is modelled

### `ExecutionWorkflow`

One job, because ids are random and no handler touches two. A handler is
modelled in the steps between which others can come: one step reads and checks
(the guards are the handler's early returns) and prepares the copy, then one
step per file written. A worker is a pool thread or a CLI process.

| Variable | In the code |
|---|---|
| `file`, `job` | `jobs/<id>.json`: absent, readable, torn or deleted, and its record |
| `approvals`, `rollbacks`, `executions` | the files of `store.save_approval`, `save_rollback`, `save_execution` |
| `pc`, `copy`, `actor`, `snapshot` | a handler's position and local variables |

`EditJob`, `DeleteJob`, `submit_for_review`, `approve`, `reject`, `cancel`,
`rollback` and `run_real` are the first halves; `SaveJob`, `Unlink`,
`SaveApproval`, `SaveRollback`, `mark_running`, `StartRun`, `ExecuteOne` and
`FinishRun` go on from there. `RunRefused` and `FinishLost` are the errors of
`mark_*` when the file cannot be read. A file that two workers write at once may
end torn; a torn file reads as a missing job. `Crash` ends all workers.

Abstractions: a command set is a model value with the guardrails' verdict as a
constant, and stands for the commands with their targets; roles are the six of
the matrix, users have a fixed one; names, notes and audit rows are left out,
and so are the second files that `reject` writes and nothing reads. Deaths of
single processes are not told apart. `MayExecute` is who passes the
activation gates; as shipped nobody holds `EXECUTE_REAL`
(`execution/rbac.py:124`), and a deployment must extend the matrix first.

`TwoPersonRule` is what all this promises: one author, consents of qualified
people for exact commands, and an execution only with enough of them.

### `Tier3Run`

`tier3.run_real` from its activation to `mark_done` or `mark_failed`. Each check
of the emergency-stop file is a step of its own, and so are the sleep of the
rate gate and the session, so that the flag and the clock can move in between.
Time stamps are kept as ages that stop at a minute. What the preflight says of a
device and how its session ends are choices of the environment. `sessions` and
`startsSinceStop` only observe. The loop is sequential, so the semaphore of
`max_concurrency` never blocks and is left out. Stamps are kept oldest first, so
what the gate's filter keeps is the end of the list (`Recent`).

### `PeerSync`

One active and one standby node. `Insert`, `Sign` and `Commit` are the three
statements of `record_event`, which may be apart because any thread's commit
commits the others' rows and the streamer reads through the same connection.
`log` is what that connection sees and `disk` what a crash leaves. `Fetch`,
`Send` and `ReceiveAck` are the stream loop; `Refuse` (a bad HMAC or a
duplicate), `HandlerRaises`, `DropUnhandled`, `Dispatch` with `MoveSeq` are the
outcomes of `apply_event`. `Disconnect` may or may not lose the frame on its way;
`ActiveDies` and `StandbyDies` lose what was only in memory. `handled` (what a
handler ran to its end for), `repeats` (how often it did so again), `raised`,
`excused`, `top` and `deaths` only observe. `Registered` is the events
whose kind has a handler; the shipped code registers none, so a standby then
drops every event and only moves its seq.

Left out: heartbeat frames, frames over the 8 MiB limit, a `sqlite3` error that
ends the streamer's thread, and the roles (both nodes run both threads; this
model is one direction of it).

### `ProbeForwarding` and `ProbeChannel`

One spool, one log, one collector. A process runs a program: the service runs
follow, heartbeat, deliver, an operator any single command.

| Variable | In the code |
|---|---|
| `files`, `written`, `truncated` | the log and the files it was rotated to |
| `queue`, `next`, `cursor` | `probe_queue`, and `seq` and `cursor:` in `probe_meta` |
| `todo`, `pc`, `view`, `batch`, `sent` | a process's commands and local variables |
| `late` | requests that outlived their sender |
| `receipts`, `events`, `health` | the collector's `probe_receipts`, `security_events`, `probe_health` |

`FollowOpen`, `FollowRead` and `FollowStage` are the three parts of
`follow_once` between which other processes can come; `FollowReviewNeeded` and
`FollowRefused` are its refusals. `StageFile` and `Heartbeat` are one transaction.
`Pending`, the collector's answer and `Acknowledge` are a delivery;
`AckOutOfOrder` is the acknowledgment that finds another batch in front.
`AcceptBatch` and `AcceptAgain` are `accept` of a new and of a known batch,
`RefuseBatch` any refusal, `ServeLate` a request whose sender is gone, and
`Interrupt` a death, a timeout or a lost reply anywhere.

`ProbeChannel` is what this promises of batches: numbered without a gap,
collected once each and in order.

Abstractions: a record is its line number and stands for the digest; byte
limits, blank lines, encryption of the spool and the reasons to refuse an
enrollment are left out (a refusal is always possible). A log that is emptied
and has grown past the cursor again is read from the middle: `truncated`
remembers it. A follow of more lines than `max_records` can never be staged. The
service's two follows (zeek and suricata) are one. The collector serves one
request at a time.

### `FailoverLease`

Every Redis command is a step. `Check` to `try_take_lease` are a round of
`_loop`, `Transfer` to `release_lease` the endpoint, `Work` and `EndWork` a
guarded operation. `Lose`, a part of the command actions, is a command that
failed or whose reply was lost. `ttl`, `due` and `Tick` are time: a round of a
node that keeps its time begins and ends within `Delay` ticks, a stalled node's
may take for ever. `revived`, `upset`, `robbed` and `vacant` only observe;
`vacant` counts the ticks without a running owner since the last crash or stall.
`is_standby` acts as active when its check raises, but a failing Redis never
raises there (`_get_current_owner` returns nothing), so `Work` needs the lease.
Without `SC_REDIS_URL` every node is active; that mode is left out.

The docs claim more than these properties: one node mutates at a time
(`docs/HA_DEPLOYMENT.md:453`), and after a transfer the standby within 15
seconds (`:250-255`). After a transfer the releasing node's own loop may take the
lease again; a renewal that was read before may set it over another's; and a
node started again under its name acts on the lease of its former life. The
properties say exactly when two nodes can work at once.

### `ApprovalChains`

| Variable | In the code |
|---|---|
| `events` | `approvals.jsonl`, folded by `_fold` (`Status`, `Signed`) |
| `acceptances` | the JSON list of `risk_acceptance.py`; one that does not parse reads as empty |
| `pc`, `call`, `listed` | a caller's position and what it has read |

`sign_step` and `cancel_approval` are a call up to its writes; the last signature
goes through `add_acceptance`, `EmptyFile` and `WriteAcceptances` (`write_text`
truncates, then writes) before `_append_event`. `remove_acceptance` and `expire`
rewrite the same list. `applied`, `removed` and `spoiled` only observe. Templates
are the constant `ChainOf`; torn appends, expiry dates and change records are
left out. The module has no endpoint: its callers are code and tests.

What the module's text says holds only for calls that do not overlap:
"accepted-by-policy means accepted-in-the-acceptance-log" fails when two rewrites
overlap, and cancel's "No acceptance is applied" when the cancellation comes
between the acceptance and the signature's event.

### `IdentityWriteBack`

`Preview` is a dry run with its token, `Begin` a commit request with its checks.
A commit goes through its systems call by call: `Answered`, `CallFails` and
`ReplyLost` are what a call can come to, `NoOperation` a system the policy has
nothing for; `RolledBack` and `RollbackFails` take an id back, or do not;
`Crash` is the server's death, after which nothing of the commit is kept.
`changes` is what the systems hold, `previews`, `lost` and `unread` only observe.

What a policy asks of a system is the calls `1..Calls[t]`, one per principal for
AD. Some of these AD only learns of while it commits: `_members_of` resolves a
source group (`SourceGroups`, a stretch of the calls), and answers any LDAP
failure with an empty list. `MembersUnread` is that answer: the commit goes past
the group's calls and records nothing. The one warning there may be is `Noted`,
when the commit has neither an id nor a warning of AD at its end. Assumed is
that groups have members, share none, and keep them during a commit.

What the properties leave room for is what the code does: a token can be used
again until its time is up, and one is minted also when the dry run failed or
skipped systems; a failing call after the first (in AD any call) is a warning
under `all_committed`, and a group that was not read not even that; the status is `rolled_back` also when a rollback failed;
a reply that was lost leaves a change no list of ids has. Left out are actions
that only advise, and Okta's activation of a rule.
Okta and Entra take the shapes of the systems modelled. `cli.py:2888` passes no
token, so a commit from the CLI is always refused.

## 4. What TLC checks

| Run | Result | What it shows |
|---|---|---|
| `execution_workflow` | passes | `QuorumBehindStatus`, `PlanMatchesCommands`, `ClosedForGood`, and `ImplementsTwoPersonRule` (refinement) under all interleavings of two workers with crashes and torn files |
| `illegal_jump` | violated | a late edit takes an approved job back to draft |
| `tier3_run` | passes | `OneSessionAfterStop`, `RateHonoured`, `ThresholdHonoured`, `RunEnds` |
| `stopped_run` | violated | a run that passed over its last device because of the stop ends as done |
| `peer_sync` | passes | `ConfirmedBeforeTrimmed`, `PassedIsHandled`, `NothingSentTwice`, `RepeatsNeedDeaths`, `CatchesUp` |
| `peer_retry` | violated | an event whose handler raised is lost when a later one is applied |
| `probe_forwarding` | passes | `PassedIsStaged`, `CollectedIsPrefix`, `NothingLost`, `NeverOutOfSequence`, `HealthIsNewest`, `IsChannel` (refinement), and `QueueDrains` when a deliver is run by itself again and again |
| `forward_service` | violated | with the shipped service alone a queue may stay full for ever |
| `failover_lease` | passes | `OneWorks`, `RenewalKeepsToItself`, `LeaseOutlivesOutage`, `TakeoverInTime` |
| `approval_chains` | passes | `AcceptedIsSigned`, `ApprovedIsAccepted`, `AcceptedIsRecorded`, `DecisionStands` |
| `identity_write_back` | passes | `ReviewedBeforeChange`, `AllOrNothing`, `ReportIsTrue` |
| `unread_group` | violated | a commit that could not read a source group reports `all_committed` without a warning |

Each violated run states what a doc or comment of the repository says;
`PROJECT.json` quotes it under "findings". Two disagreements have no run, being
a single missing guard each: `execution_api.py:18` says that a rollback takes a
job from DONE or FAILED, and `workflow.rollback` looks at no status; and
`tier3.py:13-18` that a device refused by its own preflight leaves the job
RUNNING, while the end of `run_real` makes every job done or failed. Some things
a reader may miss in the passing runs:

* The races of the workflow do lose updates: an approval can be lost, a rejected
  job can be revived by a late save, two runs can send the same commands. None
  of this breaks the two-person rule, because a copy carries its approvers with
  its commands and is written whole. That is the point of `QuorumBehindStatus`
  and of `ClosedForGood`, which holds only once no handler is in flight.
  `ImplementsTwoPersonRule` bounds which commands run, not how often.
* `OneSessionAfterStop` is what the code's checks give: once the flag is set, at
  most one more session begins, even a minute later if the rate gate was asleep.
  That is weaker than "stops within a few seconds" (`tier3.py:28-30`) and
  "typically within 1-3 seconds" (`:547-548`), since nothing looks at the flag
  during the sleep or the session.
* `NothingSentTwice` says that the applier's dedupe never has anything to do: the
  hello-ack and an applier that serves one connection at a time are enough.
* `PassedIsHandled` lists the ways the replication does lose an event: no
  handler, a handler that raised once, a row sent before it was signed, and a
  seq given out again after a crash. The run says there is no other.
  `CatchesUp` excepts a whole batch of rows that can never be applied, which
  blocks everything behind it.
* `PassedIsStaged` holds although two follows race for the cursor: they stage the
  same lines twice, and may put the cursor back, but never past a line that no
  batch has. The collector's digest drops the second copy. It and
  `CollectedIsPrefix` except a file that was emptied in place: there the code may
  pass lines over, and the properties say nothing of that file.
* `NeverOutOfSequence` holds with several delivers at once because a batch is
  deleted only on the collector's receipt for it, and only from the front.
* `OneWorks` and `RenewalKeepsToItself` name what the lease does not protect
  from: a stall, a transfer, and a restart on the former life's lease. A crash
  or a lost command alone never makes two nodes active.
* `ApprovedIsAccepted` and `AcceptedIsRecorded` except overlapping rewrites and
  deaths; everything else, such as a cancel at any moment, is inside. Once two
  rewrites overlapped or one was cut short, the first promises nothing more.
* `AllOrNothing` and `ReportIsTrue` except the commits that lost a reply, which
  the adapters cannot tell from a call that failed. A clean success changed
  every system; what it can have left out is the members of groups it could not
  read, and nothing else. That it did everything, `CleanSuccessIsComplete`, is
  what `unread_group` refutes.

### Bounds

* `ExecutionWorkflow`: three users (two super admins, a security admin), two
  workers, three command sets (low, critical, blocked). Two workers give every
  race of two handlers and every pair of writers; every handler has at most four
  steps. Critical commands need two approvals, which a job gets or, by a super
  admin, does not. The proofs cover any number of each.
* `Tier3Run`: four devices, threshold 2, two sessions in two ticks. Four devices
  fill the window twice and leave room for two failures around other outcomes.
  63,364 states.
  The violated runs need two devices.
* `PeerSync`: three events of which two have a handler, batches of two, a buffer
  of one, and `MaxBreaks` = 2 disconnects or deaths (2 events and 1 break in
  `peer_retry`). Three events are one batch and a rest; two breaks let a death
  follow a lost ack or another death. 633,857 states.
* `ProbeForwarding`: the service and one operator, two lines, one rotation or
  truncation, one late request, and a spool of two records. `MaxSeq` = 1 allows
  staging while the next number is at most 1, which a transaction in flight
  passes: two follows, or a follow and a heartbeat, still queue two batches, so a
  late or repeated request meets a later one. `forward_service` stages up to 4.
  185,562 states; the proofs cover any number.
* `FailoverLease`: two nodes; a lease of 12 ticks, a round every 3 with a delay
  of 1, and one each of lost command, transfer, crash and stall. The ratio is
  the code's 60 s to 15 s, and 12 > (3 + 1) * 2 is the assumption that a lease
  outlives the rounds that may fail. One of each fault already gives every pair
  of different faults. 1,481,811 states.
* `ApprovalChains`: two approvals (of two steps and of one) that share the
  acceptance log, two callers, one death. Two callers give every overlap of two
  rewrites and of a cancel with a signature. 282,217 states with the callers
  symmetric.
* `IdentityWriteBack`: two commits, two operators, two policies, a lenient system
  of memberships with two calls, each a source group of one member, one that
  creates objects with two, and one with one; a token good within one of two
  ticks. `MaxPreviews` = 1 gives all dry runs one policy, operator and time; the
  tokens of different systems and sets, stale ones and ones presented for
  another policy or by another operator are all there. Two commits can only
  hinder each other at one membership, so `OneWideCommit` lets one of them at a
  time go to more than one system. 703,190 states with commits and operators
  symmetric. `unread_group` needs one commit and one policy. The proofs have
  neither bound nor constraint.

`CHECK_DEADLOCK FALSE` everywhere: a job, a run, a commit and a finite list of
events come to an end, and the bounds on faults run out.

### Fairness

The safety runs need none. `RunEnds` assumes that the runner's thread is
scheduled, that time passes, and that a session ends: connecting and reading
have timeouts, `recv_exit_status` has none, so a device that closes its output
and never sends an exit status is outside the assumption. Nobody has to start a
run or touch the flag. `CatchesUp` assumes that the threads of the nodes are
scheduled, that the streamer goes on reconnecting (its loop does, with a backoff
of at most a minute), and, as strong fairness of `Dispatch`, that a handler
tried again and again does not raise every time. Disconnects and deaths are
bounded by `MaxBreaks`, so it speaks of what happens after the last of them.

`QueueDrains` is asked of two schedules. `ServiceSpec` is the shipped one: the
timer starts the service again and again, its commands take their steps, and, as
strong fairness, a delivery tried again and again is not refused, interrupted or
left without an answer every time; under it the property is violated.
`DeliverSpec` asks the same of a process that runs `deliver` alone, and the
property holds. `TakeoverInTime` and `LeaseOutlivesOutage` are stated in ticks
and need no fairness: `Tick` cannot pass a round that is due on a node that
keeps its time.

## 5. What is proved

`ExecutionWorkflowProofs` proves every property of the run
`execution_workflow` for all constants that satisfy `WorkflowAssumption`
(finitely many users, a role for each, a verdict for each command set):

* `Invariant`: `IInv` is inductive. `QuorumBehindStatus` and
  `PlanMatchesCommands` speak of the file only and are not: a worker's copy
  becomes the file in one step. `IInv` says the same of every record, the
  file's and each worker's copy alike (their approvers are backed by saved
  approvals for the same commands, a draft has none, an approved record has
  enough), that an approval about to be saved is one that counts, and that what
  a worker is going to execute is permitted by the rule. Approvals and plans are
  only added, so a record that is sound stays sound.
* `TypeCorrect`, `QuorumHolds`, `PlanHolds` follow from it.
* `Implements`: initial states map to initial states, and every step to a step
  of `TwoPersonRule` or a stutter.
* `StaysClosed`: with no handler in flight, no handler's first half prepares a
  copy that leaves the closed states, and every copy in flight afterwards is
  closed itself.

`Tier3RunProofs` proves every safety property of `tier3_run`, for any number of
devices, limit, threshold and clock resolution that `RunAssumption` admits.

* `StopHonoured`: until the flag is cleared the runner can be past its last check
  once, and no check lets it through again (`StopInv`).
* `TypeCorrect`: every counter is bounded by the length of the trail, and only a
  runner at work on a device, which has one left, adds to it (`CountInv`).
* `RateLimited`: the gate may hold a stamp that is out of the window, after a
  sleep. `RateInv` says that what is left without those stamps is the sessions
  of the last minute, and that a sleeping gate holds exactly the limit, so the
  one it wakes for makes room. Stamps are in order (`Window`); that those out of
  the window come first and have a last (`OutExists`) needs `LeastNumber` of
  `NaturalLemmas`, that a set of naturals has a least element.
* `ThresholdKept`: the property speaks of every stretch of the trail, the step
  that adds to it of the stretch that ends there: `StreakInv` bounds the
  failures of those by the runner's own count.
* `RunMovesOn`: the steps a run has before it (`StepsLeft`) are bounded, each step
  of the runner leaves fewer, and while the gate sleeps every tick ages the stamp
  it sleeps for. This is the part of `RunEnds` that is not about fairness.

`PeerSyncProofs` proves every safety property of `peer_sync` for all constants that satisfy `SyncAssumption` and `NoneIsNoFrame` (events numbered
from 1, a batch of at least one, a marker that is no frame and no seq). None is
inductive alone. For `TypeCorrect`, `ConfirmedHolds` and `NotSentTwice`, `IInv` adds where the stop-and-wait conversation
stands in each phase (`Conversation`: an ack on its way is the standby's own
count, and while nothing is on its way the streamer's count is the standby's)
and that what is on its way or still to be sent lies beyond that count and in
order (`Ahead`). So the ack that `_maybe_trim` counts back from is the standby's
count, and the handshake reads the next batch from where the standby stands.
`ListedEvents` states what `list_events_since` returns, `AnswerKeeps` and
`LoseConnectionKeeps` the parts that several steps share.

`PassedHandled` needs more (`DeliveryInv`). An event that is refused or raises is
left behind at once but passed only with the next one, so the invariant speaks of
all rows below what the standby will be asked for next (`Frontier`); and what is
on its way is what the log says under its seq, unless the active died and the seq
was given out again. `RepeatsPaid` (`RepeatInv`) keeps an account: each death of
the standby pays for at most one event that was handled and may come again
(`Owed`), and a repetition takes one from that account. An event has one seq
wherever it is, and a passed seq does not come back.

`ProbeForwardingProofs` proves all of `probe_forwarding` but `QueueDrains`, from
`ProbeAssumption`. `TypeInv` adds to the types what a
process holds in each step. `SeqInv` is the invariant of the numbers: the
batches of queue and collector together have every number once (`Numbered`),
the receipts have no gap and the queue is behind them (`InOrder`), a request on
its way is known to the collector or the queue's first (`Due`), and a receipt
at the probe is of a collected batch (`Acked`). `Due` is why deleting from the
front only is enough, and gives `NeverOutOfSequence`; `Numbered` and `InOrder`
give the refinement of `ProbeChannel`, in which `Offer` is `_enqueue`, `Collect`
the collector's commit, and everything else, deletion included, a stutter.
`CursorIsSafe` adds what each follow in flight has read (`PassInv`).
`PrefixCollected` rests on all of these: lines are told apart (`LogInv`), what a
follow holds comes from its file (`KnownInv`), and a batch that holds a line of a
file comes with or after one for every line before it (`OrderInv`, where two
follows that race for the cursor matter). Receipts have no gap, so the collector
has those earlier batches too.

`FailoverLeaseProofs` proves every property of `failover_lease` from `LeaseAssumption`. `LeaseInv` ties a node's place in
its round to the time that is left on its lease (`InTime`: after the rounds that
may still fail, enough is left to renew), says who works and why that is still
its lease (`WorkersHold`), and that a node about to set the key over its owner is
that owner unless something on the list of excuses happened (`SettersHold`).
`TakenOver` follows from `VacancyInv`: the lease of a node that is gone and the
time it has been so make up one time to live; and once the lease is free, some
node that keeps its time has few enough ticks and failures before it to take it,
or is about to (`Soon`).

`ApprovalChainsProofs` proves the whole run `approval_chains` from
`ChainAssumption`. `ApprovalInv` says what each call in flight knows for good
(signatures are never taken back, so what was signed when it looked is signed
when it writes), and, as long as no rewrites overlapped, that the one rewriter's
copy is the list it is about to replace (`LogFits`).

`IdentityWriteBackProofs` proves the whole run `identity_write_back` from
`WriteBackAssumption`. `WriteBackInv` says of every commit which review stands
behind it (`Reviewed`), where it is (`Progress`), that what it has to take back is
there and its own, which needs that a membership is there once (`Kept`), that its
ids less those taken back are its changes unless a reply was lost (`Told`), and
that without a failure every call behind it was done or belongs to a group it
could not read (`Done`). At the end of a system the fallback warning decides:
without it there is an id, so the system was changed (`Passed`, `GoneOn`).

Only model-checked is liveness, which is out of the prover's reach because it
rests on fairness and ENABLED: `RunEnds`, `CatchesUp` and `QueueDrains`. Every
invariant and every action property of a passing run is proved.

The runs that are expected to be violated have nothing to prove.

## 6. What is not modelled

`PROJECT.json` lists every component with its reason. In short:

* Discovery, collection, adapters, notifications and storage are I/O; policy,
  compliance, scoring, intelligence and reports are pure functions over the data
  collected, which tests reach; user interfaces and servers present and route.
  Together they are nearly all of the source's lines.
* The roles of the peer-sync nodes: the monitor's inputs are never updated, so
  every standby promotes itself on its first tick; one line shows it.
* Just-in-time grants, the audit chain's two writers and the job queue are
  listed under the hazards with the reason no property covers them. The daemon
  is one thread, and its lost findings a function of two lists.
* Within the modelled parts: the text of commands and their classification, the
  rollback plan's contents, target resolution (which devices a group or filter
  means when the job runs), schedules, audit rows, diffs and credentials.
