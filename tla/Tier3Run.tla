------------------------------- MODULE Tier3Run -------------------------------
(***************************************************************************)
(* One real run of a job over its devices: tier3.run_real from its          *)
(* activation to mark_done or mark_failed, with the emergency-stop flag     *)
(* file that anybody may set and clear meanwhile, and the clock that the    *)
(* rate gate sleeps on.                                                     *)
(*                                                                          *)
(* The loop is sequential, so its semaphore never blocks; what interleaves  *)
(* with it is the flag, the clock and a crash of the process.  Each check   *)
(* of the flag is a step of its own.  What happens to a device, and what    *)
(* the preflight says of it, is a choice of the environment.  Races for the *)
(* job file are in ExecutionWorkflow.                                       *)
(***************************************************************************)
EXTENDS Integers, Sequences, SequencesExt, FiniteSets

CONSTANTS
    Targets,     \* number of devices the job resolves to
    Threshold,   \* stop_on_error_threshold, 0 for none
    Limit,       \* rate_limit_per_minute, 0 for none
    Minute       \* clock ticks in the rate gate's window

ASSUME RunAssumption ==
    /\ {Targets, Threshold, Limit} \subseteq Nat
    /\ Minute \in Nat \ {0}

\* How the loop leaves a target: without commands for its vendor, refused by
\* the per-asset preflight, passed over because of the flag, or executed.
Outcome == {"no_commands", "blocked", "stopped", "ok", "failed"}

\* Where the runner is: before activation, at the top of the loop, past the
\* loop's checks, past the second flag check, asleep in the rate gate, in an
\* SSH session, past the loop, returned, or gone with its process.
Phase == {"ready", "loop", "target", "gate", "sleeping", "session", "finish",
          "ended", "dead"}

VARIABLES
    emergency,        \* whether the EMERGENCY_STOP file exists
    phase,            \* where the runner is
    status,           \* the status run_real gave the job
    halted,           \* result.halted
    consec_failures,
    rate_window,      \* ages in ticks of the stamps the gate keeps
    trail,            \* what became of each target so far
    sessions,         \* ages of the sessions started in the last minute
    startsSinceStop   \* sessions started since the flag was last set

runner == <<phase, status, halted, consec_failures, rate_window, trail>>
observed == <<sessions, startsSinceStop>>
vars == <<emergency, runner, observed>>

TypeOK ==
    /\ emergency \in BOOLEAN
    /\ phase \in Phase
    /\ status \in {"approved", "running", "done", "failed"}
    /\ halted \in BOOLEAN
    /\ consec_failures \in 0..Targets
    /\ trail \in Seq(Outcome) /\ Len(trail) <= Targets
    /\ rate_window \in Seq(0..Minute)
    /\ sessions \in Seq(0..Minute)
    /\ startsSinceStop \in 0..Targets

Init ==
    /\ emergency \in BOOLEAN
    /\ phase = "ready"
    /\ status = "approved"
    /\ halted = FALSE
    /\ consec_failures = 0
    /\ rate_window = <<>>
    /\ trail = <<>>
    /\ sessions = <<>>
    /\ startsSinceStop = 0

------------------------------------------------------------------------------
(* The flag file and the clock. *)

\* Defect: the runner looks for the file where SC_EMERGENCY_STOP_PATH does
\* not point.
FlagElsewhere == FALSE

_check_emergency_stop == emergency

\* Touching the file again changes nothing.
emergency_stop_now ==
    /\ ~emergency
    /\ emergency' = TRUE
    /\ startsSinceStop' = 0
    /\ UNCHANGED <<runner, sessions>>

emergency_clear ==
    /\ emergency
    /\ emergency' = FALSE
    /\ UNCHANGED <<runner, observed>>

\* Ages stop at Minute: older stamps all fall out of the window.
Older(ages) == [i \in DOMAIN ages |-> Min({ages[i] + 1, Minute})]

\* What the gate's filter keeps.  Stamps are in order, oldest first, so it
\* drops those before the first that is still in the window.
Recent(ages) ==
    LET first == Min({i \in DOMAIN ages : ages[i] < Minute} \cup {Len(ages) + 1})
    IN  SubSeq(ages, first, Len(ages))

Tick ==
    /\ rate_window # Older(rate_window) \/ sessions # <<>>
    /\ rate_window' = Older(rate_window)
    /\ sessions' = Recent(Older(sessions))
    /\ UNCHANGED <<emergency, phase, status, halted, consec_failures, trail,
                   startsSinceStop>>

------------------------------------------------------------------------------
(* Activation and the checks at the top of the loop. *)

\* The activation gates include the flag; mark_running follows at once.
run_real ==
    /\ phase = "ready"
    /\ ~_check_emergency_stop
    /\ phase' = "loop"
    /\ status' = "running"
    /\ UNCHANGED <<emergency, halted, consec_failures, rate_window, trail, observed>>

\* Defect: the loop waits for the flag to be cleared.
PauseOnStop ==
    /\ phase = "loop"
    /\ Len(trail) < Targets
    /\ _check_emergency_stop
    /\ UNCHANGED vars

HaltOnStop ==
    /\ phase = "loop"
    /\ Len(trail) < Targets
    /\ _check_emergency_stop
    /\ halted' = TRUE
    /\ phase' = "finish"
    /\ UNCHANGED <<emergency, status, consec_failures, rate_window, trail, observed>>

\* Defect: one failure more than the threshold.
BeyondThreshold == Threshold > 0 /\ consec_failures > Threshold

TooManyFailures == Threshold > 0 /\ consec_failures >= Threshold

HaltOnErrors ==
    /\ phase = "loop"
    /\ Len(trail) < Targets
    /\ ~_check_emergency_stop
    /\ TooManyFailures
    /\ halted' = TRUE
    /\ phase' = "finish"
    /\ UNCHANGED <<emergency, status, consec_failures, rate_window, trail, observed>>

NextTarget ==
    /\ phase = "loop"
    /\ Len(trail) < Targets
    /\ ~_check_emergency_stop
    /\ ~TooManyFailures
    /\ phase' = "target"
    /\ UNCHANGED <<emergency, status, halted, consec_failures, rate_window,
                   trail, observed>>

------------------------------------------------------------------------------
(* One target: _execute_one. *)

Leave(outcome) ==
    /\ trail' = Append(trail, outcome)
    /\ phase' = "loop"

\* No commands for the vendor, or the preflight refuses the device.
RefuseTarget(outcome) ==
    /\ phase = "target"
    /\ Leave(outcome)
    /\ UNCHANGED <<emergency, status, halted, consec_failures, rate_window, observed>>

\* The second flag check returns without a word to the loop.
PassOverTarget ==
    /\ phase = "target"
    /\ _check_emergency_stop
    /\ Leave("stopped")
    /\ UNCHANGED <<emergency, status, halted, consec_failures, rate_window, observed>>

ClearTarget ==
    /\ phase = "target"
    /\ ~_check_emergency_stop
    /\ phase' = "gate"
    /\ UNCHANGED <<emergency, status, halted, consec_failures, rate_window,
                   trail, observed>>

StartSession(stamps) ==
    /\ phase' = "session"
    /\ rate_window' = stamps
    /\ sessions' = Append(sessions, 0)
    /\ startsSinceStop' = IF emergency THEN startsSinceStop + 1 ELSE startsSinceStop
    /\ UNCHANGED <<emergency, status, halted, consec_failures, trail>>

\* Defect: the gate lets one session too many through.
WideGate ==
    /\ phase = "gate"
    /\ \/ Limit = 0 /\ StartSession(rate_window)
       \/ /\ Len(Recent(rate_window)) <= Limit
          /\ StartSession(Append(Recent(rate_window), 0))

GateOpens ==
    /\ phase = "gate"
    /\ \/ Limit = 0 /\ StartSession(rate_window)
       \/ /\ Len(Recent(rate_window)) < Limit
          /\ StartSession(Append(Recent(rate_window), 0))

\* The gate sleeps until its oldest stamp leaves the window ...
GateSleeps ==
    /\ phase = "gate"
    /\ Limit > 0
    /\ Len(Recent(rate_window)) >= Limit
    /\ rate_window' = Recent(rate_window)
    /\ phase' = "sleeping"
    /\ UNCHANGED <<emergency, status, halted, consec_failures, trail, observed>>

\* ... and starts the session without looking at the flag again.
GateWakes ==
    /\ phase = "sleeping"
    /\ Head(rate_window) = Minute
    /\ StartSession(Append(rate_window, 0))

\* Defect: a device whose session failed is tried again on the spot, past
\* the checks at the top of the loop.
RetryInPlace(ok) ==
    /\ phase = "session"
    /\ IF ok THEN Leave("ok") ELSE phase' = "target" /\ UNCHANGED trail
    /\ consec_failures' = IF ok THEN 0 ELSE consec_failures + 1
    /\ UNCHANGED <<emergency, status, halted, rate_window, observed>>

SessionEnds(ok) ==
    /\ phase = "session"
    /\ Leave(IF ok THEN "ok" ELSE "failed")
    /\ consec_failures' = IF ok THEN 0 ELSE consec_failures + 1
    /\ UNCHANGED <<emergency, status, halted, rate_window, observed>>

------------------------------------------------------------------------------
(* The end of the run. *)

LoopEnds ==
    /\ phase = "loop"
    /\ Len(trail) = Targets
    /\ phase' = "finish"
    /\ UNCHANGED <<emergency, status, halted, consec_failures, rate_window,
                   trail, observed>>

\* result.failed counts the failed sessions.
Finish ==
    /\ phase = "finish"
    /\ status' = IF halted \/ "failed" \in Range(trail) THEN "failed" ELSE "done"
    /\ phase' = "ended"
    /\ UNCHANGED <<emergency, halted, consec_failures, rate_window, trail, observed>>

\* The process dies: nothing takes the run up again, the job stays running.
Crash ==
    /\ phase \notin {"ready", "ended", "dead"}
    /\ phase' = "dead"
    /\ UNCHANGED <<emergency, status, halted, consec_failures, rate_window,
                   trail, observed>>

Advance ==
    \/ HaltOnStop
    \/ HaltOnErrors
    \/ NextTarget
    \/ \E outcome \in {"no_commands", "blocked"} : RefuseTarget(outcome)
    \/ PassOverTarget
    \/ ClearTarget
    \/ GateOpens
    \/ GateSleeps
    \/ GateWakes
    \/ \E ok \in BOOLEAN : SessionEnds(ok)
    \/ LoopEnds
    \/ Finish

Next ==
    \/ emergency_stop_now
    \/ emergency_clear
    \/ Tick
    \/ run_real
    \/ Advance
    \/ Crash

\* The runner's thread is scheduled, its sessions end and time passes.  The
\* connect and the reads of a session have timeouts; that a device which
\* closed its output also sends an exit status is an assumption, because
\* recv_exit_status has none.  Nobody has to run a job or touch the flag.
Fairness == WF_vars(Advance) /\ WF_vars(Tick)

Spec == Init /\ [][Next]_vars /\ Fairness

------------------------------------------------------------------------------
(* What must hold. *)

\* However the flag is set between the runner's two checks, its rate-gate
\* sleep and its sessions, at most one more device is touched until the flag
\* is cleared (module docstring, net 5).
OneSessionAfterStop == emergency => startsSinceStop <= 1

\* In no minute does a run start more sessions than its limit, also right
\* after a sleep, when the gate keeps a stamp that is out of the window.
RateHonoured == Limit > 0 => Len(sessions) <= Limit

\* No Threshold + 1 sessions in a row fail, whatever refused or passed-over
\* targets lie between them: a stretch of the trail without a success has at
\* most Threshold failures (net 4).
ThresholdHonoured ==
    Threshold > 0 =>
        \A i, j \in DOMAIN trail :
            (\A k \in i..j : trail[k] # "ok") =>
                Cardinality({k \in i..j : trail[k] = "failed"}) <= Threshold

\* A run that has begun ends, whatever the flag does and however full the
\* rate window is.
RunEnds == phase = "loop" ~> phase \in {"ended", "dead"}

\* tier3.py, lines 547-548: "Any in-flight Tier3 runner halts at the next
\* per-device gate": a run that passed over a device because of the flag is
\* a halted run, not one that is done.
StoppedRunIsNotDone == status = "done" => "stopped" \notin Range(trail)
==============================================================================
