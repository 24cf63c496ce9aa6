-------------------------- MODULE IdleExploration --------------------------
(***************************************************************************)
(* IdleExplorationService: one thread, holding _run_lock, explores while   *)
(* nobody asks for the robot.  Each task takes an idle lease, observes,    *)
(* asks a model through a single-flight selector, revalidates the answer,  *)
(* runs a one-leg mission pulse by pulse, stops and releases the lease.    *)
(* Around it a user claims the robot, the world changes, deadlines pass    *)
(* and the operator disables idling or re-arms the persistent budgets.     *)
(*                                                                         *)
(* State and world versions only grow, so a snapshot, a context or a plan  *)
(* is described by whether its version is still the plant's.  Motion time  *)
(* is budgeted exactly as actions are and is left out.                     *)
(***************************************************************************)
EXTENDS GoalAuthority

CONSTANTS
    SessionLimit,   \* IdleSessionLimits: a bound per budget
    DutyLimit,      \* IdleDutyCycleLimits
    TaskReplans     \* max_stale_replans_per_task

Budget == {"tasks", "calls", "replans", "actions"}
Work == {"calls", "replans", "actions"}     \* the budgets a task spends

ASSUME LimitAssumption ==
    /\ SessionLimit \in [Budget -> Nat]
    /\ DutyLimit \in [Budget -> Nat]
    /\ TaskReplans \in Nat

VARIABLES
    pc,           \* what the holder of _run_lock does next
    once,         \* the session is a run_once call
    session,      \* budgets used in this session
    duty,         \* budgets accounted in this duty cycle: _duty_*
    task,         \* budgets used by the running task: _TaskState, counters
    clock,        \* the latest deadline that has passed, see Deadline
    current,      \* what is not outdated, see Known
    seen,         \* state.snapshot is not None
    inPlan,       \* the snapshot has the world version of the plan
    unsafe,       \* the plant reports touch or a fault
    worker,       \* the selector's thread and what it is good for
    pulse,        \* the kind of the pulse the supervisor decided
    outcome,      \* how the task will be classified
    verified,     \* the terminal stop was verified
    mission,      \* the stop is a mission's and not _finish_without_mission's
    spent,        \* history: what this duty cycle really used
    lateDrives    \* history: DRIVE pulses applied after the mission's cancel

explorerVars == <<pc, once, session, duty, task, clock, current, seen, inPlan,
                  unsafe, worker, pulse, outcome, verified, mission, spent,
                  lateDrives>>
vars == <<authorityVars, explorerVars>>

\* 0 none; 1 the context's valid_until_ms; 2 the session's; 3 the duty cycle's
Deadline == 0..3

\* The state of the last snapshot, the state of the context, the world its
\* candidates were generated in and the world of the plan.
Known == {"snapshot", "context", "menu", "plan"}

AtRest == {"rest", "rearm", "next"}
Selecting == {"check", "observe", "ask", "wait", "answered", "revalidate",
              "recheck", "revalidateAgain"}
Driving == {"leg", "episode", "tick", "dispatch", "apply"}
Stopping == {"boundary", "stop", "brake", "release"}
InTask == pc \in Selecting \cup {"plan"} \cup Driving \cup Stopping

Unused == [k \in Work |-> 0]

TypeOK ==
    /\ AuthorityTypeOK
    /\ pc \in AtRest \cup Selecting \cup {"plan"} \cup Driving \cup Stopping
    /\ once \in BOOLEAN
    /\ session \in [Budget -> Nat]
    /\ duty \in [Budget -> Nat]
    /\ task \in [Work -> Nat]
    /\ clock \in Deadline
    /\ current \in SUBSET Known
    /\ {seen, inPlan, unsafe, verified, mission} \subseteq BOOLEAN
    /\ worker \in {"none", "asked", "done", "late"}
    /\ pulse \in {"DRIVE", "STOP"}
    /\ outcome \in {"completed", "aborted", "stale", "ended"}
    /\ spent \in [Budget -> Nat]
    /\ lateDrives \in Nat

Init ==
    /\ AuthorityInit
    /\ pc = "rest"
    /\ once = FALSE
    /\ session = [k \in Budget |-> 0]
    /\ duty = [k \in Budget |-> 0]
    /\ task = Unused
    /\ clock = 0
    /\ current = {}
    /\ seen = FALSE
    /\ inPlan = FALSE
    /\ unsafe = FALSE
    /\ worker = "none"
    /\ pulse = "STOP"
    /\ outcome = "ended"
    /\ verified = FALSE
    /\ mission = FALSE
    /\ spent = [k \in Budget |-> 0]
    /\ lateDrives = 0

-----------------------------------------------------------------------------
(* Helpers                                                                 *)

\* What the task may still use of a budget.
Remaining(k) ==
    LET inSession == SessionLimit[k] - session[k]
        inDuty == IF DutyLimit[k] > duty[k] THEN DutyLimit[k] - duty[k] ELSE 0
    IN  IF inSession < inDuty THEN inSession ELSE inDuty

DutyExhausted ==
    \/ clock = 3
    \/ \E k \in {"tasks", "calls", "actions"} : duty[k] >= DutyLimit[k]

SessionExhausted ==
    \/ clock >= 2
    \/ \E k \in {"tasks", "calls", "actions"} : session[k] >= SessionLimit[k]

Cancelled == active.generation \in cancelSet

\* Variant: the mission only watches its deadline.
MissionCancelled_Deadline == clock >= 1

\* _DeadlineCancelEvent.is_set
MissionCancelled == Cancelled \/ clock >= 1

\* One more unit of a budget, in the task's count and in the history.
Use(k) ==
    /\ task' = [task EXCEPT ![k] = @ + 1]
    /\ spent' = [spent EXCEPT ![k] = @ + 1]

MayReplan ==
    /\ task["replans"] < TaskReplans
    /\ task["replans"] < Remaining("replans")

Goto(label) ==
    /\ pc' = label
    /\ UNCHANGED <<authorityVars, once, session, duty, clock, unsafe>>

\* _finish_state: stop, then release whatever the stop has shown.
FinishWithoutMission ==
    /\ Goto("stop")
    /\ outcome' = "ended"
    /\ mission' = FALSE

\* The end of a mission by an observation followed by a stop, as
\* MissionRunner._verified_stop, or by a stop alone (NavigationEpisode._finish).
FinishMission(label, how) ==
    /\ Goto(label)
    /\ outcome' = how
    /\ mission' = TRUE

\* _retry_stale_selection, or the task ends.
RetryOrFinish ==
    \/ /\ MayReplan
       /\ Goto("check")
       /\ Use("replans")
       /\ UNCHANGED <<outcome, mission>>
    \/ /\ ~MayReplan
       /\ FinishWithoutMission
       /\ UNCHANGED <<task, spent>>

-----------------------------------------------------------------------------
(* Sessions                                                                *)

SessionStarts ==
    /\ pc = "rest"
    /\ pc' = "next"
    /\ once' \in BOOLEAN
    /\ clock' = IF clock = 3 THEN 3 ELSE 0
    /\ UNCHANGED <<authorityVars, session, duty, task, current, seen, inPlan,
                   unsafe, worker, pulse, outcome, verified, mission, spent,
                   lateDrives>>

SessionEnds ==
    /\ pc = "next"
    /\ \/ DutyExhausted
       \/ SessionExhausted
       \/ ~(idleEnabled /\ NoClaims)
    /\ pc' = "rest"
    /\ once' = FALSE
    /\ session' = [k \in Budget |-> 0]
    /\ UNCHANGED <<authorityVars, duty, task, clock, current, seen, inPlan,
                   unsafe, worker, pulse, outcome, verified, mission, spent,
                   lateDrives>>

TaskStarts ==
    /\ pc = "next"
    /\ ~DutyExhausted
    /\ ~SessionExhausted
    /\ TryAcquireIdle
    /\ pc' = "check"
    /\ task' = Unused
    /\ seen' = FALSE
    /\ spent' = [spent EXCEPT !["tasks"] = @ + 1]
    /\ UNCHANGED <<once, session, duty, clock, current, inPlan, unsafe, worker,
                   pulse, outcome, verified, mission, lateDrives>>

RearmBegins ==
    /\ pc = "rest"
    /\ worker = "none"
    /\ BeginIdleDutyRearm
    /\ pc' = "rearm"
    /\ UNCHANGED <<once, session, duty, task, clock, current, seen, inPlan,
                   unsafe, worker, pulse, outcome, verified, mission, spent,
                   lateDrives>>

\* An unsafe snapshot refuses the reset; the guard is given back either way.
RearmEnds ==
    /\ pc = "rearm"
    /\ FinishIdleDutyRearm
    /\ pc' = "rest"
    /\ IF unsafe
       THEN UNCHANGED <<duty, spent, clock>>
       ELSE /\ duty' = [k \in Budget |-> 0]
            /\ spent' = [k \in Budget |-> 0]
            /\ clock' = 0
    /\ UNCHANGED <<once, session, task, current, seen, inPlan, unsafe, worker,
                   pulse, outcome, verified, mission, lateDrives>>

-----------------------------------------------------------------------------
(* Selection: _select_task                                                 *)

Check ==
    /\ pc = "check"
    /\ IF /\ IsCurrentIdle(active)
          /\ clock < 2
          /\ task["calls"] < Remaining("calls")
       THEN Goto("observe") /\ UNCHANGED <<outcome, mission>>
       ELSE FinishWithoutMission
    /\ UNCHANGED <<task, current, seen, inPlan, worker, pulse, verified, spent,
                   lateDrives>>

\* _build_selection_context: an unsafe snapshot, an empty candidate menu or
\* no time left end the task; otherwise the context starts a deadline.
Observe ==
    /\ pc = "observe"
    /\ seen' = TRUE
    /\ \/ FinishWithoutMission /\ current' = current \cup {"snapshot"}
       \/ /\ ~unsafe
          /\ clock < 2
          /\ pc' = "ask"
          /\ clock' = 0
          /\ current' = {"snapshot", "context", "menu"}
          /\ UNCHANGED <<authorityVars, once, session, duty, unsafe, outcome,
                         mission>>
    /\ UNCHANGED <<task, inPlan, worker, pulse, verified, spent, lateDrives>>

\* SingleFlightSelector.call up to _start: a live worker makes it BUSY.
Ask ==
    /\ pc = "ask"
    /\ \/ /\ Use("calls")
          /\ Cancelled \/ worker # "none"
          /\ FinishWithoutMission
          /\ UNCHANGED worker
       \/ /\ ~Cancelled
          /\ clock >= 1
          /\ UNCHANGED worker
          /\ \/ /\ MayReplan
                /\ Goto("check")
                /\ task' = [task EXCEPT !["calls"] = @ + 1,
                                        !["replans"] = @ + 1]
                /\ spent' = [spent EXCEPT !["calls"] = @ + 1,
                                          !["replans"] = @ + 1]
                /\ UNCHANGED <<outcome, mission>>
             \/ /\ ~MayReplan
                /\ Use("calls")
                /\ FinishWithoutMission
       \/ /\ ~Cancelled
          /\ clock = 0
          /\ worker = "none"
          /\ Use("calls")
          /\ worker' = "asked"
          /\ Goto("wait")
          /\ UNCHANGED <<outcome, mission>>
    /\ UNCHANGED <<current, seen, inPlan, pulse, verified, lateDrives>>

\* Cancellation wins over the deadline, the deadline over an answer; either
\* discards the worker, which may live on.
Wait ==
    /\ pc = "wait"
    /\ \/ /\ Cancelled
          /\ worker' = "late"
          /\ FinishWithoutMission
          /\ UNCHANGED <<task, spent>>
       \/ /\ ~Cancelled
          /\ clock >= 1
          /\ worker' = "late"
          /\ RetryOrFinish
       \/ /\ ~Cancelled
          /\ clock = 0
          /\ worker = "done"
          /\ worker' = "none"
          /\ Goto("answered")
          /\ UNCHANGED <<outcome, mission, task, spent>>
    /\ UNCHANGED <<current, seen, inPlan, pulse, verified, lateDrives>>

\* A failed call, or a payload that does not decode or match, ends the task;
\* a deadline passed since is stale.
Answered ==
    /\ pc = "answered"
    /\ \/ FinishWithoutMission /\ UNCHANGED <<task, spent>>
       \/ clock >= 1 /\ RetryOrFinish
       \/ /\ clock = 0
          /\ IF IsCurrentIdle(active)
             THEN Goto("revalidate") /\ UNCHANGED <<outcome, mission>>
             ELSE FinishWithoutMission
          /\ UNCHANGED <<task, spent>>
    /\ UNCHANGED <<current, seen, inPlan, worker, pulse, verified, lateDrives>>

\* _fresh_selection_snapshot returns a snapshot
ContextHolds == clock = 0 /\ ~unsafe /\ "context" \in current

\* HOLD, ABORT, an unknown candidate and spent budgets end the task.
Revalidate ==
    /\ pc = "revalidate"
    /\ \/ /\ ~ContextHolds
          /\ RetryOrFinish
          /\ UNCHANGED current
       \/ /\ ContextHolds
          /\ current' = current \cup {"snapshot"}
          /\ \/ FinishWithoutMission
             \/ /\ Remaining("actions") > 0
                /\ Goto("recheck")
                /\ UNCHANGED <<outcome, mission>>
          /\ UNCHANGED <<task, spent>>
    /\ UNCHANGED <<seen, inPlan, worker, pulse, verified, lateDrives>>

Recheck ==
    /\ pc = "recheck"
    /\ IF IsCurrentIdle(active)
       THEN Goto("revalidateAgain") /\ UNCHANGED <<outcome, mission>>
       ELSE FinishWithoutMission
    /\ UNCHANGED <<task, current, seen, inPlan, worker, pulse, verified, spent,
                   lateDrives>>

\* The plan takes its versions from the snapshot read here.
RevalidateAgain ==
    /\ pc = "revalidateAgain"
    /\ \/ /\ ~ContextHolds
          /\ RetryOrFinish
          /\ UNCHANGED <<current, inPlan>>
       \/ /\ ContextHolds
          /\ Goto("plan")
          /\ current' = current \cup {"snapshot", "plan"}
          /\ inPlan' = TRUE
          /\ UNCHANGED <<outcome, mission, task, spent>>
    /\ UNCHANGED <<seen, worker, pulse, verified, lateDrives>>

-----------------------------------------------------------------------------
(* The mission: _dispatch_mission, MissionRunner.run, NavigationEpisode.run *)

\* The plan is refused unless the plant is exactly the one it was made for.
Plan ==
    /\ pc = "plan"
    /\ \/ clock >= 1 /\ FinishWithoutMission /\ UNCHANGED <<current, inPlan>>
       \/ /\ clock = 0
          /\ "snapshot" \notin current
          /\ FinishMission("stop", "stale")
          /\ current' = current \cup {"snapshot"}
          /\ inPlan' = ("plan" \in current)
       \/ /\ clock = 0
          /\ "snapshot" \in current
          /\ Goto("leg")
          /\ UNCHANGED <<current, inPlan, outcome, mission>>
    /\ UNCHANGED <<task, seen, worker, pulse, verified, spent, lateDrives>>

Leg ==
    /\ pc = "leg"
    /\ current' = current \cup {"snapshot"}
    /\ inPlan' = ("plan" \in current)
    /\ \/ MissionCancelled /\ FinishMission("stop", "aborted")
       \/ ~MissionCancelled /\ ~inPlan' /\ FinishMission("stop", "stale")
       \/ ~MissionCancelled /\ FinishMission("stop", "ended")   \* no budget
       \/ /\ ~MissionCancelled
          /\ inPlan'
          /\ Goto("episode")
          /\ UNCHANGED <<outcome, mission>>
    /\ UNCHANGED <<task, seen, worker, pulse, verified, spent, lateDrives>>

\* The episode reads the plant for itself before its first tick.
Episode ==
    /\ pc = "episode"
    /\ Goto("tick")
    /\ current' = current \cup {"snapshot"}
    /\ inPlan' = ("plan" \in current)
    /\ UNCHANGED <<task, seen, worker, pulse, outcome, verified, mission, spent,
                   lateDrives>>

\* Variant: an episode does not watch the world it was planned in.
EpisodeMayGo_AnyWorld == ~MissionCancelled /\ ~unsafe

\* Nothing at the head of a tick ends the episode.
EpisodeMayGo == ~MissionCancelled /\ ~unsafe /\ inPlan

\* From the head of the loop to the supervisor's decision.  "ended" also
\* stands for the tick, proposal, replan and time budgets.
Tick ==
    /\ pc = "tick"
    /\ \/ /\ EpisodeMayGo
          /\ task["actions"] < Remaining("actions")
          /\ Goto("dispatch")
          /\ pulse' \in {"DRIVE", "STOP"}
          /\ UNCHANGED <<outcome, mission>>
       \/ /\ UNCHANGED pulse
          /\ \/ MissionCancelled /\ FinishMission("brake", "aborted")
             \/ ~MissionCancelled /\ FinishMission("brake", "ended")
             \/ /\ ~MissionCancelled /\ ~unsafe /\ ~inPlan
                /\ FinishMission("brake", "stale")
             \/ EpisodeMayGo /\ FinishMission("brake", "completed")
    /\ UNCHANGED <<task, current, seen, inPlan, worker, verified, spent,
                   lateDrives>>

\* The last look before the plant: a cancelled mission revokes its pulse.
Dispatch ==
    /\ pc = "dispatch"
    /\ \/ MissionCancelled /\ FinishMission("brake", "aborted")
       \/ ~MissionCancelled /\ FinishMission("brake", "ended")
       \/ /\ ~MissionCancelled
          /\ pulse = "DRIVE" => task["actions"] < Remaining("actions")
          /\ Goto("apply")
          /\ UNCHANGED <<outcome, mission>>
    /\ UNCHANGED <<task, current, seen, inPlan, worker, pulse, verified, spent,
                   lateDrives>>

\* The plant's own check of a pulse's state and world version.
PulseIsCurrent == "snapshot" \in current

DriveApplies ==
    /\ pulse = "DRIVE"
    /\ Use("actions")
    /\ lateDrives' = IF Cancelled \/ clock >= 1 THEN lateDrives + 1
                                              ELSE lateDrives
    /\ unsafe' \in {unsafe, TRUE}

StopApplies ==
    /\ pulse = "STOP"
    /\ UNCHANGED <<task, spent, lateDrives, unsafe>>

\* A drive may run into an obstacle.  Touch, no progress and a supervisor's
\* abort end the episode.
Apply ==
    /\ pc = "apply"
    /\ PulseIsCurrent
    /\ DriveApplies \/ StopApplies
    /\ current' = (current \cup {"snapshot"}) \ {"context"}
    /\ inPlan' = ("plan" \in current)
    /\ \/ ~unsafe' /\ pc' = "tick" /\ UNCHANGED <<outcome, mission>>
       \/ pc' = "brake" /\ outcome' = "ended" /\ mission' = TRUE
    /\ pulse' = "STOP"
    /\ UNCHANGED <<authorityVars, once, session, duty, clock, seen, worker,
                   verified>>

\* STALE_DISPATCH: observe again, give up or spend one of the replans.  Only
\* a new world outdates this plant while the lease holds, so it gives up.
ApplyIsStale ==
    /\ pc = "apply"
    /\ ~PulseIsCurrent
    /\ current' = current \cup {"snapshot"}
    /\ inPlan' = ("plan" \in current)
    /\ \/ ~inPlan' /\ FinishMission("brake", "stale")
       \/ inPlan' /\ FinishMission("brake", "ended")
       \/ inPlan' /\ Goto("tick") /\ UNCHANGED <<outcome, mission>>
    /\ UNCHANGED <<task, seen, worker, pulse, verified, spent, lateDrives>>

-----------------------------------------------------------------------------
(* The end of a task                                                       *)

\* _verified_stop: read the plant, then stop exactly that state.
Stop ==
    /\ pc = "stop"
    /\ Goto("brake")
    /\ current' = current \cup {"snapshot"}
    /\ UNCHANGED <<task, seen, inPlan, worker, pulse, outcome, verified,
                   mission, spent, lateDrives>>

\* A world that changed since the snapshot makes the stop a stale pulse; an
\* unverified stop is never a completed or a stale mission.
Brake ==
    /\ pc = "brake"
    /\ verified' = PulseIsCurrent
    /\ current' = IF PulseIsCurrent THEN current \ {"context"} ELSE current
    /\ Goto(IF PulseIsCurrent /\ outcome = "completed" THEN "boundary"
                                                       ELSE "release")
    /\ UNCHANGED <<task, seen, inPlan, worker, pulse, outcome, mission, spent,
                   lateDrives>>

\* The mission looks once more at the world before it calls itself complete.
Boundary ==
    /\ pc = "boundary"
    /\ current' = current \cup {"snapshot"}
    /\ inPlan' = ("plan" \in current)
    /\ \/ ~inPlan' /\ FinishMission("stop", "stale")
       \/ inPlan' /\ FinishMission("release", "completed")
       \/ inPlan' /\ FinishMission("release", "ended")     \* out of time
    /\ UNCHANGED <<task, seen, worker, pulse, verified, spent, lateDrives>>

\* IDLE_MISSION_STALE: the world or the deadline, and not the user, ended it.
MissionIsStale ==
    \/ outcome = "stale"
    \/ outcome = "aborted" /\ ~Cancelled /\ clock >= 1

\* Variant: a task that ended without a mission is not accounted.
Charge_MissionsOnly(used, k) ==
    IF k = "tasks" THEN used[k] + 1
    ELSE IF mission THEN used[k] + task[k] ELSE used[k]

\* _account_duty_task_unlocked, and the session's own sums
Charge(used, k) == IF k = "tasks" THEN used[k] + 1 ELSE used[k] + task[k]

\* _classify_mission, _account_duty_task_unlocked and the end of the session
\* loop's body: a stale mission is tried again while replans last.
TaskReturns(safe) ==
    LET sessionUsed == [k \in Budget |-> Charge(session, k)]
        dutyUsed == [k \in Budget |-> Charge(duty, k)]
        again == /\ safe
                 /\ mission
                 /\ MissionIsStale
                 /\ ~once
                 /\ sessionUsed["replans"] < SessionLimit["replans"]
                 /\ dutyUsed["replans"] < DutyLimit["replans"]
        more == IF again THEN 1 ELSE 0
        goesOn == ~once /\ (again \/ (safe /\ outcome = "completed"))
    IN  /\ pc' = IF goesOn THEN "next" ELSE "rest"
        /\ once' = FALSE
        /\ session' = IF goesOn
                      THEN [sessionUsed EXCEPT !["replans"] = @ + more]
                      ELSE [k \in Budget |-> 0]
        /\ duty' = [dutyUsed EXCEPT !["replans"] = @ + more]
        /\ spent' = [spent EXCEPT !["replans"] = @ + more]
        /\ task' = Unused

\* Variant: a stop that failed leaves the lease for a later task.
ReleaseIsPossible_Verified == verified

\* Without any snapshot there is nothing to release the lease with.
ReleaseIsPossible == verified \/ seen

\* What the task knew goes with it.
FinishRelease ==
    /\ pc = "release"
    /\ LET safe == verified /\ ~unsafe
       IN  /\ IF ReleaseIsPossible
              THEN Release(active, safe) /\ seen' = FALSE
              ELSE UNCHANGED <<authorityVars, seen>>
           /\ TaskReturns(safe)
    /\ current' = {}
    /\ inPlan' = FALSE
    /\ outcome' = "ended"
    /\ verified' = FALSE
    /\ mission' = FALSE
    /\ lateDrives' = 0
    /\ UNCHANGED <<clock, unsafe, worker, pulse>>

-----------------------------------------------------------------------------
(* Everybody else                                                          *)

\* A deadline passes.  The duty cycle's runs from its first task.
DeadlinePasses ==
    /\ clock < 3
    /\ clock' \in {c \in Deadline : c > clock}
    /\ pc \in {"rest", "rearm"} => clock' = 3
    /\ clock' = 3 => InTask \/ duty["tasks"] > 0
    /\ UNCHANGED <<authorityVars, pc, once, session, duty, task, current, seen,
                   inPlan, unsafe, worker, pulse, outcome, verified, mission,
                   spent, lateDrives>>

\* update_world: every version anybody holds is outdated.
WorldChanges ==
    /\ current # {}
    /\ current' = {}
    /\ UNCHANGED <<authorityVars, pc, once, session, duty, task, clock, seen,
                   inPlan, unsafe, worker, pulse, outcome, verified, mission,
                   spent, lateDrives>>

\* The selector returns, or a discarded one does at last.
WorkerReturns ==
    /\ worker \in {"asked", "late"}
    /\ worker' = IF worker = "asked" THEN "done" ELSE "none"
    /\ UNCHANGED <<authorityVars, pc, once, session, duty, task, clock, current,
                   seen, inPlan, unsafe, pulse, outcome, verified, mission,
                   spent, lateDrives>>

UserClaims ==
    /\ \/ \E request \in UserRequest : ReserveUser(request)
       \/ CancelUserReservation
    /\ UNCHANGED explorerVars

UserActivates == ActivateUser /\ UNCHANGED explorerVars

\* The user's goal moves the robot, which outdates all that is known of it,
\* and may end in a collision.
UserMoves ==
    /\ active.owner = "USER"
    /\ current' = {}
    /\ unsafe' \in {unsafe, TRUE}
    /\ UNCHANGED <<authorityVars, pc, once, session, duty, task, clock, seen,
                   inPlan, worker, pulse, outcome, verified, mission, spent,
                   lateDrives>>

UserReleases ==
    /\ active.owner = "USER"
    /\ \E stopped \in BOOLEAN : Release(active, stopped /\ ~unsafe)
    /\ UNCHANGED explorerVars

OperatorSwitches ==
    /\ \E enabled \in BOOLEAN : SetIdleEnabled(enabled)
    /\ UNCHANGED explorerVars

-----------------------------------------------------------------------------
Explore ==
    \/ SessionEnds \/ TaskStarts \/ RearmEnds
    \/ Check \/ Observe \/ Ask \/ Wait \/ Answered
    \/ Revalidate \/ Recheck \/ RevalidateAgain
    \/ Plan \/ Leg \/ Episode \/ Tick \/ Dispatch \/ Apply \/ ApplyIsStale
    \/ Stop \/ Brake \/ Boundary \/ FinishRelease

Environment ==
    \/ SessionStarts \/ RearmBegins
    \/ DeadlinePasses \/ WorldChanges \/ WorkerReturns
    \/ UserClaims \/ UserMoves \/ UserReleases \/ OperatorSwitches

Next == Explore \/ Environment \/ UserActivates

Spec == Init /\ [][Next]_vars

\* The explorer's thread runs and a user who may activate does so.  The
\* model behind the selector is owed nothing: it may never answer.
FairSpec == Spec /\ WF_vars(Explore) /\ WF_vars(UserActivates)

(***************************************************************************)
(* Properties                                                              *)
(***************************************************************************)

\* Whatever the order of reservation, disabling and deadline, at most the
\* one pulse already past its last check is applied after the cancellation.
AtMostOneLatePulse == lateDrives <= 1

\* A pulse the plant is about to accept belongs to the idle lease and to the
\* very world in which the model was offered the goal it drives to.
DriveMatchesMenu ==
    pc = "apply" /\ PulseIsCurrent => "menu" \in current /\ IdleHolds

\* A running task holds the idle lease, and a task that has returned left it
\* behind only if it never saw the robot at all.
LeaseEndsWithItsTask ==
    /\ InTask => IdleHolds
    /\ IdleHolds /\ ~InTask => ~seen

\* The persistent budgets bound what the explorer really does, over all
\* tasks, sessions and re-arm attempts of a duty cycle.
DutyWithinBudget == \A k \in Budget : spent[k] <= DutyLimit[k]

\* Budgets come back only while nothing owns or awaits the robot, idling is
\* off, the robot is safe and no selector is alive.
ResetIsQuiet ==
    /\ active = NoLease
    /\ pending = NoReservation
    /\ ~idleEnabled
    /\ ~unsafe
    /\ worker = "none"

BudgetResetIsQuiet ==
    [][(\E k \in Budget : duty'[k] < duty[k]) => ResetIsQuiet]_vars

\* A user who waits gets the robot, even if the model never answers, unless
\* the claim ends or a task stranded its lease.
WaitingUserIsServed ==
    pending # NoReservation ~>
        pending = NoReservation \/ (IdleHolds /\ ~InTask)

=============================================================================
