------------------------- MODULE PhysicalNavigation -------------------------
(***************************************************************************)
(* The physical navigation episode (physical_navigation_runtime.py and its *)
(* motion, plan tail, route and scan mixins), over its transport to the    *)
(* EV3 (ev3_navigation_transport.py), the worker there (NavigationWorker)  *)
(* and the persistent memory (NavigationMemory).                           *)
(*                                                                         *)
(* One episode after the other loads the memory, or begins a new one as    *)
(* the EV3 profile does (ev3rstorm_profile.py), opens a worker session,    *)
(* and turns model decisions into requests: pulses with their tails,       *)
(* authorised routes, scans, observations.  A session may be renewed, an   *)
(* operator may stop the episode at any time, a request may time out, a    *)
(* save may fail, the host may crash, and somebody may push the robot.     *)
(*                                                                         *)
(* The planner's validation attempts are one step with their joint result; *)
(* deadlines, budgets and vetoes other than the latched fault are choices. *)
(***************************************************************************)
EXTENDS NavigationMemory, NavigationWorker

CONSTANTS
    Goal,           \* minimum forward progress, in encoder degrees
    MaxTurns,       \* planner turns of an episode
    MaxTail,        \* actions that may follow a planner's motion
    MaxEpisodes,
    MaxMotions,     \* pulses and scans of all episodes together
    MaxMishaps,     \* crashes, failed saves and pushes, together
    PushPhases,     \* where in an episode the robot may be pushed
    ScanTolerance,  \* alignment_tolerance_mdeg, in encoder degrees
    Resets,         \* whether an episode may, or must, begin a new memory
    NoOrigin        \* a mission that has not begun

ASSUME EpisodeAssumption == /\ Goal \in Int /\ NoOrigin \notin Int
                            /\ ScanTolerance \in Nat /\ Resets \subseteq BOOLEAN

VARIABLES
    phase,      \* where run() is
    stop,       \* request_stop / emergency_stop
    aborted,    \* the transport's channel was broken
    started,    \* _transport_started
    renewing, allClean,
    plan,       \* the local state of the turn loop, see NoPlan
    ending,     \* terminal_reason; "incomplete" stands for the turn budget,
                \* the deadline, an unavailable planner or no valid answer
    outcome,    \* what run() returned or raised
    episode, mishaps, motions,
    zero,       \* where the robot was when its memory was first anchored
    origin,     \* the pose the mission began at
    truth,      \* where the robot really was then
    residue     \* what that memory accepted without accounting for it: the
                \* settling between sessions and the remainders of scans

session == <<aborted, started, renewing, allClean>>
goal == <<zero, origin, truth, residue, episode>>
mission == <<goal, motions>>
vars == <<memoryVars, workerVars, phase, stop, session, plan, ending, outcome,
          mission, mishaps>>

(* Requests the stop of an episode interrupts by breaking the channel.     *)
Cancellable == {"pulse", "scanOut", "scanRead", "scanBack", "scanFinal"}
Scanning == {"scanOut", "scanRead", "scanStop", "scanBack", "scanFinal"}
Asking == Cancellable \cup Scanning \cup {"describe", "observe", "reanchor"}

(* turn and deferred; who goes on after a completed motion, and how many   *)
(* more actions it may take; what the receipts of a scan add up to; and    *)
(* motion_fault_latched in the latest observation.                         *)
NoPlan == [turn |-> 0, deferred |-> FALSE, driver |-> "plan", tail |-> 0,
           turned |-> 0, latched |-> FALSE]

Init ==
    /\ memory = Fresh /\ disk = Fresh
    /\ worker = "none" /\ by = 0 /\ link = "none" /\ boot = NoBoot
    /\ frame = "none" /\ job = "none" /\ done = 0 /\ travel = 0
    /\ fault = FALSE /\ reply = NoReply /\ wheels = 0
    /\ phase = "off" /\ stop = "no"
    /\ aborted = FALSE /\ started = FALSE /\ renewing = FALSE /\ allClean = TRUE
    /\ plan = NoPlan /\ ending = "none" /\ outcome = "none"
    /\ zero = 0 /\ origin = NoOrigin /\ truth = 0 /\ residue = 0 /\ episode = 0
    /\ mishaps = 0 /\ motions = 0

Stopped == stop # "no"
Heard(op) == phase = op /\ reply.kind = "ok"

(* A save may fail while mishaps are left.                                 *)
Saves == IF mishaps < MaxMishaps THEN BOOLEAN ELSE {TRUE}
Counted(saved) == mishaps' = IF saved THEN mishaps ELSE mishaps + 1

Ask(op) == frame' = op /\ reply' = NoReply
Drive(op) == /\ motions < MaxMotions /\ motions' = motions + 1
             /\ Ask(op)
NoRequest == UNCHANGED frame /\ reply' = NoReply

(* What run() held of its plan is gone with its loop.                      *)
Leave(why) == phase' = "cleanup" /\ ending' = why /\ plan' = NoPlan

Loops(to) == phase' = to /\ UNCHANGED ending
Idle == /\ phase' = "off" /\ stop' = "no" /\ ending' = "none"
        /\ aborted' = FALSE /\ started' = FALSE
        /\ renewing' = FALSE /\ allClean' = TRUE /\ plan' = NoPlan
Why == IF Stopped THEN "cancelled" ELSE "fault"

workerSide == <<worker, process, motion, fault, wheels>>

-----------------------------------------------------------------------------
(* The operator, the transport's abort, and mishaps.                       *)

Closing(channel) == IF channel = "open" THEN "closing" ELSE channel

Hangup ==
    /\ link' = Closing(link)
    /\ boot' = [boot EXCEPT !.link = Closing(boot.link)]
    /\ UNCHANGED <<worker, by, motion, fault, wheels>>

RequestStop ==
    /\ phase # "off" /\ stop = "no"
    /\ stop' = "stop"
    /\ UNCHANGED <<memoryVars, workerVars, phase, session, plan,
                   ending, outcome, mission, mishaps>>

EmergencyStop ==
    /\ phase # "off" /\ stop # "emergency"
    /\ stop' = "emergency"
    /\ aborted' = TRUE /\ Hangup
    /\ UNCHANGED <<memoryVars, frame, reply, phase, started, renewing,
                   allClean, plan, ending, outcome, mission, mishaps>>

HostCrashes ==
    /\ phase # "off" /\ mishaps < MaxMishaps
    /\ Idle /\ outcome' = "crashed" /\ mishaps' = mishaps + 1
    /\ Load /\ Hangup /\ NoRequest
    /\ UNCHANGED mission

(* Somebody moves the robot: its wheels turn.                              *)
Pushed ==
    /\ phase \in PushPhases /\ mishaps < MaxMishaps
    /\ worker \in {"none", "ready"}
    /\ \E by_hand \in 1..SliceTravel : wheels' = wheels + by_hand
    /\ mishaps' = mishaps + 1
    /\ UNCHANGED <<memoryVars, worker, process, frame, motion, fault, reply,
                   phase, stop, session, plan, ending, outcome,
                   mission>>

-----------------------------------------------------------------------------
(* Starting an episode and opening a worker session.                       *)

(* A new memory is written before anything else is done; should that fail, *)
(* there is no episode.                                                    *)
StartEpisode ==
    /\ phase = "off" /\ episode < MaxEpisodes
    /\ \E reset \in Resets :
          IF reset THEN Save(Fresh, TRUE) ELSE Load
    /\ phase' = "start" /\ episode' = episode + 1
    /\ outcome' = "none" /\ origin' = NoOrigin /\ truth' = 0
    /\ UNCHANGED <<workerVars, stop, session, plan, ending, zero, residue,
                   motions, mishaps>>

(* The frame of an older process is lost with its channel.                 *)
OpensWorker ==
    /\ phase = "start" /\ ~Stopped
    /\ phase' = "describe" /\ started' = TRUE /\ aborted' = FALSE
    /\ boot' = [link |-> "open", by |-> episode]
    /\ Ask("describe")
    /\ UNCHANGED <<memoryVars, worker, by, link, motion, fault, wheels, stop,
                   renewing, allClean, plan, ending, outcome, mission,
                   mishaps>>

OpenFails ==
    /\ phase = "start"
    /\ Leave(Why)
    /\ UNCHANGED <<memoryVars, workerVars, stop, session, outcome, mission,
                   mishaps>>

Described ==
    /\ Heard("describe")
    /\ NoRequest /\ UNCHANGED workerSide
    /\ \E saved \in Saves :
          IF Stopped
          THEN /\ Leave("cancelled")
               /\ UNCHANGED <<memoryVars, mishaps, zero, origin, truth, residue>>
          ELSE /\ Save(BeginEpisode(memory, reply.at), saved)
               /\ Counted(saved)
               /\ IF Settled(memory, reply.at) /\ saved
                  THEN /\ Loops(IF origin = NoOrigin THEN "loop" ELSE "turn")
                       /\ plan' = [plan EXCEPT !.latched = reply.fault]
                       /\ origin' = IF origin = NoOrigin
                                    THEN memory.pose ELSE origin
                       /\ truth' = IF origin = NoOrigin THEN wheels ELSE truth
                       /\ IF memory.anchor = NoAnchor
                          THEN zero' = wheels /\ residue' = 0
                          ELSE /\ residue' = residue + Accepted(memory, reply.at)
                               /\ UNCHANGED zero
                  ELSE /\ Leave("fault")
                       /\ UNCHANGED <<zero, origin, truth, residue>>
    /\ UNCHANGED <<stop, session, outcome, episode, motions>>

-----------------------------------------------------------------------------
(* The turn loop and the planner.                                          *)

aside == <<memoryVars, workerSide, stop, session, outcome, goal, mishaps>>
hostOnly == <<aside, motions>>

TurnsTaken_Never == plan.turn

TurnsTaken == plan.turn + 1

(* The loop ends in a stop, at its turn budget or at the deadline; a       *)
(* session that is used up, or whose fault is latched, is renewed first.   *)
EndsLoop ==
    /\ phase = "loop" /\ NoRequest
    /\ \/ Stopped /\ plan.turn < MaxTurns /\ Leave("cancelled")
       \/ plan.turn = MaxTurns /\ Leave("incomplete")
       \/ ~Stopped /\ Leave("incomplete")
    /\ UNCHANGED hostOnly

BeginsTurn ==
    /\ phase = "loop" /\ ~Stopped /\ plan.turn < MaxTurns /\ NoRequest
    /\ \E to \in IF plan.latched THEN {"renew"} ELSE {"turn", "renew"} : Loops(to)
    /\ plan' = [plan EXCEPT !.turn = TurnsTaken, !.driver = "plan",
                           !.tail = 0, !.turned = 0]
    /\ UNCHANGED hostOnly

(* An active route goes on unless the planner still owes an answer.        *)
ChoosesDriver ==
    /\ phase = "turn" /\ NoRequest
    /\ \/ Loops("plan") /\ UNCHANGED plan
       \/ /\ ~plan.deferred /\ Loops("next")
          /\ plan' = [plan EXCEPT !.driver = "route", !.tail = MaxTail]
    /\ UNCHANGED hostOnly

(* The planner is unavailable, late, or its answers came after a stop.     *)
PlannerEnds ==
    /\ phase = "plan" /\ NoRequest
    /\ \/ Stopped /\ Leave("cancelled")
       \/ ~Stopped /\ Leave("incomplete")
    /\ UNCHANGED hostOnly

(* Every answer was vetoed: once is put off to the next turn.              *)
PlannerDefers ==
    /\ phase = "plan" /\ ~Stopped /\ NoRequest
    /\ IF plan.deferred THEN Leave("incomplete")
       ELSE Loops("loop") /\ plan' = [plan EXCEPT !.deferred = TRUE]
    /\ UNCHANGED hostOnly

MissionCompleted_Halfway == memory.valid /\ memory.pose - origin >= SliceTravel

MissionCompleted == memory.valid /\ memory.pose - origin >= Goal

(* A motion under a latched fault is vetoed; others may be.                *)
MayMove_Always == TRUE

MayMove == ~plan.latched

(* FINISH, OBSERVE, SCAN, a route proposal, or a motion with its tail.     *)
PlannerDecides ==
    /\ phase = "plan" /\ ~Stopped
    /\ LET decided(driver, tail) ==
              plan' = [plan EXCEPT !.deferred = FALSE, !.driver = driver,
                                   !.tail = tail, !.turned = 0]
       IN \/ /\ MissionCompleted
             /\ Leave("goal_completed") /\ NoRequest /\ UNCHANGED motions
          \/ /\ Loops("observe") /\ decided("plan", 0)
             /\ Ask("observe") /\ UNCHANGED motions
          \/ /\ Loops("scanOut") /\ decided("scan", 0) /\ Drive("turnOut")
          \/ /\ Loops("loop") /\ decided("plan", 0)
             /\ NoRequest /\ UNCHANGED motions
          \/ /\ MayMove
             /\ Loops("pulse") /\ decided("tail", MaxTail) /\ Drive("pulse")
    /\ UNCHANGED aside

(* The next action of a tail or of a route, or the end of it.              *)
GoesOn ==
    /\ phase = "next"
    /\ \/ /\ Stopped /\ Leave("cancelled") /\ NoRequest /\ UNCHANGED motions
       \/ /\ plan.driver = "route" /\ ~Stopped
          /\ Leave("incomplete") /\ NoRequest /\ UNCHANGED motions
       \/ /\ ~Stopped /\ Loops(IF plan.driver = "route" THEN "plan" ELSE "loop")
          /\ NoRequest /\ UNCHANGED <<plan, motions>>
       \/ /\ ~Stopped /\ plan.tail > 0 /\ memory.valid /\ MayMove
          /\ Loops("pulse") /\ Drive("pulse")
          /\ plan' = [plan EXCEPT !.tail = @ - 1]
    /\ UNCHANGED aside

-----------------------------------------------------------------------------
(* Motion and observation.                                                 *)

(* Only a completed motion is followed by another; an interrupted one of a *)
(* route may be followed by a side probe.                                  *)
AfterMotion ==
    IF reply.status = "completed" THEN {"next"}
    ELSE IF plan.driver = "route" THEN {"plan", "scanOut"} ELSE {"loop"}

PulseReturns ==
    /\ Heard("pulse") /\ ~Stopped
    /\ \E saved \in Saves :
          /\ Save(Travelled(memory, reply.travel, reply.at), saved)
          /\ Counted(saved)
          /\ IF saved
             THEN \E to \in AfterMotion :
                    /\ Loops(to)
                    /\ plan' = [plan EXCEPT !.latched = reply.fault]
                    /\ IF to = "scanOut" THEN Drive("turnOut")
                       ELSE NoRequest /\ UNCHANGED motions
             ELSE Leave("fault") /\ NoRequest /\ UNCHANGED motions
    /\ UNCHANGED <<workerSide, stop, session, outcome, goal>>

ObserveReturns ==
    /\ Heard("observe") /\ NoRequest
    /\ \E saved \in Saves :
          IF Stopped
          THEN Leave("cancelled") /\ UNCHANGED <<memoryVars, mishaps>>
          ELSE /\ Save(Observed(memory, reply.at), saved)
               /\ Counted(saved)
               /\ IF saved /\ AtRest(memory, reply.at)
                  THEN /\ Loops("loop")
                       /\ plan' = [plan EXCEPT !.latched = reply.fault]
                  ELSE Leave("fault")
    /\ UNCHANGED <<workerSide, stop, session, outcome, mission>>

-----------------------------------------------------------------------------
(* The active scan: a turn out, a sample, a stop, a turn back if the first *)
(* turn was made, a final sample, and the observation that re-anchors.     *)

(* Only a verified turn counts.  After the turn out a stop or the soft     *)
(* deadline skip the sample; a turn out that was denied before it began    *)
(* leaves nothing to restore.                                              *)
ScanTurns ==
    /\ \/ /\ Heard("scanOut") /\ reply.status = "completed"
          /\ \/ ~Stopped /\ Loops("scanRead") /\ Ask("sample")
             \/ Loops("scanStop") /\ Ask("stop")
       \/ /\ Heard("scanOut") /\ reply.status = "denied" /\ ~reply.fault /\ ~Stopped
          /\ Loops("scanFinal") /\ Ask("sample")
       \/ /\ Heard("scanBack") /\ reply.status = "completed" /\ ~Stopped
          /\ Loops("scanFinal") /\ Ask("sample")
    /\ plan' = [plan EXCEPT !.turned = @ + reply.travel, !.latched = reply.fault]
    /\ UNCHANGED <<workerSide, memoryVars, stop, session, outcome, mission,
                   mishaps>>

ScanReads ==
    /\ Heard("scanRead")
    /\ phase' = "scanStop" /\ Ask("stop")
    /\ UNCHANGED <<workerSide, memoryVars, stop, session, plan, ending,
                   outcome, mission, mishaps>>

(* A stopped scan turns back by its nominal offset, whatever the encoders  *)
(* made of the turn out, unless safety forbids it.                         *)
ScanRestores ==
    /\ Heard("scanStop") /\ ~Stopped /\ ~plan.latched
    /\ phase' = "scanBack" /\ Ask("turnBack")
    /\ UNCHANGED <<workerSide, memoryVars, stop, session, plan, ending,
                   outcome, mission, mishaps>>

(* The heading the encoders add up to is near the one the scan began at.   *)
Restored_Always == TRUE

Restored == Distance(plan.turned, 0) <= ScanTolerance

ScanReturns ==
    /\ Heard("scanFinal") /\ Restored /\ ~Stopped
    /\ phase' = "reanchor" /\ Ask("observe")
    /\ UNCHANGED <<workerSide, memoryVars, stop, session, plan, ending,
                   outcome, mission, mishaps>>

(* An unrestored heading, a stop, a turn without a verified end, or touch  *)
(* and faults during the scan: the pose is not trusted any more.           *)
ScanFails ==
    /\ \/ Heard("scanOut") /\ reply.status # "completed"
       \/ Heard("scanBack") /\ (Stopped \/ reply.status # "completed")
       \/ Heard("scanFinal") /\ (Stopped \/ ~Restored)
       \/ Heard("scanStop")
       \/ Heard("reanchor") /\ Stopped
    /\ \E saved \in Saves : Save(Invalid(memory), saved) /\ Counted(saved)
    /\ Leave(Why) /\ NoRequest
    /\ UNCHANGED <<workerSide, stop, session, outcome, mission>>

(* How much of the turns a scan may leave.                                 *)
Remainder == IF Distance(plan.turned, 0) <= ScanTolerance
             THEN Distance(plan.turned, 0) ELSE ScanTolerance

(* The pose is kept, and with it what the scan left of its turns.          *)
Reanchored ==
    /\ Heard("reanchor") /\ ~Stopped /\ NoRequest
    /\ \E saved \in Saves :
          /\ Counted(saved)
          /\ IF saved
             THEN /\ Save(Rescanned(memory, reply.at), TRUE)
                  /\ residue' = residue + Remainder
                  /\ \E to \in IF plan.driver = "route" THEN {"next", "plan"}
                              ELSE {"loop"} : Loops(to)
                  /\ plan' = [plan EXCEPT !.turned = 0, !.latched = reply.fault]
             ELSE /\ \E again \in BOOLEAN :
                       Save(Invalid(Rescanned(memory, reply.at)), again)
                  /\ Leave("fault") /\ UNCHANGED residue
    /\ UNCHANGED <<workerSide, stop, session, outcome, zero, origin, truth, episode,
                   motions>>

-----------------------------------------------------------------------------
(* A request without a usable answer: its deadline passed, the output      *)
(* ended, the worker reported an error, or the stop interrupted it.  The   *)
(* transport breaks the channel unless the worker only refused.            *)

Invalidates == phase \in Scanning \cup {"reanchor"} \/ (phase = "pulse" /\ Stopped)

RequestFails ==
    /\ phase \in Asking /\ NoRequest
    /\ \/ reply.kind = "refused" /\ UNCHANGED <<workerSide, aborted>>
       \/ aborted' = TRUE /\ Hangup
    /\ IF Invalidates
       THEN \E saved \in Saves : Save(Invalid(memory), saved) /\ Counted(saved)
       ELSE UNCHANGED <<memoryVars, mishaps>>
    /\ Leave(Why)
    /\ UNCHANGED <<stop, started, renewing, allClean, outcome, mission>>

-----------------------------------------------------------------------------
(* Shutting a session down, for a renewal or for good.                     *)

Ends_LastOnly(clean) ==
    /\ Idle /\ Load
    /\ outcome' = IF clean THEN ending ELSE "unverified"

Ends(clean) ==
    /\ Idle /\ Load
    /\ outcome' = IF clean /\ allClean THEN ending ELSE "unverified"

BeginsShutdown ==
    /\ \/ phase = "cleanup" /\ renewing' = FALSE
       \/ phase = "renew" /\ ~Stopped /\ renewing' = TRUE
    /\ started /\ ~aborted
    /\ Loops("shutdown") /\ Ask("shutdown")
    /\ UNCHANGED <<workerSide, memoryVars, stop, aborted, started, allClean,
                   plan, outcome, mission, mishaps>>

RenewalCancelled ==
    /\ phase = "renew" /\ Stopped
    /\ Leave("cancelled") /\ NoRequest
    /\ UNCHANGED hostOnly

NothingToClose ==
    /\ phase = "cleanup" /\ ~started
    /\ Ends(TRUE)
    /\ UNCHANGED <<workerVars, mission, mishaps>>

(* After the response, or without one, the transport is closed.            *)
Shutdown(clean) ==
    /\ Hangup /\ NoRequest
    /\ IF phase = "shutdown" /\ renewing
       THEN /\ started' = FALSE /\ renewing' = FALSE
            /\ allClean' = (allClean /\ clean)
            /\ IF clean /\ ~Stopped THEN Loops("start") /\ UNCHANGED plan
               ELSE Leave(IF clean THEN "cancelled" ELSE "fault")
            /\ UNCHANGED <<memoryVars, stop, aborted, outcome>>
       ELSE Ends(clean)
    /\ UNCHANGED <<mission, mishaps>>

ShutdownReturns == Heard("shutdown") /\ Shutdown(TRUE)

ShutdownFails ==
    /\ phase = "shutdown" \/ (phase = "cleanup" /\ started /\ aborted)
    /\ Shutdown(FALSE)

-----------------------------------------------------------------------------
HostGoesOn ==
    \/ OpensWorker \/ OpenFails \/ Described
    \/ EndsLoop \/ BeginsTurn \/ ChoosesDriver
    \/ PlannerEnds \/ PlannerDefers \/ PlannerDecides \/ GoesOn
    \/ PulseReturns \/ ObserveReturns
    \/ ScanTurns \/ ScanReads \/ ScanRestores \/ ScanReturns \/ ScanFails
    \/ Reanchored \/ RequestFails
    \/ BeginsShutdown \/ RenewalCancelled \/ NothingToClose
    \/ ShutdownReturns \/ ShutdownFails

hostVars == <<memoryVars, phase, stop, session, plan, ending, outcome,
              mission, mishaps>>

Next ==
    \/ HostGoesOn
    \/ StartEpisode \/ RequestStop \/ EmergencyStop \/ HostCrashes \/ Pushed
    \/ WorkerStep /\ UNCHANGED hostVars

(* The host's waits are bounded by their timeouts and the planner's call   *)
(* by its own; a worker that runs goes on running.  Nothing makes a worker *)
(* come up.                                                                *)
Spec == /\ Init /\ [][Next]_vars
        /\ WF_vars(HostGoesOn)
        /\ WF_vars(WorkerGoesOn /\ UNCHANGED hostVars)

-----------------------------------------------------------------------------
(* PoseIsTrue: whenever an episode is at a point where it decides what to   *)
(* do next and its memory says the pose is valid, the pose accounts for     *)
(* every movement of the robot since the memory was first anchored, up to   *)
(* what it accepted: the settling when a session begins, and the remainder  *)
(* of a scan that ended within its tolerance - through lost responses,      *)
(* interrupted scans, crashes between a motion and its save, saves that     *)
(* fail, and pushes between episodes (begin_episode, apply_motion_result,   *)
(* ingest_verified_scan_completion).                                        *)
PoseIsTrue ==
    phase \in {"loop", "turn", "plan", "next"} /\ memory.valid
        => Distance(wheels - zero, memory.pose) <= residue

(* GoalWasReached: an episode that reports its goal as completed really    *)
(* moved the robot that far, up to the same settling and remainders.       *)
GoalWasReached ==
    phase = "off" /\ outcome = "goal_completed" =>
        wheels - truth >= Goal - residue

(* CleanMeansReleased: an episode that ends without                        *)
(* physical_shutdown_unverified has left no worker of its own behind that  *)
(* holds the motors, of any of its sessions.                               *)
CleanMeansReleased ==
    phase = "off" /\ outcome \notin {"none", "crashed", "unverified"} =>
        ~(worker # "none" /\ by = episode)

(* FaultIsNotDriven: no pulse is sent to a worker whose motion fault is     *)
(* latched, although a route hands over to the planner inside a turn,       *)
(* after the point where the session would be renewed.                      *)
FaultIsNotDriven == ~(frame = "pulse" /\ worker = "ready" /\ boot = NoBoot /\ fault)

(* EpisodeEnds: every episode comes to its end, stopped or not, whatever   *)
(* becomes of the worker and the channel.                                  *)
EpisodeEnds == phase # "off" ~> phase = "off"

=============================================================================
