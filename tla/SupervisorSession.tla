------------------------- MODULE SupervisorSession -------------------------
(***************************************************************************)
(* The process around EV3Supervisor: ForegroundSupervisorSession with its  *)
(* reader and writer threads, SupervisorProtocol, and EV3SupervisorLoop on *)
(* the dispatch thread, which polls against a deadline and serves at most  *)
(* one request per poll.  A stop request does not wait for its turn: it    *)
(* sets an event that the loop looks at before and after everything.       *)
(*                                                                         *)
(* A queue is its length, as the client may have put anything into it; the *)
(* request is chosen when it is taken.  Lateness is nondeterministic, so   *)
(* the deadline shift that excuses a requested stop is left out.           *)
(***************************************************************************)
EXTENDS Ev3Supervisor

CONSTANTS
    NormalQueue,   \* NORMAL_QUEUE_SIZE
    UrgentQueue,   \* URGENT_QUEUE_SIZE
    OutputQueue    \* OUTPUT_QUEUE_SIZE

ASSUME QueueAssumption ==
    /\ NormalQueue \in Nat \ {0}
    /\ UrgentQueue \in Nat \ {0}
    /\ OutputQueue \in Nat \ {0}

VARIABLES
    pc,         \* what the dispatch thread does next
    overrun,    \* this cycle's poll deadline was missed before its request
    request,    \* the item being dispatched: its operation
    starting,   \* the command of a drive request
    reply,      \* whether its response is a success
    excuse,     \* post_dispatch_error
    proof,      \* _preverified_stop_status is not None
    normal,     \* items in _normal_queue
    urgent,     \* items in _urgent_queue
    output,     \* items in _output_queue
    stopEvent,  \* _emergency_stop_requested
    failing,    \* a thread in fail_transport has yet to set _shutdown
    shutdown    \* _shutdown

sessionVars == <<pc, overrun, request, starting, reply, excuse, proof, normal,
                 urgent, output, stopEvent, failing, shutdown>>
vars == <<supervisorVars, sessionVars>>

StopOperation == {"STOP", "SHUTDOWN"}
Operation == {"QUERY", "CLAIM", "HEARTBEAT", "ARM", "DRIVE", "RELEASE"}
NoRequest == "none"

\* The looks for a stop request, and what else the loop does.
Look == {"stop1", "stop2", "stop3", "after", "stop4", "complete", "published",
         "stop5"}
Starting == {"prestart", "left", "right", "started"}
Label == Look \cup Starting \cup
         {"wake", "poll", "admit", "take", "execute", "judge", "publish",
          "finish", "closing", "closeAgain", "ended"}

TypeOK ==
    /\ SupervisorTypeOK
    /\ pc \in Label
    /\ overrun \in BOOLEAN
    /\ request \in Operation \cup StopOperation \cup {NoRequest}
    /\ starting \in Command \cup {NoCommand}
    /\ reply \in BOOLEAN
    /\ excuse \in {"none", "external", "deadline", "unconfirmed"}
    /\ proof \in BOOLEAN
    /\ normal \in 0..NormalQueue
    /\ urgent \in 0..UrgentQueue
    /\ output \in 0..OutputQueue
    /\ {stopEvent, failing, shutdown} \subseteq BOOLEAN

Init ==
    /\ SupervisorInit
    /\ pc = "wake"
    /\ overrun = FALSE
    /\ request = NoRequest
    /\ starting = NoCommand
    /\ reply = FALSE
    /\ excuse = "none"
    /\ proof = FALSE
    /\ normal = 0
    /\ urgent = 0
    /\ output = 0
    /\ stopEvent \in BOOLEAN       \* _pending_request_bound_stop
    /\ failing = FALSE
    /\ shutdown = FALSE

-----------------------------------------------------------------------------
(* Helpers                                                                 *)

\* _status_proves_verified_stop of the supervisor's present status
Proves ==
    \/ state = "CLOSED"
    \/ /\ session = NoSession
       /\ command = NoCommand
       /\ state = "DISARMED" \/ (state = "FAULT_LATCHED" /\ verified)

\* _prefer_dispatch_error
Prefer(first, second) ==
    IF "unconfirmed" \in {first, second} THEN "unconfirmed"
    ELSE IF first # "none" THEN first ELSE second

\* _motion_start_cancelled
StartCancelled == shutdown \/ stopEvent

FailTransport == stopEvent' = TRUE /\ shutdown' = TRUE

Quiet == UNCHANGED <<normal, urgent, output, stopEvent, failing, shutdown>>

-----------------------------------------------------------------------------
(* The cycle up to the request: run_forever, run_once                      *)

\* shutdown_requested; a session past its deadline fails its transport.
Wake ==
    /\ pc = "wake"
    /\ \/ pc' = "closing" /\ shutdown /\ UNCHANGED <<stopEvent, shutdown>>
       \/ pc' = "closing" /\ ~shutdown /\ FailTransport
    /\ UNCHANGED <<supervisorVars, overrun, request, starting, reply, excuse,
                   proof, normal, urgent, output, failing>>

WakeInTime ==
    /\ pc = "wake"
    /\ ~shutdown
    /\ pc' = "stop1"
    /\ overrun' = FALSE
    /\ Quiet
    /\ UNCHANGED <<supervisorVars, request, starting, reply, excuse, proof>>

\* poll_deadline_missed before the poll: no poll, but still one request.
WakeLate ==
    /\ pc = "wake"
    /\ ~shutdown
    /\ EnterFault
    /\ pc' = "stop3"
    /\ overrun' = TRUE
    /\ Quiet
    /\ UNCHANGED <<request, starting, reply, excuse, proof>>

Poll ==
    /\ pc = "poll"
    /\ PollOnce
    /\ pc' = "stop2"
    /\ Quiet
    /\ UNCHANGED <<overrun, request, starting, reply, excuse, proof>>

Admit ==
    /\ pc = "admit"
    /\ \/ pc' = "take" /\ UNCHANGED <<supervisorVars, overrun>>
       \/ pc' = "stop3" /\ EnterFault /\ overrun' = TRUE
    /\ Quiet
    /\ UNCHANGED <<request, starting, reply, excuse, proof>>

-----------------------------------------------------------------------------
(* A requested stop: _perform_requested_emergency_stop                     *)

\* Where the loop goes on after a look.
After(label) ==
    CASE label = "stop1" -> "poll"
      [] label = "stop2" -> "admit"
      [] label = "stop3" -> "take"
      [] label = "after" -> IF overrun THEN "complete" ELSE "judge"
      [] label = "stop4" -> "complete"
      [] label = "complete" -> IF request = NoRequest THEN "finish"
                                                      ELSE "publish"
      [] label = "published" -> "finish"
      [] label = "stop5" -> "wake"

\* What a look that found outcome makes of the error for the response.
Excuse(label, outcome) ==
    CASE label \in {"after", "complete"} -> Prefer(outcome, excuse)
      [] label = "stop4" -> Prefer("deadline", Prefer(outcome, excuse))
      [] OTHER -> excuse

\* Variant: a supervisor that has faulted needs no stop.
StopIsDue_Faulted == stopEvent /\ state # "FAULT_LATCHED"

StopIsDue == stopEvent

\* Variant: the stop in this place is performed, and forgotten.
LookExcuse_Forgets(label, outcome) ==
    IF label = "complete" THEN excuse ELSE Excuse(label, outcome)

LookExcuse(label, outcome) == Excuse(label, outcome)

LookFindsNothing ==
    /\ pc \in Look
    /\ ~StopIsDue
    /\ pc' = After(pc)
    /\ excuse' = LookExcuse(pc, "none")
    /\ proof' = IF pc = "published" THEN FALSE ELSE proof
    /\ Quiet
    /\ UNCHANGED <<supervisorVars, overrun, request, starting, reply>>

\* A stop that is not verified ends the loop once the response is out.
LookStops ==
    /\ pc \in Look
    /\ StopIsDue
    /\ stopEvent' = FALSE
    /\ \E ok \in BOOLEAN : StopNow(ok)
    /\ LET outcome == IF Proves' THEN "external" ELSE "unconfirmed"
       IN  /\ excuse' = LookExcuse(pc, outcome)
           /\ pc' = IF pc \in {"published", "stop5"} /\ ~Proves'
                    THEN "closing" ELSE After(pc)
    /\ proof' = IF pc \in {"after", "complete", "published"} THEN FALSE
                                                             ELSE Proves'
    /\ UNCHANGED <<overrun, request, starting, reply, normal, urgent, output,
                   failing, shutdown>>

-----------------------------------------------------------------------------
(* One request: ForegroundSupervisorSession._dispatch_one, execute         *)

\* The bound on sessions is on the requests.
TakeNormal ==
    /\ pc = "take"
    /\ urgent = 0
    /\ normal > 0
    /\ normal' = normal - 1
    /\ request' \in IF issued < MaxSession THEN Operation
                                           ELSE Operation \ {"CLAIM"}
    /\ pc' = "execute"
    /\ proof' = FALSE
    /\ excuse' = "none"
    /\ UNCHANGED <<supervisorVars, overrun, starting, reply, urgent, output,
                   stopEvent, failing, shutdown>>

ProofHolds == proof /\ Proves

\* A stop already performed for this request is its answer.
TakeUrgent ==
    /\ pc = "take"
    /\ urgent > 0
    /\ urgent' = urgent - 1
    /\ request' \in StopOperation
    /\ IF ProofHolds THEN pc' = "after" /\ reply' = TRUE
                     ELSE pc' = "execute" /\ UNCHANGED reply
    /\ proof' = FALSE
    /\ excuse' = "none"
    /\ UNCHANGED <<supervisorVars, overrun, starting, normal, output,
                   stopEvent, failing, shutdown>>

TakeNothing ==
    /\ pc = "take"
    /\ urgent = 0
    /\ normal = 0
    /\ request' = NoRequest
    /\ pc' = "after"
    /\ proof' = FALSE
    /\ excuse' = "none"
    /\ Quiet
    /\ UNCHANGED <<supervisorVars, overrun, starting, reply>>

Answer(ok) ==
    /\ reply' = ok
    /\ pc' = "after"
    /\ Quiet
    /\ UNCHANGED <<overrun, request, excuse, proof>>

\* A request that has expired, or is not allowed, is an error without effect.
Execute ==
    /\ pc = "execute"
    /\ request # "DRIVE"
    /\ UNCHANGED starting
    /\ \E ok \in BOOLEAN :
        /\ Answer(ok)
        /\ \/ ~ok /\ request \notin StopOperation /\ UNCHANGED supervisorVars
           \/ request = "QUERY" /\ UNCHANGED supervisorVars
           \/ request = "CLAIM" /\ Claim(ok)
           \/ \E s \in Session, n \in Sequence :
                \/ request = "HEARTBEAT" /\ Heartbeat(s, n, ok)
                \/ request = "ARM" /\ Arm(s, n, ok)
                \/ request = "RELEASE" /\ Release(s, n, ok)
           \/ /\ request \in StopOperation
              /\ \E stopped \in BOOLEAN : StopNow(stopped)
              /\ ok = Proves'

\* Variant: the second motor follows the first without another guard.
MayStart_Unguarded(ok) == ok /\ pc # "right" => ~StartCancelled

\* external_start_guard
MayStart(ok) == ok => ~StartCancelled

\* A drive request, with its guard at every step of start_drive.
ExecuteDrive ==
    /\ pc = "execute"
    /\ request = "DRIVE"
    /\ \E c \in Command, s \in Session, n \in Sequence,
          reference \in Sequence, ok \in BOOLEAN :
        /\ MayStart(ok)
        /\ Accept(s, n, c, reference, ok)
        /\ IF ok
           THEN /\ pc' = "prestart"
                /\ starting' = c
                /\ Quiet
                /\ UNCHANGED <<overrun, request, reply, excuse, proof>>
           ELSE Answer(FALSE) /\ UNCHANGED starting

\* A step of the start goes on to the next one or answers with an error.
GoesOn(ok, label) ==
    IF ok
    THEN /\ pc' = label
         /\ Quiet
         /\ UNCHANGED <<overrun, request, starting, reply, excuse, proof>>
    ELSE Answer(FALSE) /\ starting' = NoCommand

DrivePrestart ==
    /\ pc = "prestart"
    /\ \E ok \in BOOLEAN :
        /\ MayStart(ok)
        /\ Prestart(starting, ok)
        /\ GoesOn(ok, "left")

DriveMotor(motor, label) ==
    \/ \E ok \in BOOLEAN :
        /\ MayStart(ok)
        /\ StartMotor(motor, ok)
        /\ GoesOn(ok, label)
    \/ /\ MayStart(TRUE)
       /\ WriteFails(motor)
       /\ GoesOn(FALSE, label)

DriveLeft == pc = "left" /\ DriveMotor("left", "right")

DriveRight == pc = "right" /\ DriveMotor("right", "started")

DriveStarted ==
    /\ pc = "started"
    /\ \E ok \in BOOLEAN :
        /\ MayStart(ok)
        /\ Started(starting, ok)
        /\ Answer(ok)
    /\ starting' = NoCommand

\* An error nobody expects faults the supervisor and ends the loop.
DispatchBreaks ==
    /\ pc = "execute"
    /\ EnterFault
    /\ pc' = "closing"
    /\ Quiet
    /\ UNCHANGED <<overrun, request, starting, reply, excuse, proof>>

-----------------------------------------------------------------------------
(* Its response: run_once, _complete_dispatch, publish                     *)

\* The deadline may have been missed while the request was served.
Judge ==
    /\ pc = "judge"
    /\ \/ pc' = "complete" /\ UNCHANGED <<supervisorVars, overrun>>
       \/ pc' = "stop4" /\ EnterFault /\ overrun' = TRUE
    /\ Quiet
    /\ UNCHANGED <<request, starting, reply, excuse, proof>>

\* A stop that was asked for is no error of a stop request.
Excused == excuse = "external" /\ request \in StopOperation

Publish ==
    /\ pc = "publish"
    /\ LET success == reply /\ (excuse = "none" \/ Excused)
       IN  \/ /\ output < OutputQueue
              /\ output' = output + 1
              /\ reply' = success
              /\ shutdown' = (shutdown \/ (success /\ request = "SHUTDOWN"))
              /\ UNCHANGED stopEvent
           \/ /\ FailTransport         \* output full, or not encodable
              /\ reply' = FALSE
              /\ UNCHANGED output
    /\ pc' = "published"
    /\ UNCHANGED <<supervisorVars, overrun, request, starting, excuse, proof,
                   normal, urgent, failing>>

\* The last look at the deadline, which a late cycle has already missed.
Finish ==
    /\ pc = "finish"
    /\ \/ pc' = "wake" /\ UNCHANGED supervisorVars
       \/ ~overrun /\ pc' = "stop5" /\ EnterFault
    /\ request' = NoRequest
    /\ reply' = FALSE
    /\ excuse' = "none"
    /\ overrun' = FALSE
    /\ Quiet
    /\ UNCHANGED <<starting, proof>>

\* run_forever closes the supervisor, and run_daemon once more if need be.
CloseSupervisor ==
    /\ pc \in {"closing", "closeAgain"}
    /\ Close
    /\ pc' = IF pc = "closing" /\ state' # "CLOSED" THEN "closeAgain"
                                                    ELSE "ended"
    /\ Quiet
    /\ UNCHANGED <<overrun, request, starting, reply, excuse, proof>>

-----------------------------------------------------------------------------
(* The other threads                                                       *)

\* fail_transport, request_shutdown: the event first, then the flag.
ThreadFails ==
    /\ ~failing
    /\ failing' = TRUE
    /\ stopEvent' = TRUE
    /\ UNCHANGED <<supervisorVars, pc, overrun, request, starting, reply,
                   excuse, proof, normal, urgent, output, shutdown>>

ThreadShutsDown ==
    /\ failing
    /\ ~shutdown
    /\ shutdown' = TRUE
    /\ UNCHANGED <<supervisorVars, pc, overrun, request, starting, reply,
                   excuse, proof, normal, urgent, output, stopEvent, failing>>

\* The reader.  A full queue fails the transport: ThreadFails.
Receive ==
    /\ ~shutdown
    /\ normal < NormalQueue
    /\ normal' = normal + 1
    /\ UNCHANGED <<supervisorVars, pc, overrun, request, starting, reply,
                   excuse, proof, urgent, output, stopEvent, failing, shutdown>>

\* A stop request is queued and signalled under one lock.
ReceiveStop ==
    /\ ~shutdown
    /\ urgent < UrgentQueue
    /\ urgent' = urgent + 1
    /\ stopEvent' = TRUE
    /\ UNCHANGED <<supervisorVars, pc, overrun, request, starting, reply,
                   excuse, proof, normal, output, failing, shutdown>>

\* The writer
Send ==
    /\ output > 0
    /\ output' = output - 1
    /\ UNCHANGED <<supervisorVars, pc, overrun, request, starting, reply,
                   excuse, proof, normal, urgent, stopEvent, failing, shutdown>>

TimePasses ==
    /\ pc # "ended"
    /\ HeartbeatAges \/ MotorRunsOut
    /\ UNCHANGED sessionVars

-----------------------------------------------------------------------------
Loop ==
    \/ Wake \/ WakeInTime \/ WakeLate \/ Poll \/ Admit
    \/ LookFindsNothing \/ LookStops
    \/ TakeNormal \/ TakeUrgent \/ TakeNothing
    \/ Execute \/ ExecuteDrive
    \/ DrivePrestart \/ DriveLeft \/ DriveRight \/ DriveStarted
    \/ DispatchBreaks \/ Judge \/ Publish \/ Finish \/ CloseSupervisor

Threads == ThreadFails \/ Receive \/ ReceiveStop \/ Send \/ TimePasses

Next == Loop \/ ThreadShutsDown \/ Threads

Spec == Init /\ [][Next]_vars

\* The dispatch thread is scheduled and its hardware calls return; a thread
\* that has begun to fail the transport finishes.
FairSpec == Spec /\ WF_vars(Loop) /\ WF_vars(ThreadShutsDown)

(***************************************************************************)
(* Properties                                                              *)
(***************************************************************************)

\* A motor turns for a running command of a live session, within its start,
\* or under a fault that says it could not be stopped.
MotionIsOwned ==
    moving # {} =>
        \/ state = "RUNNING" /\ command # NoCommand
        \/ pc \in {"right", "started"} /\ starting # NoCommand
        \/ state = "FAULT_LATCHED" /\ ~verified

\* An armed supervisor has a session that has sent a heartbeat, and a latched
\* one has none.
ArmedIsClaimed ==
    /\ state \in {"ARMED_IDLE", "RUNNING"} =>
           session # NoSession /\ heartbeat # NoHeartbeat
    /\ state \in {"FAULT_LATCHED", "CLOSED"} =>
           session = NoSession /\ command = NoCommand

\* What a success of the request tells the client.
StillTrue ==
    /\ request \in {"CLAIM", "HEARTBEAT"} => session # NoSession
    /\ request = "ARM" => state = "ARMED_IDLE"
    /\ request = "DRIVE" => state = "RUNNING"
    /\ request = "RELEASE" => session = NoSession
    /\ request \in StopOperation => Proves /\ moving = {}

\* What a success says is still so when it is published, whatever stop
\* request or deadline came between.
SuccessIsTrue == pc = "published" /\ reply => StillTrue

\* No command starts the motors twice in its session.
CommandRunsOnce == \A c \in Command : runs[c] <= 1

\* While a stop is requested no motor starts.
StopPreventsStart == [][stopEvent => moving' \subseteq moving]_vars

\* Every stop request is served and a session that is shut down ends.
StopIsServed ==
    /\ stopEvent ~> ~stopEvent \/ pc = "ended"
    /\ shutdown ~> pc = "ended"

=============================================================================
