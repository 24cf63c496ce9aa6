------------------------- MODULE ConcurrentRuntime -------------------------
(***************************************************************************)
(* ConcurrentBehaviorRuntime: one navigation thread drives the wheels in   *)
(* pulses, a planner thread turns obstructions into expressions, a speech  *)
(* thread speaks them while the robot drives on, and an arm thread waves   *)
(* the propeller in a pause that navigation grants.  The pause is a        *)
(* handshake over three threading.Events; the other threads meet in        *)
(* bounded queues that are closed with a _STOP element.                    *)
(*                                                                         *)
(* set() of an Event wakes the thread that waits for it, also when clear() *)
(* follows before that thread runs: the step that sets the Event moves it  *)
(* on.  The clock is not modelled: wherever the code compares with it (TTL,*)
(* cooldowns, the time budget of speech) either outcome is possible.       *)
(* The behaviour workers and the arbitration of their proposals are left   *)
(* out: navigation drives or stops as it likes.                            *)
(***************************************************************************)
EXTENDS Integers, Sequences

CONSTANTS
    Objects,            \* the objects that have an object_id
    Setups,             \* the sets of optional callbacks to consider: "speech"
                        \* is the speaker, "arm" the arm_segment_executor
    QueueCapacity,      \* planner_, speech_ and arm_queue_capacity
    MaxPlannerRequests, \* ConcurrentRuntimePolicy.max_planner_requests
    MaxUtterances,      \* max_speech_utterances
    MaxGestures,        \* max_gestures
    MaxSegments,        \* max_arm_time_ms, counted in segments
    MaxRepetitions,     \* repetitions a gesture may ask for; 0 is no gesture
    MaxVersion          \* bound of the model: changes of the interaction

ASSUME RuntimeAssumption ==
    /\ Setups \subseteq SUBSET {"speech", "arm"}
    /\ Objects \cap {"clear", "unknown"} = {}
    /\ {QueueCapacity, MaxPlannerRequests, MaxVersion} \subseteq Nat \ {0}
    /\ {MaxUtterances, MaxGestures, MaxSegments, MaxRepetitions} \subseteq Nat

VARIABLES
    setup,       \* the optional callbacks of this runtime
    current,     \* _InteractionReducer: the interaction and its epochs
    requests,    \* _planner_request_count
    queue,       \* _planner_queue, _speech_queue, _arm_queue
    cancelled,   \* _cancel_event
    requested,   \* _pause_requested
    acked,       \* _pause_acknowledged
    released,    \* _pause_released
    nav,         \* what the navigation thread does next
    planner, plannerJob,
    speech, utterances,
    arm, armJob, gestures, segments, left,
    closing,     \* how far nav and the caller of cancel() are
    spoken,      \* history: the obstruction epochs spoken about, in order
    late         \* history: the arm began a pause while navigation was between
                 \* looking at the last one and waiting for its end

world == <<setup, current, requests>>
events == <<cancelled, requested, acked, released>>
plannerVars == <<planner, plannerJob>>
speechVars == <<speech, utterances, spoken>>
armVars == <<arm, armJob, gestures, segments, left>>
vars == <<world, queue, events, nav, plannerVars, speechVars, armVars, closing,
          late>>

Queues == {"planner", "speech", "arm"}
Closers == {"nav", "caller"}
Obstruction == Objects \cup {"clear", "unknown"}

NoJob == [epoch |-> 0, version |-> 0, talk |-> 0, repetitions |-> 0]
STOP == [NoJob EXCEPT !.epoch = -1]

\* closing: 0 not begun; 1 cancel_event is set; 2, 4, 6 about to offer _STOP to
\* a queue; 3, 5, 7 about to offer it again after making room; 8 done.
Target(position) ==
    CASE position \in {2, 3} -> "planner"
      [] position \in {4, 5} -> "speech"
      [] OTHER -> "arm"

TypeOK ==
    /\ setup \in Setups
    /\ current.object \in Obstruction
    /\ current.key \in Obstruction
    /\ {current.version, current.epoch, current.talk} \subseteq Nat
    /\ requests \in 0..MaxPlannerRequests
    /\ DOMAIN queue = Queues
    /\ \A q \in Queues : Len(queue[q]) <= QueueCapacity
    /\ {cancelled, requested, acked, released, late} \subseteq BOOLEAN
    /\ nav \in {"observe", "hook", "ack", "enter", "wait", "refresh", "decide",
                "driving", "timeout", "close", "join", "returned"}
    /\ planner \in {"get", "calling", "judge", "offerSpeech", "offerArm", "ended"}
    /\ speech \in {"get", "speaking", "ended"}
    /\ arm \in {"get", "clearAck", "clearRelease", "request", "await",
                "blocked", "woken", "segment", "moving", "release",
                "withdraw", "ended"}
    /\ utterances \in 0..MaxUtterances
    /\ gestures \in 0..MaxGestures
    /\ segments \in 0..MaxSegments
    /\ left \in 0..(2 * MaxRepetitions)
    /\ closing \in [Closers -> 0..8]

Init ==
    /\ setup \in Setups
    /\ current = [object |-> "clear", version |-> 0, epoch |-> 0, talk |-> 0,
                  key |-> "clear"]
    /\ requests = 0
    /\ queue = [q \in Queues |-> <<>>]
    /\ cancelled = FALSE /\ requested = FALSE
    /\ acked = FALSE /\ released = FALSE
    /\ nav = "observe"
    /\ planner = "get" /\ plannerJob = NoJob
    /\ speech = (IF "speech" \in setup THEN "get" ELSE "ended")
    /\ utterances = 0 /\ spoken = <<>>
    /\ arm = (IF "arm" \in setup THEN "get" ELSE "ended")
    /\ armJob = NoJob
    /\ gestures = 0 /\ segments = 0 /\ left = 0
    /\ closing = [c \in Closers |-> 0]
    /\ late = FALSE

-----------------------------------------------------------------------------
(* Queues and Events                                                       *)

\* _put_bounded: an element that does not fit is dropped.
Offered(q, job) ==
    IF Len(queue[q]) < QueueCapacity
    THEN [queue EXCEPT ![q] = Append(@, job)]
    ELSE queue

\* target.get() returned: the first element, no longer queued.
Take(q) ==
    /\ queue[q] # <<>>
    /\ queue' = [queue EXCEPT ![q] = Tail(@)]

\* Variant: a worker waits for its _STOP, cancelled or not.
Ends_StopOnly(q) == Head(queue[q]) = STOP

\* What ends a worker: _STOP, or any element once the runtime is cancelled.
Ends(q) == Head(queue[q]) = STOP \/ cancelled

\* The threads woken by _pause_acknowledged.set() and _pause_released.set()
Acknowledged == IF arm = "blocked" THEN "woken" ELSE arm
Freed == IF nav = "wait" THEN "refresh" ELSE nav

\* _speech_event_is_current, the TTL apart: the talk context (with the world's
\* version) is still that of the job's basis.
SpeechIsCurrent(job) == job.talk = current.talk

\* Variant: a gesture is revalidated as leniently as speech is.
ArmIsCurrent_Lenient(job) == SpeechIsCurrent(job)

\* _arm_revalidation, the TTL apart: exactly this obstruction is in the way.
ArmIsCurrent(job) ==
    /\ current.object # "clear"
    /\ job.version = current.version

-----------------------------------------------------------------------------
(* The navigation thread                                                   *)

\* _InteractionReducer.reduce: a change gets a new version, a new or another
\* obstruction a new epoch.  An object keeps its talk context while it is out
\* of sight; an unknown obstruction, or another version of the world, does not.
Reduced(object, newWorld) ==
    LET changed == newWorld \/ current.version = 0 \/ object # current.object
        blocked == object # "clear"
        newTalk == \/ newWorld
                   \/ blocked /\ object # current.key
                   \/ object = "unknown" /\ changed
    IN  [object |-> object,
         version |-> current.version + (IF changed THEN 1 ELSE 0),
         epoch |-> current.epoch + (IF changed /\ blocked THEN 1 ELSE 0),
         talk |-> current.talk + (IF newTalk THEN 1 ELSE 0),
         key |-> IF blocked THEN object ELSE current.key]

\* Variant: every observation of an obstruction may ask the planner.
Requests_EachObservation(seen) ==
    /\ seen.object # "clear"
    /\ requests < MaxPlannerRequests

\* A new obstruction epoch asks the planner, within the budget.
Requests(seen) ==
    /\ seen.object # "clear"
    /\ seen.epoch > current.epoch
    /\ requests < MaxPlannerRequests

\* The request is queued if it fits, and only then counted.
Submit(seen) ==
    /\ queue' = Offered("planner", [epoch |-> seen.epoch, talk |-> seen.talk,
                                    version |-> seen.version, repetitions |-> 0])
    /\ IF queue' = queue
       THEN UNCHANGED requests
       ELSE requests' = requests + 1

\* _observation_sink: after plant.observe and after each pulse.  Within the
\* cooldown of an earlier one a request is dropped.
Observe ==
    /\ nav = "observe"
    /\ \E object \in Obstruction, newWorld \in BOOLEAN :
          LET seen == Reduced(object, newWorld)
          IN  /\ seen.version <= MaxVersion
              /\ current' = seen
              /\ \/ Requests(seen) /\ Submit(seen)
                 \/ /\ Requests(seen) => requests > 0
                    /\ UNCHANGED <<queue, requests>>
    /\ nav' = "hook"
    /\ UNCHANGED <<setup, events, plannerVars, speechVars, armVars, closing,
                   late>>

\* The steps of the navigation thread that only move it on.
Moves ==
    UNCHANGED <<world, queue, events, plannerVars, speechVars, armVars, late>>

\* NavigationEpisode._finish: the terminal stop; run() enters its finally clause.
EndEpisode ==
    /\ nav' = "close"
    /\ closing' = [closing EXCEPT !["nav"] = 0]

\* The head of the loop (goal reached, budget used up, fault, cancelled), then
\* _before_arbitration: the cancel event, then the pause request.
Hook ==
    /\ nav = "hook"
    /\ \/ EndEpisode
       \/ /\ ~cancelled
          /\ nav' = IF requested THEN "ack" ELSE "decide"
          /\ UNCHANGED closing
    /\ Moves

\* _pause_acknowledged.set()
Acknowledge ==
    /\ nav = "ack"
    /\ nav' = "enter"
    /\ acked' = TRUE
    /\ arm' = Acknowledged
    /\ UNCHANGED <<world, queue, cancelled, requested, released, plannerVars,
                   speechVars, armJob, gestures, segments, left, closing, late>>

\* _pause_released.wait(): returns at once when the event is set.
EnterWait ==
    /\ nav = "enter"
    /\ nav' = IF released THEN "refresh" ELSE "wait"
    /\ Moves /\ UNCHANGED closing

\* Variant: the pause has no watchdog.
Timeout_Never == FALSE /\ Moves

\* arm_exclusive_timeout_ms have passed: cancel() of the whole episode.
Timeout ==
    /\ nav = "wait"
    /\ nav' = "timeout"
    /\ Moves /\ UNCHANGED closing

\* The cancel checks around arbitration and plant.apply.  After a pause
\* (NAVIGATION_REFRESH_REQUIRED) the pulse is a STOP.
Decide ==
    /\ nav \in {"refresh", "decide"}
    /\ \/ cancelled /\ EndEpisode
       \/ ~cancelled /\ nav' = "observe" /\ UNCHANGED closing
       \/ ~cancelled /\ nav = "decide" /\ nav' = "driving" /\ UNCHANGED closing
    /\ Moves

\* plant.apply returns.
PulseEnds ==
    /\ nav = "driving"
    /\ nav' = "observe"
    /\ Moves /\ UNCHANGED closing

\* cancel() by the watchdog returns; the finally clause has closed the queues.
Closed ==
    /\ closing["nav"] = 8
    /\ \/ nav = "timeout" /\ EndEpisode
       \/ nav = "close" /\ nav' = "join" /\ UNCHANGED closing
    /\ Moves

\* The joins have a timeout: run() returns whatever its workers do.
Join ==
    /\ nav = "join"
    /\ nav' = "returned"
    /\ Moves /\ UNCHANGED closing

-----------------------------------------------------------------------------
(* cancel(), by its caller or the watchdog, and the end of run()           *)

MayClose(c) == c = "caller" \/ nav \in {"timeout", "close"}

\* _pause_acknowledged.set() and _pause_released.set()
Wake ==
    /\ acked' = TRUE /\ arm' = Acknowledged
    /\ released' = TRUE /\ nav' = Freed

\* Variant: the waiting threads are woken before the cancel event is set.
Signals_WakeFirst(c) ==
    \/ closing[c] = 0 /\ Wake /\ UNCHANGED cancelled
    \/ /\ closing[c] = 1 /\ cancelled' = TRUE
       /\ UNCHANGED <<acked, released, arm, nav>>

\* The cancel event, then the two events of the pause; callbacks see the cancel
\* event itself.
Signals(c) ==
    \/ /\ closing[c] = 0 /\ cancelled' = TRUE
       /\ UNCHANGED <<acked, released, arm, nav>>
    \/ closing[c] = 1 /\ Wake /\ UNCHANGED cancelled

Signal(c) ==
    /\ MayClose(c)
    /\ Signals(c)
    /\ closing' = [closing EXCEPT ![c] = @ + 1]
    /\ UNCHANGED <<world, queue, requested, plannerVars, speechVars, armJob,
                   gestures, segments, left, late>>

\* _offer_stop: put _STOP; when the queue is full drop its first element and
\* try once more.
OfferStop(c) ==
    LET q == Target(closing[c])
    IN  \/ /\ closing[c] \in {2, 4, 6} /\ Len(queue[q]) < QueueCapacity
           /\ queue' = Offered(q, STOP)
           /\ closing' = [closing EXCEPT ![c] = @ + 2]
        \/ /\ closing[c] \in {2, 4, 6} /\ Len(queue[q]) = QueueCapacity
           /\ queue' = [queue EXCEPT ![q] = Tail(@)]
           /\ closing' = [closing EXCEPT ![c] = @ + 1]
        \/ /\ closing[c] \in {3, 5, 7}
           /\ queue' = Offered(q, STOP)
           /\ closing' = [closing EXCEPT ![c] = @ + 1]

CloseQueue(c) ==
    /\ MayClose(c)
    /\ OfferStop(c)
    /\ UNCHANGED <<world, events, nav, plannerVars, speechVars, armVars, late>>

-----------------------------------------------------------------------------
(* The planner's thread                                                    *)

PlannerGet ==
    /\ planner = "get"
    /\ Take("planner")
    /\ IF Ends("planner")
       THEN planner' = "ended" /\ UNCHANGED plannerJob
       ELSE planner' = "calling" /\ plannerJob' = Head(queue["planner"])
    /\ UNCHANGED <<world, events, nav, speechVars, armVars, closing, late>>

\* The callback fails, or its result is looked at: after a cancel it is dropped.
PlannerReturns ==
    /\ planner = "calling"
    /\ \/ planner' = "get" /\ plannerJob' = NoJob
       \/ cancelled /\ planner' = "ended" /\ plannerJob' = NoJob
       \/ ~cancelled /\ planner' = "judge" /\ UNCHANGED plannerJob
    /\ UNCHANGED <<world, queue, events, nav, speechVars, armVars, closing, late>>

\* The result names another proposal, is stale or is not to be expressed, or it
\* is accepted with the gesture it asks for.
PlannerJudges ==
    /\ planner = "judge"
    /\ \/ planner' = "get" /\ plannerJob' = NoJob
       \/ /\ SpeechIsCurrent(plannerJob)
          /\ planner' = "offerSpeech"
          /\ \E n \in 0..MaxRepetitions :
                plannerJob' = [plannerJob EXCEPT !.repetitions = n]
    /\ UNCHANGED <<world, queue, events, nav, speechVars, armVars, closing, late>>

\* What was accepted is offered to the speaker and, with a gesture, to the arm,
\* where there is one; a cancel that came meanwhile is not looked at.
OfferSpeech ==
    /\ planner = "offerSpeech"
    /\ planner' = "offerArm"
    /\ queue' = IF "speech" \in setup THEN Offered("speech", plannerJob) ELSE queue
    /\ UNCHANGED <<world, events, nav, plannerJob, speechVars, armVars, closing,
                   late>>

OfferGesture ==
    /\ planner = "offerArm"
    /\ planner' = "get" /\ plannerJob' = NoJob
    /\ queue' = IF "arm" \in setup /\ plannerJob.repetitions > 0
                THEN Offered("arm", plannerJob) ELSE queue
    /\ UNCHANGED <<world, events, nav, speechVars, armVars, closing, late>>

-----------------------------------------------------------------------------
(* The speech thread                                                       *)

\* An element that is stale or beyond the budget is dropped.
SpeechGet ==
    /\ speech = "get"
    /\ Take("speech")
    /\ LET job == Head(queue["speech"])
       IN  IF Ends("speech")
           THEN speech' = "ended" /\ UNCHANGED <<utterances, spoken>>
           ELSE \/ UNCHANGED speechVars
                \/ /\ utterances < MaxUtterances /\ SpeechIsCurrent(job)
                   /\ speech' = "speaking"
                   /\ utterances' = utterances + 1
                   /\ spoken' = Append(spoken, job.epoch)
    /\ UNCHANGED <<world, events, nav, plannerVars, armVars, closing, late>>

\* The speaker returns, fails, or is cancelled by its timer, perhaps with all
\* of max_speech_time_ms used, which counts as all utterances used.
SpeakerReturns ==
    /\ speech = "speaking"
    /\ speech' = "get"
    /\ utterances' \in {utterances, MaxUtterances}
    /\ UNCHANGED <<world, queue, events, nav, plannerVars, spoken, armVars,
                   closing, late>>

-----------------------------------------------------------------------------
(* The arm's thread                                                        *)

\* An element within the budgets asks for a pause, any other, or one within the
\* cooldown of the last gesture, is dropped.
ArmGet ==
    /\ arm = "get"
    /\ Take("arm")
    /\ LET job == Head(queue["arm"])
       IN  IF Ends("arm")
           THEN arm' = "ended" /\ UNCHANGED armJob
           ELSE \/ /\ gestures < MaxGestures
                   /\ segments + 2 * job.repetitions <= MaxSegments
                   /\ arm' = "clearAck" /\ armJob' = job
                \/ /\ \/ gestures > 0
                      \/ segments + 2 * job.repetitions > MaxSegments
                      \/ MaxGestures = 0
                   /\ UNCHANGED <<arm, armJob>>
    /\ UNCHANGED <<world, events, nav, plannerVars, speechVars, gestures,
                   segments, left, closing, late>>

\* _pause_acknowledged.clear(), _pause_released.clear(), _pause_requested.set()
RequestPause ==
    /\ \/ /\ arm = "clearAck" /\ arm' = "clearRelease"
          /\ acked' = FALSE
          /\ late' = (late \/ nav \in {"ack", "enter"})
          /\ UNCHANGED <<released, requested>>
       \/ /\ arm = "clearRelease" /\ arm' = "request"
          /\ released' = FALSE
          /\ UNCHANGED <<acked, requested, late>>
       \/ /\ arm = "request" /\ arm' = "await"
          /\ requested' = TRUE
          /\ UNCHANGED <<acked, released, late>>
    /\ UNCHANGED <<world, queue, cancelled, nav, plannerVars, speechVars,
                   armJob, gestures, segments, left, closing>>

\* The steps of the arm's thread that meet nobody.
ArmMoves ==
    UNCHANGED <<world, queue, events, nav, plannerVars, speechVars, closing, late>>

\* _pause_acknowledged.wait(), which has no timeout
AwaitPause ==
    /\ arm = "await"
    /\ arm' = IF acked THEN "woken" ELSE "blocked"
    /\ ArmMoves /\ UNCHANGED <<armJob, gestures, segments, left>>

\* Acknowledged: give up when cancelled or when the job is stale, else begin.
StartGesture ==
    /\ arm = "woken"
    /\ \/ /\ ~cancelled /\ ArmIsCurrent(armJob)
          /\ arm' = "segment"
          /\ gestures' = gestures + 1
          /\ left' = 2 * armJob.repetitions
          /\ UNCHANGED armJob
       \/ /\ arm' = "release"
          /\ armJob' = IF cancelled THEN STOP ELSE armJob
          /\ UNCHANGED <<gestures, left>>
    /\ ArmMoves /\ UNCHANGED segments

\* The next segment is charged before it is executed; none when cancelled.
NextSegment ==
    /\ arm = "segment"
    /\ IF cancelled \/ left = 0
       THEN arm' = "release" /\ left' = 0 /\ UNCHANGED segments
       ELSE arm' = "moving" /\ segments' = segments + 1 /\ UNCHANGED left
    /\ ArmMoves /\ UNCHANGED <<armJob, gestures>>

\* arm_segment_executor returns, or raises and ends the gesture.
ExecutorReturns ==
    /\ arm = "moving"
    /\ arm' = "segment"
    /\ left' \in {left - 1, 0}
    /\ ArmMoves /\ UNCHANGED <<armJob, gestures, segments>>

\* _release_navigation_pause: _pause_released.set(), _pause_requested.clear().
\* A cancelled wait was the last thing the thread did.
ReleasePause ==
    /\ \/ /\ arm = "release" /\ arm' = "withdraw"
          /\ released' = TRUE
          /\ nav' = Freed
          /\ UNCHANGED <<requested, armJob>>
       \/ /\ arm = "withdraw"
          /\ arm' = IF armJob = STOP THEN "ended" ELSE "get"
          /\ armJob' = NoJob
          /\ requested' = FALSE
          /\ UNCHANGED <<released, nav>>
    /\ UNCHANGED <<world, queue, cancelled, acked, plannerVars, speechVars,
                   gestures, segments, left, closing, late>>

-----------------------------------------------------------------------------
Closes(c) == Signal(c) \/ CloseQueue(c)

NavigationStep ==
    \/ Observe \/ Hook \/ Acknowledge \/ EnterWait \/ Timeout \/ Decide
    \/ PulseEnds \/ Closes("nav") \/ Closed \/ Join

\* The returns of the callbacks are not among the threads' own steps.
PlannerStep == PlannerGet \/ PlannerJudges \/ OfferSpeech \/ OfferGesture

ArmStep ==
    \/ ArmGet \/ RequestPause \/ AwaitPause \/ StartGesture \/ NextSegment
    \/ ReleasePause

Next ==
    \/ NavigationStep \/ Closes("caller")
    \/ PlannerStep \/ PlannerReturns
    \/ SpeechGet \/ SpeakerReturns
    \/ ArmStep \/ ExecutorReturns

\* Every thread runs when it can, and a timed wait ends.  Nothing is assumed of
\* the callbacks, nor of the caller before it calls cancel().
Spec ==
    /\ Init /\ [][Next]_vars
    /\ WF_vars(NavigationStep)
    /\ WF_vars(closing["caller"] > 0 /\ Closes("caller"))
    /\ WF_vars(PlannerStep) /\ WF_vars(SpeechGet) /\ WF_vars(ArmStep)

-----------------------------------------------------------------------------
(* Properties                                                              *)

\* _before_arbitration and _arm_worker: unless the arm began a pause while
\* navigation was still on its way into waiting for the end of the last one,
\* the wheels never turn while a segment runs, and the two threads never wait
\* for each other.
PauseGateHolds ==
    ~late => /\ ~(nav = "driving" /\ arm = "moving")
             /\ ~(nav = "wait" /\ arm = "blocked")

\* _arm_worker: with the same exception, the obstruction a gesture reacts to is
\* still in front of the robot when each of its segments runs.
GestureFacesItsObstruction ==
    ~late /\ arm \in {"segment", "moving"} =>
        current.object # "clear" /\ current.version = armJob.version

\* _observation_sink, _planner_worker, _speech_worker: the robot reacts aloud to
\* an obstruction epoch at most once, and in the order it met them.
SpokenOnceInOrder ==
    \A i, j \in DOMAIN spoken : i < j => spoken[i] < spoken[j]

\* cancel(), run() and the watchdog of the pause: once the runtime is cancelled
\* run() returns, whatever the callbacks do.
CancelEndsTheRun == cancelled ~> nav = "returned"

\* cancel(), _offer_stop and the workers' looks at _cancel_event: once the runtime
\* is cancelled the planner and speech threads end, unless their callback does not
\* return, whatever was put into the queues before, between and after the two
\* attempts to offer _STOP.  So does the arm's thread, but for the one way
\* CancelEndsTheArm names: it cleared the acknowledgement after the last waking.
CancelEndsTheWorkers ==
    cancelled ~> [](/\ planner \in {"ended", "calling"}
                    /\ speech \in {"ended", "speaking"}
                    /\ \/ arm \in {"ended", "moving"}
                       \/ arm = "blocked" /\ ~acked)

\* The docstring of cancel(): it cancels all workers and wakes an active arm
\* pause.  So once it has returned the arm's thread ends, unless the executor
\* does not return.
CancelEndsTheArm == closing["caller"] = 8 ~> arm \in {"ended", "moving"}

\* docs/ARCHITECTURE.md and the test of the arm's exclusive pause: a segment runs
\* only while navigation has stopped and waits, so the wheels and the propeller
\* never move at the same time.
NeverOverlaps == ~(nav = "driving" /\ arm = "moving")
=============================================================================
