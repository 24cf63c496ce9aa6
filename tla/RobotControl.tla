--------------------------- MODULE RobotControl ---------------------------
(***************************************************************************)
(* The orchestration boundary of the dashboard: one RobotControlService    *)
(* per robot, the background thread that runs its episode, the HTTP        *)
(* threads that start, stop and emergency-stop it, the thread that shuts   *)
(* it down, and the RobotEpisodeGate several services may share.           *)
(*                                                                         *)
(* A method of the service is one step when it holds the service's lock    *)
(* throughout, and two steps when it releases the lock to call the robot's *)
(* adapter (stop, emergency_stop, shutdown, _run_episode).                 *)
(***************************************************************************)
EXTENDS Integers, Sequences, FiniteSets

CONSTANTS
    Service,        \* the services, one per robot
    NoService,      \* the gate's owner when no episode is accepted
    Gated,          \* do the services share a RobotEpisodeGate?
    Client,         \* HTTP threads that send stop and emergency_stop
    Closer,         \* the thread that shuts the services down
    Request,        \* client_request_id values
    HistoryLimit,   \* MAX_REQUEST_HISTORY
    MaxAttempts,    \* bound: starts that get past the guards, per service
    MaxRevision     \* bound: settings revisions per service

ASSUME ServiceAssumption == NoService \notin Service
ASSUME CallerAssumption == Closer \notin Client /\ IsFiniteSet(Client)
ASSUME GateAssumption == Gated \in BOOLEAN
ASSUME LimitAssumption == /\ HistoryLimit \in Nat \ {0}
                          /\ MaxAttempts \in Nat
                          /\ MaxRevision \in Nat

Caller == Client \cup {Closer}
Episode == 1..MaxAttempts    \* episode ids are fresh: the attempt's number
NoThread == 0

State == {"IDLE", "STARTING", "RUNNING", "STOPPING", "FAULTED"}
Active == {"STARTING", "RUNNING", "STOPPING"}
Reason == {"none", "stopped", "emergency_stopped", "completed", "incomplete",
           "faulted", "fault_acknowledged"}
RunnerState == {"none", "begun", "driving", "completed", "incomplete",
                "raised", "unwinding", "done"}
Call == [op : {"none", "stop", "estop"}, svc : Service \cup {NoService}]
Closing == {"open", "signal", "join", "clean", "pending"}

VARIABLES
    state,       \* _state of each service
    accepting,   \* _accepting
    episode,     \* _episode_id (0: none yet)
    thread,      \* _thread: the episode whose runner is registered
    inflight,    \* _control_signals_inflight
    reason,      \* _terminal_reason
    revision,    \* revision of _settings
    remembered,  \* _request_order: the client_request_ids still remembered
    shown,       \* the episode whose update _runtime presents (0: none)
    gate,        \* _owner of the shared RobotEpisodeGate
    runner,      \* where the background thread of each episode is
    stopSet,     \* episodes whose stop_requested event is set
    estopSet,    \* episodes whose emergency_stop_requested event is set
    pinned,      \* the settings revision in each episode's context
    call,        \* the adapter call each HTTP thread is inside
    closing,     \* how far shutdown() has got
    attempts     \* history: <<request, accepted>> of each remembered start

vars == <<state, accepting, episode, thread, inflight, reason, revision,
          remembered, shown, gate, runner, stopSet, estopSet, pinned, call,
          closing, attempts>>

NoCall == [op |-> "none", svc |-> NoService]
Calls(op, s) == [op |-> op, svc |-> s]

TypeOK ==
    /\ state \in [Service -> State]
    /\ accepting \in [Service -> BOOLEAN]
    /\ episode \in [Service -> Episode \cup {NoThread}]
    /\ thread \in [Service -> Episode \cup {NoThread}]
    /\ inflight \in [Service -> Nat]
    /\ reason \in [Service -> Reason]
    /\ revision \in [Service -> Nat]
    /\ remembered \in [Service -> Seq(Request)]
    /\ shown \in [Service -> Episode \cup {NoThread}]
    /\ gate \in Service \cup {NoService}
    /\ runner \in [Service -> [Episode -> RunnerState]]
    /\ stopSet \in [Service -> SUBSET Episode]
    /\ estopSet \in [Service -> SUBSET Episode]
    /\ pinned \in [Service -> [Episode -> Nat]]
    /\ call \in [Caller -> Call]
    /\ closing \in [Service -> Closing]
    /\ attempts \in [Service -> Seq(Request \X BOOLEAN)]

Init ==
    /\ state = [s \in Service |-> "IDLE"]
    /\ accepting = [s \in Service |-> TRUE]
    /\ episode = [s \in Service |-> 0]
    /\ thread = [s \in Service |-> NoThread]
    /\ inflight = [s \in Service |-> 0]
    /\ reason = [s \in Service |-> "none"]
    /\ revision = [s \in Service |-> 1]
    /\ remembered = [s \in Service |-> << >>]
    /\ shown = [s \in Service |-> 0]
    /\ gate = NoService
    /\ runner = [s \in Service |-> [e \in Episode |-> "none"]]
    /\ stopSet = [s \in Service |-> {}]
    /\ estopSet = [s \in Service |-> {}]
    /\ pinned = [s \in Service |-> [e \in Episode |-> 0]]
    /\ call = [c \in Caller |-> NoCall]
    /\ closing = [s \in Service |-> "open"]
    /\ attempts = [s \in Service |-> << >>]

-----------------------------------------------------------------------------
(* _finish_stopping_if_quiescent_locked: what it makes of the state, the   *)
(* terminal reason and the gate once the lock holder has set the state to  *)
(* st, the registered thread to thr and the signals in flight to n.        *)

Quiescent(thr, n) == thr = NoThread /\ n = 0

SettledState(st, thr, n) ==
    IF st = "STOPPING" /\ Quiescent(thr, n) THEN "IDLE" ELSE st

SettledReason(r, st, thr, n) ==
    IF st = "STOPPING" /\ Quiescent(thr, n) /\ r = "none" THEN "stopped" ELSE r

\* Variant: releases the gate although the thread is still registered.
SettledGate_Thread(s, st, thr, n) ==
    IF gate = s /\ n = 0 /\ SettledState(st, thr, n) \notin Active
    THEN NoService ELSE gate

SettledGate(s, st, thr, n) ==
    IF gate = s /\ Quiescent(thr, n) /\ SettledState(st, thr, n) \notin Active
    THEN NoService ELSE gate

\* The whole call, made by a lock holder who sets the state to st and the
\* terminal reason to r.
Settles(s, st, r, thr, n) ==
    /\ state' = [state EXCEPT ![s] = SettledState(st, thr, n)]
    /\ reason' = [reason EXCEPT ![s] = SettledReason(r, st, thr, n)]
    /\ gate' = SettledGate(s, st, thr, n)

SignalsLeft(s) == inflight[s] - 1

\* Variant: appends first and then evicts at the limit, one request too early.
Remember_Early(history, r) ==
    IF Len(history) + 1 >= HistoryLimit THEN Tail(Append(history, r))
    ELSE Append(history, r)

\* _remember_request_locked: append, evicting the oldest at the limit.
Remember(history, r) ==
    Append(IF Len(history) = HistoryLimit THEN Tail(history) ELSE history, r)

Remembers(s, r) == \E i \in 1..Len(remembered[s]) : remembered[s][i] = r

(***************************************************************************)
(* Requests that hold the lock throughout                                  *)
(***************************************************************************)

\* Variants of the guards below: a closed service accepts, signals in flight
\* are ignored, settings change under an episode, the gate is not asked.
Accepts_Closed(s) == TRUE
RobotIdle_InFlight(s) == state[s] = "IDLE"
RobotIdle_Running(s) == state[s] \in {"IDLE", "RUNNING"} /\ inflight[s] = 0
GateFree_Unasked == TRUE

Accepts(s) == accepting[s]

\* The guard of start() and of update_settings().
RobotIdle(s) == state[s] = "IDLE" /\ inflight[s] = 0

GateFree == Gated => gate = NoService

\* start() past its guards, RobotEpisodeGate.acquire included.  A remembered
\* request is answered with its old episode and changes nothing.
MayStart(s, r) ==
    /\ ~Remembers(s, r)
    /\ Accepts(s)
    /\ RobotIdle(s)
    /\ GateFree
    /\ Len(attempts[s]) < MaxAttempts

Start(s, r) ==
    /\ MayStart(s, r)
    /\ LET e == Len(attempts[s]) + 1 IN
       /\ episode' = [episode EXCEPT ![s] = e]
       /\ thread' = [thread EXCEPT ![s] = e]
       /\ runner' = [runner EXCEPT ![s][e] = "begun"]
       /\ pinned' = [pinned EXCEPT ![s][e] = revision[s]]
    /\ state' = [state EXCEPT ![s] = "STARTING"]
    /\ reason' = [reason EXCEPT ![s] = "none"]
    /\ shown' = [shown EXCEPT ![s] = 0]
    /\ remembered' = [remembered EXCEPT ![s] = Remember(@, r)]
    /\ gate' = IF Gated THEN s ELSE gate
    /\ attempts' = [attempts EXCEPT ![s] = Append(@, <<r, TRUE>>)]
    /\ UNCHANGED <<accepting, inflight, revision, stopSet, estopSet, call,
                   closing>>

\* start() whose thread cannot be created or whose transition fails: every
\* field goes back and the gate is released, but the request evicted to make
\* room for this one stays forgotten.
StartRollsBack(s, r) ==
    /\ MayStart(s, r)
    /\ remembered' = [remembered EXCEPT
           ![s] = IF Len(@) = HistoryLimit THEN Tail(@) ELSE @]
    /\ attempts' = [attempts EXCEPT ![s] = Append(@, <<r, FALSE>>)]
    /\ UNCHANGED <<state, accepting, episode, thread, inflight, reason,
                   revision, shown, gate, runner, stopSet, estopSet, pinned,
                   call, closing>>

UpdateSettings(s) ==
    /\ RobotIdle(s)
    /\ revision[s] < MaxRevision
    /\ revision' = [revision EXCEPT ![s] = @ + 1]
    /\ UNCHANGED <<state, accepting, episode, thread, inflight, reason,
                   remembered, shown, gate, runner, stopSet, estopSet, pinned,
                   call, closing, attempts>>

\* _publish, from the runner or from a thread the adapter left behind: the
\* context's publish callback outlives the episode.
Publish(s, e) ==
    /\ runner[s][e] \notin {"none", "begun"}
    /\ e = episode[s]
    /\ state[s] \in Active
    /\ shown' = [shown EXCEPT ![s] = e]
    /\ UNCHANGED <<state, accepting, episode, thread, inflight, reason,
                   revision, remembered, gate, runner, stopSet, estopSet,
                   pinned, call, closing, attempts>>

(***************************************************************************)
(* The background thread: _run_episode                                     *)
(***************************************************************************)

\* Variant: looks for a stop, not for a fault.
MayDrive_Faulted(s, e) == e = episode[s] /\ state[s] \in {"STARTING", "FAULTED"}

MayDrive(s, e) == e = episode[s] /\ state[s] = "STARTING"

\* The first critical section: a stop that came before the thread did ends
\* the episode here, a fault leaves it to the cleanup.
RunnerBegins(s, e) ==
    /\ runner[s][e] = "begun"
    /\ LET stopped == e = episode[s] /\ state[s] = "STOPPING"
           drives == MayDrive(s, e)
       IN
       /\ runner' = [runner EXCEPT
              ![s][e] = IF drives THEN "driving" ELSE "unwinding"]
       /\ reason' = [reason EXCEPT
              ![s] = IF ~stopped THEN @
                     ELSE IF e \in estopSet[s] THEN "emergency_stopped"
                     ELSE "stopped"]
       /\ state' = [state EXCEPT
              ![s] = IF drives THEN "RUNNING"
                     ELSE IF stopped /\ inflight[s] = 0 THEN "IDLE"
                     ELSE @]
    /\ UNCHANGED <<accepting, episode, thread, inflight, revision, remembered,
                   shown, gate, stopSet, estopSet, pinned, call, closing,
                   attempts>>

\* adapter.run returns, without the lock.  "raised" is also a result that
\* the service refuses as invalid.
AdapterReturns(s, e, outcome) ==
    /\ runner[s][e] = "driving"
    /\ runner' = [runner EXCEPT ![s][e] = outcome]
    /\ UNCHANGED <<state, accepting, episode, thread, inflight, reason,
                   revision, remembered, shown, gate, stopSet, estopSet,
                   pinned, call, closing, attempts>>

Outcome == {"completed", "incomplete", "raised"}

TerminalReason(s, e) ==
    IF e \in estopSet[s] THEN "emergency_stopped"
    ELSE IF e \in stopSet[s] THEN "stopped"
    ELSE runner[s][e]

\* Variant: a normal return clears the fault.
MayConclude_Faulted(s, e) == e = episode[s]

\* A latched fault outlives the thread's return, normal or not.
MayConclude(s, e) == e = episode[s] /\ state[s] # "FAULTED"

\* The critical section after a normal return.  It leaves the thread
\* registered and the gate held: only RunnerUnwinds gives them up.
RunnerConcludes(s, e) ==
    /\ runner[s][e] \in {"completed", "incomplete"}
    /\ runner' = [runner EXCEPT ![s][e] = "unwinding"]
    /\ IF MayConclude(s, e)
       THEN /\ reason' = [reason EXCEPT ![s] = TerminalReason(s, e)]
            /\ state' = [state EXCEPT
                   ![s] = IF inflight[s] = 0 THEN "IDLE" ELSE @]
       ELSE UNCHANGED <<reason, state>>
    /\ UNCHANGED <<accepting, episode, thread, inflight, revision, remembered,
                   shown, gate, stopSet, estopSet, pinned, call, closing,
                   attempts>>

\* The except clause.
RunnerFaults(s, e) ==
    /\ runner[s][e] = "raised"
    /\ runner' = [runner EXCEPT ![s][e] = "unwinding"]
    /\ IF MayConclude(s, e)
       THEN /\ reason' = [reason EXCEPT ![s] = "faulted"]
            /\ state' = [state EXCEPT ![s] = "FAULTED"]
            /\ shown' = [shown EXCEPT ![s] = e]
       ELSE UNCHANGED <<reason, state, shown>>
    /\ UNCHANGED <<accepting, episode, thread, inflight, revision, remembered,
                   gate, stopSet, estopSet, pinned, call, closing, attempts>>

\* The finally clause.
RunnerUnwinds(s, e) ==
    /\ runner[s][e] = "unwinding"
    /\ runner' = [runner EXCEPT ![s][e] = "done"]
    /\ IF e = episode[s]
       THEN /\ thread' = [thread EXCEPT ![s] = NoThread]
            /\ Settles(s, state[s], reason[s], NoThread, inflight[s])
       ELSE UNCHANGED <<thread, state, reason, gate>>
    /\ UNCHANGED <<accepting, episode, inflight, revision, remembered, shown,
                   stopSet, estopSet, pinned, call, closing, attempts>>

(***************************************************************************)
(* stop(): the critical section before adapter.request_stop, and the one   *)
(* after it, whether it raised or not.  In IDLE and STOPPING stop() only   *)
(* answers with the current snapshot.                                      *)
(***************************************************************************)

AcknowledgeFault(s) ==
    /\ state[s] = "FAULTED"
    /\ Quiescent(thread[s], inflight[s])
    /\ state' = [state EXCEPT ![s] = "IDLE"]
    /\ reason' = [reason EXCEPT ![s] = "fault_acknowledged"]
    /\ UNCHANGED <<accepting, episode, thread, inflight, revision, remembered,
                   shown, gate, runner, stopSet, estopSet, pinned, call,
                   closing, attempts>>

SetStopEvent(s) ==
    stopSet' = [stopSet EXCEPT
        ![s] = IF thread[s] = NoThread THEN @ ELSE @ \cup {thread[s]}]

Stop(s, c) ==
    /\ call[c] = NoCall
    /\ \/ state[s] \in {"STARTING", "RUNNING"}
       \/ state[s] = "FAULTED" /\ ~Quiescent(thread[s], inflight[s])
    /\ SetStopEvent(s)
    /\ inflight' = [inflight EXCEPT ![s] = @ + 1]
    /\ state' = [state EXCEPT ![s] = IF @ = "FAULTED" THEN @ ELSE "STOPPING"]
    /\ call' = [call EXCEPT ![c] = Calls("stop", s)]
    /\ UNCHANGED <<accepting, episode, thread, reason, revision, remembered,
                   shown, gate, runner, estopSet, pinned, closing, attempts>>

\* Variant: counts the call out and forgets to settle.
StopReturns_Unsettled(s, c) ==
    /\ call[c] = Calls("stop", s)
    /\ call' = [call EXCEPT ![c] = NoCall]
    /\ inflight' = [inflight EXCEPT ![s] = SignalsLeft(s)]
    /\ UNCHANGED <<state, accepting, episode, thread, reason, revision,
                   remembered, shown, gate, runner, stopSet, estopSet, pinned,
                   closing, attempts>>

StopReturns(s, c) ==
    /\ call[c] = Calls("stop", s)
    /\ call' = [call EXCEPT ![c] = NoCall]
    /\ inflight' = [inflight EXCEPT ![s] = SignalsLeft(s)]
    /\ Settles(s, state[s], reason[s], thread[s], SignalsLeft(s))
    /\ UNCHANGED <<accepting, episode, thread, revision, remembered, shown,
                   runner, stopSet, estopSet, pinned, closing, attempts>>

(***************************************************************************)
(* emergency_stop(), from an HTTP thread or from shutdown().  It signals   *)
(* the adapter in every state, IDLE included.                              *)
(***************************************************************************)

SignalEmergency(s, c) ==
    /\ call[c] = NoCall
    /\ SetStopEvent(s)
    /\ estopSet' = [estopSet EXCEPT
           ![s] = IF thread[s] = NoThread THEN @ ELSE @ \cup {thread[s]}]
    /\ inflight' = [inflight EXCEPT ![s] = @ + 1]
    /\ state' = [state EXCEPT
           ![s] = IF @ \in {"STARTING", "RUNNING"} THEN "STOPPING" ELSE @]
    /\ call' = [call EXCEPT ![c] = Calls("estop", s)]
    /\ UNCHANGED <<accepting, episode, thread, reason, revision, remembered,
                   shown, gate, runner, pinned, attempts>>

EmergencyStop(s, c) ==
    /\ c \in Client
    /\ SignalEmergency(s, c)
    /\ UNCHANGED closing

\* shutdown() goes on to join whether its emergency stop worked or not.
AfterCall(s, c) ==
    closing' = IF c = Closer THEN [closing EXCEPT ![s] = "join"] ELSE closing

EmergencyStopReturns(s, c) ==
    /\ call[c] = Calls("estop", s)
    /\ call' = [call EXCEPT ![c] = NoCall]
    /\ inflight' = [inflight EXCEPT ![s] = SignalsLeft(s)]
    /\ Settles(s, state[s], reason[s], thread[s], SignalsLeft(s))
    /\ AfterCall(s, c)
    /\ UNCHANGED <<accepting, episode, thread, revision, remembered, shown,
                   runner, stopSet, estopSet, pinned, attempts>>

\* adapter.emergency_stop raised: the fault is latched whatever the state was.
EmergencyStopFails(s, c) ==
    /\ call[c] = Calls("estop", s)
    /\ call' = [call EXCEPT ![c] = NoCall]
    /\ inflight' = [inflight EXCEPT ![s] = SignalsLeft(s)]
    /\ Settles(s, "FAULTED", "faulted", thread[s], SignalsLeft(s))
    /\ AfterCall(s, c)
    /\ UNCHANGED <<accepting, episode, thread, revision, remembered, shown,
                   runner, stopSet, estopSet, pinned, attempts>>

(***************************************************************************)
(* shutdown(), one service after the other: refuse starts, signal the      *)
(* emergency stop if an episode was active, join the registered thread for *)
(* a bounded time.  No start is accepted any more, so the thread to join   *)
(* is the one of the last episode.                                         *)
(***************************************************************************)

Shutdown(s) ==
    /\ closing[s] = "open"
    /\ \A other \in Service : closing[other] \notin {"signal", "join"}
    /\ accepting' = [accepting EXCEPT ![s] = FALSE]
    /\ closing' = [closing EXCEPT
           ![s] = IF state[s] \in Active THEN "signal" ELSE "join"]
    /\ UNCHANGED <<state, episode, thread, inflight, reason, revision,
                   remembered, shown, gate, runner, stopSet, estopSet, pinned,
                   call, attempts>>

ShutdownSignals(s) ==
    /\ closing[s] = "signal"
    /\ SignalEmergency(s, Closer)
    /\ UNCHANGED closing

\* The join ends because the thread did, or because its timeout did.
ShutdownJoins(s, result) ==
    /\ closing[s] = "join"
    /\ result = "clean" =>
           \A e \in Episode : e = episode[s] => runner[s][e] = "done"
    /\ closing' = [closing EXCEPT ![s] = result]
    /\ UNCHANGED <<state, accepting, episode, thread, inflight, reason,
                   revision, remembered, shown, gate, runner, stopSet,
                   estopSet, pinned, call, attempts>>

-----------------------------------------------------------------------------
RunnerStep(s, e) ==
    \/ RunnerBegins(s, e)
    \/ RunnerConcludes(s, e)
    \/ RunnerFaults(s, e)
    \/ RunnerUnwinds(s, e)

CallReturns(s, c) ==
    \/ StopReturns(s, c)
    \/ EmergencyStopReturns(s, c)
    \/ EmergencyStopFails(s, c)

ServiceStep(s) ==
    \/ \E r \in Request : Start(s, r) \/ StartRollsBack(s, r)
    \/ UpdateSettings(s)
    \/ AcknowledgeFault(s)
    \/ \E e \in Episode :
          \/ Publish(s, e)
          \/ RunnerStep(s, e)
          \/ \E outcome \in Outcome : AdapterReturns(s, e, outcome)
    \/ \E c \in Client : Stop(s, c) \/ EmergencyStop(s, c)
    \/ \E c \in Caller : CallReturns(s, c)
    \/ Shutdown(s)
    \/ ShutdownSignals(s)
    \/ \E result \in {"clean", "pending"} : ShutdownJoins(s, result)

Next == \E s \in Service : ServiceStep(s)

Spec == Init /\ [][Next]_vars

\* Threads are scheduled; a robot's stop calls return or raise; and its run
\* returns once its stop event is set (the adapters poll it).  Nobody is
\* obliged to start, stop or shut down anything.
Fairness ==
    \A s \in Service :
        /\ \A e \in Episode :
              /\ WF_vars(RunnerStep(s, e))
              /\ WF_vars(/\ e \in stopSet[s]
                         /\ \E outcome \in Outcome : AdapterReturns(s, e, outcome))
        /\ \A c \in Caller : WF_vars(CallReturns(s, c))

FairSpec == Spec /\ Fairness

(***************************************************************************)
(* Properties                                                              *)
(***************************************************************************)

Driving(s, e) == runner[s][e] = "driving"

\* At most one background thread is inside adapter.run for a robot, although
\* start() is accepted again before the previous thread has unwound; with a
\* shared gate, at most one for all the robots.
OneEpisodeDrives ==
    \A s, t \in Service : \A e, f \in Episode :
        Driving(s, e) /\ Driving(t, f) /\ (Gated \/ s = t) => s = t /\ e = f

\* The shared gate belongs to a service exactly as long as it has something
\* to finish: it is held while an episode is active or its thread is
\* registered, and it is never left behind once the service is quiescent
\* (the release calls are spread over five exits of four methods).
GateTracksWork ==
    \A s \in Service :
        /\ Gated /\ (state[s] \in Active \/ thread[s] # NoThread) => gate = s
        /\ gate = s => \/ state[s] \in Active
                       \/ ~Quiescent(thread[s], inflight[s])

\* While a stop or an emergency stop is on its way to the robot, no episode
\* is starting or running, and the registered thread has its stop event set:
\* the signal of one episode never meets the next one.
SignalBelongsToEpisode ==
    \A s \in Service : inflight[s] # 0 =>
        /\ state[s] \notin {"STARTING", "RUNNING"}
        /\ thread[s] # NoThread => thread[s] \in stopSet[s]

\* An episode drives under the settings it was started with, and the runtime
\* shown is never that of an earlier episode.
EpisodeIsolation ==
    \A s \in Service :
        /\ \A e \in Episode : Driving(s, e) => pinned[s][e] = revision[s]
        /\ shown[s] \in {0, episode[s]}

\* A fault stays latched until a stop() finds the robot quiescent: neither a
\* runner that unwinds successfully nor a later emergency stop clears it.
FaultStaysLatched ==
    [][\A s \in Service : state[s] = "FAULTED" /\ state'[s] # "FAULTED" =>
          /\ state'[s] = "IDLE"
          /\ reason'[s] = "fault_acknowledged"
          /\ Quiescent(thread[s], inflight[s])]_vars

\* A stopped episode is over: once its stop event is set, its thread does not
\* enter adapter.run any more.
StoppedNeverStarts ==
    [][\A s \in Service : \A e \in stopSet[s] :
          Driving(s, e)' => Driving(s, e)]_vars

\* shutdown() reports a stopped service only if no thread drives its robot,
\* and then none ever will.
ShutdownIsFinal ==
    \A s \in Service : closing[s] = "clean" =>
        \A e \in Episode : runner[s][e] \notin {"begun", "driving"}

\* A client_request_id starts a second episode only after HistoryLimit other
\* starts, those that were rolled back included.
RequestRunsOnce ==
    \A s \in Service : \A i, j \in 1..Len(attempts[s]) :
        i < j /\ attempts[s][i][2] /\ attempts[s][j][2]
              /\ attempts[s][i][1] = attempts[s][j][1] => j - i > HistoryLimit

\* A stopping robot settles: if stop signals do not overlap for ever, it
\* becomes IDLE or FAULTED and gives the gate back.
StopSettles ==
    \A s \in Service :
        []<>(inflight[s] = 0) =>
            (state[s] = "STOPPING" ~> state[s] \notin Active /\ gate # s)

=============================================================================
