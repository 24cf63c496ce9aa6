--------------------------- MODULE Ev3Supervisor ---------------------------
(***************************************************************************)
(* EV3Supervisor: the deterministic state machine between a remote client  *)
(* and two motors.  Only the dispatch thread calls it, so a call is one    *)
(* step, except start_drive, whose start guard looks at what other threads *)
(* have signalled and which is therefore taken apart at every guard.       *)
(*                                                                         *)
(* Sensor and topology reads are outcomes: a call takes the branch that    *)
(* some reading leads to.  The clock is reduced to what is compared with   *)
(* it: whether the heartbeat timeout has passed since the last heartbeat,  *)
(* or the claim before the first one.                                      *)
(***************************************************************************)
EXTENDS Integers, FiniteSets

CONSTANTS
    Command,       \* command ids
    MaxCommands,   \* max_commands_per_session
    MaxSession,    \* bound: sessions ever claimed
    MaxSequence    \* bound: sequence_id is at most 2147483647 in the code

ASSUME SupervisorAssumption ==
    /\ MaxCommands \in Nat
    /\ MaxSession \in Nat
    /\ MaxSequence \in Nat
    /\ "none" \notin Command

Session == 1..MaxSession
NoSession == 0

Sequence == 1..MaxSequence
NoHeartbeat == 0

NoCommand == "none"

Motor == {"left", "right"}

VARIABLES
    state,       \* state
    session,     \* session_id: every claim draws a new one
    issued,      \* sessions claimed so far
    lastSeq,     \* last_sequence_id
    heartbeat,   \* last_heartbeat_sequence, set with last_heartbeat_ms
    aged,        \* heartbeat_timeout_ms passed since heartbeat or claim
    seen,        \* _seen_command_ids
    command,     \* active_command_id
    verified,    \* the latched fault's last stop was confirmed without errors
    moving,      \* the motors that really turn
    runs         \* history: motor starts per command of a session

supervisorVars == <<state, session, issued, lastSeq, heartbeat, aged, seen,
                    command, verified, moving, runs>>

SupervisorTypeOK ==
    /\ state \in {"DISARMED", "ARMED_IDLE", "RUNNING", "FAULT_LATCHED",
                  "CLOSED"}
    /\ session \in Session \cup {NoSession}
    /\ issued \in 0..MaxSession
    /\ session <= issued
    /\ lastSeq \in Sequence \cup {0}
    /\ heartbeat \in Sequence \cup {NoHeartbeat}
    /\ heartbeat <= lastSeq
    /\ aged \in BOOLEAN
    /\ seen \in SUBSET Command
    /\ command \in Command \cup {NoCommand}
    /\ verified \in BOOLEAN
    /\ moving \in SUBSET Motor
    /\ runs \in [Command -> Nat]

\* A start whose stop is not verified may find motors turning that a dead
\* process left behind.
SupervisorInit ==
    /\ session = NoSession
    /\ issued = 0
    /\ lastSeq = 0
    /\ heartbeat = NoHeartbeat
    /\ aged = FALSE
    /\ seen = {}
    /\ command = NoCommand
    /\ verified = FALSE
    /\ runs = [c \in Command |-> 0]
    /\ \/ state = "DISARMED" /\ moving = {}
       \/ state = "FAULT_LATCHED" /\ moving \in SUBSET Motor

-----------------------------------------------------------------------------
(* Stopping and faulting                                                   *)

\* finish_active, stop_all_verified: a verified stop has read every motor
\* inactive and at rest; any other may have reached some of the motors.
StopMotors(ok, turning) ==
    moving' \in IF ok THEN {{}} ELSE SUBSET turning

InvalidateSession ==
    /\ session' = NoSession
    /\ lastSeq' = 0
    /\ heartbeat' = NoHeartbeat
    /\ aged' = FALSE
    /\ seen' = {}

\* _enter_fault, with the motors that turn when it stops them.  Latched
\* already, it only stops again: the session is gone by then.
EnterFaultFrom(turning) ==
    /\ verified' \in BOOLEAN
    /\ StopMotors(verified', turning)
    /\ state' = "FAULT_LATCHED"
    /\ command' = NoCommand
    /\ InvalidateSession
    /\ UNCHANGED <<issued, runs>>

EnterFault == EnterFaultFrom(moving)

\* Variant: nobody looks whether that stop was verified.
InfraredStop_Unverified(turning) ==
    /\ state' = "ARMED_IDLE"
    /\ command' = NoCommand
    /\ StopMotors(FALSE, turning)
    /\ UNCHANGED <<session, issued, lastSeq, heartbeat, aged, seen, verified,
                   runs>>

\* A forward start or drive that the infrared gate ends keeps the session,
\* if the stop is verified.
InfraredStop(turning) ==
    \/ /\ state' = "ARMED_IDLE"
       /\ command' = NoCommand
       /\ moving' = {}
       /\ UNCHANGED <<session, issued, lastSeq, heartbeat, aged, seen,
                      verified, runs>>
    \/ EnterFaultFrom(turning)

HeartbeatIsFresh == heartbeat # NoHeartbeat /\ ~aged

IsSession(s) == session # NoSession /\ s = session

-----------------------------------------------------------------------------
(* Calls.  ok tells whether the call returns or raises.                     *)

\* poll_once.  Any reading may fault it, a timeout while armed must.
PollOnce ==
    \/ EnterFault
    \/ /\ state = "RUNNING"
       /\ InfraredStop(moving)
    \/ /\ state = "RUNNING"          \* the local deadline of the motion
       /\ HeartbeatIsFresh
       /\ state' = "ARMED_IDLE"
       /\ command' = NoCommand
       /\ moving' = {}
       /\ UNCHANGED <<session, issued, lastSeq, heartbeat, aged, seen,
                      verified, runs>>
    \/ /\ state \in {"ARMED_IDLE", "RUNNING"}
       /\ HeartbeatIsFresh
       /\ UNCHANGED supervisorVars
    \/ /\ state = "DISARMED"
       /\ IF session # NoSession /\ aged
          THEN InvalidateSession
          ELSE UNCHANGED <<session, lastSeq, heartbeat, aged, seen>>
       /\ UNCHANGED <<state, issued, command, verified, moving, runs>>

Claim(ok) ==
    LET valid == state = "DISARMED" /\ session = NoSession
    IN  \/ /\ ok
           /\ valid
           /\ issued < MaxSession
           /\ issued' = issued + 1
           /\ session' = issued'
           /\ lastSeq' = 0
           /\ heartbeat' = NoHeartbeat
           /\ aged' = FALSE
           /\ seen' = {}
           /\ runs' = [c \in Command |-> 0]
           /\ UNCHANGED <<state, command, verified, moving>>
        \/ ~ok /\ ~valid /\ UNCHANGED supervisorVars

Heartbeat(s, n, ok) ==
    LET valid == /\ state \in {"DISARMED", "ARMED_IDLE", "RUNNING"}
                 /\ IsSession(s)
                 /\ n > lastSeq
    IN  \/ /\ ok
           /\ valid
           /\ lastSeq' = n
           /\ heartbeat' = n
           /\ aged' = FALSE
           /\ UNCHANGED <<state, session, issued, seen, command, verified,
                          moving, runs>>
        \/ ~ok /\ ~valid /\ UNCHANGED supervisorVars

\* Variant: the heartbeat is not looked at again after the poll, which lets
\* an unarmed session expire.
MayArm_Unchecked(s, n) == IsSession(s) /\ n > lastSeq

\* What arm checks, before its poll and after it.
MayArm(s, n) == IsSession(s) /\ n > lastSeq /\ HeartbeatIsFresh

\* A poll within arm faults, expires the session or leaves everything; an
\* expired one would be armed if nobody looked at its heartbeat again.
Arm(s, n, ok) ==
    \/ /\ ok
       /\ state = "DISARMED"
       /\ MayArm(s, n)
       /\ state' = "ARMED_IDLE"
       /\ lastSeq' = n
       /\ IF aged THEN /\ session' = NoSession
                       /\ heartbeat' = NoHeartbeat
                       /\ aged' = FALSE
                       /\ seen' = {}
                  ELSE UNCHANGED <<session, heartbeat, aged, seen>>
       /\ UNCHANGED <<issued, command, verified, moving, runs>>
    \/ /\ ~ok
       /\ \/ UNCHANGED supervisorVars
          \/ state = "DISARMED" /\ IsSession(s) /\ n > lastSeq /\ PollOnce

\* start_drive up to the acceptance of the command.
MayAccept(s, n, c, reference) ==
    /\ state = "ARMED_IDLE"
    /\ IsSession(s)
    /\ n > lastSeq
    /\ c \notin seen
    /\ Cardinality(seen) < MaxCommands
    /\ reference = heartbeat

\* Variant: only the sequence number protects a command from a replay.
Consume_Forgotten(c) == UNCHANGED seen

Consume(c) == seen' = seen \cup {c}

Accept(s, n, c, reference, ok) ==
    \/ /\ ok
       /\ MayAccept(s, n, c, reference)
       /\ HeartbeatIsFresh
       /\ lastSeq' = n
       /\ Consume(c)
       /\ UNCHANGED <<state, session, issued, heartbeat, aged, command,
                      verified, moving, runs>>
    \/ /\ ~ok
       /\ \/ UNCHANGED supervisorVars
          \/ MayAccept(s, n, c, reference) /\ EnterFault

\* The fresh reads before the motors start: a denied forward start is no
\* fault, anything else is.
Prestart(c, ok) ==
    \/ /\ ok
       /\ HeartbeatIsFresh
       /\ runs' = [runs EXCEPT ![c] = @ + 1]
       /\ UNCHANGED <<state, session, issued, lastSeq, heartbeat, aged, seen,
                      command, verified, moving>>
    \/ ~ok /\ (UNCHANGED supervisorVars \/ EnterFault)

\* One motor's guard and run-timed write.  A start the guard refuses is
\* cleaned up twice.
StartMotor(motor, ok) ==
    \/ /\ ok
       /\ HeartbeatIsFresh
       /\ moving' = moving \cup {motor}
       /\ UNCHANGED <<state, session, issued, lastSeq, heartbeat, aged, seen,
                      command, verified, runs>>
    \/ ~ok /\ InfraredStop(moving)

\* The guard is passed and the write, late or failed, may have happened.
WriteFails(motor) ==
    /\ HeartbeatIsFresh
    /\ EnterFaultFrom(moving \cup {motor})

\* RUNNING, and the checks after the start.
Started(c, ok) ==
    \/ /\ ok
       /\ HeartbeatIsFresh
       /\ state' = "RUNNING"
       /\ command' = c
       /\ UNCHANGED <<session, issued, lastSeq, heartbeat, aged, seen,
                      verified, moving, runs>>
    \/ ~ok /\ InfraredStop(moving)

\* Unauthenticated: it works in every state but CLOSED, ends the session and
\* leaves a fault latched.
StopNow(ok) ==
    /\ StopMotors(ok, moving)
    /\ command' = NoCommand
    /\ InvalidateSession
    /\ IF state # "FAULT_LATCHED" /\ ok
       THEN state' = "DISARMED" /\ UNCHANGED verified
       ELSE state' = "FAULT_LATCHED" /\ verified' = ok
    /\ UNCHANGED <<issued, runs>>

Release(s, n, ok) ==
    LET valid == /\ state \in {"DISARMED", "ARMED_IDLE", "RUNNING"}
                 /\ IsSession(s)
                 /\ n > lastSeq
    IN  \/ ok /\ valid /\ \E stopped \in BOOLEAN : StopNow(stopped)
        \/ ~ok /\ ~valid /\ UNCHANGED supervisorVars

\* The stop is tried twice, and the motor lock is kept without a verified one.
Close ==
    \/ EnterFault
    \/ /\ state' = "CLOSED"
       /\ moving' = {}
       /\ command' = NoCommand
       /\ InvalidateSession
       /\ UNCHANGED <<issued, verified, runs>>

-----------------------------------------------------------------------------
(* Time                                                                    *)

HeartbeatAges ==
    /\ session # NoSession
    /\ ~aged
    /\ aged' = TRUE
    /\ UNCHANGED <<state, session, issued, lastSeq, heartbeat, seen, command,
                   verified, moving, runs>>

\* A run-timed motor stops by itself.
MotorRunsOut ==
    /\ \E motor \in moving : moving' = moving \ {motor}
    /\ UNCHANGED <<state, session, issued, lastSeq, heartbeat, aged, seen,
                   command, verified, runs>>

=============================================================================
