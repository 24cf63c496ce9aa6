---------------------- MODULE SupervisorSessionProofs ----------------------
(***************************************************************************)
(* Safety of the EV3 supervisor session for any number of sessions,        *)
(* commands and sequence numbers and any queue sizes.                      *)
(***************************************************************************)
EXTENDS SupervisorSession, TLAPS

\* What no call of the supervisor breaks.
Core ==
    /\ SupervisorTypeOK
    /\ ArmedIsClaimed
    /\ command # NoCommand <=> state = "RUNNING"
    /\ \A c \in Command :
        /\ runs[c] <= 1
        /\ session # NoSession /\ c \notin seen => runs[c] = 0

\* The motors turn for a running command or against the supervisor's will.
Owned ==
    moving # {} => state = "RUNNING" \/ (state = "FAULT_LATCHED" /\ ~verified)

-----------------------------------------------------------------------------
(* The supervisor's calls                                                  *)

\* Without a session every field has its initial value.
LEMMA UnclaimedIsTyped ==
    ASSUME SupervisorTypeOK, InvalidateSession, UNCHANGED <<issued, runs>>,
           state' \in {"DISARMED", "FAULT_LATCHED", "CLOSED"},
           command' = NoCommand, verified' \in BOOLEAN, moving' \in SUBSET Motor
    PROVE  SupervisorTypeOK'
  <1>1. /\ issued' \in 0..MaxSession
        /\ runs' \in [Command -> Nat]
    BY DEF SupervisorTypeOK
  <1>2. /\ session' \in Session \cup {NoSession}
        /\ session' <= issued'
    BY <1>1, SupervisorAssumption DEF InvalidateSession, NoSession, Session
  <1>3. /\ lastSeq' \in Sequence \cup {0}
        /\ heartbeat' \in Sequence \cup {NoHeartbeat}
        /\ heartbeat' <= lastSeq'
    BY DEF InvalidateSession, NoHeartbeat
  <1>4. aged' \in BOOLEAN /\ seen' \in SUBSET Command
    BY DEF InvalidateSession
  <1> QED BY <1>1, <1>2, <1>3, <1>4 DEF SupervisorTypeOK

\* _enter_fault leaves nobody in charge, and motors only if it says so.
LEMMA FaultKeepsCore ==
    ASSUME Core, NEW turning \in SUBSET Motor, EnterFaultFrom(turning)
    PROVE  /\ Core' /\ Owned'
           /\ moving' \subseteq turning
           /\ state' = "FAULT_LATCHED"
  <1> USE DEF Core, EnterFaultFrom
  <1>1. /\ verified' \in BOOLEAN /\ moving' \subseteq turning
        /\ verified' => moving' = {}
    BY DEF StopMotors
  <1>2. SupervisorTypeOK'
    BY <1>1, UnclaimedIsTyped
  <1>3. ArmedIsClaimed'
    BY DEF ArmedIsClaimed, InvalidateSession
  <1>4. \A c \in Command : runs'[c] <= 1
    OBVIOUS
  <1>5. Core'
    BY <1>2, <1>3, <1>4 DEF InvalidateSession
  <1> QED BY <1>1, <1>5 DEF Owned

\* The infrared gate's stop keeps an armed session armed.
LEMMA InfraredKeepsCore ==
    ASSUME Core, state \in {"ARMED_IDLE", "RUNNING"},
           NEW turning \in SUBSET Motor, InfraredStop(turning)
    PROVE  Core' /\ Owned' /\ moving' \subseteq turning
  <1>1. CASE EnterFaultFrom(turning)
    BY <1>1, FaultKeepsCore
  <1>2. CASE /\ state' = "ARMED_IDLE"
             /\ command' = NoCommand
             /\ moving' = {}
             /\ UNCHANGED <<session, issued, lastSeq, heartbeat, aged, seen,
                            verified, runs>>
    BY <1>2 DEF Core, Owned, SupervisorTypeOK, ArmedIsClaimed
  <1> QED BY <1>1, <1>2 DEF InfraredStop

\* Every supervisor call that stutters changes nothing of this.
LEMMA StutterKeepsCore ==
    ASSUME Core, Owned, UNCHANGED supervisorVars
    PROVE  Core' /\ Owned' /\ moving' \subseteq moving
  BY DEF Core, Owned, supervisorVars, SupervisorTypeOK, ArmedIsClaimed

\* poll_once ends, keeps or expires a session, and starts no motor.
LEMMA PollKeepsCore ==
    ASSUME Core, Owned, PollOnce
    PROVE  Core' /\ Owned' /\ moving' \subseteq moving
  <1>1. moving \in SUBSET Motor
    BY DEF Core, SupervisorTypeOK
  <1>2. CASE EnterFault
    BY <1>1, <1>2, FaultKeepsCore DEF EnterFault
  <1>3. CASE state = "RUNNING" /\ InfraredStop(moving)
    BY <1>1, <1>3, InfraredKeepsCore
  <1>4. CASE /\ state = "RUNNING"
             /\ state' = "ARMED_IDLE"
             /\ command' = NoCommand
             /\ moving' = {}
             /\ UNCHANGED <<session, issued, lastSeq, heartbeat, aged, seen,
                            verified, runs>>
    BY <1>4 DEF Core, Owned, SupervisorTypeOK, ArmedIsClaimed
  <1>5. CASE UNCHANGED supervisorVars
    BY <1>5, StutterKeepsCore
  <1>6. CASE /\ state = "DISARMED"
             /\ InvalidateSession
             /\ UNCHANGED <<state, issued, command, verified, moving, runs>>
    <2>1. /\ command' = NoCommand
          /\ verified' \in BOOLEAN
          /\ moving' \in SUBSET Motor
      BY <1>6 DEF Core, SupervisorTypeOK
    <2>2. SupervisorTypeOK'
      BY <1>6, <2>1, UnclaimedIsTyped DEF Core
    <2> QED
      BY <1>6, <2>2 DEF Core, Owned, ArmedIsClaimed, InvalidateSession
  <1>7. CASE /\ UNCHANGED <<session, lastSeq, heartbeat, aged, seen>>
             /\ UNCHANGED <<state, issued, command, verified, moving, runs>>
    BY <1>7, StutterKeepsCore DEF supervisorVars
  <1> QED BY <1>2, <1>3, <1>4, <1>5, <1>6, <1>7 DEF PollOnce

\* stop ends the session; DISARMED means that nothing turns.
LEMMA StopKeepsCore ==
    ASSUME Core, Owned, NEW ok \in BOOLEAN, StopNow(ok)
    PROVE  /\ Core' /\ Owned'
           /\ moving' \subseteq moving
           /\ session' = NoSession
           /\ Proves' => moving' = {}
  <1> USE DEF Core, StopNow
  <1>1. /\ moving' \subseteq moving
        /\ ok => moving' = {}
    BY DEF StopMotors
  <1>2. /\ \/ state' = "DISARMED" /\ ok /\ verified' = verified
           \/ state' = "FAULT_LATCHED" /\ verified' = ok
        /\ command' = NoCommand
    OBVIOUS
  <1>3. /\ session' = NoSession /\ lastSeq' = 0 /\ heartbeat' = NoHeartbeat
        /\ aged' = FALSE /\ seen' = {} /\ issued' = issued /\ runs' = runs
    BY DEF InvalidateSession
  <1>4. SupervisorTypeOK'
    <2>1. /\ verified' \in BOOLEAN
          /\ moving' \in SUBSET Motor
      BY <1>1, <1>2 DEF SupervisorTypeOK
    <2> QED BY <1>2, <2>1, UnclaimedIsTyped
  <1>5. ArmedIsClaimed'
    BY <1>2, <1>3 DEF ArmedIsClaimed
  <1>6. Core'
    BY <1>2, <1>3, <1>4, <1>5
  <1> QED BY <1>1, <1>2, <1>3, <1>6 DEF Owned, Proves

\* A claimed session starts with nothing seen and nothing run.
LEMMA ClaimKeepsCore ==
    ASSUME Core, Owned, NEW ok \in BOOLEAN, Claim(ok)
    PROVE  Core' /\ Owned' /\ moving' \subseteq moving
           /\ (ok => session' # NoSession)
  <1>1. CASE ~ok
    BY <1>1, StutterKeepsCore DEF Claim
  <1>2. CASE ok
    <2> USE DEF Core, Claim
    <2>1. /\ issued' = issued + 1 /\ session' = issued' /\ issued < MaxSession
          /\ lastSeq' = 0 /\ heartbeat' = NoHeartbeat /\ aged' = FALSE
          /\ seen' = {} /\ runs' = [c \in Command |-> 0] /\ state = "DISARMED"
          /\ UNCHANGED <<state, command, verified, moving>>
      BY <1>2
    <2>2. session' \in Session /\ session' # NoSession
      BY <2>1, SupervisorAssumption DEF SupervisorTypeOK, Session, NoSession
    <2>3. SupervisorTypeOK'
      <3>1. issued' \in 0..MaxSession /\ session' <= issued'
        BY <2>1, SupervisorAssumption DEF SupervisorTypeOK
      <3>2. /\ lastSeq' \in Sequence \cup {0}
            /\ heartbeat' \in Sequence \cup {NoHeartbeat}
            /\ heartbeat' <= lastSeq'
        BY <2>1 DEF NoHeartbeat
      <3>3. runs' \in [Command -> Nat] /\ seen' \in SUBSET Command
        BY <2>1
      <3> QED BY <2>1, <2>2, <3>1, <3>2, <3>3 DEF SupervisorTypeOK
    <2>4. ArmedIsClaimed'
      BY <2>1 DEF ArmedIsClaimed
    <2>5. \A c \in Command : runs'[c] = 0
      BY <2>1
    <2>6. Core'
      BY <2>1, <2>3, <2>4, <2>5
    <2> QED BY <2>1, <2>2, <2>6 DEF Owned
  <1> QED BY <1>1, <1>2

\* A heartbeat is of the live session.
LEMMA HeartbeatKeepsCore ==
    ASSUME Core, Owned, NEW s \in Session, NEW n \in Sequence,
           NEW ok \in BOOLEAN, Heartbeat(s, n, ok)
    PROVE  Core' /\ Owned' /\ moving' \subseteq moving
           /\ (ok => session' # NoSession)
  <1>1. CASE ~ok
    BY <1>1, StutterKeepsCore DEF Heartbeat
  <1>2. CASE ok
    <2>1. /\ lastSeq' = n /\ heartbeat' = n /\ aged' = FALSE
          /\ session # NoSession
          /\ state \in {"DISARMED", "ARMED_IDLE", "RUNNING"}
          /\ UNCHANGED <<state, session, issued, seen, command, verified,
                         moving, runs>>
      BY <1>2 DEF Heartbeat, IsSession
    <2>2. SupervisorTypeOK'
      <3>1. n <= n
        BY SupervisorAssumption DEF Sequence
      <3> QED BY <2>1, <3>1 DEF Core, SupervisorTypeOK
    <2>3. ArmedIsClaimed'
      BY <2>1, SupervisorAssumption
         DEF Core, ArmedIsClaimed, NoHeartbeat, Sequence
    <2> QED BY <2>1, <2>2, <2>3 DEF Core, Owned
  <1> QED BY <1>1, <1>2

\* An armed session has not expired in the poll before it.
LEMMA ArmKeepsCore ==
    ASSUME Core, Owned, NEW s \in Session, NEW n \in Sequence,
           NEW ok \in BOOLEAN, Arm(s, n, ok)
    PROVE  Core' /\ Owned' /\ moving' \subseteq moving
           /\ (ok => state' = "ARMED_IDLE")
  <1>1. CASE ~ok
    BY <1>1, StutterKeepsCore, PollKeepsCore DEF Arm
  <1>2. CASE ok
    <2>1. /\ lastSeq' = n /\ n > lastSeq /\ state' = "ARMED_IDLE"
          /\ session # NoSession /\ heartbeat # NoHeartbeat
          /\ state = "DISARMED"
          /\ UNCHANGED <<session, heartbeat, aged, seen, issued, command,
                         verified, moving, runs>>
      BY <1>2 DEF Arm, MayArm, IsSession, HeartbeatIsFresh
    <2>2. SupervisorTypeOK'
      BY <2>1, SupervisorAssumption
         DEF Core, SupervisorTypeOK, Sequence, NoHeartbeat
    <2>3. ArmedIsClaimed'
      BY <2>1 DEF ArmedIsClaimed
    <2> QED BY <2>1, <2>2, <2>3 DEF Core, Owned
  <1> QED BY <1>1, <1>2

\* release ends the session whatever its stop has shown.
LEMMA ReleaseKeepsCore ==
    ASSUME Core, Owned, NEW s \in Session, NEW n \in Sequence,
           NEW ok \in BOOLEAN, Release(s, n, ok)
    PROVE  Core' /\ Owned' /\ moving' \subseteq moving
           /\ (ok => session' = NoSession)
  BY StutterKeepsCore, StopKeepsCore DEF Release

\* A closed supervisor has no session and turns no motor.
LEMMA CloseKeepsCore ==
    ASSUME Core, Owned, Close
    PROVE  Core' /\ Owned' /\ moving' \subseteq moving
  <1>1. moving \in SUBSET Motor
    BY DEF Core, SupervisorTypeOK
  <1>2. CASE EnterFault
    BY <1>1, <1>2, FaultKeepsCore DEF EnterFault
  <1>3. CASE /\ state' = "CLOSED"
             /\ moving' = {}
             /\ command' = NoCommand
             /\ InvalidateSession
             /\ UNCHANGED <<issued, verified, runs>>
    <2>1. verified' \in BOOLEAN /\ moving' \in SUBSET Motor
      BY <1>3 DEF Core, SupervisorTypeOK
    <2>2. SupervisorTypeOK'
      BY <1>3, <2>1, UnclaimedIsTyped DEF Core
    <2> QED
      BY <1>3, <2>2 DEF Core, Owned, ArmedIsClaimed, InvalidateSession
  <1> QED BY <1>2, <1>3 DEF Close

\* The clock and the motors' own timers.
LEMMA TimeKeepsCore ==
    ASSUME Core, HeartbeatAges \/ MotorRunsOut
    PROVE  /\ Core'
           /\ moving' \subseteq moving
           /\ UNCHANGED <<state, session, command, verified, seen, runs>>
  BY DEF Core, HeartbeatAges, MotorRunsOut, SupervisorTypeOK, ArmedIsClaimed

-----------------------------------------------------------------------------
(* The session's invariant                                                 *)

SessionTypes ==
    /\ pc \in Label
    /\ overrun \in BOOLEAN
    /\ request \in Operation \cup StopOperation \cup {NoRequest}
    /\ starting \in Command \cup {NoCommand}
    /\ reply \in BOOLEAN
    /\ excuse \in {"none", "external", "deadline", "unconfirmed"}
    /\ proof \in BOOLEAN
    /\ normal \in 0..NormalQueue
    /\ urgent \in 0..UrgentQueue
    /\ output \in 0..OutputQueue
    /\ stopEvent \in BOOLEAN
    /\ failing \in BOOLEAN
    /\ shutdown \in BOOLEAN

\* A drive request under way belongs to an armed session and has not started
\* its motors before; at all other times the motors are owned.
DriveInv ==
    /\ pc \in Starting =>
           state = "ARMED_IDLE" /\ starting \in Command /\ request = "DRIVE"
    /\ pc = "prestart" => starting \in seen /\ runs[starting] = 0
    /\ pc \notin {"right", "started"} => Owned

\* From the answer to its publication, a success that no error will replace
\* is true.
Promise ==
    /\ pc \in {"after", "judge", "complete", "publish", "published"}
    /\ reply
    /\ pc = "published" \/ excuse = "none" \/ Excused
    => StillTrue

Inv == SessionTypes /\ Core /\ DriveInv /\ Promise

\* A stop is proved only when nothing turns.
LEMMA ProvedMeansStill ==
    ASSUME Owned, Proves
    PROVE  moving = {}
  BY DEF Owned, Proves

\* What a step leaves alone that leaves the supervisor alone.
LEMMA SupervisorUnchanged ==
    ASSUME Inv, UNCHANGED supervisorVars
    PROVE  /\ Core'
           /\ Owned => Owned'
           /\ UNCHANGED <<state, session, command, verified, moving, seen,
                          runs>>
           /\ Proves' <=> Proves
  BY DEF Inv, Core, Owned, supervisorVars, SupervisorTypeOK, ArmedIsClaimed,
         Proves

\* Nobody promises anything outside a response.
LEMMA InvAtRest ==
    ASSUME SessionTypes', Core', Owned',
           pc' \notin Starting,
           pc' \notin {"after", "judge", "complete", "publish", "published"}
    PROVE  Inv'
  BY DEF Inv, DriveInv, Promise, Starting

\* An error promises nothing.
LEMMA InvAfterError ==
    ASSUME SessionTypes', Core', Owned', pc' = "after", ~reply'
    PROVE  Inv'
  BY DEF Inv, DriveInv, Promise, Starting

LEMMA InvWake == ASSUME Inv, Wake PROVE Inv'
  <1>1. SessionTypes' /\ pc' = "closing"
    BY DEF Inv, SessionTypes, Wake, FailTransport, Label
  <1>2. Owned
    BY DEF Inv, DriveInv, Wake
  <1>3. Core' /\ Owned'
    BY <1>2, SupervisorUnchanged DEF Wake
  <1> QED BY <1>1, <1>3, InvAtRest DEF Starting

LEMMA InvWakeInTime == ASSUME Inv, WakeInTime PROVE Inv'
  <1>1. SessionTypes' /\ pc' = "stop1"
    BY DEF Inv, SessionTypes, WakeInTime, Quiet, Label, Look
  <1>2. Owned
    BY DEF Inv, DriveInv, WakeInTime
  <1>3. Core' /\ Owned'
    BY <1>2, SupervisorUnchanged DEF WakeInTime
  <1> QED BY <1>1, <1>3, InvAtRest DEF Starting

\* EnterFault, by its own, as it is used between requests.
LEMMA FaultKeepsOwned ==
    ASSUME Inv, EnterFault
    PROVE  Core' /\ Owned' /\ moving' \subseteq moving
  <1>1. moving \in SUBSET Motor
    BY DEF Inv, Core, SupervisorTypeOK
  <1> QED BY <1>1, FaultKeepsCore DEF EnterFault, Inv

LEMMA InvWakeLate == ASSUME Inv, WakeLate PROVE Inv'
  <1>1. SessionTypes' /\ pc' = "stop3"
    BY DEF Inv, SessionTypes, WakeLate, Quiet, Label, Look
  <1>2. Core' /\ Owned'
    BY FaultKeepsOwned DEF WakeLate
  <1> QED BY <1>1, <1>2, InvAtRest DEF Starting

LEMMA InvPoll == ASSUME Inv, Poll PROVE Inv'
  <1>1. SessionTypes' /\ pc' = "stop2"
    BY DEF Inv, SessionTypes, Poll, Quiet, Label, Look
  <1>2. Owned
    BY DEF Inv, DriveInv, Poll
  <1>3. Core' /\ Owned'
    BY <1>2, PollKeepsCore DEF Poll, Inv
  <1> QED BY <1>1, <1>3, InvAtRest DEF Starting

LEMMA InvAdmit == ASSUME Inv, Admit PROVE Inv'
  <1>1. SessionTypes' /\ pc' \in {"take", "stop3"}
    BY ZenonT(60) DEF Inv, SessionTypes, Admit, Quiet, Label, Look
  <1>2. Owned
    BY DEF Inv, DriveInv, Admit
  <1>3. Core' /\ Owned'
    BY <1>2, FaultKeepsOwned, SupervisorUnchanged DEF Admit
  <1> QED BY <1>1, <1>3, InvAtRest DEF Starting

-----------------------------------------------------------------------------
(* Looking for a stop request                                              *)

LEMMA AfterLook ==
    ASSUME NEW label \in Look
    PROVE  /\ After(label) \in Label
           /\ After(label) \notin Starting
           /\ After(label) # "published"
           /\ After(label) \in {"after", "judge", "complete", "publish"} =>
                  label \in {"after", "stop4", "complete"}
  BY DEF After, Look, Label, Starting

LEMMA ExcuseOfLook ==
    ASSUME NEW label \in Look, Inv,
           NEW outcome \in {"none", "external", "unconfirmed"}
    PROVE  /\ LookExcuse(label, outcome) \in
                  {"none", "external", "deadline", "unconfirmed"}
           /\ label = "stop4" =>
                  LookExcuse(label, outcome) \in {"deadline", "unconfirmed"}
           /\ label \in {"after", "complete"} =>
                  /\ outcome = "none" => LookExcuse(label, outcome) = excuse
                  /\ outcome = "external" =>
                         LookExcuse(label, outcome) # "none"
                  /\ outcome = "unconfirmed" =>
                         LookExcuse(label, outcome) = "unconfirmed"
  BY DEF LookExcuse, Excuse, Prefer, Look, Inv, SessionTypes

LEMMA InvLookFindsNothing == ASSUME Inv, LookFindsNothing PROVE Inv'
  <1>1. /\ pc \in Look
        /\ pc' = After(pc) /\ excuse' = LookExcuse(pc, "none")
        /\ request' = request /\ reply' = reply
        /\ UNCHANGED supervisorVars
    BY DEF LookFindsNothing
  <1>2. Owned
    BY <1>1 DEF Inv, DriveInv, Look
  <1>3. Core' /\ Owned'
    BY <1>1, <1>2, SupervisorUnchanged
  <1>4. pc' \in Label /\ excuse' \in
            {"none", "external", "deadline", "unconfirmed"}
    BY <1>1, AfterLook, ExcuseOfLook
  <1>5. SessionTypes'
    BY <1>4 DEF LookFindsNothing, Inv, SessionTypes, Quiet
  <1>6. StillTrue => StillTrue'
    BY <1>1, SupervisorUnchanged DEF StillTrue
  <1>7. ASSUME pc' \in {"after", "judge", "complete", "publish"},
               reply', excuse' = "none" \/ Excused'
        PROVE  StillTrue'
    <2>1. pc \in {"after", "complete"}
      BY <1>1, <1>7, AfterLook, ExcuseOfLook DEF Excused
    <2>2. excuse' = excuse
      BY <1>1, <2>1, ExcuseOfLook
    <2> QED BY <1>1, <1>6, <1>7, <2>1, <2>2 DEF Inv, Promise, Excused
  <1>8. pc' \notin Starting /\ pc' # "published"
    BY <1>1, AfterLook
  <1> QED BY <1>3, <1>5, <1>7, <1>8 DEF Inv, DriveInv, Promise, Starting

LEMMA InvLookStops == ASSUME Inv, LookStops PROVE Inv'
  <1> DEFINE outcome == IF Proves' THEN "external" ELSE "unconfirmed"
  <1>1. /\ pc \in Look
        /\ pc' \in {"closing", After(pc)} /\ excuse' = LookExcuse(pc, outcome)
        /\ request' = request /\ reply' = reply
    BY DEF LookStops
  <1>2. Owned
    BY <1>1 DEF Inv, DriveInv, Look
  <1>3. Core' /\ Owned' /\ (Proves' => moving' = {})
    BY <1>2, StopKeepsCore DEF LookStops, Inv
  <1>4. outcome \in {"external", "unconfirmed"}
    OBVIOUS
  <1>5. pc' \in Label /\ excuse' \in
            {"none", "external", "deadline", "unconfirmed"}
    BY <1>1, <1>4, AfterLook, ExcuseOfLook DEF Label
  <1>6. Proves' \in BOOLEAN
    BY DEF Proves
  <1>7. SessionTypes'
    BY <1>5, <1>6 DEF LookStops, Inv, SessionTypes
  <1>8. ASSUME pc' \in {"after", "judge", "complete", "publish"},
               reply', excuse' = "none" \/ Excused'
        PROVE  StillTrue'
    <2>1. pc \in {"after", "complete"}
      BY <1>1, <1>4, <1>8, AfterLook, ExcuseOfLook DEF Excused
    <2>2. outcome = "external" /\ excuse' # "none"
      BY <1>1, <1>4, <1>8, <2>1, ExcuseOfLook DEF Excused
    <2>3. Proves' /\ request' \in StopOperation
      BY <1>8, <2>2 DEF Excused
    <2> QED BY <1>3, <2>3 DEF StillTrue, StopOperation
  <1>9. pc' \notin Starting /\ pc' # "published"
    BY <1>1, AfterLook DEF Starting
  <1> QED BY <1>3, <1>7, <1>8, <1>9 DEF Inv, DriveInv, Promise, Starting

-----------------------------------------------------------------------------
(* One request                                                             *)

LEMMA InvTakeNormal == ASSUME Inv, TakeNormal PROVE Inv'
  <1>1. request' \in Operation /\ normal' \in 0..NormalQueue
    BY QueueAssumption DEF TakeNormal, Inv, SessionTypes
  <1>2. SessionTypes' /\ pc' = "execute"
    BY <1>1 DEF Inv, SessionTypes, TakeNormal, Label
  <1>3. Owned
    BY DEF Inv, DriveInv, TakeNormal
  <1>4. Core' /\ Owned'
    BY <1>3, SupervisorUnchanged DEF TakeNormal
  <1> QED BY <1>2, <1>4, InvAtRest DEF Starting

LEMMA InvTakeUrgent == ASSUME Inv, TakeUrgent PROVE Inv'
  <1>1. urgent' \in 0..UrgentQueue
    BY QueueAssumption DEF TakeUrgent, Inv, SessionTypes
  <1>2. SessionTypes'
    BY <1>1 DEF Inv, SessionTypes, TakeUrgent, Label, Look
  <1>3. Owned
    BY DEF Inv, DriveInv, TakeUrgent
  <1>4. /\ Core' /\ Owned'
        /\ Proves' <=> Proves
        /\ moving' = moving
    BY <1>3, SupervisorUnchanged DEF TakeUrgent
  <1>5. CASE ProofHolds
    <2>1. pc' = "after" /\ request' \in StopOperation
      BY <1>5 DEF TakeUrgent
    <2>2. Proves' /\ moving' = {}
      BY <1>3, <1>4, <1>5, ProvedMeansStill DEF ProofHolds
    <2>3. StillTrue'
      BY <2>1, <2>2 DEF StillTrue, StopOperation
    <2> QED BY <1>2, <1>4, <2>1, <2>3 DEF Inv, DriveInv, Promise, Starting
  <1>6. CASE ~ProofHolds
    <2>1. pc' = "execute"
      BY <1>6 DEF TakeUrgent
    <2> QED BY <1>2, <1>4, <2>1, InvAtRest DEF Starting
  <1> QED BY <1>5, <1>6

LEMMA InvTakeNothing == ASSUME Inv, TakeNothing PROVE Inv'
  <1>1. SessionTypes'
    BY DEF Inv, SessionTypes, TakeNothing, Quiet, Label, Look
  <1>2. Owned
    BY DEF Inv, DriveInv, TakeNothing
  <1>3. Core' /\ Owned'
    BY <1>2, SupervisorUnchanged DEF TakeNothing
  <1>4. pc' = "after" /\ request' = NoRequest
    BY DEF TakeNothing
  <1>5. StillTrue'
    BY <1>4 DEF StillTrue, NoRequest, StopOperation
  <1> QED BY <1>1, <1>3, <1>4, <1>5 DEF Inv, DriveInv, Promise, Starting

LEMMA AnswerIsTyped ==
    ASSUME Inv, NEW ok \in BOOLEAN, Answer(ok),
           starting' \in Command \cup {NoCommand}
    PROVE  SessionTypes'
  BY DEF Inv, SessionTypes, Answer, Quiet, Label, Look

LEMMA InvExecute == ASSUME Inv, Execute PROVE Inv'
  <1>1. Owned /\ Core
    BY DEF Inv, DriveInv, Execute
  <1>2. PICK ok \in BOOLEAN :
            /\ Answer(ok)
            /\ \/ ~ok /\ request \notin StopOperation /\ UNCHANGED supervisorVars
               \/ request = "QUERY" /\ UNCHANGED supervisorVars
               \/ request = "CLAIM" /\ Claim(ok)
               \/ \E s \in Session, n \in Sequence :
                    \/ request = "HEARTBEAT" /\ Heartbeat(s, n, ok)
                    \/ request = "ARM" /\ Arm(s, n, ok)
                    \/ request = "RELEASE" /\ Release(s, n, ok)
               \/ /\ request \in StopOperation
                  /\ \E stopped \in BOOLEAN : StopNow(stopped)
                  /\ ok = Proves'
    BY DEF Execute
  <1>3. /\ pc' = "after" /\ reply' = ok /\ request' = request
        /\ starting' = starting
    BY <1>2 DEF Answer, Execute
  <1>4. SessionTypes'
    BY <1>2, <1>3, AnswerIsTyped DEF Inv, SessionTypes
  <1>5. Core' /\ Owned' /\ (ok => StillTrue')
    <2>1. CASE ~ok /\ UNCHANGED supervisorVars
      BY <1>1, <2>1, StutterKeepsCore
    <2>2. CASE request = "QUERY" /\ UNCHANGED supervisorVars
      BY <1>1, <1>3, <2>2, StutterKeepsCore DEF StillTrue, StopOperation
    <2>3. CASE request = "CLAIM" /\ Claim(ok)
      BY <1>1, <1>3, <2>3, ClaimKeepsCore DEF StillTrue, StopOperation
    <2>4. ASSUME NEW s \in Session, NEW n \in Sequence,
                 request = "HEARTBEAT", Heartbeat(s, n, ok)
          PROVE  Core' /\ Owned' /\ (ok => StillTrue')
      BY <1>1, <1>3, <2>4, HeartbeatKeepsCore DEF StillTrue, StopOperation
    <2>5. ASSUME NEW s \in Session, NEW n \in Sequence,
                 request = "ARM", Arm(s, n, ok)
          PROVE  Core' /\ Owned' /\ (ok => StillTrue')
      BY <1>1, <1>3, <2>5, ArmKeepsCore DEF StillTrue, StopOperation
    <2>6. ASSUME NEW s \in Session, NEW n \in Sequence,
                 request = "RELEASE", Release(s, n, ok)
          PROVE  Core' /\ Owned' /\ (ok => StillTrue')
      BY <1>1, <1>3, <2>6, ReleaseKeepsCore DEF StillTrue, StopOperation
    <2>7. ASSUME NEW stopped \in BOOLEAN, request \in StopOperation,
                 StopNow(stopped), ok = Proves'
          PROVE  Core' /\ Owned' /\ (ok => StillTrue')
      BY <1>1, <1>3, <2>7, StopKeepsCore DEF StillTrue, StopOperation
    <2> QED BY <1>2, <2>1, <2>2, <2>3, <2>4, <2>5, <2>6, <2>7
  <1>6. CASE ok
    BY <1>3, <1>4, <1>5, <1>6 DEF Inv, DriveInv, Promise, Starting
  <1>7. CASE ~ok
    BY <1>3, <1>4, <1>5, <1>7, InvAfterError
  <1> QED BY <1>6, <1>7

LEMMA InvExecuteDrive == ASSUME Inv, ExecuteDrive PROVE Inv'
  <1>1. Owned /\ Core /\ request = "DRIVE"
    BY DEF Inv, DriveInv, ExecuteDrive
  <1>2. PICK c \in Command, s \in Session, n \in Sequence,
             reference \in Sequence, ok \in BOOLEAN :
            /\ Accept(s, n, c, reference, ok)
            /\ IF ok
               THEN /\ pc' = "prestart"
                    /\ starting' = c
                    /\ Quiet
                    /\ UNCHANGED <<overrun, request, reply, excuse, proof>>
               ELSE Answer(FALSE) /\ UNCHANGED starting
    BY DEF ExecuteDrive
  <1>3. CASE ~ok
    <2>1. SessionTypes'
      BY <1>2, <1>3, AnswerIsTyped DEF Inv, SessionTypes
    <2>2. Core' /\ Owned'
      BY <1>1, <1>2, <1>3, StutterKeepsCore, FaultKeepsOwned DEF Accept
    <2> QED BY <1>2, <1>3, <2>1, <2>2, InvAfterError DEF Answer
  <1>4. CASE ok
    <2>1. /\ state = "ARMED_IDLE" /\ session # NoSession
          /\ c \notin seen /\ n > lastSeq /\ lastSeq' = n
          /\ seen' = seen \cup {c}
          /\ UNCHANGED <<state, session, issued, heartbeat, aged, command,
                         verified, moving, runs>>
      BY <1>2, <1>4 DEF Accept, MayAccept, IsSession, Consume
    <2>2. SupervisorTypeOK'
      <3>1. heartbeat' <= lastSeq'
        BY <1>1, <2>1, SupervisorAssumption
           DEF Core, SupervisorTypeOK, Sequence, NoHeartbeat
      <3> QED BY <1>1, <2>1, <3>1 DEF Core, SupervisorTypeOK
    <2>3. Core' /\ Owned'
      BY <1>1, <2>1, <2>2 DEF Core, Owned, ArmedIsClaimed
    <2>4. runs[c] = 0
      BY <1>1, <2>1 DEF Core
    <2>5. pc' = "prestart" /\ starting' = c /\ request' = "DRIVE"
      BY <1>1, <1>2, <1>4
    <2>6. SessionTypes'
      BY <1>2, <1>4 DEF Inv, SessionTypes, Quiet, Label, Starting
    <2> QED BY <2>1, <2>3, <2>4, <2>5, <2>6 DEF Inv, DriveInv, Promise
  <1> QED BY <1>3, <1>4

\* A refused step of a drive answers, another one goes on.
LEMMA GoesOnIsTyped ==
    ASSUME Inv, NEW ok \in BOOLEAN, NEW label \in Label, GoesOn(ok, label)
    PROVE  /\ SessionTypes'
           /\ ok => /\ pc' = label
                     /\ starting' = starting /\ request' = request
           /\ ~ok => pc' = "after" /\ ~reply'
  <1>1. CASE ok
    BY <1>1 DEF GoesOn, Inv, SessionTypes, Quiet
  <1>2. CASE ~ok
    BY <1>2, AnswerIsTyped DEF GoesOn, Answer
  <1> QED BY <1>1, <1>2

LEMMA InvDrivePrestart == ASSUME Inv, DrivePrestart PROVE Inv'
  <1>1. PICK ok \in BOOLEAN : Prestart(starting, ok) /\ GoesOn(ok, "left")
    BY DEF DrivePrestart
  <1>2. /\ pc = "prestart" /\ state = "ARMED_IDLE" /\ starting \in Command
        /\ request = "DRIVE"
        /\ starting \in seen /\ runs[starting] = 0 /\ Owned /\ Core
    BY DEF DrivePrestart, Inv, DriveInv, Starting
  <1>3. /\ SessionTypes'
        /\ ok => /\ pc' = "left"
                  /\ starting' = starting /\ request' = request
        /\ ~ok => pc' = "after" /\ ~reply'
    BY <1>1, GoesOnIsTyped DEF Label, Starting
  <1>4. CASE ok
    <2>1. /\ runs' = [runs EXCEPT ![starting] = @ + 1]
          /\ UNCHANGED <<state, session, issued, lastSeq, heartbeat, aged, seen,
                         command, verified, moving>>
      BY <1>1, <1>4 DEF Prestart
    <2>2. runs \in [Command -> Nat]
      BY <1>2 DEF Core, SupervisorTypeOK
    <2>3. runs' \in [Command -> Nat] /\ runs'[starting] = 1
      BY <1>2, <2>1, <2>2
    <2>4. SupervisorTypeOK' /\ ArmedIsClaimed'
      BY <1>2, <2>1, <2>3 DEF Core, SupervisorTypeOK, ArmedIsClaimed
    <2>5. \A c \in Command : /\ runs'[c] <= 1
                             /\ session' # NoSession /\ c \notin seen' =>
                                    runs'[c] = 0
      BY <1>2, <2>1, <2>2, <2>3 DEF Core
    <2>6. Core' /\ Owned'
      BY <1>2, <2>1, <2>4, <2>5 DEF Core, Owned
    <2> QED BY <1>2, <1>3, <1>4, <2>1, <2>6 DEF Inv, DriveInv, Promise
  <1>5. CASE ~ok
    <2>1. Core' /\ Owned'
      BY <1>1, <1>2, <1>5, StutterKeepsCore, FaultKeepsOwned DEF Prestart
    <2> QED BY <1>3, <1>5, <2>1, InvAfterError
  <1> QED BY <1>4, <1>5

\* Either motor's start.
LEMMA InvDriveMotor ==
    ASSUME Inv, NEW motor \in Motor, NEW label \in {"right", "started"},
           pc \in {"left", "right"}, DriveMotor(motor, label)
    PROVE  Inv' /\ (stopEvent => moving' \subseteq moving)
  <1>1. /\ state = "ARMED_IDLE" /\ starting \in Command /\ Core
        /\ request = "DRIVE"
    BY DEF Inv, DriveInv, Starting
  <1>2. moving \in SUBSET Motor /\ label \in Label
    BY <1>1 DEF Core, SupervisorTypeOK, Label, Starting
  <1>3. ASSUME NEW ok \in BOOLEAN, MayStart(ok), StartMotor(motor, ok),
               GoesOn(ok, label)
        PROVE  Inv' /\ (stopEvent => moving' \subseteq moving)
    <2>1. /\ SessionTypes'
          /\ ok => /\ pc' = label
                    /\ starting' = starting /\ request' = request
          /\ ~ok => pc' = "after" /\ ~reply'
      BY <1>2, <1>3, GoesOnIsTyped
    <2>2. CASE ok
      <3>1. /\ moving' = moving \cup {motor}
            /\ UNCHANGED <<state, session, issued, lastSeq, heartbeat, aged,
                           seen, command, verified, runs>>
        BY <1>3, <2>2 DEF StartMotor
      <3>2. Core'
        BY <1>1, <3>1 DEF Core, SupervisorTypeOK, ArmedIsClaimed
      <3>3. ~stopEvent
        BY <1>3, <2>2 DEF MayStart, StartCancelled
      <3> QED BY <1>1, <2>1, <2>2, <3>1, <3>2, <3>3
              DEF Inv, DriveInv, Promise, Starting
    <2>3. CASE ~ok
      <3>1. Core' /\ Owned' /\ moving' \subseteq moving
        BY <1>1, <1>2, <1>3, <2>3, InfraredKeepsCore DEF StartMotor
      <3> QED BY <2>1, <2>3, <3>1, InvAfterError
    <2> QED BY <2>2, <2>3
  <1>4. ASSUME MayStart(TRUE), WriteFails(motor), GoesOn(FALSE, label)
        PROVE  Inv' /\ (stopEvent => moving' \subseteq moving)
    <2>1. SessionTypes' /\ pc' = "after" /\ ~reply'
      BY <1>2, <1>4, GoesOnIsTyped
    <2>2. moving \cup {motor} \in SUBSET Motor
      BY <1>2
    <2>3. Core' /\ Owned'
      BY <1>1, <1>4, <2>2, FaultKeepsCore DEF WriteFails
    <2>4. ~stopEvent
      BY <1>4 DEF MayStart, StartCancelled
    <2> QED BY <2>1, <2>3, <2>4, InvAfterError
  <1> QED BY <1>3, <1>4 DEF DriveMotor

LEMMA InvDriveStarted == ASSUME Inv, DriveStarted PROVE Inv'
  <1>1. PICK ok \in BOOLEAN : Started(starting, ok) /\ Answer(ok)
    BY DEF DriveStarted
  <1>2. /\ state = "ARMED_IDLE" /\ starting \in Command /\ Core
        /\ request = "DRIVE" /\ request' = request /\ starting' = NoCommand
        /\ pc' = "after" /\ reply' = ok
    BY <1>1 DEF DriveStarted, Inv, DriveInv, Starting, Answer
  <1>3. SessionTypes'
    BY <1>1, <1>2, AnswerIsTyped
  <1>4. CASE ok
    <2>1. /\ HeartbeatIsFresh /\ state' = "RUNNING" /\ command' = starting
          /\ UNCHANGED <<session, issued, lastSeq, heartbeat, aged, seen,
                         verified, moving, runs>>
      BY <1>1, <1>4 DEF Started
    <2>2. session # NoSession /\ heartbeat # NoHeartbeat
      BY <1>2 DEF Core, ArmedIsClaimed
    <2>3. command' # NoCommand
      BY <1>2, <2>1, SupervisorAssumption DEF NoCommand
    <2>4. Core' /\ Owned'
      BY <1>2, <2>1, <2>2, <2>3
         DEF Core, Owned, SupervisorTypeOK, ArmedIsClaimed
    <2>5. StillTrue'
      BY <1>2, <2>1 DEF StillTrue, StopOperation
    <2> QED BY <1>2, <1>3, <2>4, <2>5 DEF Inv, DriveInv, Promise, Starting
  <1>5. CASE ~ok
    <2>1. moving \in SUBSET Motor
      BY <1>2 DEF Core, SupervisorTypeOK
    <2>2. Core' /\ Owned'
      BY <1>1, <1>2, <1>5, <2>1, InfraredKeepsCore DEF Started
    <2> QED BY <1>2, <1>3, <1>5, <2>2, InvAfterError
  <1> QED BY <1>4, <1>5

-----------------------------------------------------------------------------
(* Its response, the end and the other threads                             *)

LEMMA InvDispatchBreaks == ASSUME Inv, DispatchBreaks PROVE Inv'
  <1>1. SessionTypes' /\ pc' = "closing"
    BY DEF Inv, SessionTypes, DispatchBreaks, Quiet, Label
  <1>2. Core' /\ Owned'
    BY FaultKeepsOwned DEF DispatchBreaks
  <1> QED BY <1>1, <1>2, InvAtRest DEF Starting

LEMMA InvJudge == ASSUME Inv, Judge PROVE Inv'
  <1>1. /\ SessionTypes'
        /\ UNCHANGED <<request, reply, excuse>>
    BY ZenonT(60) DEF Inv, SessionTypes, Judge, Quiet, Label, Look
  <1>2. Owned /\ pc = "judge"
    BY DEF Inv, DriveInv, Judge
  <1>3. CASE pc' = "complete" /\ UNCHANGED supervisorVars
    <2>1. /\ Core' /\ Owned'
          /\ UNCHANGED <<state, session, moving>>
          /\ Proves' <=> Proves
      BY <1>2, <1>3, SupervisorUnchanged
    <2>2. StillTrue => StillTrue'
      BY <1>1, <2>1 DEF StillTrue
    <2> QED BY <1>1, <1>2, <1>3, <2>1, <2>2
            DEF Inv, DriveInv, Promise, Excused, Starting
  <1>4. CASE pc' = "stop4" /\ EnterFault
    BY <1>1, <1>4, FaultKeepsOwned, InvAtRest DEF Starting
  <1> QED BY <1>3, <1>4 DEF Judge

LEMMA InvPublish == ASSUME Inv, Publish PROVE Inv'
  <1>1. /\ pc = "publish" /\ pc' = "published"
        /\ request' = request
        /\ reply' => reply /\ (excuse = "none" \/ Excused)
        /\ UNCHANGED supervisorVars
    BY DEF Publish
  <1>2. SessionTypes'
    <2> DEFINE success == reply /\ (excuse = "none" \/ Excused)
    <2>0. reply' = success \/ reply' = FALSE
      BY DEF Publish
    <2>3. success \in BOOLEAN
      OBVIOUS
    <2>4. reply' \in BOOLEAN
      BY <2>0, <2>3, Zenon
    <2>5. output' = output \/ (output < OutputQueue /\ output' = output + 1)
      BY DEF Publish
    <2>6. output \in 0..OutputQueue
      BY DEF Inv, SessionTypes
    <2>7. output' \in 0..OutputQueue
      BY <2>5, <2>6, QueueAssumption
    <2>1. output' \in 0..OutputQueue /\ reply' \in BOOLEAN
      BY <2>4, <2>7
    <2>2. stopEvent' \in BOOLEAN /\ shutdown' \in BOOLEAN
      BY DEF Publish, Inv, SessionTypes, Excused, FailTransport
    <2> QED BY <2>1, <2>2 DEF Inv, SessionTypes, Publish, Label, Look
  <1>3. Owned
    BY <1>1 DEF Inv, DriveInv
  <1>4. /\ Core' /\ Owned'
        /\ UNCHANGED <<state, session, moving>>
        /\ Proves' <=> Proves
    BY <1>1, <1>3, SupervisorUnchanged
  <1>5. reply' => StillTrue
    BY <1>1 DEF Inv, Promise
  <1>6. reply' => StillTrue'
    BY <1>1, <1>4, <1>5 DEF StillTrue
  <1> QED BY <1>1, <1>2, <1>4, <1>6 DEF Inv, DriveInv, Promise, Starting

LEMMA InvFinish == ASSUME Inv, Finish PROVE Inv'
  <1>1. SessionTypes' /\ pc' \in {"wake", "stop5"}
    BY DEF Inv, SessionTypes, Finish, Quiet, Label, Look
  <1>2. Owned
    BY DEF Inv, DriveInv, Finish
  <1>3. Core' /\ Owned'
    BY <1>2, FaultKeepsOwned, SupervisorUnchanged DEF Finish
  <1> QED BY <1>1, <1>3, InvAtRest DEF Starting

LEMMA InvCloseSupervisor == ASSUME Inv, CloseSupervisor PROVE Inv'
  <1>1. SessionTypes' /\ pc' \in {"closeAgain", "ended"}
    BY DEF Inv, SessionTypes, CloseSupervisor, Quiet, Label
  <1>2. Owned
    BY DEF Inv, DriveInv, CloseSupervisor
  <1>3. Core' /\ Owned'
    BY <1>2, CloseKeepsCore DEF CloseSupervisor, Inv
  <1> QED BY <1>1, <1>3, InvAtRest DEF Starting

\* Threads that only signal, and the reader's and writer's queues.
LEMMA InvThreads ==
    ASSUME Inv, ThreadFails \/ ThreadShutsDown \/ Receive \/ ReceiveStop \/ Send
    PROVE  Inv'
  <1>1. /\ UNCHANGED supervisorVars
        /\ UNCHANGED <<pc, request, starting, reply, excuse>>
    BY DEF ThreadFails, ThreadShutsDown, Receive, ReceiveStop, Send
  <1>2. SessionTypes'
    <2>1. /\ normal \in 0..NormalQueue
          /\ urgent \in 0..UrgentQueue
          /\ output \in 0..OutputQueue
          /\ stopEvent \in BOOLEAN /\ failing \in BOOLEAN
          /\ shutdown \in BOOLEAN
      BY DEF Inv, SessionTypes
    <2>2. normal' = normal \/ (normal < NormalQueue /\ normal' = normal + 1)
      BY DEF ThreadFails, ThreadShutsDown, Receive, ReceiveStop, Send
    <2>3. urgent' = urgent \/ (urgent < UrgentQueue /\ urgent' = urgent + 1)
      BY DEF ThreadFails, ThreadShutsDown, Receive, ReceiveStop, Send
    <2>4. output' = output \/ (output > 0 /\ output' = output - 1)
      BY DEF ThreadFails, ThreadShutsDown, Receive, ReceiveStop, Send
    <2>5. normal' \in 0..NormalQueue
      BY <2>1, <2>2, QueueAssumption
    <2>6. urgent' \in 0..UrgentQueue
      BY <2>1, <2>3, QueueAssumption
    <2>7. output' \in 0..OutputQueue
      BY <2>1, <2>4, QueueAssumption
    <2>8. /\ stopEvent' \in BOOLEAN
          /\ failing' \in BOOLEAN
          /\ shutdown' \in BOOLEAN
      BY <2>1 DEF ThreadFails, ThreadShutsDown, Receive, ReceiveStop, Send
    <2>9. UNCHANGED <<overrun, proof>>
      BY DEF ThreadFails, ThreadShutsDown, Receive, ReceiveStop, Send
    <2> QED BY <1>1, <2>5, <2>6, <2>7, <2>8, <2>9 DEF Inv, SessionTypes
  <1>3. /\ Core' /\ (Owned => Owned')
        /\ UNCHANGED <<state, session, command, verified, moving, seen, runs>>
        /\ Proves' <=> Proves
    BY <1>1, SupervisorUnchanged
  <1>4. StillTrue => StillTrue'
    BY <1>1, <1>3 DEF StillTrue
  <1> QED BY <1>1, <1>2, <1>3, <1>4 DEF Inv, DriveInv, Promise, Excused

LEMMA InvTimePasses == ASSUME Inv, TimePasses PROVE Inv'
  <1>1. UNCHANGED <<pc, request, starting, reply, excuse>> /\ SessionTypes'
    BY DEF TimePasses, sessionVars, Inv, SessionTypes
  <1>2. /\ Core' /\ moving' \subseteq moving
        /\ UNCHANGED <<state, session, command, verified, seen, runs>>
    BY TimeKeepsCore DEF TimePasses, Inv
  <1>3. Owned => Owned'
    BY <1>2 DEF Owned
  <1>4. StillTrue => StillTrue'
    BY <1>1, <1>2 DEF StillTrue, Proves
  <1> QED BY <1>1, <1>2, <1>3, <1>4 DEF Inv, DriveInv, Promise, Excused

LEMMA InvStutter == ASSUME Inv, UNCHANGED vars PROVE Inv'
  <1>1. /\ UNCHANGED supervisorVars
        /\ UNCHANGED <<pc, request, starting, reply, excuse>>
    BY DEF vars, sessionVars
  <1>2. SessionTypes'
    BY DEF Inv, SessionTypes, vars, sessionVars
  <1>3. /\ Core' /\ (Owned => Owned')
        /\ UNCHANGED <<state, session, command, verified, moving, seen, runs>>
        /\ Proves' <=> Proves
    BY <1>1, SupervisorUnchanged
  <1>4. StillTrue => StillTrue'
    BY <1>1, <1>3 DEF StillTrue
  <1> QED BY <1>1, <1>2, <1>3, <1>4 DEF Inv, DriveInv, Promise, Excused

-----------------------------------------------------------------------------
(* The theorems                                                            *)

LEMMA InitInv == ASSUME Init PROVE Inv
  <1>1. SessionTypes
    <2>1. 0 \in 0..NormalQueue /\ 0 \in 0..UrgentQueue /\ 0 \in 0..OutputQueue
      BY QueueAssumption
    <2>2. /\ normal = 0 /\ urgent = 0 /\ output = 0
          /\ pc = "wake" /\ overrun = FALSE /\ request = NoRequest
          /\ starting = NoCommand /\ reply = FALSE /\ excuse = "none"
          /\ proof = FALSE /\ stopEvent \in BOOLEAN
          /\ failing = FALSE /\ shutdown = FALSE
      BY DEF Init
    <2>3. pc \in Label
      BY <2>2 DEF Label
    <2> QED BY <2>1, <2>2, <2>3 DEF SessionTypes
  <1>2. /\ session = NoSession /\ issued = 0 /\ lastSeq = 0
        /\ heartbeat = NoHeartbeat /\ aged = FALSE /\ seen = {}
        /\ command = NoCommand /\ verified = FALSE
        /\ runs = [c \in Command |-> 0]
        /\ state \in {"DISARMED", "FAULT_LATCHED"} /\ moving \in SUBSET Motor
        /\ moving # {} => state = "FAULT_LATCHED"
        /\ pc = "wake"
    BY DEF Init, SupervisorInit
  <1>3. SupervisorTypeOK
    <2>1. issued \in 0..MaxSession /\ session <= issued
      BY <1>2, SupervisorAssumption DEF NoSession
    <2>2. heartbeat <= lastSeq
      BY <1>2 DEF NoHeartbeat
    <2> QED BY <1>2, <2>1, <2>2 DEF SupervisorTypeOK
  <1>4. Core /\ Owned
    BY <1>2, <1>3 DEF Core, Owned, ArmedIsClaimed
  <1> QED BY <1>1, <1>2, <1>4 DEF Inv, DriveInv, Promise, Starting

LEMMA InvNext == ASSUME Inv, Next PROVE Inv'
  <1>1. CASE Wake \/ WakeInTime \/ WakeLate \/ Poll \/ Admit
    BY <1>1, InvWake, InvWakeInTime, InvWakeLate, InvPoll, InvAdmit
  <1>2. CASE LookFindsNothing \/ LookStops
    BY <1>2, InvLookFindsNothing, InvLookStops
  <1>3. CASE TakeNormal \/ TakeUrgent \/ TakeNothing
    BY <1>3, InvTakeNormal, InvTakeUrgent, InvTakeNothing
  <1>4. CASE Execute \/ ExecuteDrive \/ DispatchBreaks
    BY <1>4, InvExecute, InvExecuteDrive, InvDispatchBreaks
  <1>5. CASE DrivePrestart \/ DriveStarted
    BY <1>5, InvDrivePrestart, InvDriveStarted
  <1>6. CASE DriveLeft \/ DriveRight
    BY <1>6, InvDriveMotor DEF DriveLeft, DriveRight, Motor
  <1>7. CASE Judge \/ Publish \/ Finish \/ CloseSupervisor
    BY <1>7, InvJudge, InvPublish, InvFinish, InvCloseSupervisor
  <1>8. CASE ThreadShutsDown \/ Threads
    BY <1>8, InvThreads, InvTimePasses DEF Threads
  <1> QED BY <1>1, <1>2, <1>3, <1>4, <1>5, <1>6, <1>7, <1>8 DEF Next, Loop

\* The invariant of the dispatch thread, on which the others rest.
THEOREM SessionInvariance == Spec => []Inv
  <1>1. Init => Inv
    BY InitInv
  <1>2. Inv /\ [Next]_vars => Inv'
    BY InvNext, InvStutter
  <1> QED BY <1>1, <1>2, PTL DEF Spec

\* Every variable keeps its type, however many sessions, commands and queued
\* requests there are.
THEOREM SessionTypeCorrect == Spec => []TypeOK
  <1>1. Inv => TypeOK
    BY DEF Inv, Core, SessionTypes, TypeOK
  <1> QED BY <1>1, SessionInvariance, PTL

\* Motors turn only for a running command, in its start or under a fault
\* that says so.
THEOREM MotionStaysOwned == Spec => []MotionIsOwned
  <1>1. Inv => MotionIsOwned
    <2> SUFFICES ASSUME Inv, moving # {}
                 PROVE  \/ state = "RUNNING" /\ command # NoCommand
                        \/ pc \in {"right", "started"} /\ starting # NoCommand
                        \/ state = "FAULT_LATCHED" /\ ~verified
      BY DEF MotionIsOwned
    <2>1. CASE pc \in {"right", "started"}
      BY <2>1, SupervisorAssumption DEF Inv, DriveInv, Starting, NoCommand
    <2>2. CASE pc \notin {"right", "started"}
      BY <2>2 DEF Inv, DriveInv, Owned, Core
    <2> QED BY <2>1, <2>2
  <1> QED BY <1>1, SessionInvariance, PTL

\* An armed supervisor has a live session, a latched one has none.
THEOREM ArmedStaysClaimed == Spec => []ArmedIsClaimed
  <1>1. Inv => ArmedIsClaimed
    BY DEF Inv, Core
  <1> QED BY <1>1, SessionInvariance, PTL

\* No success is published that a stop or a deadline has made untrue.
THEOREM SuccessStaysTrue == Spec => []SuccessIsTrue
  <1>1. Inv => SuccessIsTrue
    BY DEF Inv, Promise, SuccessIsTrue
  <1> QED BY <1>1, SessionInvariance, PTL

\* A command starts the motors at most once.
THEOREM CommandsRunOnce == Spec => []CommandRunsOnce
  <1>1. Inv => CommandRunsOnce
    BY DEF Inv, Core, CommandRunsOnce
  <1> QED BY <1>1, SessionInvariance, PTL

\* No motor starts while a stop is requested.
THEOREM StopsPreventStarts == Spec => StopPreventsStart
  <1>1. ASSUME Inv, [Next]_vars, stopEvent
        PROVE  moving' \subseteq moving
    <2>1. CASE DriveLeft \/ DriveRight
      BY <1>1, <2>1, InvDriveMotor DEF DriveLeft, DriveRight, Motor
    <2>2. CASE ExecuteDrive
      <3>1. EnterFault \/ moving' = moving
        BY <2>2 DEF ExecuteDrive, Accept, supervisorVars
      <3> QED BY <1>1, <3>1, FaultKeepsOwned
    <2>3. CASE DrivePrestart
      <3>1. EnterFault \/ moving' = moving
        BY <2>3 DEF DrivePrestart, Prestart, supervisorVars
      <3> QED BY <1>1, <3>1, FaultKeepsOwned
    <2>4. CASE DriveStarted
      <3>1. PICK ok \in BOOLEAN : Started(starting, ok)
        BY <2>4 DEF DriveStarted
      <3>2. state = "ARMED_IDLE" /\ Core /\ moving \in SUBSET Motor
        BY <1>1, <2>4 DEF DriveStarted, Inv, DriveInv, Starting, Core,
                          SupervisorTypeOK
      <3> QED BY <3>1, <3>2, InfraredKeepsCore DEF Started
    <2>5. CASE Execute
      <3>1. Owned /\ Core
        BY <1>1, <2>5 DEF Inv, DriveInv, Execute
      <3>2. CASE UNCHANGED supervisorVars
        BY <3>2 DEF supervisorVars
      <3>3. ASSUME NEW ok \in BOOLEAN, Claim(ok) \/ StopNow(ok)
            PROVE  moving' \subseteq moving
        BY <3>1, <3>3, ClaimKeepsCore, StopKeepsCore
      <3>4. ASSUME NEW ok \in BOOLEAN, NEW s \in Session, NEW n \in Sequence,
                   Heartbeat(s, n, ok) \/ Arm(s, n, ok) \/ Release(s, n, ok)
            PROVE  moving' \subseteq moving
        BY <3>1, <3>4, HeartbeatKeepsCore, ArmKeepsCore, ReleaseKeepsCore
      <3> QED BY <2>5, <3>2, <3>3, <3>4 DEF Execute
    <2>6. CASE Poll
      <3>1. Owned /\ Core
        BY <1>1, <2>6 DEF Inv, DriveInv, Poll
      <3> QED BY <2>6, <3>1, PollKeepsCore DEF Poll
    <2>7. CASE LookStops
      <3>1. Owned /\ Core
        BY <1>1, <2>7 DEF Inv, DriveInv, LookStops, Look
      <3> QED BY <2>7, <3>1, StopKeepsCore DEF LookStops
    <2>8. CASE CloseSupervisor
      <3>1. Owned /\ Core
        BY <1>1, <2>8 DEF Inv, DriveInv, CloseSupervisor
      <3> QED BY <2>8, <3>1, CloseKeepsCore DEF CloseSupervisor
    <2>9. CASE WakeLate \/ Admit \/ DispatchBreaks \/ Judge \/ Finish
      <3>1. EnterFault \/ moving' = moving
        BY <2>9 DEF WakeLate, Admit, DispatchBreaks, Judge, Finish,
                    supervisorVars
      <3> QED BY <1>1, <3>1, FaultKeepsOwned
    <2>10. CASE \/ Wake \/ WakeInTime \/ LookFindsNothing
                \/ TakeNormal \/ TakeUrgent \/ TakeNothing \/ Publish
                \/ ThreadShutsDown \/ ThreadFails \/ Receive \/ ReceiveStop
                \/ Send \/ UNCHANGED vars
      <3>1. moving' = moving
        BY <2>10 DEF Wake, WakeInTime, LookFindsNothing, TakeNormal, TakeUrgent,
                     TakeNothing, Publish, ThreadShutsDown, ThreadFails,
                     Receive, ReceiveStop, Send, vars, supervisorVars
      <3> QED BY <3>1
    <2>11. CASE TimePasses
      BY <1>1, <2>11, TimeKeepsCore DEF TimePasses, Inv
    <2> QED BY <1>1, <2>1, <2>2, <2>3, <2>4, <2>5, <2>6, <2>7, <2>8, <2>9,
               <2>10, <2>11 DEF Next, Loop, Threads
  <1>2. Inv /\ [Next]_vars => [stopEvent => moving' \subseteq moving]_vars
    BY <1>1
  <1> QED BY <1>2, SessionInvariance, PTL DEF Spec, StopPreventsStart

=============================================================================
