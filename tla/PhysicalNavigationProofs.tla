---------------------- MODULE PhysicalNavigationProofs ----------------------
(***************************************************************************)
(* What an episode may rely on of its worker session, and its pose of the  *)
(* robot, for any robot, budgets and number of mishaps: an episode that    *)
(* ends clean has released the motors, no pulse is sent to a worker with a *)
(* latched fault, a valid pose is where the robot is, and a goal reported  *)
(* as completed was reached.                                               *)
(*                                                                         *)
(* The first invariant (SessionInv) follows the channel.  An open one      *)
(* belongs to the newest process of a session that was neither given up    *)
(* nor broken, and between a request's answer and the next request nothing *)
(* of that process is under way, so what was answered last is still true   *)
(* of it.  The second (PoseInv) follows how far the file on disk is from   *)
(* the wheels: by what the encoders show since its anchor and, while the   *)
(* host decides, by no more than the movements its poses were never told.  *)
(***************************************************************************)
EXTENDS PhysicalNavigation, TLAPS

Awaiting == phase \in Asking \cup {"shutdown"}
Answered == reply.kind \in {"ok", "refused"}
Deciding == phase \in {"loop", "turn", "plan", "next"}
InSession == phase \notin {"off", "start", "describe"} \/ Answered
Busy == worker \in {"guard", "moving"}

\* The motors are or will be held for the running episode.
Owned == \/ worker # "none" /\ by = episode
         \/ boot # NoBoot /\ boot.by = episode

Shapes ==
    /\ boot \in [link : {"none", "open", "closing"}, by : Nat]
    /\ episode \in Nat /\ by \in Nat
    /\ by <= episode /\ boot.by <= episode
    /\ {started, aborted, allClean} \subseteq BOOLEAN
    /\ "latched" \in DOMAIN plan

\* A channel is open only while a session is, for the newest process.
Channels ==
    /\ phase \in {"off", "start"} => ~started
    /\ phase \notin {"off", "start", "cleanup"} => started
    /\ ~started \/ aborted => link # "open" /\ boot.link # "open"
    /\ aborted => Stopped \/ phase = "cleanup"
    /\ boot # NoBoot => link # "open"
    /\ started /\ ~aborted /\ InSession =>
          boot = NoBoot /\ (worker # "none" => link = "open")

\* Between an answer and the next request the process rests.
Rests ==
    /\ Busy /\ link = "open" => frame = "none"
    /\ ~Awaiting \/ Answered =>
          boot.link # "open" /\ (link = "open" => worker = "ready" /\ frame = "none")

\* The fault the host has seen is the one the process has latched.
Faults ==
    /\ Deciding /\ ~aborted /\ worker = "ready" /\ fault => plan.latched
    /\ reply.kind = "ok" /\ started /\ ~aborted /\ worker = "ready" =>
          reply.fault = fault
    /\ frame = "pulse" =>
          boot = NoBoot /\ (worker = "none" \/ (worker = "ready" /\ ~fault))

\* A session that ended clean has left nothing behind.
Releases ==
    /\ phase = "shutdown" /\ link = "open" => worker = "ready" /\ frame = "shutdown"
    /\ phase = "shutdown" => boot.link # "open"
    /\ phase = "shutdown" /\ reply.kind = "ok" => ~Owned
    /\ ~started /\ allClean /\ phase # "off" => ~Owned
    /\ phase = "off" /\ outcome \notin {"none", "crashed", "unverified"} => ~Owned

SessionInv == Shapes /\ Channels /\ Rests /\ Faults /\ Releases


-----------------------------------------------------------------------------
(* Steps of the host that leave the session, the process and its channel   *)
(* as they are.                                                            *)

HostMove ==
    /\ UNCHANGED <<worker, by, link, boot, fault, episode, aborted, started,
                   allClean, stop>>
    /\ phase \notin {"off", "start", "cleanup"}
    /\ ~Awaiting \/ Answered
    /\ phase' \notin {"off", "start", "describe", "shutdown"}
    /\ reply' = NoReply
    /\ \/ phase' \notin Asking /\ frame' = frame
       \/ phase' \in Asking /\ (frame' = "pulse" => ~aborted /\ (worker = "ready" => ~fault))
    /\ "latched" \in DOMAIN plan'
    /\ Deciding' /\ ~aborted /\ worker = "ready" /\ fault => plan'.latched

LEMMA HostMoves == SessionInv /\ HostMove => SessionInv'
<1> SUFFICES ASSUME SessionInv, HostMove PROVE SessionInv' OBVIOUS
<1>1. ~Answered'
      BY DEF HostMove, Answered, NoReply
<1>2. started
      BY DEF SessionInv, Channels, HostMove
<1>3. InSession
      BY DEF HostMove, InSession, Awaiting, Asking
<1>4. /\ boot.link # "open"
      /\ link = "open" => worker = "ready" /\ frame = "none"
      BY DEF HostMove, SessionInv, Rests
<1>5. ~aborted => boot = NoBoot /\ (worker # "none" => link = "open")
      BY <1>2, <1>3 DEF SessionInv, Channels
<1>6. Shapes'
      BY DEF SessionInv, Shapes, HostMove
<1>7. Channels'
      BY <1>2, <1>5 DEF SessionInv, Channels, HostMove, Stopped
<1>8. Rests'
      BY <1>1, <1>4 DEF HostMove, Rests, Busy, Awaiting
<1>9. Faults'
  <2>1. reply'.kind # "ok"
        BY <1>1 DEF Answered
  <2>2. ASSUME frame' = "pulse"
        PROVE boot' = NoBoot /\ (worker' = "none" \/ (worker' = "ready" /\ ~fault'))
    <3>1. CASE phase' \in Asking
          BY <1>4, <1>5, <2>2, <3>1 DEF HostMove
    <3>2. CASE phase' \notin Asking
          BY <2>2, <3>2 DEF HostMove, SessionInv, Faults
    <3> QED BY <3>1, <3>2
  <2> QED BY <2>1, <2>2 DEF Faults, HostMove
<1>10. Releases'
       BY <1>2 DEF HostMove, Releases
<1> QED BY <1>6, <1>7, <1>8, <1>9, <1>10 DEF SessionInv

(* In the loop a session that is still open is at rest, and what the host   *)
(* knows of its fault is true.                                              *)
LEMMA DecidedMoves ==
    ASSUME SessionInv, hostOnly' = hostOnly, NoRequest,
           phase \in {"loop", "turn", "plan", "next", "renew"},
           \/ /\ phase' \in {"loop", "turn", "plan", "next", "renew", "cleanup"}
              /\ phase # "renew"
              /\ "latched" \in DOMAIN plan'
              /\ plan'.latched = plan.latched
           \/ phase' = "cleanup" /\ plan' = NoPlan
    PROVE  SessionInv'
<1>1. UNCHANGED <<worker, by, link, boot, fault, episode, aborted, started,
                  allClean, stop>>
      BY DEF hostOnly, aside, workerSide, process, session, goal
<1>2. ~Awaiting /\ phase' \notin Asking
      BY DEF Awaiting, Asking, Cancellable, Scanning
<1>3. "latched" \in DOMAIN plan'
      BY DEF NoPlan
<1>4. Deciding' /\ ~aborted /\ worker = "ready" /\ fault => plan'.latched
      BY DEF SessionInv, Faults, Deciding
<1>5. HostMove
      BY <1>1, <1>2, <1>3, <1>4 DEF HostMove, NoRequest
<1> QED BY <1>5, HostMoves

LEMMA LoopKeeps ==
    ASSUME SessionInv,
           EndsLoop \/ BeginsTurn \/ ChoosesDriver \/ PlannerEnds \/ PlannerDefers
             \/ RenewalCancelled
    PROVE  SessionInv'
<1>0. "latched" \in DOMAIN plan
      BY DEF SessionInv, Shapes
<1>1. CASE EndsLoop
      BY <1>1, DecidedMoves DEF EndsLoop, Leave
<1>2. CASE BeginsTurn
  <2>1. plan'.latched = plan.latched /\ "latched" \in DOMAIN plan'
        BY <1>0, <1>2 DEF BeginsTurn
  <2> QED BY <1>2, <2>1, DecidedMoves DEF BeginsTurn, Loops
<1>3. CASE ChoosesDriver
  <2>1. plan'.latched = plan.latched /\ "latched" \in DOMAIN plan'
        BY <1>0, <1>3 DEF ChoosesDriver
  <2> QED BY <1>3, <2>1, DecidedMoves DEF ChoosesDriver, Loops
<1>4. CASE PlannerEnds
      BY <1>4, DecidedMoves DEF PlannerEnds, Leave
<1>5. CASE PlannerDefers
  <2>1. CASE plan.deferred
        BY <1>5, <2>1, DecidedMoves DEF PlannerDefers, Leave
  <2>2. CASE ~plan.deferred
    <3>1. plan'.latched = plan.latched /\ "latched" \in DOMAIN plan'
          BY <1>0, <1>5, <2>2 DEF PlannerDefers
    <3> QED BY <1>5, <2>2, <3>1, DecidedMoves DEF PlannerDefers, Loops
  <2> QED BY <2>1, <2>2
<1>6. CASE RenewalCancelled
      BY <1>6, DecidedMoves DEF RenewalCancelled, Leave
<1> QED BY <1>1, <1>2, <1>3, <1>4, <1>5, <1>6


(* While an episode decides, and was not stopped, a worker that reported no *)
(* fault has none.                                                          *)
LEMMA ClearOfFaults ==
    ASSUME SessionInv, Deciding, ~Stopped, ~plan.latched
    PROVE  ~aborted /\ (worker = "ready" => ~fault)
BY DEF SessionInv, Channels, Faults, Deciding

LEMMA PlannerDecidesKeeps == SessionInv /\ PlannerDecides => SessionInv'
<1> SUFFICES ASSUME SessionInv, PlannerDecides PROVE SessionInv' OBVIOUS
<1>1. UNCHANGED <<worker, by, link, boot, fault, episode, aborted, started,
                  allClean, stop>>
      BY DEF PlannerDecides, aside, workerSide, process, session, goal
<1>2. /\ phase = "plan" /\ ~Awaiting /\ Deciding /\ ~Stopped
      /\ "latched" \in DOMAIN plan
      BY DEF PlannerDecides, Awaiting, Asking, Cancellable, Scanning, Deciding,
             SessionInv, Shapes
<1>3. ~aborted /\ worker = "ready" /\ fault => plan.latched
      BY <1>2 DEF SessionInv, Faults
<1>4. reply' = NoReply
      BY DEF PlannerDecides, NoRequest, Drive, Ask
<1>5. \/ phase' = "cleanup" /\ plan' = NoPlan /\ frame' = frame
      \/ /\ "latched" \in DOMAIN plan' /\ plan'.latched = plan.latched
         /\ \/ phase' = "loop" /\ frame' = frame
            \/ phase' = "observe" /\ frame' = "observe"
            \/ phase' = "scanOut" /\ frame' = "turnOut"
            \/ phase' = "pulse" /\ MayMove
  <2> DEFINE new(driver, tail) ==
               [plan EXCEPT !.deferred = FALSE, !.driver = driver,
                            !.tail = tail, !.turned = 0]
  <2>1. \A driver, tail : /\ "latched" \in DOMAIN new(driver, tail)
                          /\ new(driver, tail).latched = plan.latched
        BY <1>2
  <2>2. \/ phase' = "cleanup" /\ plan' = NoPlan /\ frame' = frame
        \/ \E driver, tail :
              /\ plan' = new(driver, tail)
              /\ \/ phase' = "loop" /\ frame' = frame
                 \/ phase' = "observe" /\ frame' = "observe"
                 \/ phase' = "scanOut" /\ frame' = "turnOut"
                 \/ phase' = "pulse" /\ MayMove
        BY DEF PlannerDecides, Leave, NoRequest, Loops, Ask, Drive
  <2> HIDE DEF new
  <2> QED BY <2>1, <2>2
<1>6. "latched" \in DOMAIN plan'
      BY <1>5 DEF NoPlan
<1>7. phase' \in {"cleanup", "loop", "observe", "scanOut", "pulse"}
      BY <1>5
<1>8. \/ phase' \notin Asking /\ frame' = frame
      \/ phase' \in Asking /\ (frame' = "pulse" => ~aborted /\ (worker = "ready" => ~fault))
      BY <1>2, <1>5, ClearOfFaults DEF Asking, Cancellable, Scanning, MayMove
<1>9. Deciding' /\ ~aborted /\ worker = "ready" /\ fault => plan'.latched
      BY <1>3, <1>5 DEF Deciding
<1> QED BY <1>1, <1>2, <1>4, <1>6, <1>7, <1>8, <1>9, HostMoves DEF HostMove

LEMMA GoesOnKeeps == SessionInv /\ GoesOn => SessionInv'
<1> SUFFICES ASSUME SessionInv, GoesOn PROVE SessionInv' OBVIOUS
<1>1. UNCHANGED <<worker, by, link, boot, fault, episode, aborted, started,
                  allClean, stop>>
      BY DEF GoesOn, aside, workerSide, process, session, goal
<1>2. /\ phase = "next" /\ ~Awaiting /\ Deciding
      /\ "latched" \in DOMAIN plan
      BY DEF GoesOn, Awaiting, Asking, Cancellable, Scanning, Deciding,
             SessionInv, Shapes
<1>3. ~aborted /\ worker = "ready" /\ fault => plan.latched
      BY <1>2 DEF SessionInv, Faults
<1>4. reply' = NoReply
      BY DEF GoesOn, NoRequest, Drive, Ask
<1>5. \/ phase' = "cleanup" /\ plan' = NoPlan /\ frame' = frame
      \/ /\ "latched" \in DOMAIN plan' /\ plan'.latched = plan.latched
         /\ \/ phase' \in {"plan", "loop"} /\ frame' = frame
            \/ phase' = "pulse" /\ MayMove /\ ~Stopped
  <2>1. LET new == [plan EXCEPT !.tail = @ - 1]
        IN "latched" \in DOMAIN new /\ new.latched = plan.latched
        BY <1>2
  <2> QED BY <1>2, <2>1 DEF GoesOn, Leave, NoRequest, Loops, Drive
<1>6. "latched" \in DOMAIN plan'
      BY <1>5 DEF NoPlan
<1>7. phase' \in {"cleanup", "plan", "loop", "pulse"}
      BY <1>5
<1>8. \/ phase' \notin Asking /\ frame' = frame
      \/ phase' \in Asking /\ (frame' = "pulse" => ~aborted /\ (worker = "ready" => ~fault))
      BY <1>2, <1>5, ClearOfFaults DEF Asking, Cancellable, Scanning, MayMove
<1>9. Deciding' /\ ~aborted /\ worker = "ready" /\ fault => plan'.latched
      BY <1>3, <1>5 DEF Deciding
<1> QED BY <1>1, <1>2, <1>4, <1>6, <1>7, <1>8, <1>9, HostMoves DEF HostMove

-----------------------------------------------------------------------------
(* A request was answered: the host reads the fault off the answer, and    *)
(* asks for something other than a pulse, goes on, or gives up.            *)
LEMMA AnswerMoves ==
    ASSUME SessionInv,
           UNCHANGED <<worker, by, link, boot, fault, episode, aborted, started,
                       allClean, stop>>,
           phase \in Asking,
           reply' = NoReply,
           \/ /\ reply.kind \in {"ok", "refused"}
              /\ phase' = "cleanup" /\ plan' = NoPlan /\ frame' = frame
           \/ /\ reply.kind = "ok"
              /\ \/ plan' = [plan EXCEPT !.latched = reply.fault]
                 \/ \E moved : plan' = [plan EXCEPT !.turned = moved,
                                                    !.latched = reply.fault]
                 \/ plan' = plan /\ phase' \in Asking
              /\ \/ phase' \in {"loop", "turn", "plan", "next"} /\ frame' = frame
                 \/ phase' \in Asking \ {"describe"} /\ frame' # "pulse"
    PROVE  SessionInv'
<1>1. /\ phase \notin {"off", "start", "cleanup"} /\ Answered
      /\ phase' \notin {"off", "start", "describe", "shutdown"}
      /\ \/ phase' \notin Asking /\ frame' = frame
         \/ phase' \in Asking /\ frame' # "pulse"
      BY DEF Answered, Asking, Cancellable, Scanning
<1>2. "latched" \in DOMAIN plan
      BY DEF SessionInv, Shapes
<1>3. \/ phase' = "cleanup" /\ "latched" \in DOMAIN plan'
      \/ /\ reply.kind = "ok" /\ "latched" \in DOMAIN plan'
         /\ plan'.latched = reply.fault \/ phase' \in Asking
  <2>1. CASE plan' = [plan EXCEPT !.latched = reply.fault]
        BY <1>2, <2>1 DEF NoPlan
  <2>2. CASE \E moved : plan' = [plan EXCEPT !.turned = moved, !.latched = reply.fault]
    <3>1. PICK moved : plan' = [plan EXCEPT !.turned = moved, !.latched = reply.fault]
          BY <2>2
    <3>2. "latched" \in DOMAIN plan' /\ plan'.latched = reply.fault
          BY <1>2, <3>1
    <3> QED BY <3>2 DEF NoPlan
  <2>3. CASE plan' = plan
        BY <1>2, <2>3 DEF NoPlan
  <2>4. CASE phase' = "cleanup" /\ plan' = NoPlan
        BY <2>4 DEF NoPlan
  <2> QED BY <2>1, <2>2, <2>3, <2>4
<1>4. Deciding' /\ ~aborted /\ worker = "ready" /\ fault => plan'.latched
  <2>1. started
        BY <1>1 DEF SessionInv, Channels
  <2> QED BY <1>3, <2>1 DEF SessionInv, Faults, Deciding, Asking, Cancellable, Scanning
<1> QED BY <1>1, <1>3, <1>4, HostMoves DEF HostMove


LEMMA AskingPhases ==
    /\ "describe" \in Asking /\ "pulse" \in Asking /\ "observe" \in Asking
    /\ "scanOut" \in Asking /\ "scanRead" \in Asking /\ "scanStop" \in Asking
    /\ "scanBack" \in Asking /\ "scanFinal" \in Asking /\ "reanchor" \in Asking
    /\ "shutdown" \notin Asking /\ "cleanup" \notin Asking
BY DEF Asking, Cancellable, Scanning

LEMMA DescribedKeeps == SessionInv /\ Described => SessionInv'
<1> SUFFICES ASSUME SessionInv, Described PROVE SessionInv' OBVIOUS
<1>1. /\ UNCHANGED <<worker, by, link, boot, fault, episode, aborted, started,
                     allClean, stop>>
      /\ phase = "describe" /\ reply.kind = "ok"
      /\ reply' = NoReply /\ frame' = frame
      BY DEF Described, Heard, NoRequest, workerSide, process, session
<1>2. \/ phase' = "cleanup" /\ plan' = NoPlan
      \/ /\ plan' = [plan EXCEPT !.latched = reply.fault]
         /\ phase' \in {"loop", "turn"}
      BY DEF Described, Leave, Loops
<1> QED BY <1>1, <1>2, AnswerMoves, AskingPhases

LEMMA PulseKeeps == SessionInv /\ PulseReturns => SessionInv'
<1> SUFFICES ASSUME SessionInv, PulseReturns PROVE SessionInv' OBVIOUS
<1>1. /\ UNCHANGED <<worker, by, link, boot, fault, episode, aborted, started,
                     allClean, stop>>
      /\ phase = "pulse" /\ reply.kind = "ok"
      BY DEF PulseReturns, Heard, workerSide, process, session, goal
<1>2. /\ reply' = NoReply
      /\ \/ phase' = "cleanup" /\ plan' = NoPlan /\ frame' = frame
         \/ /\ plan' = [plan EXCEPT !.latched = reply.fault]
            /\ \/ phase' \in {"next", "plan", "loop"} /\ frame' = frame
               \/ phase' = "scanOut" /\ frame' = "turnOut"
  <2>1. AfterMotion \subseteq {"next", "plan", "loop", "scanOut"}
        BY DEF AfterMotion
  <2> QED BY <2>1 DEF PulseReturns, Leave, Loops, NoRequest, Drive, Ask
<1> QED BY <1>1, <1>2, AnswerMoves, AskingPhases

LEMMA ObserveKeeps == SessionInv /\ ObserveReturns => SessionInv'
<1> SUFFICES ASSUME SessionInv, ObserveReturns PROVE SessionInv' OBVIOUS
<1>1. /\ UNCHANGED <<worker, by, link, boot, fault, episode, aborted, started,
                     allClean, stop>>
      /\ phase = "observe" /\ reply.kind = "ok"
      /\ reply' = NoReply /\ frame' = frame
      BY DEF ObserveReturns, Heard, NoRequest, workerSide, process, session,
             mission, goal
<1>2. \/ phase' = "cleanup" /\ plan' = NoPlan
      \/ phase' = "loop" /\ plan' = [plan EXCEPT !.latched = reply.fault]
      BY DEF ObserveReturns, Leave, Loops
<1> QED BY <1>1, <1>2, AnswerMoves, AskingPhases

LEMMA ScanKeeps ==
    SessionInv /\ (ScanTurns \/ ScanReads \/ ScanRestores \/ ScanReturns \/ ScanFails)
        => SessionInv'
<1> SUFFICES ASSUME SessionInv,
                    ScanTurns \/ ScanReads \/ ScanRestores \/ ScanReturns \/ ScanFails
             PROVE  SessionInv'
    OBVIOUS
<1>1. /\ UNCHANGED <<worker, by, link, boot, fault, episode, aborted, started,
                     allClean, stop>>
      /\ phase \in Asking /\ reply.kind = "ok"
  <2>1. phase \in Asking /\ reply.kind = "ok"
        BY AskingPhases DEF ScanTurns, ScanReads, ScanRestores, ScanReturns, ScanFails, Heard
  <2>2. UNCHANGED <<workerSide, stop, session, mission>>
        BY DEF ScanTurns, ScanReads, ScanRestores, ScanReturns, ScanFails
  <2> QED BY <2>1, <2>2 DEF workerSide, process, session, mission, goal
<1>2. CASE ScanTurns
  <2>1. plan' = [plan EXCEPT !.turned = @ + reply.travel, !.latched = reply.fault]
        BY <1>2 DEF ScanTurns
  <2>2. \E moved : plan' = [plan EXCEPT !.turned = moved, !.latched = reply.fault]
        BY <2>1
  <2>3. /\ reply' = NoReply
        /\ phase' \in {"scanFinal", "scanRead", "scanStop"} /\ frame' # "pulse"
        BY <1>2 DEF ScanTurns, Loops, Ask
  <2> QED BY <1>1, <2>2, <2>3, AnswerMoves, AskingPhases
<1>3. CASE ScanReads \/ ScanRestores \/ ScanReturns
  <2>1. /\ reply' = NoReply /\ plan' = plan
        /\ phase' \in {"scanStop", "scanBack", "scanFinal", "reanchor"}
        /\ frame' # "pulse"
        BY <1>3 DEF ScanReads, ScanRestores, ScanReturns, Ask
  <2> QED BY <1>1, <2>1, AnswerMoves, AskingPhases
<1>4. CASE ScanFails
  <2>1. reply' = NoReply /\ phase' = "cleanup" /\ plan' = NoPlan /\ frame' = frame
        BY <1>4 DEF ScanFails, Leave, NoRequest
  <2> QED BY <1>1, <2>1, AnswerMoves
<1> QED BY <1>2, <1>3, <1>4

LEMMA ReanchoredKeeps == SessionInv /\ Reanchored => SessionInv'
<1> SUFFICES ASSUME SessionInv, Reanchored PROVE SessionInv' OBVIOUS
<1>1. /\ UNCHANGED <<worker, by, link, boot, fault, episode, aborted, started,
                     allClean, stop>>
      /\ phase = "reanchor" /\ reply.kind = "ok"
      /\ reply' = NoReply /\ frame' = frame
      BY DEF Reanchored, Heard, NoRequest, workerSide, process, session
<1>2. \/ phase' = "cleanup" /\ plan' = NoPlan
      \/ /\ phase' \in {"loop", "next", "plan"}
         /\ \E moved : plan' = [plan EXCEPT !.turned = moved, !.latched = reply.fault]
      BY DEF Reanchored, Leave, Loops
<1> QED BY <1>1, <1>2, AnswerMoves, AskingPhases

-----------------------------------------------------------------------------
(* Breaking the channel: nothing else about the process changes.           *)
LEMMA HangupBreaks ==
    ASSUME Shapes, Hangup, episode' = episode
    PROVE  /\ link' # "open" /\ boot'.link # "open"
           /\ boot' \in [link : {"none", "open", "closing"}, by : Nat]
           /\ boot'.by = boot.by
           /\ boot' = NoBoot <=> boot = NoBoot
           /\ UNCHANGED <<worker, by, fault>>
           /\ Owned' <=> Owned
<1>1. UNCHANGED <<worker, by, fault>> /\ link' # "open"
      BY DEF Hangup, Closing, motion
<1>2. /\ boot'.link # "open" /\ boot'.by = boot.by
      /\ boot' \in [link : {"none", "open", "closing"}, by : Nat]
      /\ boot' = NoBoot <=> boot = NoBoot
      BY DEF Shapes, Hangup, Closing, NoBoot
<1> QED BY <1>1, <1>2 DEF Owned

LEMMA EmergencyKeeps == SessionInv /\ EmergencyStop => SessionInv'
<1> SUFFICES ASSUME SessionInv, EmergencyStop PROVE SessionInv' OBVIOUS
<1>1. /\ UNCHANGED <<frame, reply, phase, started, allClean, plan, outcome, episode>>
      /\ aborted' = TRUE /\ Stopped' /\ Hangup
      BY DEF EmergencyStop, mission, goal, Stopped
<1>2. /\ link' # "open" /\ boot'.link # "open"
      /\ boot' \in [link : {"none", "open", "closing"}, by : Nat]
      /\ boot'.by = boot.by
      /\ boot' = NoBoot <=> boot = NoBoot
      /\ UNCHANGED <<worker, by, fault>>
      /\ Owned' <=> Owned
      BY <1>1, HangupBreaks DEF SessionInv
<1>3. Shapes'
      BY <1>1, <1>2 DEF SessionInv, Shapes
<1>4. Channels'
      BY <1>1, <1>2 DEF SessionInv, Channels
<1>5. Rests'
      BY <1>2 DEF Rests
<1>6. Faults'
      BY <1>1, <1>2 DEF SessionInv, Faults
<1>7. Releases'
      BY <1>1, <1>2 DEF SessionInv, Releases
<1> QED BY <1>3, <1>4, <1>5, <1>6, <1>7 DEF SessionInv

LEMMA RequestFailsKeeps == SessionInv /\ RequestFails => SessionInv'
<1> SUFFICES ASSUME SessionInv, RequestFails PROVE SessionInv' OBVIOUS
<1>1. /\ phase \in Asking /\ phase' = "cleanup" /\ plan' = NoPlan
      /\ reply' = NoReply /\ frame' = frame
      /\ UNCHANGED <<stop, started, allClean, outcome, episode>>
      BY DEF RequestFails, Leave, NoRequest, mission, goal
<1>2. CASE reply.kind = "refused" /\ UNCHANGED <<workerSide, aborted>>
      BY <1>1, <1>2, AnswerMoves DEF workerSide, process
<1>3. CASE aborted' = TRUE /\ Hangup
  <2>1. /\ link' # "open" /\ boot'.link # "open"
        /\ boot' \in [link : {"none", "open", "closing"}, by : Nat]
        /\ boot'.by = boot.by
        /\ boot' = NoBoot <=> boot = NoBoot
        /\ UNCHANGED <<worker, by, fault>>
        BY <1>1, <1>3, HangupBreaks DEF SessionInv
  <2>2. phase \notin {"off", "start", "cleanup"} /\ started
        BY <1>1 DEF Asking, Cancellable, Scanning, SessionInv, Channels
  <2>3. Shapes'
        BY <1>1, <1>3, <2>1 DEF SessionInv, Shapes, NoPlan
  <2>4. Channels'
        BY <1>1, <1>3, <2>1, <2>2 DEF Channels
  <2>5. Rests'
        BY <2>1 DEF Rests
  <2>6. Faults'
        BY <1>1, <1>3, <2>1 DEF SessionInv, Faults, NoReply
  <2>7. Releases'
        BY <1>1, <2>2 DEF Releases
  <2> QED BY <2>3, <2>4, <2>5, <2>6, <2>7 DEF SessionInv
<1> QED BY <1>2, <1>3 DEF RequestFails


-----------------------------------------------------------------------------
(* The ends of a session, and of an episode.                               *)

LEMMA StartKeeps == SessionInv /\ StartEpisode => SessionInv'
<1> SUFFICES ASSUME SessionInv, StartEpisode PROVE SessionInv' OBVIOUS
<1>1. /\ UNCHANGED <<worker, by, link, boot, frame, fault, reply, started, aborted,
                     allClean, stop, plan>>
      /\ phase = "off" /\ phase' = "start" /\ outcome' = "none"
      /\ episode' = episode + 1
      BY DEF StartEpisode, workerVars, session
<1>2. ~started /\ link # "open" /\ boot.link # "open"
      BY <1>1 DEF SessionInv, Channels
<1>3. Shapes'
      BY <1>1 DEF SessionInv, Shapes
<1>4. ~Owned'
      BY <1>1 DEF SessionInv, Shapes, Owned, NoBoot
<1>5. Channels'
      BY <1>1, <1>2 DEF SessionInv, Channels, Stopped
<1>6. Rests'
      BY <1>1, <1>2 DEF Rests
<1>7. Faults'
      BY <1>1, <1>2 DEF SessionInv, Faults, Deciding
<1>8. Releases'
      BY <1>1, <1>4 DEF Releases
<1> QED BY <1>3, <1>5, <1>6, <1>7, <1>8 DEF SessionInv

LEMMA OpensKeeps == SessionInv /\ OpensWorker => SessionInv'
<1> SUFFICES ASSUME SessionInv, OpensWorker PROVE SessionInv' OBVIOUS
<1>1. /\ UNCHANGED <<worker, by, link, fault, allClean, stop, plan, outcome, episode>>
      /\ phase = "start" /\ phase' = "describe"
      /\ started' = TRUE /\ aborted' = FALSE
      /\ boot' = [link |-> "open", by |-> episode]
      /\ frame' = "describe" /\ reply' = NoReply
      BY DEF OpensWorker, Ask, mission, goal
<1>2. link # "open"
      BY <1>1 DEF SessionInv, Channels
<1>3. ~InSession' /\ ~Answered' /\ Awaiting'
      BY <1>1, AskingPhases DEF InSession, Answered, Awaiting, NoReply
<1>4. Shapes'
  <2>1. /\ episode \in Nat /\ by \in Nat /\ by <= episode
        /\ allClean \in BOOLEAN /\ "latched" \in DOMAIN plan
        BY DEF SessionInv, Shapes
  <2>2. boot' \in [link : {"none", "open", "closing"}, by : Nat] /\ boot'.by = episode
        BY <1>1, <2>1
  <2>3. {started', aborted', allClean'} \subseteq BOOLEAN
        BY <1>1, <2>1
  <2>4. boot'.by <= episode' /\ by' <= episode' /\ episode' \in Nat /\ by' \in Nat
        BY <1>1, <2>1, <2>2
  <2>5. "latched" \in DOMAIN plan'
        BY <1>1, <2>1
  <2> QED BY <2>2, <2>3, <2>4, <2>5 DEF Shapes
<1>5. Channels'
      BY <1>1, <1>2, <1>3 DEF Channels
<1>6. Rests'
      BY <1>1, <1>2, <1>3 DEF Rests
<1>7. Faults'
      BY <1>1, <1>3 DEF Faults, Deciding, Answered
<1>8. Releases'
      BY <1>1 DEF Releases
<1> QED BY <1>4, <1>5, <1>6, <1>7, <1>8 DEF SessionInv

LEMMA OpenFailsKeeps == SessionInv /\ OpenFails => SessionInv'
<1> SUFFICES ASSUME SessionInv, OpenFails PROVE SessionInv' OBVIOUS
<1>1. /\ UNCHANGED <<worker, by, link, boot, frame, fault, reply, started, aborted,
                     allClean, stop, outcome, episode>>
      /\ phase = "start" /\ phase' = "cleanup" /\ plan' = NoPlan
      BY DEF OpenFails, Leave, workerVars, session, mission, goal
<1>2. ~started /\ link # "open" /\ boot.link # "open"
      BY <1>1 DEF SessionInv, Channels
<1>3. Shapes'
      BY <1>1 DEF SessionInv, Shapes, NoPlan
<1>4. Channels'
      BY <1>1, <1>2 DEF SessionInv, Channels
<1>5. Rests'
      BY <1>1, <1>2 DEF Rests
<1>6. Faults'
      BY <1>1, <1>2 DEF SessionInv, Faults, Deciding
<1>7. Releases'
      BY <1>1 DEF SessionInv, Releases, Owned
<1> QED BY <1>3, <1>4, <1>5, <1>6, <1>7 DEF SessionInv

LEMMA BeginsShutdownKeeps == SessionInv /\ BeginsShutdown => SessionInv'
<1> SUFFICES ASSUME SessionInv, BeginsShutdown PROVE SessionInv' OBVIOUS
<1>1. /\ UNCHANGED <<worker, by, link, boot, fault, started, aborted, allClean,
                     stop, plan, outcome, episode>>
      /\ phase \in {"cleanup", "renew"} /\ phase' = "shutdown"
      /\ started /\ ~aborted
      /\ frame' = "shutdown" /\ reply' = NoReply
      BY DEF BeginsShutdown, Ask, Loops, workerSide, process, mission, goal
<1>2. ~Awaiting /\ InSession
      BY <1>1 DEF Awaiting, InSession, Asking, Cancellable, Scanning
<1>3. /\ boot = NoBoot /\ boot.link # "open"
      /\ link = "open" => worker = "ready"
      BY <1>1, <1>2 DEF SessionInv, Channels, Rests
<1>4. ~Answered' /\ Awaiting'
      BY <1>1 DEF Answered, Awaiting, NoReply
<1>5. Shapes'
      BY <1>1 DEF SessionInv, Shapes
<1>6. Channels'
      BY <1>1, <1>2 DEF SessionInv, Channels
<1>7. Rests'
      BY <1>1, <1>3, <1>4 DEF Rests, Busy
<1>8. Faults'
      BY <1>1, <1>4 DEF Faults, Deciding, Answered
<1>9. Releases'
      BY <1>1, <1>3, <1>4 DEF Releases, Answered
<1> QED BY <1>5, <1>6, <1>7, <1>8, <1>9 DEF SessionInv

(* The host is back to where it starts, and its channel is not open.       *)
LEMMA IdleKeeps ==
    ASSUME SessionInv, Idle, episode' = episode,
           UNCHANGED <<worker, by, fault>>,
           link' # "open", boot'.link # "open",
           boot' \in [link : {"none", "open", "closing"}, by : Nat],
           boot'.by = boot.by, boot' = NoBoot <=> boot = NoBoot,
           frame' = frame,
           outcome' \notin {"none", "crashed", "unverified"} => ~Owned
    PROVE  SessionInv'
<1>1. Shapes'
      BY DEF SessionInv, Shapes, Idle, NoPlan
<1>2. Channels'
      BY DEF Channels, Idle
<1>3. Rests'
      BY DEF Rests
<1>4. Faults'
      BY DEF SessionInv, Faults, Idle, Deciding
<1>5. Releases'
      BY DEF Releases, Idle, Owned
<1> QED BY <1>1, <1>2, <1>3, <1>4, <1>5 DEF SessionInv

LEMMA CrashKeeps == SessionInv /\ HostCrashes => SessionInv'
<1> SUFFICES ASSUME SessionInv, HostCrashes PROVE SessionInv' OBVIOUS
<1>1. Idle /\ Hangup /\ episode' = episode /\ frame' = frame /\ outcome' = "crashed"
      BY DEF HostCrashes, mission, goal, NoRequest
<1> QED BY <1>1, HangupBreaks, IdleKeeps DEF SessionInv

LEMMA NothingToCloseKeeps == SessionInv /\ NothingToClose => SessionInv'
<1> SUFFICES ASSUME SessionInv, NothingToClose PROVE SessionInv' OBVIOUS
<1>1. /\ UNCHANGED <<worker, by, link, boot, fault, frame, episode>>
      /\ phase = "cleanup" /\ ~started /\ Idle
      /\ outcome' = IF allClean THEN ending ELSE "unverified"
      BY DEF NothingToClose, Ends, workerVars, mission, goal
<1>2. link # "open" /\ boot.link # "open"
      BY <1>1 DEF SessionInv, Channels
<1>3. outcome' \notin {"none", "crashed", "unverified"} => ~Owned
      BY <1>1 DEF SessionInv, Releases
<1> QED BY <1>1, <1>2, <1>3, IdleKeeps DEF SessionInv, Shapes

(* What a shutdown ends clean only if the worker has let go.               *)
LEMMA ShutdownKeeps ==
    ASSUME SessionInv, NEW clean \in BOOLEAN, Shutdown(clean),
           phase \in {"shutdown", "cleanup"}, clean => ~Owned
    PROVE  SessionInv'
<1>1. Hangup /\ frame' = frame /\ reply' = NoReply /\ episode' = episode
      BY DEF Shutdown, NoRequest, mission, goal
<1>2. /\ link' # "open" /\ boot'.link # "open"
      /\ boot' \in [link : {"none", "open", "closing"}, by : Nat]
      /\ boot'.by = boot.by
      /\ boot' = NoBoot <=> boot = NoBoot
      /\ UNCHANGED <<worker, by, fault>>
      /\ Owned' <=> Owned
      BY <1>1, HangupBreaks DEF SessionInv
<1>3. CASE phase = "shutdown" /\ renewing
  <2>1. /\ started' = FALSE /\ allClean' = (allClean /\ clean)
        /\ \/ phase' = "start" /\ plan' = plan /\ ~Stopped
           \/ phase' = "cleanup" /\ plan' = NoPlan
        /\ UNCHANGED <<stop, aborted, outcome>>
        BY <1>3 DEF Shutdown, Loops, Leave
  <2>2. allClean \in BOOLEAN /\ aborted \in BOOLEAN /\ "latched" \in DOMAIN plan
        BY DEF SessionInv, Shapes
  <2>3. Shapes'
        BY <1>1, <1>2, <2>1, <2>2 DEF SessionInv, Shapes, NoPlan
  <2>4. aborted => Stopped
        BY <1>3 DEF SessionInv, Channels
  <2>5. Channels'
        BY <1>2, <2>1, <2>4 DEF Channels, Stopped
  <2>6. Rests'
        BY <1>2 DEF Rests
  <2>7. Faults'
        BY <1>1, <1>2, <2>1 DEF SessionInv, Faults, NoReply, Deciding
  <2>8. Releases'
        BY <1>2, <2>1 DEF Releases
  <2> QED BY <2>3, <2>5, <2>6, <2>7, <2>8 DEF SessionInv
<1>4. CASE ~(phase = "shutdown" /\ renewing)
  <2>1. Idle /\ outcome' = IF clean /\ allClean THEN ending ELSE "unverified"
        BY <1>4 DEF Shutdown, Ends
  <2>2. outcome' \notin {"none", "crashed", "unverified"} => ~Owned
        BY <2>1
  <2> QED BY <1>1, <1>2, <2>1, <2>2, IdleKeeps
<1> QED BY <1>3, <1>4

LEMMA ShutdownStepKeeps ==
    SessionInv /\ (ShutdownReturns \/ ShutdownFails) => SessionInv'
<1> SUFFICES ASSUME SessionInv, ShutdownReturns \/ ShutdownFails PROVE SessionInv'
    OBVIOUS
<1>1. CASE ShutdownReturns
  <2>1. phase = "shutdown" /\ ~Owned /\ Shutdown(TRUE)
        BY <1>1 DEF ShutdownReturns, Heard, SessionInv, Releases
  <2> QED BY <2>1, ShutdownKeeps
<1>2. CASE ShutdownFails
  <2>1. phase \in {"shutdown", "cleanup"} /\ Shutdown(FALSE)
        BY <1>2 DEF ShutdownFails
  <2> QED BY <2>1, ShutdownKeeps
<1> QED BY <1>1, <1>2

LEMMA AsideKeeps == SessionInv /\ (RequestStop \/ Pushed) => SessionInv'
<1> SUFFICES ASSUME SessionInv, RequestStop \/ Pushed PROVE SessionInv' OBVIOUS
<1>1. /\ UNCHANGED <<worker, by, link, boot, frame, fault, reply, phase, started,
                     aborted, allClean, plan, outcome, episode>>
      /\ Stopped => Stopped'
      BY DEF RequestStop, Pushed, workerVars, process, session, mission, goal,
             Stopped, motion
<1>2. Shapes'
      BY <1>1 DEF SessionInv, Shapes
<1>3. Channels'
      BY <1>1 DEF SessionInv, Channels, InSession, Answered
<1>4. Rests'
      BY <1>1 DEF SessionInv, Rests, Busy, Awaiting, Answered
<1>5. Faults'
      BY <1>1 DEF SessionInv, Faults, Deciding
<1>6. Releases'
      BY <1>1 DEF SessionInv, Releases, Owned
<1> QED BY <1>2, <1>3, <1>4, <1>5, <1>6 DEF SessionInv


-----------------------------------------------------------------------------
(* The worker.                                                             *)

Kept == UNCHANGED <<phase, stop, aborted, started, allClean, plan, outcome, episode>>

LEMMA HostVarsKept == hostVars' = hostVars => Kept
BY DEF hostVars, Kept, session, mission, goal

(* The request is answered, and the worker rests or, cut off, leaves.      *)
AnswerStep ==
    /\ Kept /\ UNCHANGED boot
    /\ \/ worker = "ready" /\ boot = NoBoot /\ frame # "shutdown" /\ frame' = "none"
       \/ Busy /\ frame' = frame
    /\ \/ link = "cut" /\ worker' = "none" /\ by' = 0 /\ link' = "none"
       \/ /\ link # "cut" /\ worker' = "ready" /\ UNCHANGED <<by, link>>
          /\ worker = "ready" => fault' = fault
    /\ \/ link # "open" /\ reply' = reply
       \/ link = "open" /\ reply'.kind \in {"ok", "refused"} /\ reply'.fault = fault'

LEMMA AnswersKeep == SessionInv /\ AnswerStep => SessionInv'
<1> SUFFICES ASSUME SessionInv, AnswerStep PROVE SessionInv' OBVIOUS
<1>1. Kept /\ UNCHANGED boot /\ worker # "none"
      BY DEF AnswerStep, Busy
<1>2. started /\ ~aborted /\ link # "open" => ~InSession /\ ~InSession'
  <2>1. started /\ ~aborted /\ InSession => link = "open"
        BY <1>1 DEF SessionInv, Channels
  <2>2. link # "open" => (InSession' <=> InSession)
        BY DEF AnswerStep, Kept, InSession, Answered
  <2> QED BY <2>1, <2>2
<1>3. link = "open" => boot = NoBoot
      BY DEF SessionInv, Channels
<1>4. phase = "shutdown" => link # "open" /\ UNCHANGED reply
      BY DEF SessionInv, Releases, AnswerStep, Busy
<1>5. Owned' => Owned
      BY <1>1 DEF AnswerStep, Kept, Owned
<1>6. Shapes'
  <2>1. by' \in Nat /\ by' <= episode'
        BY <1>1 DEF SessionInv, Shapes, AnswerStep, Kept
  <2> QED BY <1>1, <2>1 DEF SessionInv, Shapes, Kept
<1>7. Channels'
  <2>1. link' = "open" <=> link = "open"
        BY DEF AnswerStep
  <2> QED BY <1>1, <1>2, <1>3, <2>1 DEF SessionInv, Channels, Kept, Stopped
<1>8. Rests'
  <2>1. frame' = "none" \/ (Busy /\ frame' = frame)
        BY DEF AnswerStep
  <2>2. link' = "open" => link = "open" /\ worker' = "ready" /\ frame' = "none"
        BY <2>1 DEF AnswerStep, SessionInv, Rests
  <2>3. ~Awaiting' \/ Answered' => boot'.link # "open"
    <3>1. CASE link = "open"
          BY <1>1, <1>3, <3>1 DEF NoBoot
    <3>2. CASE link # "open"
      <4>1. (Awaiting' <=> Awaiting) /\ (Answered' <=> Answered)
            BY <1>1, <3>2 DEF AnswerStep, Awaiting, Answered, Kept
      <4> QED BY <1>1, <4>1 DEF SessionInv, Rests
    <3> QED BY <3>1, <3>2
  <2> QED BY <2>2, <2>3 DEF Rests, Busy
<1>9. Faults'
  <2>1. ASSUME Deciding', ~aborted', worker' = "ready", fault'
        PROVE  plan'.latched
    <3>1. Deciding /\ ~aborted /\ started /\ InSession /\ ~Awaiting
          BY <1>1, <2>1 DEF Kept, Deciding, SessionInv, Channels, InSession, Awaiting,
                            Asking, Cancellable, Scanning
    <3>2. worker = "ready"
          BY <1>1, <3>1 DEF SessionInv, Channels, Rests
    <3>3. fault
          BY <2>1, <3>2 DEF AnswerStep, Busy
    <3> QED BY <1>1, <3>1, <3>2, <3>3 DEF SessionInv, Faults, Kept
  <2>2. ASSUME reply'.kind = "ok", started', ~aborted', worker' = "ready"
        PROVE  reply'.fault = fault'
    <3>1. CASE link = "open"
          BY <3>1 DEF AnswerStep
    <3>2. CASE link # "open"
      <4>1. InSession'
            BY <2>2 DEF InSession, Answered
      <4> QED BY <1>1, <1>2, <2>2, <3>2, <4>1 DEF Kept
    <3> QED BY <3>1, <3>2
  <2>3. frame' # "pulse"
        BY DEF AnswerStep, SessionInv, Faults, Busy
  <2> QED BY <2>1, <2>2, <2>3 DEF Faults
<1>10. Releases'
       BY <1>1, <1>4, <1>5 DEF SessionInv, Releases, Kept, AnswerStep
<1> QED BY <1>6, <1>7, <1>8, <1>9, <1>10 DEF SessionInv

LEMMA ReadsKeep ==
    SessionInv /\ Kept /\ (Reads \/ Refuses \/ Denies) => SessionInv'
<1> SUFFICES ASSUME SessionInv, Kept, Reads \/ Refuses \/ Denies PROVE SessionInv'
    OBVIOUS
<1>1. /\ UNCHANGED boot
      /\ worker = "ready" /\ boot = NoBoot /\ frame # "shutdown" /\ frame' = "none"
      /\ AfterAnswer /\ (link # "cut" => UNCHANGED fault)
      BY DEF Reads, Refuses, Denies, Takes, Readings, Motions
<1>2. /\ Reply(Line("ok", "observed", 0, wheels, fault))
         \/ Reply(Line("refused", "none", 0, wheels, fault))
         \/ Reply(Line("ok", "denied", 0, wheels, fault))
      BY DEF Reads, Refuses, Denies
<1>3. \/ link # "open" /\ reply' = reply
      \/ link = "open" /\ reply'.kind \in {"ok", "refused"} /\ reply'.fault = fault
      BY <1>2 DEF Reply, Line
<1>4. AnswerStep
      BY <1>1, <1>3 DEF AnswerStep, AfterAnswer, Gone
<1> QED BY <1>4, AnswersKeep

LEMMA MotionAnswersKeep ==
    ASSUME SessionInv, Kept, Busy, NEW status, NEW moved, NEW latched,
           Answer(status, moved, latched)
    PROVE  SessionInv'
<1>1. /\ UNCHANGED <<boot, frame>> /\ AfterAnswer
      /\ link # "cut" => fault' = latched
      /\ Reply(Line("ok", status, travel + moved, wheels', latched))
      BY DEF Answer
<1>2. \/ link # "open" /\ reply' = reply
      \/ link = "open" /\ reply'.kind \in {"ok", "refused"} /\ reply'.fault = fault'
      BY <1>1 DEF Reply, Line
<1>3. AnswerStep
      BY <1>1, <1>2 DEF AnswerStep, AfterAnswer, Gone, Busy
<1> QED BY <1>3, AnswersKeep

(* A motion goes on, under a channel that has nothing else to carry.       *)
LEMMA MotionKeeps ==
    ASSUME SessionInv, Kept, UNCHANGED <<by, link, boot, fault, reply>>,
           worker' \in {"guard", "moving"},
           \/ worker = "ready" /\ boot = NoBoot /\ frame \in Motions /\ frame' = "none"
           \/ Busy /\ frame' = frame
    PROVE  SessionInv'
<1>1. worker # "none"
      BY DEF Busy
<1>2. link = "open" => frame' = "none" /\ phase # "shutdown"
      BY DEF SessionInv, Rests, Releases, Motions, Busy
<1>3. ~Awaiting \/ Answered => boot.link # "open" /\ link # "open"
  <2>1. ~Awaiting \/ Answered =>
           boot.link # "open" /\ (link = "open" => worker = "ready" /\ frame = "none")
        BY DEF SessionInv, Rests
  <2> QED BY <2>1 DEF Motions, Busy
<1>4. Shapes'
      BY DEF SessionInv, Shapes, Kept
<1>5. Channels'
      BY <1>1 DEF SessionInv, Channels, Kept, InSession, Answered, Stopped
<1>6. Rests'
      BY <1>2, <1>3 DEF Rests, Kept, Awaiting, Answered
<1>7. Faults'
  <2>1. frame' # "pulse"
        BY DEF SessionInv, Faults, Busy
  <2> QED BY <2>1 DEF Faults
<1>8. Releases'
      BY <1>1, <1>2 DEF SessionInv, Releases, Kept, Owned
<1> QED BY <1>4, <1>5, <1>6, <1>7, <1>8 DEF SessionInv

(* The process ends, and holds the motors no more.                         *)
LEMMA EndingKeeps ==
    ASSUME SessionInv, Kept, UNCHANGED boot, worker # "none",
           worker' = "none", by' = 0, link' = "none",
           frame' = "none" \/ (frame' = frame /\ frame # "pulse"),
           \/ reply' = reply
           \/ reply'.kind = "fatal"
           \/ boot = NoBoot /\ link = "open" /\ reply'.kind = "ok"
    PROVE  SessionInv'
<1>1. Owned' => Owned
      BY DEF Owned, Kept
<1>2. boot = NoBoot => ~Owned'
      BY DEF Owned
<1>3. Shapes'
      BY DEF SessionInv, Shapes, Kept
<1>4. InSession' => InSession \/ boot = NoBoot
      BY DEF InSession, Answered, Kept
<1>5. Channels'
      BY <1>4 DEF SessionInv, Channels, Kept, Stopped
<1>6. Rests'
  <2>1. ~Awaiting' \/ Answered' => boot.link # "open"
        BY DEF SessionInv, Rests, Awaiting, Answered, Kept, NoBoot
  <2> QED BY <2>1 DEF Rests
<1>7. Faults'
      BY DEF Faults
<1>8. Releases'
      BY <1>1, <1>2 DEF SessionInv, Releases, Kept
<1> QED BY <1>3, <1>5, <1>6, <1>7, <1>8 DEF SessionInv

LEMMA EndsKeep ==
    SessionInv /\ Kept /\ (ShutsDown \/ Fails \/ HangsUp \/ Expires) => SessionInv'
<1> SUFFICES ASSUME SessionInv, Kept, ShutsDown \/ Fails \/ HangsUp \/ Expires
             PROVE  SessionInv'
    OBVIOUS
<1>1. frame = "pulse" => boot = NoBoot
      BY DEF SessionInv, Faults
<1>2. CASE ShutsDown
  <2>1. reply' = reply \/ (link = "open" /\ reply'.kind = "ok")
        BY <1>2 DEF ShutsDown, Reply, Line
  <2> QED BY <1>2, <2>1, EndingKeeps DEF ShutsDown, Takes, Gone
<1>3. CASE Fails
  <2>1. reply' = reply \/ reply'.kind = "fatal"
        BY <1>3 DEF Fails, Reply, Line
  <2> QED BY <1>1, <1>3, <2>1, EndingKeeps DEF Fails, Gone
<1>4. CASE HangsUp \/ Expires
      BY <1>1, <1>4, EndingKeeps DEF HangsUp, Expires, Leaves, Gone
<1> QED BY <1>2, <1>3, <1>4

LEMMA BootsKeep == SessionInv /\ Kept /\ Boots => SessionInv'
<1> SUFFICES ASSUME SessionInv, Kept, Boots PROVE SessionInv' OBVIOUS
<1>1. /\ boot # NoBoot /\ worker = "none" /\ worker' = "ready"
      /\ by' = boot.by /\ link' = boot.link /\ boot' = NoBoot /\ fault' = FALSE
      /\ UNCHANGED <<frame, reply>>
      BY DEF Boots
<1>2. ~(started /\ ~aborted /\ InSession)
      BY <1>1 DEF SessionInv, Channels
<1>3. InSession' <=> InSession
      BY <1>1 DEF InSession, Answered, Kept
<1>4. frame # "pulse"
      BY <1>1 DEF SessionInv, Faults
<1>5. Owned' => Owned
      BY <1>1 DEF Owned, Kept
<1>6. Shapes'
  <2>1. NoBoot \in [link : {"none", "open", "closing"}, by : Nat] /\ NoBoot.by = 0
        BY DEF NoBoot
  <2>2. boot.by \in Nat /\ boot.by <= episode /\ episode \in Nat
        BY DEF SessionInv, Shapes
  <2> QED BY <1>1, <2>1, <2>2 DEF SessionInv, Shapes, Kept
<1>7. Channels'
      BY <1>1, <1>2, <1>3 DEF SessionInv, Channels, Kept, NoBoot, Stopped
<1>8. Rests'
  <2>1. ~Awaiting' \/ Answered' => link' # "open"
        BY <1>1 DEF SessionInv, Rests, Kept, Awaiting, Answered
  <2> QED BY <1>1, <2>1 DEF Rests, Busy, NoBoot
<1>9. Faults'
  <2>1. reply.kind = "ok" => ~(started /\ ~aborted)
        BY <1>2 DEF InSession, Answered
  <2> QED BY <1>1, <1>4, <2>1 DEF Faults, Kept
<1>10. Releases'
       BY <1>1, <1>5 DEF SessionInv, Releases, Kept, NoBoot
<1> QED BY <1>6, <1>7, <1>8, <1>9, <1>10 DEF SessionInv

LEMMA BootFailsKeeps == SessionInv /\ Kept /\ BootFails => SessionInv'
<1> SUFFICES ASSUME SessionInv, Kept, BootFails PROVE SessionInv' OBVIOUS
<1>1. /\ boot # NoBoot /\ boot' = NoBoot /\ frame' = "none"
      /\ UNCHANGED <<worker, by, link, fault>>
      BY DEF BootFails
<1>2. reply' = reply \/ reply'.kind = "fatal"
      BY DEF BootFails, Line
<1>3. link # "open"
      BY <1>1 DEF SessionInv, Channels
<1>4. Owned' => Owned
      BY <1>1 DEF Owned, Kept
<1>5. InSession' => InSession
      BY <1>2 DEF InSession, Answered, Kept
<1>6. Shapes'
  <2>1. NoBoot \in [link : {"none", "open", "closing"}, by : Nat] /\ NoBoot.by = 0
        BY DEF NoBoot
  <2> QED BY <1>1, <2>1 DEF SessionInv, Shapes, Kept
<1>7. Channels'
      BY <1>1, <1>3, <1>5 DEF SessionInv, Channels, Kept, NoBoot, Stopped
<1>8. Rests'
      BY <1>1, <1>3 DEF Rests, NoBoot
<1>9. Faults'
      BY <1>1, <1>2 DEF SessionInv, Faults, Kept, Deciding
<1>10. Releases'
       BY <1>1, <1>2, <1>3, <1>4 DEF SessionInv, Releases, Kept, NoBoot
<1> QED BY <1>6, <1>7, <1>8, <1>9, <1>10 DEF SessionInv

LEMMA ClosesKeeps == SessionInv /\ Kept /\ ChannelCloses => SessionInv'
<1> SUFFICES ASSUME SessionInv, Kept, ChannelCloses PROVE SessionInv' OBVIOUS
<1>1. /\ link = "closing" /\ link' = "cut"
      /\ UNCHANGED <<worker, by, boot, frame, fault, reply>>
      BY DEF ChannelCloses
<1>2. Shapes'
      BY <1>1 DEF SessionInv, Shapes, Kept
<1>3. Channels'
      BY <1>1 DEF SessionInv, Channels, Kept, InSession, Answered, Stopped
<1>4. Rests'
      BY <1>1 DEF SessionInv, Rests, Kept, Awaiting, Answered
<1>5. Faults'
      BY <1>1 DEF SessionInv, Faults, Kept, Deciding
<1>6. Releases'
      BY <1>1 DEF SessionInv, Releases, Kept, Owned
<1> QED BY <1>2, <1>3, <1>4, <1>5, <1>6 DEF SessionInv

LEMMA WorkerKeeps == SessionInv /\ WorkerStep /\ hostVars' = hostVars => SessionInv'
<1> SUFFICES ASSUME SessionInv, WorkerStep, hostVars' = hostVars PROVE SessionInv'
    OBVIOUS
<1>0. Kept
      BY HostVarsKept
<1>1. CASE Reads \/ Refuses \/ Denies
      BY <1>0, <1>1, ReadsKeep
<1>2. CASE ShutsDown \/ Fails \/ HangsUp \/ Expires
      BY <1>0, <1>2, EndsKeep
<1>3. CASE Accepts
  <2>1. /\ worker = "ready" /\ boot = NoBoot /\ frame \in Motions /\ frame' = "none"
        /\ worker' = "guard" /\ UNCHANGED <<by, link, boot, fault, reply>>
        BY <1>3 DEF Accepts, Takes, process
  <2> QED BY <1>0, <2>1, MotionKeeps
<1>4. CASE StartsSlice
  <2>1. /\ Busy /\ frame' = frame
        /\ worker' = "moving" /\ UNCHANGED <<by, link, boot, fault, reply>>
        BY <1>4 DEF StartsSlice, process, Busy
  <2> QED BY <1>0, <2>1, MotionKeeps
<1>5. CASE StopsShort
  <2>1. PICK status : Answer(status, 0, fault)
        BY <1>5 DEF StopsShort
  <2> QED BY <1>0, <1>5, <2>1, MotionAnswersKeep DEF StopsShort, Busy
<1>6. CASE CompletesSlice
  <2>1. Busy
        BY <1>6 DEF CompletesSlice, Busy
  <2>2. CASE done + 1 = SlicesOf(job)
    <3>1. PICK moved : Answer("completed", moved, fault)
          BY <1>6, <2>2 DEF CompletesSlice
    <3> QED BY <1>0, <2>1, <3>1, MotionAnswersKeep
  <2>3. CASE done + 1 # SlicesOf(job)
    <3>1. worker' = "guard" /\ frame' = frame /\ UNCHANGED <<by, link, boot, fault, reply>>
          BY <1>6, <2>3 DEF CompletesSlice, process
    <3> QED BY <1>0, <2>1, <3>1, MotionKeeps
  <2> QED BY <2>2, <2>3
<1>7. CASE BreaksSlice
  <2>1. PICK moved, latched : Answer("interrupted", moved, latched)
        BY <1>7 DEF BreaksSlice
  <2> QED BY <1>0, <1>7, <2>1, MotionAnswersKeep DEF BreaksSlice, Busy
<1>8. CASE Boots
      BY <1>0, <1>8, BootsKeep
<1>9. CASE BootFails
      BY <1>0, <1>9, BootFailsKeeps
<1>10. CASE ChannelCloses
       BY <1>0, <1>10, ClosesKeeps
<1> QED BY <1>1, <1>2, <1>3, <1>4, <1>5, <1>6, <1>7, <1>8, <1>9, <1>10
        DEF WorkerStep


-----------------------------------------------------------------------------
(* The whole episode.                                                      *)

LEMMA SessionInit == Init => SessionInv
<1> SUFFICES ASSUME Init PROVE SessionInv OBVIOUS
<1>1. Shapes
  <2>1. NoBoot \in [link : {"none", "open", "closing"}, by : Nat] /\ NoBoot.by = 0
        BY DEF NoBoot
  <2>2. "latched" \in DOMAIN NoPlan
        BY DEF NoPlan
  <2>3. {started, aborted, allClean} \subseteq BOOLEAN
        BY DEF Init
  <2>4. boot = NoBoot /\ by = 0 /\ episode = 0 /\ plan = NoPlan
        BY DEF Init
  <2> QED BY <2>1, <2>2, <2>3, <2>4 DEF Shapes
<1>2. Channels
      BY DEF Init, Channels, NoBoot
<1>3. Rests
      BY DEF Init, Rests, NoBoot
<1>4. Faults
      BY DEF Init, Faults, NoReply, Deciding
<1>5. Releases
      BY DEF Init, Releases
<1> QED BY <1>1, <1>2, <1>3, <1>4, <1>5 DEF SessionInv

LEMMA SessionStep == SessionInv /\ [Next]_vars => SessionInv'
<1> SUFFICES ASSUME SessionInv, [Next]_vars PROVE SessionInv' OBVIOUS
<1>1. CASE HostGoesOn
  <2>1. CASE OpensWorker
        BY <2>1, OpensKeeps
  <2>2. CASE OpenFails
        BY <2>2, OpenFailsKeeps
  <2>3. CASE Described
        BY <2>3, DescribedKeeps
  <2>4. CASE EndsLoop \/ BeginsTurn \/ ChoosesDriver \/ PlannerEnds \/ PlannerDefers
               \/ RenewalCancelled
        BY <2>4, LoopKeeps
  <2>5. CASE PlannerDecides
        BY <2>5, PlannerDecidesKeeps
  <2>6. CASE GoesOn
        BY <2>6, GoesOnKeeps
  <2>7. CASE PulseReturns
        BY <2>7, PulseKeeps
  <2>8. CASE ObserveReturns
        BY <2>8, ObserveKeeps
  <2>9. CASE ScanTurns \/ ScanReads \/ ScanRestores \/ ScanReturns \/ ScanFails
        BY <2>9, ScanKeeps
  <2>10. CASE Reanchored
         BY <2>10, ReanchoredKeeps
  <2>11. CASE RequestFails
         BY <2>11, RequestFailsKeeps
  <2>12. CASE BeginsShutdown
         BY <2>12, BeginsShutdownKeeps
  <2>13. CASE NothingToClose
         BY <2>13, NothingToCloseKeeps
  <2>14. CASE ShutdownReturns \/ ShutdownFails
         BY <2>14, ShutdownStepKeeps
  <2> QED BY <1>1, <2>1, <2>2, <2>3, <2>4, <2>5, <2>6, <2>7, <2>8, <2>9, <2>10,
             <2>11, <2>12, <2>13, <2>14 DEF HostGoesOn
<1>2. CASE StartEpisode
      BY <1>2, StartKeeps
<1>3. CASE RequestStop \/ Pushed
      BY <1>3, AsideKeeps
<1>4. CASE EmergencyStop
      BY <1>4, EmergencyKeeps
<1>5. CASE HostCrashes
      BY <1>5, CrashKeeps
<1>6. CASE WorkerStep /\ UNCHANGED hostVars
      BY <1>6, WorkerKeeps
<1>7. CASE UNCHANGED vars
  <2>1. /\ UNCHANGED <<worker, by, link, boot, frame, fault, reply>>
        /\ Kept
        BY <1>7 DEF vars, Kept, workerVars, session, mission, goal
  <2>2. Shapes'
        BY <2>1 DEF SessionInv, Shapes, Kept
  <2>3. Channels'
        BY <2>1 DEF SessionInv, Channels, Kept, InSession, Answered, Stopped
  <2>4. Rests'
        BY <2>1 DEF SessionInv, Rests, Kept, Busy, Awaiting, Answered
  <2>5. Faults'
        BY <2>1 DEF SessionInv, Faults, Kept, Deciding
  <2>6. Releases'
        BY <2>1 DEF SessionInv, Releases, Kept, Owned
  <2> QED BY <2>2, <2>3, <2>4, <2>5, <2>6 DEF SessionInv
<1> QED BY <1>1, <1>2, <1>3, <1>4, <1>5, <1>6, <1>7 DEF Next

(* The inductive invariant holds: a channel is open only for the newest    *)
(* process of a session in use (EV3NavigationSSHTransport's start, request,*)
(* abort and shutdown with the worker's lock).                             *)
THEOREM SessionHolds == Spec => []SessionInv
<1>1. Init => SessionInv
      BY SessionInit
<1>2. SessionInv /\ [Next]_vars => SessionInv'
      BY SessionStep
<1> QED BY <1>1, <1>2, PTL DEF Spec

(* CleanMeansReleased: an episode that ends without                        *)
(* physical_shutdown_unverified (run()'s _all_sessions_clean) has left no  *)
(* worker of any of its sessions behind.                                   *)
THEOREM CleanReleases == Spec => []CleanMeansReleased
<1>1. SessionInv => CleanMeansReleased
      BY DEF SessionInv, Releases, CleanMeansReleased, Owned
<1> QED BY <1>1, SessionHolds, PTL

(* FaultIsNotDriven: no pulse is in the pipe of a worker whose motion      *)
(* fault is latched (_execution_veto), wherever in a turn it was latched.  *)
THEOREM FaultsAreNotDriven == Spec => []FaultIsNotDriven
<1>1. SessionInv => FaultIsNotDriven
      BY DEF SessionInv, Faults, FaultIsNotDriven
<1> QED BY <1>1, SessionHolds, PTL

-----------------------------------------------------------------------------
(* The pose.  Offset is how far off the pose in the file was when its       *)
(* encoders were written with it; it changes only when the memory accepts   *)
(* a movement it does not account for.  What the robot has moved since is    *)
(* nothing while the host decides, and after a request what its receipts    *)
(* add up to.                                                              *)

Asked == phase \in Asking \ {"describe"}
Going == Deciding \/ phase = "renew"
Restoring == {"scanRead", "scanStop", "scanBack", "scanFinal", "reanchor"}

Op == [pulse |-> "pulse", scanOut |-> "turnOut", scanRead |-> "sample",
       scanStop |-> "stop", scanBack |-> "turnBack", scanFinal |-> "sample",
       observe |-> "observe", reanchor |-> "observe"]

Kinds ==
    /\ {memory, disk} \subseteq [pose : Int, anchor : Int \cup {NoAnchor},
                                 valid : BOOLEAN]
    /\ {wheels, zero, travel, truth} \subseteq Int /\ residue \in Nat
    /\ origin \in Int \cup {NoOrigin}
    /\ {"turned", "latched"} \subseteq DOMAIN plan /\ plan.turned \in Int
    /\ reply.kind = "ok" => reply.travel \in Int

\* Nothing of the worker is under way but its motion, and only one at a time.
Motion ==
    /\ Busy => job \in Motions /\ frame \notin Motions
    /\ ~Busy => job = "none" /\ travel = 0 /\ done = 0
    /\ Going => ~Busy /\ frame \notin Motions
    /\ phase \in Asking /\ reply.kind = "ok" =>
          ~Busy /\ frame = "none" /\ reply.at = wheels
    /\ link = "open" \/ boot.link = "open" => reply.kind \in {"none", "ok", "refused"}
    /\ Asked /\ reply.kind = "none" /\ link = "open" =>
          \/ worker = "ready" /\ frame = Op[phase]
          \/ Busy /\ job = Op[phase]

Progress ==
    /\ phase # "cleanup" /\ (phase = "shutdown" => renewing) => memory = disk
    /\ Going \/ Asked => origin \in Int
    /\ disk.anchor = NoAnchor => origin = NoOrigin /\ disk.pose = 0
    /\ phase \notin Restoring => plan.turned = 0
    /\ phase = "reanchor" => Restored
    /\ Asked /\ reply.kind = "ok" /\ Op[phase] \notin Motions => reply.travel = 0
    /\ ending = "goal_completed" => phase = "cleanup" \/ (phase = "shutdown" /\ ~renewing)

\* What the robot has moved since the file was written, for all the host can tell.
Owed ==
    /\ Going => wheels = disk.anchor
    /\ Asked /\ reply.kind = "ok" =>
          wheels = disk.anchor + plan.turned + reply.travel
    /\ Asked /\ reply.kind = "none" /\ link = "open" =>
          wheels = disk.anchor + plan.turned + travel

Start == IF origin = NoOrigin THEN 0 ELSE truth - zero - origin
Close(c) == Distance(c, Start) + Distance(Start, 0) <= residue
Offset == disk.anchor - zero - disk.pose

Vouched == disk.valid /\ disk.anchor # NoAnchor => Close(Offset)

Arrived == ending = "goal_completed" \/ (phase = "off" /\ outcome = "goal_completed")

Reached ==
    Arrived => frame \notin Motions /\ ~Busy /\ wheels - truth >= Goal - residue

PoseInv == Kinds /\ Motion /\ Progress /\ Owed /\ Vouched /\ Reached

LEMMA Ops ==
    /\ Op["pulse"] = "pulse" /\ Op["scanOut"] = "turnOut" /\ Op["scanRead"] = "sample"
    /\ Op["scanStop"] = "stop" /\ Op["scanBack"] = "turnBack" /\ Op["scanFinal"] = "sample"
    /\ Op["observe"] = "observe" /\ Op["reanchor"] = "observe"
BY DEF Op

LEMMA Motioned == /\ "pulse" \in Motions /\ "turnOut" \in Motions /\ "turnBack" \in Motions
                  /\ \A op \in Readings \cup {"shutdown", "none"} : op \notin Motions
BY DEF Motions, Readings

LEMMA Distances ==
    \A a, b, c \in Int :
       /\ Distance(a, b) \in Nat /\ Distance(a, a) = 0 /\ Distance(a, b) = Distance(b, a)
       /\ a <= b + Distance(a, b) /\ b <= a + Distance(a, b)
       /\ Distance(a, c) <= Distance(a, b) + Distance(b, c)
BY DEF Distance

LEMMA Starts == Kinds => Start \in Int
BY DEF Kinds, Start

-----------------------------------------------------------------------------
(* The worker and the pose.                                                *)

PoseKept == UNCHANGED <<phase, plan, outcome, ending, renewing, memory, disk,
                        zero, origin, truth, residue>>

LEMMA PoseVarsKept == hostVars' = hostVars => PoseKept
BY DEF hostVars, PoseKept, session, mission, goal, memoryVars

LEMMA KindsKept ==
    ASSUME Kinds, PoseKept, {wheels', travel'} \subseteq Int,
           reply' = reply \/ (reply'.kind = "ok" => reply'.travel \in Int)
    PROVE  Kinds'
BY DEF Kinds, PoseKept

(* The file and its history stay as they are.                              *)
LEMMA VouchedKept == Vouched /\ PoseKept => Vouched'
BY DEF Vouched, PoseKept, Close, Offset, Start

LEMMA PhasesKept ==
    ASSUME PoseKept
    PROVE  /\ Going' <=> Going
           /\ Asked' <=> Asked
           /\ Arrived' <=> Arrived
BY DEF PoseKept, Going, Deciding, Asked, Arrived

(* A step of the worker in which nothing moves, nor is any motion accepted.*)
RestStep ==
    /\ PoseKept /\ UNCHANGED <<job, travel, done, wheels>>
    /\ Busy' <=> Busy
    /\ frame' = "none" \/ frame' = frame
    /\ link' = "open" => link = "open" \/ boot.link = "open"
    /\ boot'.link = "open" => boot.link = "open"
    /\ Asked /\ link' = "open" =>
          reply'.kind # "none" \/ (link = "open" /\ UNCHANGED <<worker, frame, reply>>)
    /\ \/ reply' = reply
       \/ /\ link = "open" /\ frame' = "none" /\ boot'.link # "open" /\ ~Busy
          /\ reply'.kind = "ok" =>
                /\ reply'.travel = 0 /\ reply'.at = wheels
                /\ frame # "none"
          /\ reply'.kind \in {"ok", "refused"} \/ (reply'.kind = "fatal" /\ link' # "open")
       \/ reply'.kind = "fatal" /\ link' # "open" /\ boot'.link # "open"

LEMMA RestKeepsPose == SessionInv /\ PoseInv /\ RestStep => PoseInv'
<1> SUFFICES ASSUME SessionInv, PoseInv, RestStep PROVE PoseInv' OBVIOUS
<1>1. /\ Kinds /\ Motion /\ Progress /\ Owed /\ Vouched /\ Reached /\ PoseKept
      /\ UNCHANGED <<job, travel, done, wheels>> /\ (Busy' <=> Busy)
      BY DEF PoseInv, RestStep
<1>2. (Going' <=> Going) /\ (Asked' <=> Asked) /\ (Arrived' <=> Arrived)
      BY <1>1, PhasesKept
<1>3. frame' \in Motions => frame \in Motions
      BY Motioned DEF RestStep
<1>4. ~Busy => job = "none" /\ travel = 0
      BY <1>1 DEF Motion
<1>5. Asked /\ reply'.kind = "ok" /\ reply' # reply =>
         link = "open" /\ reply.kind = "none" /\ reply'.travel = 0 /\ ~Busy
  <2>1. SUFFICES ASSUME Asked, reply'.kind = "ok", reply' # reply
                 PROVE  /\ link = "open" /\ reply.kind = "none"
                        /\ reply'.travel = 0 /\ ~Busy
        OBVIOUS
  <2>2. link = "open" /\ reply'.travel = 0 /\ frame # "none" /\ ~Busy
        BY <2>1 DEF RestStep
  <2>3. ~Answered
        BY <2>2 DEF SessionInv, Rests
  <2> QED BY <1>1, <2>2, <2>3 DEF Motion, Answered
<1>6. Kinds'
      BY <1>1, KindsKept DEF RestStep, Kinds
<1>7. Motion'
  <2>1. phase' \in Asking /\ reply'.kind = "ok" =>
           ~Busy' /\ frame' = "none" /\ reply'.at = wheels'
        BY <1>1 DEF Motion, RestStep, PoseKept
  <2>2. link' = "open" \/ boot'.link = "open" => reply'.kind \in {"none", "ok", "refused"}
        BY <1>1 DEF Motion, RestStep
  <2>3. Asked' /\ reply'.kind = "none" /\ link' = "open" =>
           \/ worker' = "ready" /\ frame' = Op[phase']
           \/ Busy' /\ job' = Op[phase']
        BY <1>1, <1>2 DEF Motion, RestStep, PoseKept
  <2> QED BY <1>1, <1>2, <1>3, <2>1, <2>2, <2>3 DEF Motion
<1>8. Progress'
  <2>1. Asked' /\ reply'.kind = "ok" /\ Op[phase'] \notin Motions => reply'.travel = 0
        BY <1>1, <1>2, <1>5 DEF Progress, PoseKept
  <2> QED BY <1>1, <1>2, <1>3, <2>1 DEF Progress, PoseKept, Restored
<1>9. Owed'
  <2>1. UNCHANGED <<disk, plan, wheels, travel>>
        BY <1>1 DEF PoseKept
  <2>2. Going' => wheels' = disk'.anchor
        BY <1>1, <1>2, <2>1 DEF Owed
  <2>3. Asked' /\ reply'.kind = "ok" =>
           wheels' = disk'.anchor + plan'.turned + reply'.travel
        BY <1>1, <1>2, <1>4, <1>5, <2>1 DEF Owed
  <2>4. Asked' /\ reply'.kind = "none" /\ link' = "open" =>
           wheels' = disk'.anchor + plan'.turned + travel'
        BY <1>1, <1>2, <2>1 DEF Owed, RestStep
  <2> QED BY <2>2, <2>3, <2>4 DEF Owed
<1>10. Vouched'
       BY <1>1, VouchedKept
<1>11. Reached'
       BY <1>1, <1>2, <1>3 DEF Reached, PoseKept
<1> QED BY <1>6, <1>7, <1>8, <1>9, <1>10, <1>11 DEF PoseInv

(* The motion goes on, or ends with or without an answer; the robot moves   *)
(* by m.                                                                   *)
SliceStep(m) ==
    /\ PoseKept /\ UNCHANGED boot /\ Busy
    /\ wheels' = wheels + m
    /\ frame' = "none" \/ frame' = frame
    /\ \/ /\ Busy' /\ UNCHANGED <<job, link, reply>> /\ travel' = travel + m
       \/ /\ ~Busy' /\ job' = "none" /\ travel' = 0 /\ done' = 0
          /\ \/ reply' = reply /\ link' # "open"
             \/ /\ link = "open" /\ reply'.kind = "ok"
                /\ reply'.travel = travel + m /\ reply'.at = wheels'
             \/ reply'.kind = "fatal" /\ link' # "open" /\ link = "open"

LEMMA SliceKeepsPose ==
    ASSUME SessionInv, PoseInv, NEW m \in Int, SliceStep(m)
    PROVE  PoseInv'
<1>1. /\ Kinds /\ Motion /\ Progress /\ Owed /\ Vouched /\ Reached /\ PoseKept
      /\ UNCHANGED boot /\ Busy
      BY DEF PoseInv, SliceStep
<1>2. (Going' <=> Going) /\ (Asked' <=> Asked) /\ (Arrived' <=> Arrived)
      BY <1>1, PhasesKept
<1>3. /\ job \in Motions /\ frame \notin Motions /\ frame' \notin Motions
      /\ ~Going /\ ~Arrived
      /\ ~(phase \in Asking /\ reply.kind = "ok")
  <2>1. job # "none"
        BY <1>1, Motioned DEF Motion
  <2> QED BY <1>1, <2>1, Motioned DEF Motion, Progress, Reached, SliceStep
<1>4. Asked => phase \in Asking
      BY DEF Asked
<1>5. ASSUME link = "open" PROVE reply.kind = "none" /\ frame' = "none"
  <2>1. ~Answered /\ frame = "none"
        BY <1>1, <1>5 DEF SessionInv, Rests, Busy
  <2> QED BY <1>1, <1>5, <2>1 DEF Motion, Answered, SliceStep
<1>6. ASSUME Asked, link = "open" PROVE job = Op[phase]
      BY <1>1, <1>5, <1>6 DEF Motion, Busy
<1>7. boot.link = "open" => link # "open"
      BY DEF SessionInv, Channels, NoBoot
<1>8. link' = "open" => link = "open" \/ reply'.kind = "ok"
      BY DEF SliceStep
<1>9. Kinds'
  <2>1. {wheels', travel'} \subseteq Int
        BY <1>1 DEF Kinds, SliceStep
  <2>2. reply' = reply \/ (reply'.kind = "ok" => reply'.travel \in Int)
        BY <1>1 DEF Kinds, SliceStep
  <2> QED BY <1>1, <2>1, <2>2, KindsKept
<1>10. Motion'
  <2>1. Busy' => job' \in Motions /\ frame' \notin Motions
        BY <1>1, <1>3 DEF SliceStep
  <2>2. ~Busy' => job' = "none" /\ travel' = 0 /\ done' = 0
        BY DEF SliceStep
  <2>4. phase' \in Asking /\ reply'.kind = "ok" =>
           ~Busy' /\ frame' = "none" /\ reply'.at = wheels'
        BY <1>1, <1>3, <1>5 DEF SliceStep, PoseKept
  <2>5. link' = "open" \/ boot'.link = "open" => reply'.kind \in {"none", "ok", "refused"}
    <3>1. CASE reply' = reply
          BY <1>1, <1>8, <3>1 DEF Motion
    <3>2. CASE reply' # reply
          BY <1>1, <1>7, <3>2 DEF SliceStep
    <3> QED BY <3>1, <3>2
  <2>6. Asked' /\ reply'.kind = "none" /\ link' = "open" => Busy' /\ job' = Op[phase']
        BY <1>1, <1>2, <1>6 DEF SliceStep, PoseKept
  <2> QED BY <1>2, <1>3, <2>1, <2>2, <2>4, <2>5, <2>6 DEF Motion
<1>11. Progress'
  <2>1. Asked' /\ reply'.kind = "ok" /\ Op[phase'] \notin Motions => FALSE
        BY <1>1, <1>2, <1>3, <1>4, <1>6 DEF SliceStep, PoseKept
  <2> QED BY <1>1, <1>2, <1>3, <2>1 DEF Progress, PoseKept, Restored
<1>12. Owed'
  <2>1. UNCHANGED <<disk, plan>> /\ wheels' = wheels + m
        BY <1>1 DEF PoseKept, SliceStep
  <2>2. {wheels, travel, plan.turned} \subseteq Int
        BY <1>1 DEF Kinds
  <2>3. Asked /\ reply.kind = "none" /\ link = "open" =>
           wheels = disk.anchor + plan.turned + travel /\ disk.anchor \in Int
    <3>1. Asked => disk.anchor \in Int
          BY <1>1, EpisodeAssumption DEF Progress, Kinds
    <3> QED BY <1>1, <3>1 DEF Owed
  <2>4. Asked /\ reply'.kind = "ok" => wheels' = disk.anchor + plan.turned + reply'.travel
    <3>1. Asked /\ reply'.kind = "ok" =>
             link = "open" /\ reply.kind = "none" /\ reply'.travel = travel + m
          BY <1>3, <1>4, <1>5 DEF SliceStep
    <3> QED BY <2>1, <2>2, <2>3, <3>1
  <2>5. Asked /\ reply'.kind = "none" /\ link' = "open" =>
           wheels' = disk.anchor + plan.turned + travel'
    <3>1. Asked /\ reply'.kind = "none" /\ link' = "open" =>
             link = "open" /\ reply.kind = "none" /\ travel' = travel + m
          BY <1>5 DEF SliceStep
    <3> QED BY <2>1, <2>2, <2>3, <3>1
  <2> QED BY <1>2, <1>3, <2>1, <2>4, <2>5 DEF Owed
<1>13. Vouched'
       BY <1>1, VouchedKept
<1>14. Reached'
       BY <1>2, <1>3 DEF Reached
<1> QED BY <1>9, <1>10, <1>11, <1>12, <1>13, <1>14 DEF PoseInv

LEMMA AcceptsKeepsPose == SessionInv /\ PoseInv /\ PoseKept /\ Accepts => PoseInv'
<1> SUFFICES ASSUME SessionInv, PoseInv, PoseKept, Accepts PROVE PoseInv' OBVIOUS
<1>1. Kinds /\ Motion /\ Progress /\ Owed /\ Vouched /\ Reached
      BY DEF PoseInv
<1>2. (Going' <=> Going) /\ (Asked' <=> Asked) /\ (Arrived' <=> Arrived)
      BY PhasesKept
<1>3. /\ worker = "ready" /\ ~Busy /\ Busy'
      /\ frame \in Motions /\ frame' = "none" /\ job' = frame
      /\ travel' = 0 /\ done' = 0
      /\ UNCHANGED <<link, boot, reply, wheels>>
      BY DEF Accepts, Takes, Busy, process
<1>4. job = "none" /\ travel = 0
      BY <1>1, <1>3 DEF Motion
<1>5. /\ ~Going /\ ~Arrived /\ "none" \notin Motions
      /\ ~(phase \in Asking /\ reply.kind = "ok")
      BY <1>1, <1>3, Motioned DEF Motion, Progress, Reached
<1>6. Asked => phase \in Asking
      BY DEF Asked
<1>7. Kinds'
      BY <1>1, <1>3, KindsKept DEF Kinds
<1>8. Motion'
      BY <1>1, <1>2, <1>3, <1>5 DEF Motion, PoseKept
<1>9. Progress'
      BY <1>1, <1>2, <1>3, <1>5, <1>6 DEF Progress, PoseKept, Restored
<1>10. Owed'
  <2>1. UNCHANGED <<disk, plan>>
        BY DEF PoseKept
  <2> QED BY <1>1, <1>2, <1>3, <1>4, <1>5, <1>6, <2>1 DEF Owed
<1>11. Vouched'
       BY <1>1, VouchedKept
<1>12. Reached'
       BY <1>2, <1>5 DEF Reached
<1> QED BY <1>7, <1>8, <1>9, <1>10, <1>11, <1>12 DEF PoseInv

LEMMA AnswersKeepPose ==
    SessionInv /\ PoseInv /\ PoseKept /\ (Reads \/ Refuses \/ Denies \/ ShutsDown)
        => PoseInv'
<1> SUFFICES ASSUME SessionInv, PoseInv, PoseKept,
                    Reads \/ Refuses \/ Denies \/ ShutsDown
             PROVE  PoseInv'
    OBVIOUS
<1>1. /\ worker = "ready" /\ boot = NoBoot /\ frame' = "none" /\ frame # "none"
      /\ UNCHANGED <<boot, wheels, motion>>
      BY Motioned DEF Reads, Refuses, Denies, ShutsDown, Takes, Readings
<1>2. AfterAnswer \/ Gone
      BY DEF Reads, Refuses, Denies, ShutsDown
<1>3. /\ \/ Reply(Line("ok", "observed", 0, wheels, fault))
         \/ Reply(Line("refused", "none", 0, wheels, fault))
         \/ Reply(Line("ok", "denied", 0, wheels, fault))
      BY DEF Reads, Refuses, Denies, ShutsDown
<1>4. \/ link # "open" /\ reply' = reply
      \/ /\ link = "open" /\ reply'.kind \in {"ok", "refused"}
         /\ reply'.kind = "ok" => reply'.travel = 0 /\ reply'.at = wheels
      BY <1>3 DEF Reply, Line
<1>5. RestStep
  <2>1. ~Busy /\ ~Busy' /\ boot.link # "open" /\ boot'.link # "open"
        BY <1>1, <1>2 DEF Busy, AfterAnswer, Gone, NoBoot
  <2>2. link' = "open" => link = "open"
        BY <1>2 DEF AfterAnswer, Gone
  <2>3. reply'.kind \in {"ok", "refused"} => reply'.kind # "none"
        OBVIOUS
  <2>4. UNCHANGED <<job, travel, done, wheels>>
        BY <1>1 DEF motion
  <2> QED BY <1>1, <1>4, <2>1, <2>2, <2>3, <2>4 DEF RestStep
<1> QED BY <1>5, RestKeepsPose

LEMMA EndingsKeepPose ==
    SessionInv /\ PoseInv /\ PoseKept
    /\ (HangsUp \/ Expires \/ Boots \/ BootFails \/ ChannelCloses)
        => PoseInv'
<1> SUFFICES ASSUME SessionInv, PoseInv, PoseKept,
                    HangsUp \/ Expires \/ Boots \/ BootFails \/ ChannelCloses
             PROVE  PoseInv'
    OBVIOUS
<1>1. CASE HangsUp \/ Expires
  <2>1. RestStep
        BY <1>1 DEF HangsUp, Expires, Leaves, Gone, RestStep, Busy, motion
  <2> QED BY <2>1, RestKeepsPose
<1>2. CASE Boots
  <2>1. link # "open"
        BY <1>2 DEF Boots, SessionInv, Channels
  <2>2. Asked => boot.link # "open"
    <3>1. Asked => started /\ InSession
          BY DEF Asked, Asking, Cancellable, Scanning, InSession, SessionInv, Channels
    <3> QED BY <1>2, <3>1 DEF Boots, SessionInv, Channels
  <2>3. RestStep
        BY <1>2, <2>1, <2>2 DEF Boots, RestStep, Busy, motion, NoBoot
  <2> QED BY <2>3, RestKeepsPose
<1>3. CASE BootFails
  <2>1. link # "open" /\ boot'.link # "open" /\ link' # "open" /\ frame' = "none"
        BY <1>3 DEF BootFails, SessionInv, Channels, NoBoot
  <2>2. reply' = reply \/ reply'.kind = "fatal"
        BY <1>3 DEF BootFails, Line
  <2>3. RestStep
        BY <1>3, <2>1, <2>2 DEF BootFails, RestStep, Busy, motion
  <2> QED BY <2>3, RestKeepsPose
<1>4. CASE ChannelCloses
  <2>1. RestStep
        BY <1>4 DEF ChannelCloses, RestStep, Busy, motion
  <2> QED BY <2>1, RestKeepsPose
<1> QED BY <1>1, <1>2, <1>3, <1>4

LEMMA Directions ==
    Direction(job) = IF job = "turnBack" THEN -1 ELSE 1
BY DEF Direction

LEMMA FailsKeepsPose == SessionInv /\ PoseInv /\ PoseKept /\ Fails => PoseInv'
<1> SUFFICES ASSUME SessionInv, PoseInv, PoseKept, Fails PROVE PoseInv' OBVIOUS
<1>1. /\ ~Busy' /\ job' = "none" /\ travel' = 0 /\ done' = 0 /\ UNCHANGED boot
      /\ worker' = "none" /\ link' # "open"
      /\ frame' = "none" \/ frame' = frame
      BY DEF Fails, Gone, Busy
<1>2. \/ link # "open" /\ reply' = reply
      \/ link = "open" /\ reply'.kind = "fatal"
      BY DEF Fails, Reply, Line
<1>3. boot.link = "open" => link # "open"
      BY DEF SessionInv, Channels, NoBoot
<1>4. CASE Busy
  <2>1. PICK moved \in 0..SliceTravel : wheels' = wheels + Direction(job) * moved
        BY WorkerAssumption DEF Fails
  <2>2. PICK m \in Int : m = Direction(job) * moved
        BY Directions, WorkerAssumption
  <2>3. wheels' = wheels + m
        BY <2>1, <2>2
  <2>4. SliceStep(m)
        BY <1>1, <1>2, <1>4, <2>3 DEF SliceStep
  <2> QED BY <2>4, SliceKeepsPose
<1>5. CASE ~Busy
  <2>1. /\ job = "none" /\ travel = 0 /\ done = 0 /\ worker # "moving"
        /\ wheels \in Int
        BY <1>5 DEF PoseInv, Motion, Kinds, Busy
  <2>2. UNCHANGED wheels
        BY <2>1, Directions DEF Fails
  <2>3. link = "open" => frame' = "none" /\ boot'.link # "open"
        BY <1>1, <1>3 DEF Fails, SessionInv, Channels
  <2>4. RestStep
        BY <1>1, <1>2, <1>5, <2>1, <2>2, <2>3 DEF RestStep
  <2> QED BY <2>4, RestKeepsPose
<1> QED BY <1>4, <1>5

LEMMA SlicesKeepPose ==
    SessionInv /\ PoseInv /\ PoseKept
    /\ (StartsSlice \/ StopsShort \/ CompletesSlice \/ BreaksSlice) => PoseInv'
<1> SUFFICES ASSUME SessionInv, PoseInv, PoseKept,
                    StartsSlice \/ StopsShort \/ CompletesSlice \/ BreaksSlice
             PROVE  PoseInv'
    OBVIOUS
<1>1. /\ Busy /\ UNCHANGED <<boot, frame>>
      /\ wheels \in Int /\ travel \in Int
      BY DEF StartsSlice, StopsShort, CompletesSlice, BreaksSlice, Busy, Answer,
             PoseInv, Kinds, process
<1>2. ASSUME NEW m \in Int, NEW status, NEW latched, Answer(status, m, latched),
             wheels' = wheels + m
      PROVE  PoseInv'
  <2>1. /\ ~Busy' /\ job' = "none" /\ travel' = 0 /\ done' = 0
        /\ link' = "open" => link = "open"
        BY <1>2 DEF Answer, AfterAnswer, Gone, Busy
  <2>2. \/ reply' = reply /\ link # "open"
        \/ /\ link = "open" /\ reply'.kind = "ok"
           /\ reply'.travel = travel + m /\ reply'.at = wheels'
        BY <1>2 DEF Answer, Reply, Line
  <2>3. SliceStep(m)
        BY <1>1, <1>2, <2>1, <2>2 DEF SliceStep
  <2> QED BY <2>3, SliceKeepsPose
<1>3. CASE StartsSlice
  <2>1. SliceStep(0)
        BY <1>1, <1>3 DEF StartsSlice, SliceStep, Busy, process, motion
  <2> QED BY <2>1, SliceKeepsPose
<1>4. CASE StopsShort
  <2>1. wheels' = wheels + 0 /\ \E status : Answer(status, 0, fault)
        BY <1>1, <1>4 DEF StopsShort
  <2> QED BY <1>2, <2>1
<1>5. CASE CompletesSlice
  <2>1. PICK slip \in Int :
           /\ wheels' = wheels + Direction(job) * (SliceTravel + slip)
           /\ IF done + 1 = SlicesOf(job)
              THEN Answer("completed", Direction(job) * (SliceTravel + slip), fault)
              ELSE /\ worker' = "guard"
                   /\ travel' = travel + Direction(job) * (SliceTravel + slip)
                   /\ UNCHANGED <<process, job, reply>>
        BY <1>5, WorkerAssumption DEF CompletesSlice
  <2>2. PICK m \in Int : m = Direction(job) * (SliceTravel + slip)
        BY Directions, WorkerAssumption
  <2>3. wheels' = wheels + m
        BY <2>1, <2>2
  <2>4. CASE done + 1 = SlicesOf(job)
    <3>1. Answer("completed", m, fault)
          BY <2>1, <2>2, <2>4
    <3> QED BY <1>2, <2>3, <3>1
  <2>5. CASE done + 1 # SlicesOf(job)
    <3>1. /\ worker' = "guard" /\ travel' = travel + m
          /\ UNCHANGED <<link, job, reply>>
          BY <2>1, <2>2, <2>5 DEF process
    <3>2. SliceStep(m)
          BY <1>1, <2>3, <3>1 DEF SliceStep, Busy
    <3> QED BY <3>2, SliceKeepsPose
  <2> QED BY <2>4, <2>5
<1>6. CASE BreaksSlice
  <2>1. PICK moved \in 0..(SliceTravel - 1), latched \in {fault, TRUE} :
           /\ wheels' = wheels + Direction(job) * moved
           /\ Answer("interrupted", Direction(job) * moved, latched)
        BY <1>6 DEF BreaksSlice
  <2>2. PICK m \in Int : m = Direction(job) * moved
        BY Directions, WorkerAssumption
  <2>3. wheels' = wheels + m /\ Answer("interrupted", m, latched)
        BY <2>1, <2>2
  <2> QED BY <1>2, <2>3
<1> QED BY <1>3, <1>4, <1>5, <1>6

LEMMA WorkerKeepsPose ==
    SessionInv /\ PoseInv /\ WorkerStep /\ hostVars' = hostVars => PoseInv'
<1> SUFFICES ASSUME SessionInv, PoseInv, WorkerStep, hostVars' = hostVars
             PROVE  PoseInv'
    OBVIOUS
<1>1. PoseKept
      BY PoseVarsKept
<1> QED BY <1>1, AnswersKeepPose, EndingsKeepPose, AcceptsKeepsPose, FailsKeepsPose,
           SlicesKeepPose DEF WorkerStep

-----------------------------------------------------------------------------
(* The host and the pose.  Where the robot rests the host knows what the    *)
(* file is short of: nothing in its loop, and after an answer what the     *)
(* receipts add up to.                                                     *)

Memories == [pose : Int, anchor : Int \cup {NoAnchor}, valid : BOOLEAN]
Short == IF Going THEN 0 ELSE plan.turned + reply.travel
Knows == Going \/ (Asked /\ reply.kind = "ok")

HostStep ==
    /\ UNCHANGED <<worker, job, done, travel, wheels>>
    /\ memory' \in Memories /\ disk' \in Memories
    /\ {"turned", "latched"} \subseteq DOMAIN plan' /\ plan'.turned \in Int

\* The host writes the pose moved by p, and the encoders with it.
Writes(p) ==
    /\ memory' = disk' /\ disk'.valid = disk.valid
    /\ disk'.pose = disk.pose + p /\ disk'.anchor = disk.anchor + p

LEMMA HostKinds ==
    ASSUME Kinds, HostStep, {zero', truth'} \subseteq Int, residue' \in Nat,
           origin' \in Int \cup {NoOrigin}, reply' = NoReply
    PROVE  Kinds'
BY DEF Kinds, HostStep, Memories, NoReply

LEMMA AskedPhases ==
    /\ Asked => phase \in Asking
    /\ Going => phase \notin Asking
    /\ Asked \/ Going => phase \notin {"off", "start", "describe", "cleanup", "shutdown"}
BY DEF Asked, Asking, Cancellable, Scanning, Going, Deciding

LEMMA AtRestHere ==
    ASSUME SessionInv, PoseInv, Knows
    PROVE  /\ ~Busy /\ job = "none" /\ travel = 0 /\ done = 0
           /\ frame \notin Motions
           /\ link = "open" => worker = "ready"
           /\ boot.link # "open"
           /\ origin \in Int /\ disk.anchor \in Int /\ memory = disk
           /\ ~Arrived /\ ending # "goal_completed"
           /\ Short \in Int /\ wheels = disk.anchor + Short
<1>1. Kinds /\ Motion /\ Progress /\ Owed /\ Reached
      BY DEF PoseInv
<1>2. phase \notin {"off", "start", "describe", "cleanup", "shutdown"}
      BY AskedPhases DEF Knows
<1>3. ~Busy /\ frame \notin Motions
      BY <1>1, AskedPhases, Motioned DEF Motion, Knows
<1>4. ~Awaiting \/ Answered
      BY AskedPhases, <1>2 DEF Knows, Awaiting, Answered
<1>5. /\ boot.link # "open" /\ (link = "open" => worker = "ready")
      BY <1>4 DEF SessionInv, Rests
<1>6. origin \in Int /\ disk.anchor \in Int /\ memory = disk
      BY <1>1, <1>2, EpisodeAssumption DEF Progress, Knows, Kinds
<1>7. ~Arrived /\ ending # "goal_completed"
      BY <1>1, <1>2 DEF Progress, Arrived
<1>8. Short \in Int
      BY <1>1 DEF Short, Knows, Kinds
<1>9. wheels = disk.anchor + Short
  <2>1. CASE Going
        BY <1>1, <1>6, <2>1 DEF Owed, Short
  <2>2. CASE ~Going
        BY <1>1, <1>6, <2>2 DEF Owed, Short, Knows, Kinds
  <2> QED BY <2>1, <2>2
<1> QED BY <1>1, <1>3, <1>5, <1>6, <1>7, <1>8, <1>9 DEF Motion

LEMMA KnownVouches ==
    ASSUME SessionInv, PoseInv, Knows, UNCHANGED <<zero, origin, truth, residue>>,
           NEW p \in Int, Writes(p)
    PROVE  Vouched'
<1>1. Kinds /\ Vouched /\ disk.anchor \in Int /\ disk.anchor # NoAnchor
      BY AtRestHere, MemoryAssumption DEF PoseInv
<1>2. Start' = Start /\ residue' = residue
      BY DEF Start
<1>3. Offset' = Offset
      BY <1>1 DEF Offset, Writes, Kinds
<1> QED BY <1>1, <1>2, <1>3 DEF Vouched, Close, Writes

(* A request is sent: what it is for, and what the plan has turned, is what *)
(* the file will be short of.                                              *)
LEMMA AsksKeepPose ==
    ASSUME SessionInv, PoseInv, Knows, HostStep,
           UNCHANGED <<link, boot, zero, origin, truth, residue, ending>>,
           NEW p \in Int, Writes(p), plan'.turned = Short - p,
           phase' \in Asking \ {"describe"}, frame' = Op[phase'], reply' = NoReply,
           phase' \in Restoring \/ plan'.turned = 0,
           phase' = "reanchor" => Restored'
    PROVE  PoseInv'
<1>1. /\ ~Busy /\ job = "none" /\ travel = 0 /\ done = 0
      /\ link = "open" => worker = "ready"
      /\ boot.link # "open"
      /\ origin \in Int /\ disk.anchor \in Int /\ ending # "goal_completed"
      /\ Short \in Int /\ wheels = disk.anchor + Short
      /\ Kinds /\ Motion /\ Progress
      BY AtRestHere DEF PoseInv
<1>2. /\ ~Going' /\ Asked' /\ ~Busy' /\ ~Arrived'
      /\ phase' \notin {"off", "start", "describe", "cleanup", "shutdown"}
      /\ reply'.kind = "none"
      BY <1>1 DEF Going, Deciding, Asked, Asking, Cancellable, Scanning, Busy, HostStep,
                  Arrived, NoReply
<1>3. disk'.anchor \in Int /\ disk'.anchor # NoAnchor
      BY <1>1, MemoryAssumption DEF Writes
<1>4. Kinds'
      BY <1>1, HostKinds DEF Kinds
<1>5. Motion'
      BY <1>1, <1>2 DEF Motion, HostStep
<1>6. Progress'
      BY <1>1, <1>2, <1>3 DEF Progress, Writes
<1>7. Owed'
  <2>1. wheels' = wheels /\ travel' = 0 /\ plan'.turned \in Int
        BY <1>1 DEF HostStep
  <2>2. wheels' = disk'.anchor + plan'.turned + travel'
        BY <1>1, <2>1 DEF Writes
  <2> QED BY <1>2, <2>2 DEF Owed
<1>8. Vouched'
      BY KnownVouches
<1>9. Reached'
      BY <1>2 DEF Reached
<1> QED BY <1>4, <1>5, <1>6, <1>7, <1>8, <1>9 DEF PoseInv

(* The loop goes on, and the file is short of nothing.                     *)
LEMMA GoesKeepPose ==
    ASSUME SessionInv, PoseInv, Knows, HostStep,
           UNCHANGED <<link, boot, zero, origin, truth, ending>>,
           residue' \in Nat, Vouched',
           memory' = disk', disk'.anchor = wheels, plan'.turned = 0,
           phase' \in {"loop", "turn", "plan", "next", "renew"},
           frame' = frame, reply' = NoReply
    PROVE  PoseInv'
<1>1. /\ ~Busy /\ job = "none" /\ travel = 0 /\ done = 0
      /\ frame \notin Motions /\ boot.link # "open"
      /\ origin \in Int /\ ending # "goal_completed"
      /\ Kinds /\ Motion /\ Progress
      BY AtRestHere DEF PoseInv
<1>2. /\ Going' /\ ~Asked' /\ ~Busy' /\ ~Arrived'
      /\ phase' \notin Asking
      /\ reply'.kind = "none"
      BY <1>1 DEF Going, Deciding, Asked, Asking, Cancellable, Scanning, Busy, HostStep,
                  Arrived, NoReply
<1>3. disk'.anchor # NoAnchor
      BY <1>1, MemoryAssumption DEF Kinds
<1>4. Kinds'
      BY <1>1, HostKinds DEF Kinds
<1>5. Motion'
      BY <1>1, <1>2 DEF Motion, HostStep
<1>6. Progress'
      BY <1>1, <1>2, <1>3 DEF Progress
<1>7. Owed'
      BY <1>2 DEF Owed, HostStep
<1>8. Reached'
      BY <1>2 DEF Reached
<1> QED BY <1>4, <1>5, <1>6, <1>7, <1>8 DEF PoseInv

\* It goes on with what it has written of the movement it knows of.
LEMMA WritesAndGoes ==
    ASSUME SessionInv, PoseInv, Knows, HostStep,
           UNCHANGED <<link, boot, zero, origin, truth, residue, ending>>,
           Writes(Short), plan'.turned = 0,
           phase' \in {"loop", "turn", "plan", "next", "renew"},
           frame' = frame, reply' = NoReply
    PROVE  PoseInv'
<1>1. Short \in Int /\ wheels = disk.anchor + Short
      BY AtRestHere
<1>2. Vouched'
      BY <1>1, KnownVouches
<1>3. residue' \in Nat
      BY DEF PoseInv, Kinds
<1>4. memory' = disk' /\ disk'.anchor = wheels
      BY <1>1 DEF Writes
<1> QED BY <1>2, <1>3, <1>4, GoesKeepPose

(* The host stops where it is, asks for nothing that moves, and goes by     *)
(* what the file says.                                                     *)
LEMMA LeavesKeepPose ==
    ASSUME PoseInv, HostStep, residue' = residue,
           \/ UNCHANGED <<origin, truth>>
           \/ origin' = NoOrigin /\ truth' = 0 /\ ~Arrived',
           zero' = zero,
           \/ disk' = disk
           \/ ~disk'.valid /\ disk'.anchor # NoAnchor
           \/ disk' = Fresh /\ origin' = NoOrigin,
           phase' \in {"cleanup", "shutdown", "off", "start", "describe"},
           frame' = frame \/ frame' \in {"shutdown", "describe"},
           reply' = NoReply \/ (reply' = reply /\ phase' # "describe"),
           \/ reply' = NoReply
           \/ link' # "open" /\ boot'.link # "open"
           \/ UNCHANGED <<link, boot>>,
           memory' = disk' \/ phase' = "cleanup" \/ (phase' = "shutdown" /\ ~renewing'),
           plan'.turned = 0,
           ending' = "goal_completed" =>
               phase' = "cleanup" \/ (phase' = "shutdown" /\ ~renewing'),
           Arrived' => \/ Arrived
                       \/ /\ frame \notin Motions /\ ~Busy
                          /\ wheels - truth >= Goal - residue
    PROVE  PoseInv'
<1>1. /\ Kinds /\ Motion /\ Progress /\ Owed /\ Vouched /\ Reached
      BY DEF PoseInv
<1>2. /\ ~Going' /\ ~Asked' /\ (Busy' <=> Busy)
      /\ phase' \in Asking => phase' = "describe" /\ reply'.kind = "none"
      BY DEF Going, Deciding, Asked, Asking, Cancellable, Scanning, Busy, HostStep, NoReply
<1>3. frame' \in Motions => frame \in Motions /\ frame' = frame
      BY Motioned DEF Readings
<1>4. Kinds'
      BY <1>1 DEF Kinds, HostStep, Memories, NoReply
<1>5. Motion'
      BY <1>1, <1>2, <1>3 DEF Motion, HostStep, NoReply
<1>6. Progress'
  <2>1. disk'.anchor = NoAnchor => origin' = NoOrigin /\ disk'.pose = 0
        BY <1>1 DEF Progress, Fresh
  <2>2. phase' # "reanchor" /\ ~(Going' \/ Asked')
        BY <1>2
  <2> QED BY <1>2, <2>1, <2>2 DEF Progress
<1>7. Owed'
      BY <1>2 DEF Owed
<1>8. Vouched'
  <2>1. CASE ~disk'.valid
        BY <2>1 DEF Vouched
  <2>2. CASE disk' = Fresh
        BY <2>2 DEF Vouched, Fresh
  <2>3. CASE disk' = disk /\ UNCHANGED <<origin, truth>>
        BY <1>1, <2>3 DEF Vouched, Close, Offset, Start
  <2>4. CASE disk' = disk /\ origin' = NoOrigin
    <3>1. SUFFICES ASSUME disk.valid, disk.anchor # NoAnchor PROVE Close(Offset)'
          BY <2>4 DEF Vouched
    <3>2. Close(Offset)
          BY <1>1, <3>1 DEF Vouched
    <3>3. Offset \in Int /\ Start \in Int /\ residue \in Nat
          BY <1>1, <3>1, Starts DEF Offset, Kinds
    <3>4. Offset' = Offset /\ Start' = 0
          BY <2>4 DEF Offset, Start
    <3>5. Distance(Offset, 0) + Distance(0, 0) <= residue
          BY <3>2, <3>3 DEF Close, Distance
    <3> QED BY <3>4, <3>5 DEF Close, Distance
  <2> QED BY <2>1, <2>2, <2>3, <2>4
<1>9. Reached'
  <2>1. SUFFICES ASSUME Arrived' PROVE frame' \notin Motions /\ ~Busy'
                                       /\ wheels' - truth' >= Goal - residue'
        BY DEF Reached
  <2> QED BY <1>1, <1>2, <1>3, <2>1 DEF Reached, HostStep
<1> QED BY <1>4, <1>5, <1>6, <1>7, <1>8, <1>9 DEF PoseInv

LEMMA LoopRests ==
    ASSUME SessionInv, PoseInv, Going
    PROVE  /\ Knows /\ Short = 0 /\ memory = disk
           /\ memory \in Memories /\ disk \in Memories
           /\ {"turned", "latched"} \subseteq DOMAIN plan /\ plan.turned = 0
           /\ phase \notin {"off", "start", "describe", "cleanup", "shutdown"}
           /\ frame \notin Motions /\ ~Busy /\ ~Arrived /\ ending # "goal_completed"
           /\ disk.pose \in Int
<1>1. Knows /\ Kinds /\ Progress
      BY DEF Knows, PoseInv
<1>2. phase \in {"loop", "turn", "plan", "next", "renew"}
      BY DEF Going, Deciding
<1> QED BY <1>1, <1>2, AtRestHere DEF Short, Kinds, Progress, Memories, Restoring

LEMMA LoopKeepsPose ==
    ASSUME SessionInv, PoseInv,
           EndsLoop \/ BeginsTurn \/ ChoosesDriver \/ PlannerEnds \/ PlannerDefers
             \/ RenewalCancelled
    PROVE  PoseInv'
<1>1. /\ Going /\ hostOnly' = hostOnly /\ NoRequest
      BY DEF EndsLoop, BeginsTurn, ChoosesDriver, PlannerEnds, PlannerDefers,
             RenewalCancelled, Going, Deciding, hostOnly
<1>2. /\ Knows /\ Short = 0 /\ memory = disk
      /\ memory \in Memories /\ disk \in Memories
      /\ {"turned", "latched"} \subseteq DOMAIN plan /\ plan.turned = 0
      /\ ending # "goal_completed" /\ disk.pose \in Int
      BY <1>1, LoopRests
<1>3. /\ UNCHANGED <<worker, job, done, travel, wheels, link, boot, memory, disk,
                     zero, origin, truth, residue, frame, outcome>>
      /\ reply' = NoReply
      BY <1>1 DEF hostOnly, aside, workerSide, process, motion, memoryVars, goal,
                  NoRequest
<1>4. \/ phase' = "cleanup" /\ plan' = NoPlan /\ ending' \in {"cancelled", "incomplete"}
      \/ /\ phase' \in {"loop", "turn", "plan", "next", "renew"} /\ ending' = ending
         /\ {"turned", "latched"} \subseteq DOMAIN plan' /\ plan'.turned = 0
  <2>1. CASE EndsLoop \/ PlannerEnds \/ RenewalCancelled
        BY <2>1 DEF EndsLoop, PlannerEnds, RenewalCancelled, Leave
  <2>2. CASE BeginsTurn
    <3>1. PICK to \in {"turn", "renew"} : Loops(to)
          BY <2>2 DEF BeginsTurn
    <3>2. plan' = [plan EXCEPT !.turn = TurnsTaken, !.driver = "plan",
                               !.tail = 0, !.turned = 0]
          BY <2>2 DEF BeginsTurn
    <3>3. {"turned", "latched"} \subseteq DOMAIN plan' /\ plan'.turned = 0
          BY <1>2, <3>2
    <3> QED BY <3>1, <3>3 DEF Loops
  <2>3. CASE ChoosesDriver
    <3>1. plan' = plan \/ plan' = [plan EXCEPT !.driver = "route", !.tail = MaxTail]
          BY <2>3 DEF ChoosesDriver
    <3>2. {"turned", "latched"} \subseteq DOMAIN plan' /\ plan'.turned = 0
          BY <1>2, <3>1
    <3> QED BY <2>3, <3>2 DEF ChoosesDriver, Loops
  <2>4. CASE PlannerDefers
    <3>1. \/ Leave("incomplete")
          \/ Loops("loop") /\ plan' = [plan EXCEPT !.deferred = TRUE]
          BY <2>4 DEF PlannerDefers
    <3>2. CASE Leave("incomplete")
          BY <3>2 DEF Leave
    <3>3. CASE Loops("loop") /\ plan' = [plan EXCEPT !.deferred = TRUE]
          BY <1>2, <3>3 DEF Loops
    <3> QED BY <3>1, <3>2, <3>3
  <2> QED BY <2>1, <2>2, <2>3, <2>4
<1>5. CASE phase' = "cleanup" /\ plan' = NoPlan /\ ending' \in {"cancelled", "incomplete"}
  <2>1. HostStep /\ plan'.turned = 0
        BY <1>2, <1>3, <1>5 DEF HostStep, NoPlan
  <2>2. ~Arrived'
        BY <1>5 DEF Arrived
  <2> QED BY <1>3, <1>5, <2>1, <2>2, LeavesKeepPose
<1>6. CASE /\ phase' \in {"loop", "turn", "plan", "next", "renew"} /\ ending' = ending
           /\ {"turned", "latched"} \subseteq DOMAIN plan' /\ plan'.turned = 0
  <2>1. HostStep
        BY <1>2, <1>3, <1>6 DEF HostStep
  <2>2. Writes(Short)
        BY <1>1, <1>2, <1>3, AtRestHere DEF Writes
  <2> QED BY <1>2, <1>3, <1>6, <2>1, <2>2, WritesAndGoes
<1> QED BY <1>4, <1>5, <1>6

(* A goal that counts as completed was reached.                            *)
LEMMA Completed ==
    ASSUME SessionInv, PoseInv, Going, MissionCompleted
    PROVE  wheels - truth >= Goal - residue
<1>1. /\ Kinds /\ Vouched /\ memory = disk /\ memory.valid
      /\ memory.pose - origin >= Goal
      BY LoopRests DEF PoseInv, MissionCompleted
<1>2. /\ origin \in Int /\ truth \in Int /\ wheels \in Int /\ zero \in Int
      /\ residue \in Nat /\ disk.pose \in Int /\ origin # NoOrigin
      /\ disk.anchor \in Int /\ disk.anchor # NoAnchor /\ wheels = disk.anchor
      BY <1>1, AtRestHere, EpisodeAssumption, MemoryAssumption DEF Knows, Kinds, Short
<1>3. Close(Offset)
      BY <1>1, <1>2 DEF Vouched
<1>4. Start = truth - zero - origin /\ Offset = wheels - zero - disk.pose
      BY <1>2 DEF Start, Offset
<1>5. Offset >= Start - residue
      BY <1>2, <1>3, <1>4 DEF Close, Distance
<1>6. wheels - truth >= disk.pose - origin - residue
      BY <1>2, <1>4, <1>5
<1> QED BY <1>1, <1>2, <1>6, EpisodeAssumption

LEMMA DecidesKeepsPose == SessionInv /\ PoseInv /\ (PlannerDecides \/ GoesOn) => PoseInv'
<1> SUFFICES ASSUME SessionInv, PoseInv, PlannerDecides \/ GoesOn PROVE PoseInv'
    OBVIOUS
<1>1. phase \in {"plan", "next"} /\ Going /\ aside' = aside
      BY DEF PlannerDecides, GoesOn, Going, Deciding, aside
<1>2. /\ Knows /\ Short = 0 /\ memory = disk
      /\ memory \in Memories /\ disk \in Memories
      /\ {"turned", "latched"} \subseteq DOMAIN plan /\ plan.turned = 0
      /\ frame \notin Motions /\ ~Busy /\ ending # "goal_completed" /\ disk.pose \in Int
      BY <1>1, LoopRests
<1>3. UNCHANGED <<worker, job, done, travel, wheels, link, boot, memory, disk,
                  zero, origin, truth, residue, outcome>>
      BY <1>1 DEF aside, workerSide, process, motion, memoryVars, goal
<1>4. reply' = NoReply
      BY DEF PlannerDecides, GoesOn, NoRequest, Drive, Ask
<1>5. \/ /\ phase' = "cleanup" /\ plan' = NoPlan /\ frame' = frame
         /\ \/ ending' = "goal_completed" /\ MissionCompleted
            \/ ending' \in {"cancelled", "incomplete"}
      \/ /\ ending' = ending
         /\ {"turned", "latched"} \subseteq DOMAIN plan' /\ plan'.turned = 0
         /\ \/ phase' = "observe" /\ frame' = "observe"
            \/ phase' = "scanOut" /\ frame' = "turnOut"
            \/ phase' = "pulse" /\ frame' = "pulse"
            \/ phase' \in {"loop", "turn", "plan", "next", "renew"} /\ frame' = frame
  <2>1. CASE PlannerDecides
    <3> DEFINE decided(driver, tail) ==
                 plan' = [plan EXCEPT !.deferred = FALSE, !.driver = driver,
                                      !.tail = tail, !.turned = 0]
    <3>1. \A driver, tail :
             decided(driver, tail) =>
                {"turned", "latched"} \subseteq DOMAIN plan' /\ plan'.turned = 0
          BY <1>2
    <3>2. \/ MissionCompleted /\ Leave("goal_completed") /\ NoRequest
          \/ Loops("observe") /\ decided("plan", 0) /\ Ask("observe")
          \/ Loops("scanOut") /\ decided("scan", 0) /\ Drive("turnOut")
          \/ Loops("loop") /\ decided("plan", 0) /\ NoRequest
          \/ Loops("pulse") /\ decided("tail", MaxTail) /\ Drive("pulse")
          BY <2>1 DEF PlannerDecides
    <3> HIDE DEF decided
    <3> QED BY <3>1, <3>2 DEF Leave, Loops, Ask, Drive, NoRequest
  <2>2. CASE GoesOn
    <3>1. \/ Leave("cancelled") /\ NoRequest
          \/ Leave("incomplete") /\ NoRequest
          \/ /\ Loops(IF plan.driver = "route" THEN "plan" ELSE "loop")
             /\ NoRequest /\ plan' = plan
          \/ Loops("pulse") /\ Drive("pulse") /\ plan' = [plan EXCEPT !.tail = @ - 1]
          BY <2>2 DEF GoesOn
    <3>2. CASE Loops("pulse") /\ Drive("pulse") /\ plan' = [plan EXCEPT !.tail = @ - 1]
      <4>1. {"turned", "latched"} \subseteq DOMAIN plan' /\ plan'.turned = 0
            BY <1>2, <3>2
      <4> QED BY <3>2, <4>1 DEF Loops, Drive, Ask
    <3>3. CASE /\ Loops(IF plan.driver = "route" THEN "plan" ELSE "loop")
               /\ NoRequest /\ plan' = plan
          BY <1>2, <3>3 DEF Loops, NoRequest
    <3> QED BY <3>1, <3>2, <3>3 DEF Leave, NoRequest
  <2> QED BY <2>1, <2>2
<1>6. CASE phase' = "cleanup" /\ plan' = NoPlan /\ frame' = frame
           /\ \/ ending' = "goal_completed" /\ MissionCompleted
              \/ ending' \in {"cancelled", "incomplete"}
  <2>1. HostStep /\ plan'.turned = 0
        BY <1>2, <1>3, <1>6 DEF HostStep, NoPlan
  <2>2. ~Arrived' \/ wheels - truth >= Goal - residue
        BY <1>1, <1>6, Completed DEF Arrived
  <2> QED BY <1>2, <1>3, <1>4, <1>6, <2>1, <2>2, LeavesKeepPose
<1>7. ASSUME ending' = ending,
             {"turned", "latched"} \subseteq DOMAIN plan', plan'.turned = 0
      PROVE  HostStep /\ Writes(Short) /\ plan'.turned = Short - Short
      BY <1>2, <1>3, <1>7, AtRestHere DEF HostStep, Writes
<1>8. CASE /\ ending' = ending
           /\ {"turned", "latched"} \subseteq DOMAIN plan' /\ plan'.turned = 0
           /\ \/ phase' = "observe" /\ frame' = "observe"
              \/ phase' = "scanOut" /\ frame' = "turnOut"
              \/ phase' = "pulse" /\ frame' = "pulse"
  <2>1. phase' \in Asking \ {"describe"} /\ frame' = Op[phase'] /\ phase' # "reanchor"
        BY <1>8, Ops, AskingPhases
  <2>2. Short \in Int
        BY <1>2
  <2> QED BY <1>2, <1>3, <1>4, <1>7, <1>8, <2>1, <2>2, AsksKeepPose
<1>9. CASE /\ ending' = ending
           /\ {"turned", "latched"} \subseteq DOMAIN plan' /\ plan'.turned = 0
           /\ phase' \in {"loop", "turn", "plan", "next", "renew"} /\ frame' = frame
      BY <1>2, <1>3, <1>4, <1>7, <1>9, WritesAndGoes
<1> QED BY <1>5, <1>6, <1>8, <1>9

LEMMA AnswerRests ==
    ASSUME SessionInv, PoseInv, Asked, reply.kind = "ok"
    PROVE  /\ Knows /\ ~Going /\ Short = plan.turned + reply.travel
           /\ memory = disk /\ disk \in Memories /\ disk.anchor # NoAnchor
           /\ {"turned", "latched"} \subseteq DOMAIN plan /\ plan.turned \in Int
           /\ reply.at = wheels /\ reply.travel \in Int /\ wheels \in Int
           /\ Op[phase] \notin Motions => reply.travel = 0
           /\ phase \notin Restoring => plan.turned = 0
           /\ phase = "reanchor" => Restored
           /\ frame = "none" /\ ~Arrived /\ ending # "goal_completed"
           /\ disk.pose \in Int /\ disk.anchor \in Int
           /\ wheels = disk.anchor + plan.turned + reply.travel
<1>1. Knows /\ ~Going /\ phase \in Asking
      BY AskedPhases DEF Knows
<1>2. Kinds /\ Motion /\ Progress /\ Owed
      BY DEF PoseInv
<1> QED BY <1>1, <1>2, AtRestHere, MemoryAssumption DEF Short, Kinds, Motion, Progress,
           Memories, Owed

\* The memories the host writes.
LEMMA Distrusts ==
    \A m \in Memories :
       Invalid(m) \in Memories /\ ~Invalid(m).valid /\ Invalid(m).anchor = m.anchor
BY DEF Memories, Invalid

LEMMA Anchors ==
    ASSUME NEW m \in Memories, NEW at \in Int
    PROVE  /\ Anchored(m, at) \in Memories /\ Anchored(m, at).anchor = at
           /\ Anchored(m, at).pose = m.pose /\ Anchored(m, at).valid = m.valid
BY DEF Memories, Anchored

LEMMA Travels ==
    ASSUME NEW m \in Memories, NEW at \in Int, NEW moved \in Int
    PROVE  /\ Travelled(m, moved, at) \in Memories
           /\ Travelled(m, moved, at).pose = m.pose + moved
           /\ Travelled(m, moved, at).anchor = at
           /\ Travelled(m, moved, at).valid = m.valid
<1>1. m.pose \in Int /\ m.pose + moved \in Int /\ m.valid \in BOOLEAN
      BY DEF Memories
<1>2. /\ Travelled(m, moved, at).pose = m.pose + moved
      /\ Travelled(m, moved, at).anchor = at
      /\ Travelled(m, moved, at).valid = m.valid
      BY DEF Memories, Travelled
<1>3. Travelled(m, moved, at) \in [pose : Int, anchor : Int \cup {NoAnchor}, valid : BOOLEAN]
      BY <1>1, <1>2 DEF Memories, Travelled
<1> QED BY <1>2, <1>3 DEF Memories

LEMMA PulseKeepsPose == SessionInv /\ PoseInv /\ PulseReturns => PoseInv'
<1> SUFFICES ASSUME SessionInv, PoseInv, PulseReturns PROVE PoseInv' OBVIOUS
<1>1. phase = "pulse" /\ Asked /\ reply.kind = "ok"
      BY AskingPhases DEF PulseReturns, Heard, Asked
<1>2. /\ Knows /\ Short = reply.travel /\ memory = disk /\ disk \in Memories
      /\ {"turned", "latched"} \subseteq DOMAIN plan /\ plan.turned = 0
      /\ reply.at = wheels /\ reply.travel \in Int /\ wheels \in Int
      /\ ending # "goal_completed" /\ wheels = disk.anchor + reply.travel
      BY <1>1, AnswerRests DEF Restoring
<1>3. UNCHANGED <<worker, job, done, travel, wheels, link, boot,
                  zero, origin, truth, residue, outcome>>
      BY DEF PulseReturns, workerSide, process, motion, goal
<1>4. PICK saved \in BOOLEAN :
         /\ Save(Travelled(memory, reply.travel, reply.at), saved)
         /\ \/ /\ saved
               /\ plan' = [plan EXCEPT !.latched = reply.fault]
               /\ ending' = ending /\ reply' = NoReply
               /\ \/ phase' \in {"next", "plan", "loop"} /\ frame' = frame
                  \/ phase' = "scanOut" /\ frame' = "turnOut"
            \/ /\ ~saved /\ phase' = "cleanup" /\ plan' = NoPlan /\ ending' = "fault"
               /\ reply' = NoReply /\ frame' = frame
  <2>1. AfterMotion \subseteq {"next", "plan", "loop", "scanOut"}
        BY DEF AfterMotion
  <2>2. Saves \subseteq BOOLEAN
        BY DEF Saves
  <2> QED BY <2>1, <2>2 DEF PulseReturns, Loops, Leave, Drive, Ask, NoRequest
<1>5. PICK m \in Memories : m = Travelled(disk, reply.travel, wheels)
      BY <1>2, Travels
<1>6. /\ m.pose = disk.pose + reply.travel /\ m.anchor = wheels /\ m.valid = disk.valid
      /\ memory' = m /\ disk' = IF saved THEN m ELSE disk
  <2>1. m = Travelled(memory, reply.travel, reply.at)
        BY <1>2, <1>5
  <2> QED BY <1>2, <1>4, <1>5, <2>1, Travels DEF Save
<1>7. CASE saved
  <2>1. {"turned", "latched"} \subseteq DOMAIN plan' /\ plan'.turned = 0
        BY <1>2, <1>4, <1>7
  <2>2. HostStep /\ Writes(reply.travel)
        BY <1>2, <1>3, <1>5, <1>6, <1>7, <2>1 DEF HostStep, Writes
  <2>3. plan'.turned = Short - reply.travel
        BY <1>2, <2>1
  <2>4. CASE phase' = "scanOut" /\ frame' = "turnOut"
    <3>1. phase' \in Asking \ {"describe"} /\ frame' = Op[phase'] /\ phase' # "reanchor"
          BY <2>4, Ops, AskingPhases
    <3> QED BY <1>2, <1>3, <1>4, <1>7, <2>1, <2>2, <2>3, <3>1, AsksKeepPose
  <2>5. CASE phase' \in {"next", "plan", "loop"} /\ frame' = frame
        BY <1>2, <1>3, <1>4, <1>7, <2>1, <2>2, <2>5, WritesAndGoes
  <2> QED BY <1>4, <1>7, <2>4, <2>5
<1>8. CASE ~saved
  <2>1. HostStep /\ plan'.turned = 0
        BY <1>2, <1>3, <1>4, <1>5, <1>6, <1>8 DEF HostStep, NoPlan
  <2>2. ~Arrived'
        BY <1>4, <1>8 DEF Arrived
  <2> QED BY <1>3, <1>4, <1>6, <1>8, <2>1, <2>2, LeavesKeepPose
<1> QED BY <1>7, <1>8

(* What the answer to a scan or an observation leaves is not trusted.      *)
LEMMA DistrustsKeepPose ==
    ASSUME SessionInv, PoseInv, Asked, reply.kind = "ok",
           reply' = NoReply, frame' = frame,
           UNCHANGED <<workerSide, outcome, goal>>,
           phase' = "cleanup", plan' = NoPlan, ending' # "goal_completed",
           memory' \in Memories,
           disk' = disk \/ disk' = Invalid(disk) \/ disk' = Invalid(Anchored(disk, reply.at))
    PROVE  PoseInv'
<1>1. /\ disk \in Memories /\ disk.anchor # NoAnchor
      /\ reply.at = wheels /\ wheels \in Int /\ wheels # NoAnchor
      BY AnswerRests, MemoryAssumption
<1>2. UNCHANGED <<worker, job, done, travel, wheels, link, boot,
                  zero, origin, truth, residue>>
      BY DEF workerSide, process, motion, goal
<1>3. disk' \in Memories /\ (disk' = disk \/ (~disk'.valid /\ disk'.anchor # NoAnchor))
  <2>1. PICK a \in Memories : a = Anchored(disk, wheels)
        BY <1>1, Anchors
  <2> QED BY <1>1, <2>1, Anchors, Distrusts
<1>4. HostStep /\ plan'.turned = 0
      BY <1>2, <1>3 DEF HostStep, NoPlan
<1>5. ~Arrived'
      BY DEF Arrived
<1> QED BY <1>2, <1>3, <1>4, <1>5, LeavesKeepPose

LEMMA ObserveKeepsPose == SessionInv /\ PoseInv /\ ObserveReturns => PoseInv'
<1> SUFFICES ASSUME SessionInv, PoseInv, ObserveReturns PROVE PoseInv' OBVIOUS
<1>1. /\ phase = "observe" /\ reply.kind = "ok" /\ reply' = NoReply /\ frame' = frame
      /\ UNCHANGED <<workerSide, outcome, goal>>
      BY DEF ObserveReturns, Heard, NoRequest, mission
<1>2. Asked /\ Op[phase] \notin Motions /\ phase \notin Restoring
      BY <1>1, AskingPhases, Ops, Motioned DEF Asked, Readings, Restoring
<1>3. /\ Knows /\ Short = 0 /\ memory = disk /\ disk \in Memories /\ wheels \in Int
      /\ {"turned", "latched"} \subseteq DOMAIN plan /\ plan.turned = 0
      /\ reply.at = wheels /\ disk.pose \in Int /\ wheels = disk.anchor
      BY <1>1, <1>2, AnswerRests
<1>4. CASE Leave("cancelled") /\ UNCHANGED memoryVars
      BY <1>1, <1>2, <1>3, <1>4, DistrustsKeepPose DEF Leave, memoryVars
<1>5. ASSUME NEW saved \in BOOLEAN, Save(Observed(memory, reply.at), saved),
             IF saved /\ AtRest(memory, reply.at)
             THEN Loops("loop") /\ plan' = [plan EXCEPT !.latched = reply.fault]
             ELSE Leave("fault")
      PROVE  PoseInv'
  <2>1. CASE saved /\ AtRest(memory, reply.at)
    <3>1. {"turned", "latched"} \subseteq DOMAIN plan' /\ plan'.turned = 0
          BY <1>3, <1>5, <2>1
    <3>2. PICK m \in Memories : m = Anchored(disk, wheels)
          BY <1>3, Anchors
    <3>3. m.pose = disk.pose /\ m.anchor = wheels /\ m.valid = disk.valid
          BY <1>3, <3>2, Anchors
    <3>4. memory' = m /\ disk' = m
          BY <1>3, <1>5, <2>1, <3>2 DEF Observed, Save
    <3>5. UNCHANGED <<worker, job, done, travel, wheels, link, boot,
                      zero, origin, truth, residue>>
          BY <1>1 DEF workerSide, process, motion, goal
    <3>6. HostStep /\ Writes(Short)
          BY <1>3, <3>1, <3>3, <3>4, <3>5 DEF HostStep, Writes
    <3> QED BY <1>1, <1>3, <1>5, <2>1, <3>1, <3>5, <3>6, WritesAndGoes DEF Loops
  <2>2. CASE ~(saved /\ AtRest(memory, reply.at))
    <3>1. Observed(memory, reply.at) \in Memories
          BY <1>3, Anchors, Distrusts DEF Observed
    <3>2. /\ memory' \in Memories
          /\ disk' = disk \/ disk' = Invalid(disk)
          BY <1>3, <1>5, <2>2, <3>1 DEF Save, Observed
    <3> QED BY <1>1, <1>2, <1>5, <2>2, <3>2, DistrustsKeepPose DEF Leave
  <2> QED BY <2>1, <2>2
<1>6. Saves \subseteq BOOLEAN
      BY DEF Saves
<1> QED BY <1>4, <1>5, <1>6 DEF ObserveReturns

(* A scan that ended near its heading keeps the pose, and is off by what    *)
(* its turns left.                                                         *)
LEMMA ReanchorKeepsPose == SessionInv /\ PoseInv /\ Reanchored => PoseInv'
<1> SUFFICES ASSUME SessionInv, PoseInv, Reanchored PROVE PoseInv' OBVIOUS
<1>1. /\ phase = "reanchor" /\ reply.kind = "ok" /\ reply' = NoReply /\ frame' = frame
      /\ UNCHANGED <<workerSide, outcome, zero, origin, truth, episode>>
      BY DEF Reanchored, Heard, NoRequest
<1>2. Asked /\ Op[phase] \notin Motions
      BY <1>1, AskingPhases, Ops, Motioned DEF Asked, Readings
<1>3. /\ Knows /\ memory = disk /\ disk \in Memories /\ wheels \in Int
      /\ {"turned", "latched"} \subseteq DOMAIN plan /\ plan.turned \in Int
      /\ Restored /\ reply.at = wheels /\ disk.pose \in Int
      /\ disk.anchor \in Int /\ disk.anchor # NoAnchor
      /\ wheels = disk.anchor + plan.turned
      BY <1>1, <1>2, AnswerRests
<1>4. \/ /\ Save(Rescanned(memory, reply.at), TRUE)
         /\ residue' = residue + Remainder
         /\ phase' \in {"loop", "next", "plan"} /\ ending' = ending
         /\ plan' = [plan EXCEPT !.turned = 0, !.latched = reply.fault]
      \/ /\ \E again \in BOOLEAN : Save(Invalid(Rescanned(memory, reply.at)), again)
         /\ Leave("fault") /\ UNCHANGED residue
      BY DEF Reanchored, Loops
<1>5. CASE /\ Save(Rescanned(memory, reply.at), TRUE)
           /\ residue' = residue + Remainder
           /\ phase' \in {"loop", "next", "plan"} /\ ending' = ending
           /\ plan' = [plan EXCEPT !.turned = 0, !.latched = reply.fault]
  <2>1. {"turned", "latched"} \subseteq DOMAIN plan' /\ plan'.turned = 0
        BY <1>3, <1>5
  <2>2. PICK m \in Memories : m = Anchored(disk, wheels)
        BY <1>3, Anchors
  <2>3. m.pose = disk.pose /\ m.anchor = wheels /\ m.valid = disk.valid
        BY <1>3, <2>2, Anchors
  <2>4. memory' = m /\ disk' = m
        BY <1>3, <1>5, <2>2 DEF Rescanned, Save
  <2>5. UNCHANGED <<worker, job, done, travel, wheels, link, boot, zero, origin, truth>>
        BY <1>1 DEF workerSide, process, motion
  <2>6. HostStep
        BY <2>1, <2>4, <2>5 DEF HostStep
  <2>7. Remainder = Distance(plan.turned, 0) /\ Remainder \in Nat
        BY <1>3 DEF Restored, Remainder, Distance
  <2>8. residue \in Nat /\ zero \in Int /\ Start \in Int
        BY Starts DEF PoseInv, Kinds
  <2>9. residue' \in Nat
        BY <1>5, <2>7, <2>8
  <2>10. Vouched'
    <3>1. SUFFICES ASSUME disk.valid PROVE Close(Offset)'
          BY <2>3, <2>4 DEF Vouched
    <3>2. Close(Offset)
          BY <1>3, <3>1 DEF PoseInv, Vouched
    <3>3. Start' = Start
          BY <2>5 DEF Start
    <3>4. PICK c \in Int : c = Offset
          BY <1>3, <2>8 DEF Offset
    <3>5. Offset' = c + plan.turned
          BY <1>3, <2>3, <2>4, <2>5, <2>8, <3>4 DEF Offset
    <3>6. Distance(c, Start) + Distance(Start, 0) <= residue
          BY <3>2, <3>4 DEF Close
    <3>7. PICK d \in Int : d = c + plan.turned
          BY <1>3
    <3>8. Distance(d, Start) + Distance(Start, 0) <= residue + Distance(plan.turned, 0)
          BY <1>3, <2>8, <3>6, <3>7 DEF Distance
    <3> QED BY <1>5, <2>7, <3>3, <3>5, <3>7, <3>8 DEF Close, Distance
  <2> QED BY <1>1, <1>3, <1>5, <2>1, <2>3, <2>4, <2>5, <2>6, <2>9, <2>10, GoesKeepPose
<1>6. CASE /\ \E again \in BOOLEAN : Save(Invalid(Rescanned(memory, reply.at)), again)
           /\ Leave("fault") /\ UNCHANGED residue
  <2>1. Anchored(disk, wheels) \in Memories
        BY <1>3, Anchors
  <2>2. Invalid(Anchored(disk, wheels)) \in Memories
        BY <2>1, Distrusts
  <2>3. /\ memory' \in Memories
        /\ disk' = disk \/ disk' = Invalid(Anchored(disk, reply.at))
        BY <1>3, <1>6, <2>2 DEF Save, Rescanned
  <2> QED BY <1>1, <1>2, <1>6, <2>3, DistrustsKeepPose DEF Leave, goal
<1> QED BY <1>4, <1>5, <1>6

LEMMA ScanKeepsPose ==
    SessionInv /\ PoseInv /\ (ScanTurns \/ ScanReads \/ ScanRestores \/ ScanReturns)
        => PoseInv'
<1> SUFFICES ASSUME SessionInv, PoseInv,
                    ScanTurns \/ ScanReads \/ ScanRestores \/ ScanReturns
             PROVE  PoseInv'
    OBVIOUS
<1>1. /\ phase \in {"scanOut", "scanBack", "scanRead", "scanStop", "scanFinal"}
      /\ reply.kind = "ok"
      BY DEF ScanTurns, ScanReads, ScanRestores, ScanReturns, Heard
<1>2. Asked
      BY <1>1, AskingPhases DEF Asked
<1>3. /\ Knows /\ Short = plan.turned + reply.travel /\ Short \in Int
      /\ memory = disk /\ disk \in Memories /\ disk.pose \in Int
      /\ {"turned", "latched"} \subseteq DOMAIN plan /\ plan.turned \in Int
      /\ reply.travel \in Int
      /\ phase \in {"scanRead", "scanStop", "scanFinal"} => reply.travel = 0
      BY <1>1, <1>2, AnswerRests, Ops, Motioned DEF Readings
<1>4. /\ UNCHANGED <<worker, job, done, travel, wheels, link, boot, memory, disk,
                     zero, origin, truth, residue, ending>>
      /\ reply' = NoReply
  <2>1. UNCHANGED <<workerSide, memoryVars, mission>> /\ reply' = NoReply
        BY DEF ScanTurns, ScanReads, ScanRestores, ScanReturns, Ask
  <2>2. ending' = ending
        BY DEF ScanTurns, ScanReads, ScanRestores, ScanReturns, Loops
  <2> QED BY <2>1, <2>2 DEF workerSide, process, motion, memoryVars, mission, goal
<1>5. /\ {"turned", "latched"} \subseteq DOMAIN plan' /\ plan'.turned = Short
      /\ \/ phase' \in {"scanRead", "scanFinal"} /\ frame' = "sample"
         \/ phase' = "scanStop" /\ frame' = "stop"
         \/ phase' = "scanBack" /\ frame' = "turnBack"
         \/ phase' = "reanchor" /\ frame' = "observe" /\ Restored'
  <2>1. CASE ScanTurns
    <3>1. plan' = [plan EXCEPT !.turned = @ + reply.travel, !.latched = reply.fault]
          BY <2>1 DEF ScanTurns
    <3>2. {"turned", "latched"} \subseteq DOMAIN plan' /\ plan'.turned = Short
          BY <1>3, <3>1
    <3> QED BY <2>1, <3>2 DEF ScanTurns, Loops, Ask
  <2>2. CASE ScanReads
        BY <1>3, <2>2 DEF ScanReads, Ask, Heard
  <2>3. CASE ScanRestores
        BY <1>3, <2>3 DEF ScanRestores, Ask, Heard
  <2>4. CASE ScanReturns
        BY <1>3, <2>4 DEF ScanReturns, Ask, Heard, Restored
  <2> QED BY <2>1, <2>2, <2>3, <2>4
<1>6. HostStep /\ Writes(0)
      BY <1>3, <1>4, <1>5, AtRestHere DEF HostStep, Writes
<1>7. /\ phase' \in Asking \ {"describe"} /\ frame' = Op[phase']
      /\ phase' \in Restoring /\ (phase' = "reanchor" => Restored')
      BY <1>5, Ops, AskingPhases DEF Restoring
<1>8. plan'.turned = Short - 0
      BY <1>3, <1>5
<1> QED BY <1>3, <1>4, <1>6, <1>7, <1>8, AsksKeepPose

\* What holds of the host's own state wherever it is.
LEMMA HostHere ==
    ASSUME PoseInv
    PROVE  /\ memory \in Memories /\ disk \in Memories
           /\ {"turned", "latched"} \subseteq DOMAIN plan /\ plan.turned \in Int
           /\ phase # "cleanup" /\ (phase = "shutdown" => renewing) => memory = disk
           /\ phase \notin Restoring => plan.turned = 0
           /\ ending = "goal_completed" =>
                 phase = "cleanup" \/ (phase = "shutdown" /\ ~renewing)
           /\ Asked => disk.anchor # NoAnchor
           /\ {"turned", "latched"} \subseteq DOMAIN NoPlan /\ NoPlan.turned = 0
BY EpisodeAssumption DEF PoseInv, Kinds, Progress, Memories, NoPlan

LEMMA HangupHere ==
    ASSUME SessionInv, Hangup
    PROVE  /\ link' # "open" /\ boot'.link # "open"
           /\ UNCHANGED <<worker, job, done, travel, wheels>>
BY HangupBreaks DEF SessionInv, Shapes, Hangup, motion, Closing

LEMMA BreaksKeepPose ==
    SessionInv /\ PoseInv /\ (ScanFails \/ RequestFails) => PoseInv'
<1> SUFFICES ASSUME SessionInv, PoseInv, ScanFails \/ RequestFails PROVE PoseInv'
    OBVIOUS
<1>1. /\ phase \in Asking /\ phase' = "cleanup" /\ plan' = NoPlan
      /\ ending' \in {"cancelled", "fault"} /\ reply' = NoReply /\ frame' = frame
      /\ UNCHANGED <<zero, origin, truth, residue>>
      BY AskingPhases DEF ScanFails, RequestFails, Heard, Leave, NoRequest, Why, mission,
                          goal
<1>2. /\ UNCHANGED <<worker, job, done, travel, wheels>>
      /\ \/ link' # "open" /\ boot'.link # "open"
         \/ UNCHANGED <<link, boot>>
  <2>1. UNCHANGED workerSide \/ Hangup
        BY DEF ScanFails, RequestFails
  <2>2. CASE UNCHANGED workerSide
        BY <2>2 DEF workerSide, process, motion
  <2> QED BY <2>1, <2>2, HangupHere
<1>3. \/ UNCHANGED memoryVars
      \/ Asked /\ \E saved \in BOOLEAN : Save(Invalid(memory), saved)
  <2>1. Saves \subseteq BOOLEAN
        BY DEF Saves
  <2>2. CASE ScanFails
        BY <2>1, <2>2, AskingPhases DEF ScanFails, Heard, Asked
  <2>3. CASE RequestFails
        BY <2>1, <2>3, AskingPhases DEF RequestFails, Invalidates, Asked, Scanning
  <2> QED BY <2>2, <2>3
<1>4. /\ memory' \in Memories /\ disk' \in Memories
      /\ disk' = disk \/ (~disk'.valid /\ disk'.anchor # NoAnchor)
  <2>1. CASE UNCHANGED memoryVars
        BY <2>1, HostHere DEF memoryVars
  <2>2. CASE Asked /\ \E saved \in BOOLEAN : Save(Invalid(memory), saved)
    <3>1. memory = disk /\ disk \in Memories /\ disk.anchor # NoAnchor
          BY <1>1, <2>2, AskingPhases, HostHere
    <3> QED BY <2>2, <3>1, Distrusts DEF Save
  <2> QED BY <1>3, <2>1, <2>2
<1>5. HostStep /\ plan'.turned = 0
      BY <1>1, <1>2, <1>4, HostHere DEF HostStep
<1>6. ~Arrived'
      BY <1>1 DEF Arrived
<1> QED BY <1>1, <1>2, <1>4, <1>5, <1>6, LeavesKeepPose

LEMMA OpensKeepPose ==
    SessionInv /\ PoseInv /\ (OpensWorker \/ OpenFails \/ BeginsShutdown) => PoseInv'
<1> SUFFICES ASSUME SessionInv, PoseInv, OpensWorker \/ OpenFails \/ BeginsShutdown
             PROVE  PoseInv'
    OBVIOUS
<1>1. UNCHANGED <<worker, link, job, done, travel, wheels, memory, disk, zero,
                  origin, truth, residue, outcome>>
      BY DEF OpensWorker, OpenFails, BeginsShutdown, workerVars, workerSide, process,
             motion, memoryVars, mission, goal
<1>2. CASE OpensWorker
  <2>1. /\ phase = "start" /\ phase' = "describe" /\ frame' = "describe"
        /\ reply' = NoReply /\ plan' = plan /\ ending' = ending
        BY <1>2 DEF OpensWorker, Ask
  <2>2. HostStep /\ plan'.turned = 0 /\ memory = disk /\ ending # "goal_completed"
        BY <1>1, <2>1, HostHere DEF HostStep, Restoring
  <2>3. ~Arrived'
        BY <2>1, <2>2 DEF Arrived
  <2> QED BY <1>1, <2>1, <2>2, <2>3, LeavesKeepPose
<1>3. CASE OpenFails
  <2>1. /\ phase' = "cleanup" /\ plan' = NoPlan /\ ending' \in {"cancelled", "fault"}
        /\ UNCHANGED <<frame, reply, boot>>
        BY <1>3 DEF OpenFails, Leave, Why, workerVars
  <2>2. HostStep /\ plan'.turned = 0
        BY <1>1, <2>1, HostHere DEF HostStep, Restoring
  <2>3. ~Arrived'
        BY <2>1 DEF Arrived
  <2> QED BY <1>1, <2>1, <2>2, <2>3, LeavesKeepPose
<1>4. CASE BeginsShutdown
  <2>1. /\ (phase = "cleanup" /\ ~renewing') \/ phase = "renew"
        /\ phase' = "shutdown" /\ frame' = "shutdown"
        /\ reply' = NoReply /\ plan' = plan /\ ending' = ending
        BY <1>4 DEF BeginsShutdown, Ask, Loops
  <2>2. HostStep /\ plan'.turned = 0
        BY <1>1, <2>1, HostHere DEF HostStep, Restoring
  <2>3. phase = "renew" => memory = disk /\ ending # "goal_completed"
        BY HostHere
  <2>4. Arrived' => Arrived
        BY <2>1 DEF Arrived
  <2> QED BY <1>1, <2>1, <2>2, <2>3, <2>4, LeavesKeepPose
<1> QED BY <1>2, <1>3, <1>4

(* The host is back to where it starts.                                    *)
LEMMA IdleKeepsPose ==
    ASSUME PoseInv, Idle, Load, UNCHANGED <<zero, origin, truth, residue, frame>>,
           UNCHANGED <<worker, job, done, travel, wheels>>,
           (link' # "open" /\ boot'.link # "open") \/ UNCHANGED <<link, boot>>,
           reply' = NoReply \/ reply' = reply,
           outcome' = "goal_completed" => ending = "goal_completed"
    PROVE  PoseInv'
<1>1. /\ phase' = "off" /\ ending' = "none" /\ plan' = NoPlan
      /\ memory' = disk' /\ disk' = disk
      BY DEF Idle, Load
<1>2. HostStep /\ plan'.turned = 0
      BY <1>1, HostHere DEF HostStep
<1>3. Arrived' => Arrived
      BY <1>1 DEF Arrived
<1> QED BY <1>1, <1>2, <1>3, LeavesKeepPose

LEMMA ClosesKeepPose ==
    SessionInv /\ PoseInv
    /\ (NothingToClose \/ ShutdownReturns \/ ShutdownFails \/ HostCrashes) => PoseInv'
<1> SUFFICES ASSUME SessionInv, PoseInv,
                    NothingToClose \/ ShutdownReturns \/ ShutdownFails \/ HostCrashes
             PROVE  PoseInv'
    OBVIOUS
<1>1. CASE NothingToClose
      BY <1>1, IdleKeepsPose DEF NothingToClose, Ends, workerVars, mission, goal
<1>2. CASE HostCrashes
      BY <1>2, HangupHere, IdleKeepsPose DEF HostCrashes, NoRequest, mission, goal
<1>3. ASSUME NEW clean \in BOOLEAN, Shutdown(clean) PROVE PoseInv'
  <2>1. /\ frame' = frame /\ reply' = NoReply /\ Hangup
        /\ UNCHANGED <<zero, origin, truth, residue>>
        BY <1>3 DEF Shutdown, NoRequest, mission, goal
  <2>2. CASE phase = "shutdown" /\ renewing
    <3>1. /\ memory = disk /\ plan.turned = 0 /\ ending # "goal_completed"
          BY <2>2, HostHere DEF Restoring
    <3>2. /\ memory' = memory /\ disk' = disk /\ outcome' = outcome
          /\ \/ phase' = "start" /\ plan' = plan /\ ending' = ending
             \/ phase' = "cleanup" /\ plan' = NoPlan /\ ending' \in {"cancelled", "fault"}
          BY <1>3, <2>2 DEF Shutdown, Loops, Leave, memoryVars
    <3>3. HostStep /\ plan'.turned = 0
          BY <2>1, <3>1, <3>2, HangupHere, HostHere DEF HostStep
    <3>4. ~Arrived'
          BY <3>1, <3>2 DEF Arrived
    <3> QED BY <2>1, <3>1, <3>2, <3>3, <3>4, HangupHere, LeavesKeepPose
  <2>3. CASE ~(phase = "shutdown" /\ renewing)
        BY <1>3, <2>1, <2>3, HangupHere, IdleKeepsPose DEF Shutdown, Ends
  <2> QED BY <2>2, <2>3
<1> QED BY <1>1, <1>2, <1>3 DEF ShutdownReturns, ShutdownFails

LEMMA StartKeepsPose == PoseInv /\ StartEpisode => PoseInv'
<1> SUFFICES ASSUME PoseInv, StartEpisode PROVE PoseInv' OBVIOUS
<1>1. /\ phase = "off" /\ phase' = "start" /\ outcome' = "none"
      /\ origin' = NoOrigin /\ truth' = 0 /\ memory' = disk'
      /\ disk' = disk \/ disk' = Fresh
      /\ UNCHANGED <<worker, link, boot, frame, reply, job, done, travel, wheels,
                     plan, ending, zero, residue>>
      BY DEF StartEpisode, Load, Save, workerVars
<1>2. Fresh \in Memories
      BY DEF Fresh, Memories
<1>3. HostStep /\ plan'.turned = 0 /\ ending # "goal_completed"
      BY <1>1, <1>2, HostHere DEF HostStep, Restoring
<1>4. ~Arrived'
      BY <1>1, <1>3 DEF Arrived
<1> QED BY <1>1, <1>3, <1>4, LeavesKeepPose

LEMMA StopsKeepPose ==
    SessionInv /\ PoseInv /\ (RequestStop \/ EmergencyStop \/ UNCHANGED vars) => PoseInv'
<1> SUFFICES ASSUME SessionInv, PoseInv,
                    RequestStop \/ EmergencyStop \/ UNCHANGED vars
             PROVE  PoseInv'
    OBVIOUS
<1>1. PoseKept /\ UNCHANGED <<worker, frame, reply, job, done, travel, wheels>>
      BY DEF RequestStop, EmergencyStop, vars, PoseKept, Hangup, workerVars, motion,
             memoryVars, session, mission, goal
<1>2. UNCHANGED <<link, boot>> \/ (link' # "open" /\ boot'.link # "open")
      BY HangupHere DEF RequestStop, EmergencyStop, vars, workerVars
<1>3. RestStep
      BY <1>1, <1>2 DEF RestStep, Busy
<1> QED BY <1>3, RestKeepsPose

(* A push between two episodes shows in the encoders as it moves the robot.*)
LEMMA PushKeepsPose ==
    ASSUME PushPhases \subseteq {"off"}, PoseInv, Pushed
    PROVE  PoseInv'
<1>1. /\ phase = "off" /\ ~Busy
      /\ PoseKept /\ UNCHANGED <<worker, link, boot, frame, reply, job, done, travel>>
      BY DEF Pushed, Busy, PoseKept, process, motion, memoryVars, session, mission, goal
<1>2. Kinds /\ Motion /\ Progress /\ Vouched /\ Reached
      BY DEF PoseInv
<1>3. PICK m \in 1..SliceTravel : wheels' = wheels + m
      BY DEF Pushed
<1>4. m \in Int /\ m >= 1
      BY <1>3, WorkerAssumption
<1>5. (Going' <=> Going) /\ (Asked' <=> Asked) /\ (Arrived' <=> Arrived)
      /\ (Busy' <=> Busy)
      BY <1>1, PhasesKept DEF Busy
<1>6. ~Going /\ ~Asked /\ phase \notin Asking
      BY <1>1 DEF Going, Deciding, Asked, Asking, Cancellable, Scanning
<1>7. Kinds'
      BY <1>1, <1>2, <1>3, <1>4, KindsKept DEF Kinds
<1>8. Motion'
      BY <1>1, <1>2, <1>5, <1>6 DEF Motion, PoseKept
<1>9. Progress'
      BY <1>1, <1>2, <1>5 DEF Progress, PoseKept, Restored
<1>10. Owed'
       BY <1>5, <1>6 DEF Owed
<1>11. Vouched'
       BY <1>1, <1>2, VouchedKept
<1>12. Reached'
  <2>1. wheels \in Int /\ truth \in Int /\ residue \in Nat /\ Goal \in Int
        BY <1>2, EpisodeAssumption DEF Kinds
  <2>2. truth' = truth /\ residue' = residue /\ frame' = frame /\ wheels' = wheels + m
        BY <1>1, <1>3 DEF PoseKept
  <2>3. wheels - truth >= Goal - residue => (wheels + m) - truth >= Goal - residue
        BY <1>4, <2>1
  <2> QED BY <1>1, <1>2, <1>5, <2>2, <2>3 DEF Reached
<1> QED BY <1>7, <1>8, <1>9, <1>10, <1>11, <1>12 DEF PoseInv

(* A session that begins takes up what its encoders still show.            *)
LEMMA BeginsKeepPose ==
    ASSUME PoseInv, phase = "describe", reply.kind = "ok", ~Busy, frame \notin Motions,
           reply.at = wheels, memory = disk,
           HostStep, UNCHANGED <<link, boot, frame, ending>>, reply' = NoReply,
           Settled(disk, wheels),
           memory' = disk', disk' = Anchored(disk, wheels),
           phase' \in {"loop", "turn"}, plan'.turned = 0,
           origin' = IF origin = NoOrigin THEN disk.pose ELSE origin,
           truth' = IF origin = NoOrigin THEN wheels ELSE truth,
           IF disk.anchor = NoAnchor
           THEN zero' = wheels /\ residue' = 0
           ELSE residue' = residue + Accepted(disk, wheels) /\ UNCHANGED zero
    PROVE  PoseInv'
<1>1. /\ Kinds /\ Motion /\ Progress /\ Vouched
      /\ disk \in Memories /\ ending # "goal_completed"
      BY HostHere DEF PoseInv
<1>2. /\ wheels \in Int /\ truth \in Int /\ zero \in Int /\ residue \in Nat
      /\ disk.pose \in Int /\ wheels # NoAnchor
      /\ job = "none" /\ travel = 0 /\ done = 0
      BY <1>1, MemoryAssumption DEF Kinds, Motion
<1>3. /\ disk'.pose = disk.pose /\ disk'.anchor = wheels /\ disk'.valid = disk.valid
      BY <1>1, <1>2, Anchors
<1>4. /\ disk.anchor = NoAnchor => origin = NoOrigin /\ disk.pose = 0
      /\ disk.anchor # NoAnchor => disk.anchor \in Int
      BY <1>1 DEF Progress, Memories
<1>5. disk.anchor # NoAnchor =>
         /\ Accepted(disk, wheels) = Distance(disk.anchor, wheels)
         /\ Accepted(disk, wheels) \in Nat
      BY <1>2, <1>4 DEF Accepted, Settled, Distance
<1>6. /\ Going' /\ ~Asked' /\ ~Busy' /\ ~Arrived' /\ phase' \notin Asking
      /\ phase' \notin {"off", "start", "describe", "cleanup", "shutdown", "reanchor"}
      /\ reply'.kind = "none"
      BY <1>1 DEF Going, Deciding, Asked, Asking, Cancellable, Scanning, Busy, HostStep,
                  Arrived, NoReply
<1>7. origin' \in Int /\ truth' \in Int /\ zero' \in Int /\ residue' \in Nat
  <2>1. origin' \in Int /\ truth' \in Int
        BY <1>1, <1>2 DEF Kinds
  <2>2. zero' \in Int /\ residue' \in Nat
        BY <1>2, <1>5
  <2> QED BY <2>1, <2>2
<1>8. Kinds'
      BY <1>7, HostKinds, <1>1
<1>9. Motion'
      BY <1>1, <1>2, <1>6 DEF Motion, HostStep
<1>10. Progress'
       BY <1>1, <1>2, <1>3, <1>6, <1>7 DEF Progress
<1>11. Owed'
       BY <1>3, <1>6 DEF Owed, HostStep
<1>12. Vouched'
  <2>1. SUFFICES ASSUME disk.valid PROVE Close(Offset)'
        BY <1>3 DEF Vouched
  <2>2. Offset' = wheels - zero' - disk.pose
        BY <1>3 DEF Offset
  <2>3. CASE disk.anchor = NoAnchor
    <3>1. Offset' = 0
          BY <1>2, <1>4, <2>2, <2>3
    <3>2. Start' = 0 /\ residue' = 0
          BY <1>2, <1>4, <2>3, EpisodeAssumption DEF Start
    <3> QED BY <3>1, <3>2 DEF Close, Distance
  <2>4. CASE disk.anchor # NoAnchor
    <3>1. disk.anchor \in Int /\ zero' = zero
          /\ residue' = residue + Distance(disk.anchor, wheels)
          BY <1>4, <1>5, <2>4
    <3>2. Close(Offset) /\ Start \in Int
          BY <1>1, <2>1, <2>4, Starts DEF Vouched
    <3>3. PICK c \in Int : c = Offset
          BY <1>2, <3>1 DEF Offset
    <3>4. PICK d \in Int : d = wheels - zero - disk.pose
          BY <1>2
    <3>5. Offset' = d /\ d = c + (wheels - disk.anchor)
          BY <1>2, <2>2, <3>1, <3>3, <3>4 DEF Offset
    <3>6. Distance(c, Start) + Distance(Start, 0) <= residue
          BY <3>2, <3>3 DEF Close
    <3>7. CASE origin = NoOrigin
      <4>1. Start = 0
            BY <3>7 DEF Start
      <4>2. Start' = d
            BY <1>2, <1>7, <3>1, <3>4, <3>7, EpisodeAssumption DEF Start
      <4>3. /\ Distance(c, 0) <= residue /\ residue \in Nat
            /\ residue' = residue + Distance(disk.anchor, wheels)
            BY <1>2, <3>1, <3>6, <4>1 DEF Distance
      <4>4. Distance(d, 0) <= Distance(c, 0) + Distance(disk.anchor, wheels)
            BY <1>2, <3>1, <3>5 DEF Distance
      <4>5. Distance(d, d) + Distance(d, 0) <= residue'
            BY <1>2, <3>1, <4>3, <4>4 DEF Distance
      <4> QED BY <3>5, <4>2, <4>5 DEF Close, Distance
    <3>8. CASE origin # NoOrigin
      <4>1. Start' = Start
            BY <3>1, <3>8 DEF Start
      <4>2. Distance(d, Start) + Distance(Start, 0) <= residue'
            BY <1>2, <3>1, <3>2, <3>5, <3>6 DEF Distance
      <4> QED BY <3>5, <4>1, <4>2 DEF Close, Distance
    <3> QED BY <3>7, <3>8
  <2> QED BY <2>3, <2>4
<1>13. Reached'
       BY <1>6 DEF Reached
<1> QED BY <1>8, <1>9, <1>10, <1>11, <1>12, <1>13 DEF PoseInv

LEMMA DescribedKeepsPose == SessionInv /\ PoseInv /\ Described => PoseInv'
<1> SUFFICES ASSUME SessionInv, PoseInv, Described PROVE PoseInv' OBVIOUS
<1>1. /\ phase = "describe" /\ reply.kind = "ok" /\ reply' = NoReply /\ frame' = frame
      /\ UNCHANGED <<worker, job, done, travel, wheels, link, boot, outcome>>
      BY DEF Described, Heard, NoRequest, workerSide, process, motion
<1>2. /\ Kinds /\ Motion /\ memory = disk /\ disk \in Memories
      /\ {"turned", "latched"} \subseteq DOMAIN plan /\ plan.turned = 0
      /\ ending # "goal_completed"
      BY <1>1, HostHere DEF PoseInv, Restoring
<1>3. /\ ~Busy /\ frame \notin Motions /\ reply.at = wheels /\ wheels \in Int
      /\ wheels # NoAnchor
      BY <1>1, <1>2, AskingPhases, Motioned, MemoryAssumption DEF Motion, Kinds
<1>4. ASSUME memory' \in Memories, disk' \in Memories,
             disk' = disk \/ (~disk'.valid /\ disk'.anchor # NoAnchor),
             phase' = "cleanup", plan' = NoPlan, ending' \in {"cancelled", "fault"},
             UNCHANGED <<zero, origin, truth, residue>>
      PROVE  PoseInv'
  <2>1. HostStep /\ plan'.turned = 0
        BY <1>1, <1>4, HostHere DEF HostStep
  <2>2. ~Arrived'
        BY <1>4 DEF Arrived
  <2> QED BY <1>1, <1>4, <2>1, <2>2, LeavesKeepPose
<1>5. CASE Stopped
      BY <1>2, <1>4, <1>5 DEF Described, Leave, memoryVars
<1>6. CASE ~Stopped
  <2>1. PICK saved \in BOOLEAN :
           /\ Save(BeginEpisode(disk, wheels), saved)
           /\ IF Settled(disk, wheels) /\ saved
              THEN /\ Loops(IF origin = NoOrigin THEN "loop" ELSE "turn")
                   /\ plan' = [plan EXCEPT !.latched = reply.fault]
                   /\ origin' = IF origin = NoOrigin THEN disk.pose ELSE origin
                   /\ truth' = IF origin = NoOrigin THEN wheels ELSE truth
                   /\ IF disk.anchor = NoAnchor
                      THEN zero' = wheels /\ residue' = 0
                      ELSE residue' = residue + Accepted(disk, wheels) /\ UNCHANGED zero
              ELSE Leave("fault") /\ UNCHANGED <<zero, origin, truth, residue>>
        BY <1>2, <1>3, <1>6 DEF Described, Saves
  <2>2. Anchored(disk, wheels) \in Memories /\ Invalid(disk) \in Memories
        /\ ~Invalid(disk).valid /\ Invalid(disk).anchor = disk.anchor
        BY <1>2, <1>3, Anchors, Distrusts
  <2>3. CASE Settled(disk, wheels) /\ saved
    <3>1. memory' = Anchored(disk, wheels) /\ disk' = Anchored(disk, wheels)
          BY <2>1, <2>3 DEF Save, BeginEpisode
    <3>2. {"turned", "latched"} \subseteq DOMAIN plan' /\ plan'.turned = 0
          BY <1>2, <2>1, <2>3
    <3>3. HostStep
          BY <1>1, <2>2, <3>1, <3>2 DEF HostStep
    <3>4. phase' \in {"loop", "turn"} /\ ending' = ending
          BY <2>1, <2>3 DEF Loops
    <3> QED BY <1>1, <1>2, <1>3, <2>1, <2>3, <3>1, <3>2, <3>3, <3>4, BeginsKeepPose
  <2>4. CASE ~(Settled(disk, wheels) /\ saved)
    <3>1. CASE Settled(disk, wheels)
          BY <1>2, <1>4, <2>1, <2>2, <2>4, <3>1 DEF Save, BeginEpisode, Leave
    <3>2. CASE ~Settled(disk, wheels)
      <4>1. disk.anchor # NoAnchor
            BY <3>2 DEF Settled
      <4> QED BY <1>2, <1>4, <2>1, <2>2, <2>4, <3>2, <4>1 DEF Save, BeginEpisode, Leave
    <3> QED BY <3>1, <3>2
  <2> QED BY <2>3, <2>4
<1> QED BY <1>5, <1>6

-----------------------------------------------------------------------------
LEMMA PoseInit == Init => PoseInv
<1> SUFFICES ASSUME Init PROVE PoseInv OBVIOUS
<1>1. /\ phase = "off" /\ worker = "none" /\ frame = "none" /\ job = "none"
      /\ reply.kind = "none" /\ plan = NoPlan /\ ending = "none" /\ outcome = "none"
      /\ memory = Fresh /\ disk = Fresh /\ origin = NoOrigin
      /\ done = 0 /\ travel = 0 /\ wheels = 0 /\ zero = 0 /\ truth = 0 /\ residue = 0
      /\ link # "open" /\ boot.link # "open"
      BY DEF Init, NoReply, NoBoot
<1>2. ~Busy /\ ~Going /\ ~Asked /\ ~Arrived /\ phase \notin Asking /\ frame \notin Motions
      BY <1>1, Motioned DEF Busy, Going, Deciding, Asked, Asking, Cancellable, Scanning,
                            Arrived
<1>3. Kinds
      BY <1>1 DEF Kinds, Fresh, NoPlan
<1>4. Motion
      BY <1>1, <1>2 DEF Motion
<1>5. Progress
      BY <1>1, <1>2 DEF Progress, NoPlan, Fresh
<1>6. Owed /\ Vouched
      BY <1>1, <1>2 DEF Owed, Vouched, Fresh
<1>7. Reached
      BY <1>2 DEF Reached
<1> QED BY <1>3, <1>4, <1>5, <1>6, <1>7 DEF PoseInv

LEMMA PoseStep ==
    ASSUME PushPhases \subseteq {"off"}
    PROVE  SessionInv /\ PoseInv /\ [Next]_vars => PoseInv'
<1> SUFFICES ASSUME SessionInv, PoseInv, [Next]_vars PROVE PoseInv' OBVIOUS
<1>1. CASE HostGoesOn
  <2>1. CASE OpensWorker \/ OpenFails \/ BeginsShutdown
        BY <2>1, OpensKeepPose
  <2>2. CASE Described
        BY <2>2, DescribedKeepsPose
  <2>3. CASE EndsLoop \/ BeginsTurn \/ ChoosesDriver \/ PlannerEnds \/ PlannerDefers
               \/ RenewalCancelled
        BY <2>3, LoopKeepsPose
  <2>4. CASE PlannerDecides \/ GoesOn
        BY <2>4, DecidesKeepsPose
  <2>5. CASE PulseReturns
        BY <2>5, PulseKeepsPose
  <2>6. CASE ObserveReturns
        BY <2>6, ObserveKeepsPose
  <2>7. CASE ScanTurns \/ ScanReads \/ ScanRestores \/ ScanReturns
        BY <2>7, ScanKeepsPose
  <2>8. CASE ScanFails \/ RequestFails
        BY <2>8, BreaksKeepPose
  <2>9. CASE Reanchored
        BY <2>9, ReanchorKeepsPose
  <2>10. CASE NothingToClose \/ ShutdownReturns \/ ShutdownFails
         BY <2>10, ClosesKeepPose
  <2> QED BY <1>1, <2>1, <2>2, <2>3, <2>4, <2>5, <2>6, <2>7, <2>8, <2>9, <2>10
          DEF HostGoesOn
<1>2. CASE StartEpisode
      BY <1>2, StartKeepsPose
<1>3. CASE RequestStop \/ EmergencyStop \/ UNCHANGED vars
      BY <1>3, StopsKeepPose
<1>4. CASE HostCrashes
      BY <1>4, ClosesKeepPose
<1>5. CASE Pushed
      BY <1>5, PushKeepsPose
<1>6. CASE WorkerStep /\ UNCHANGED hostVars
      BY <1>6, WorkerKeepsPose
<1> QED BY <1>1, <1>2, <1>3, <1>4, <1>5, <1>6 DEF Next

(* PoseIsTrue: if the robot is only ever pushed between episodes, then      *)
(* wherever an episode decides what to do next a pose its memory calls      *)
(* valid is where the robot is, up to the settling that begin_episode       *)
(* accepted and the remainders of the scans that                           *)
(* ingest_verified_scan_completion re-anchored - through crashes before a   *)
(* save, failed saves, lost answers, interrupted scans and new memories.    *)
THEOREM PosesAreTrue ==
    ASSUME PushPhases \subseteq {"off"} PROVE Spec => []PoseIsTrue
<1>1. Init => PoseInv
      BY PoseInit
<1>2. SessionInv /\ PoseInv /\ [Next]_vars => PoseInv'
      BY PoseStep
<1>3. SessionInv /\ PoseInv => PoseIsTrue
  <2> SUFFICES ASSUME SessionInv, PoseInv, Deciding, memory.valid
               PROVE  Distance(wheels - zero, memory.pose) <= residue
      BY DEF PoseIsTrue, Deciding
  <2>1. Knows /\ Going /\ Short = 0
        BY DEF Going, Knows, Short
  <2>2. /\ memory = disk /\ disk.pose \in Int /\ zero \in Int /\ residue \in Nat
        /\ wheels \in Int /\ wheels = disk.anchor /\ disk.anchor # NoAnchor
        /\ Vouched /\ Start \in Int
        BY <2>1, AtRestHere, LoopRests, Starts, MemoryAssumption DEF PoseInv, Kinds
  <2>3. Close(Offset) /\ Offset = wheels - zero - disk.pose
        BY <2>2 DEF Vouched, Offset
  <2> QED BY <2>2, <2>3 DEF Close, Distance
<1> QED BY <1>1, <1>2, <1>3, SessionHolds, PTL DEF Spec

(* GoalWasReached: an episode that reports goal_completed (run()'s check of *)
(* the minimum forward progress) really went that far, up to the settling  *)
(* and the remainders of scans, and nothing has moved the robot back since. *)
THEOREM GoalsAreReached ==
    ASSUME PushPhases \subseteq {"off"} PROVE Spec => []GoalWasReached
<1>1. Init => PoseInv
      BY PoseInit
<1>2. SessionInv /\ PoseInv /\ [Next]_vars => PoseInv'
      BY PoseStep
<1>3. PoseInv => GoalWasReached
      BY DEF PoseInv, Reached, Arrived, GoalWasReached
<1> QED BY <1>1, <1>2, <1>3, SessionHolds, PTL DEF Spec

=============================================================================
