----------------------- MODULE ConcurrentRuntimeProofs -----------------------
(***************************************************************************)
(* The pause handshake between navigation and arm, the order of what is    *)
(* spoken and the limits of queues and budgets, for any objects,           *)
(* capacities and budgets.                                                 *)
(*                                                                         *)
(* Handshake is the inductive form of the exclusion: where navigation may  *)
(* be for each step of the arm, as long as the arm has not begun a pause   *)
(* too early (late).                                                       *)
(***************************************************************************)
EXTENDS ConcurrentRuntime, TLAPS

-----------------------------------------------------------------------------
(* The handshake                                                           *)

\* Navigation waits for the end of a pause or has left its loop for good.
Aside == {"enter", "wait", "timeout", "close", "join", "returned"}

\* From its request to its withdrawal the arm's thread owns the pause.
Owning == {"await", "blocked", "woken", "segment", "moving", "release",
           "withdraw"}

Pause ==
    \* a pause begins only where navigation is not on its way into one, and
    \* then its answer is not there yet
    /\ nav \in {"ack", "enter"} => /\ arm \notin {"clearRelease", "request"}
                                   /\ arm \in Owning \/ released
    /\ arm \in {"clearRelease", "request"} => ~acked \/ cancelled
    \* navigation waits for this pause, and has told the arm so
    /\ nav = "wait" => arm \in Owning \ {"withdraw"}
    /\ nav \in {"enter", "wait"} => arm # "blocked" /\ (arm = "await" => acked)
    \* what the arm takes for an acknowledgement is one
    /\ arm = "woken" \/ (arm = "await" /\ acked) => cancelled \/ nav \in Aside
    /\ arm \in {"segment", "moving"} =>
          nav \in Aside \/ (cancelled /\ nav = "refresh")
    \* and nobody but cancel() ends the pause before the arm does
    /\ arm \in Owning \cup {"request"} =>
          ~released \/ cancelled \/ arm = "withdraw"

Handshake ==
    /\ closing \in [Closers -> Int]
    /\ \A c \in Closers : closing[c] = 1 => cancelled
    /\ requested => arm \in Owning
    /\ arm = "withdraw" => released
    /\ ~late => Pause /\ GestureFacesItsObstruction

LEMMA HandshakeInit == Init => Handshake
  BY DEF Init, Handshake, Pause, GestureFacesItsObstruction, Aside, Owning, Closers

\* The planner's and the speech thread have no part in it.
LEMMA OthersKeepHandshake ==
    ASSUME Handshake, PlannerStep \/ PlannerReturns \/ SpeechGet \/ SpeakerReturns
    PROVE  Handshake'
<1>1. UNCHANGED <<world, events, nav, armVars, closing, late>>
  BY DEF PlannerStep, PlannerGet, PlannerReturns, PlannerJudges, OfferSpeech,
     OfferGesture, SpeechGet, SpeakerReturns, armVars, world, events
<1>2. QED
  BY <1>1 DEF Handshake, Pause, GestureFacesItsObstruction, Aside, Owning, world,
     events, armVars

LEMMA NavigationKeepsHandshake ==
    ASSUME Handshake,
           \/ Observe \/ Hook \/ Acknowledge \/ EnterWait \/ Timeout \/ Decide
           \/ PulseEnds \/ Closed \/ Join
    PROVE  Handshake'
<1> USE DEF Handshake, Pause, GestureFacesItsObstruction, Aside, Owning
<1>1. CASE Observe
  BY <1>1 DEF Observe, events, armVars
<1>2. CASE Hook
  BY <1>2 DEF Hook, EndEpisode, Moves, events, armVars, world, Closers
<1>3. CASE Acknowledge
  BY <1>3 DEF Acknowledge, Acknowledged, world
<1>4. CASE EnterWait
  BY <1>4 DEF EnterWait, Moves, events, armVars, world
<1>5. CASE Timeout
  BY <1>5 DEF Timeout, Moves, events, armVars, world
<1>6. CASE Decide
  BY <1>6 DEF Decide, EndEpisode, Moves, events, armVars, world, Closers
<1>7. CASE PulseEnds
  BY <1>7 DEF PulseEnds, Moves, events, armVars, world
<1>8. CASE Closed
  BY <1>8 DEF Closed, EndEpisode, Moves, events, armVars, world, Closers
<1>9. CASE Join
  BY <1>9 DEF Join, Moves, events, armVars, world
<1>10. QED
  BY <1>1, <1>2, <1>3, <1>4, <1>5, <1>6, <1>7, <1>8, <1>9

LEMMA ClosingKeepsHandshake ==
    ASSUME Handshake, NEW c \in Closers, Closes(c)
    PROVE  Handshake'
<1> USE DEF Handshake, Pause, GestureFacesItsObstruction, Aside, Owning
<1>1. CASE Signal(c)
  BY <1>1 DEF Signal, Signals, Wake, Acknowledged, Freed, world
<1>2. CASE CloseQueue(c)
  BY <1>2 DEF CloseQueue, OfferStop, events, armVars, world
<1>3. QED
  BY <1>1, <1>2 DEF Closes

LEMMA ArmKeepsHandshake ==
    ASSUME Handshake, ArmStep \/ ExecutorReturns
    PROVE  Handshake'
<1> USE DEF Handshake, Pause, GestureFacesItsObstruction, Aside, Owning
<1>1. CASE ArmGet
  BY <1>1 DEF ArmGet, events, world
<1>2. CASE RequestPause
  <2>1. CASE arm = "clearAck"
    <3>1. /\ arm' = "clearRelease" /\ ~acked'
          /\ ~late' => ~late /\ nav \notin {"ack", "enter"}
          /\ UNCHANGED <<released, requested, cancelled, nav, closing>>
      BY <1>2, <2>1 DEF RequestPause
    <3>2. QED
      BY <2>1, <3>1
  <2>2. CASE arm \in {"clearRelease", "request"}
    BY <1>2, <2>2 DEF RequestPause, world
  <2>3. QED
    BY <1>2, <2>1, <2>2 DEF RequestPause
<1>3. CASE AwaitPause
  BY <1>3 DEF AwaitPause, ArmMoves, events, world
<1>4. CASE StartGesture
  BY <1>4 DEF StartGesture, ArmIsCurrent, ArmMoves, events, world
<1>5. CASE NextSegment
  BY <1>5 DEF NextSegment, ArmMoves, events, world
<1>6. CASE ExecutorReturns
  BY <1>6 DEF ExecutorReturns, ArmMoves, events, world
<1>7. CASE ReleasePause
  BY <1>7 DEF ReleasePause, Freed, world
<1>8. QED
  BY <1>1, <1>2, <1>3, <1>4, <1>5, <1>6, <1>7 DEF ArmStep

THEOREM HandshakeInvariance == Spec => []Handshake
<1>1. Handshake /\ [Next]_vars => Handshake'
  <2>1. ASSUME Handshake, Next PROVE Handshake'
    BY <2>1, OthersKeepHandshake, NavigationKeepsHandshake, ClosingKeepsHandshake,
       ArmKeepsHandshake DEF Next, NavigationStep, Closers
  <2>2. ASSUME Handshake, UNCHANGED vars PROVE Handshake'
    BY <2>2 DEF Handshake, Pause, GestureFacesItsObstruction, vars, world, events,
       armVars
  <2>3. QED
    BY <2>1, <2>2
<1>2. QED
  BY <1>1, HandshakeInit, PTL DEF Spec

\* _before_arbitration and _arm_worker: but for a pause begun too early, wheels
\* and arm never move together and the two threads never wait for each other.
THEOREM PausesExclude == Spec => []PauseGateHolds
<1>1. Handshake => PauseGateHolds
  BY DEF Handshake, Pause, PauseGateHolds, Aside
<1>2. QED
  BY <1>1, HandshakeInvariance, PTL

\* _arm_worker: with the same exception a gesture faces what it reacts to.
THEOREM GesturesFaceObstructions == Spec => []GestureFacesItsObstruction
<1>1. Handshake => GestureFacesItsObstruction
  BY DEF Handshake, GestureFacesItsObstruction
<1>2. QED
  BY <1>1, HandshakeInvariance, PTL

-----------------------------------------------------------------------------
(* The order of speech                                                     *)

RealJobs == [epoch : Nat, version : Nat, talk : Nat, repetitions : Nat]
Elements == RealJobs \cup {STOP}

\* The obstruction epochs that wait in a queue, and those spoken about.
Epochs(s) == {s[i].epoch : i \in 1..Len(s)} \cap Nat
Said == {spoken[i] : i \in 1..Len(spoken)}

Rises(s) ==
    \A i, j \in 1..Len(s) :
        i < j /\ s[i].epoch \in Nat /\ s[j].epoch \in Nat => s[i].epoch < s[j].epoch

\* The planner's thread holds a job that was not yet offered to the speaker; it
\* holds one at all.
Owed == {"calling", "judge", "offerSpeech"}
Busy == Owed \cup {"offerArm"}

Types ==
    /\ queue \in [Queues -> Seq(Elements)]
    /\ {current.version, current.epoch, current.talk} \subseteq Nat
    /\ spoken \in Seq(Nat)
    /\ planner \in Busy => plannerJob \in RealJobs

\* What is spoken about was met before what waits to be spoken about, that
\* before what the planner works on, that before what waits for the planner.
Order ==
    /\ SpokenOnceInOrder
    /\ Rises(queue["speech"]) /\ Rises(queue["planner"])
    /\ \A x \in Said : \A y \in Epochs(queue["speech"]) : x < y
    /\ \A x \in Said \cup Epochs(queue["speech"]) :
          /\ x <= current.epoch
          /\ \A y \in Epochs(queue["planner"]) : x < y
          /\ planner \in Owed => x < plannerJob.epoch
    /\ \A y \in Epochs(queue["planner"]) :
          /\ y <= current.epoch
          /\ planner \in Owed => plannerJob.epoch < y
    /\ planner \in Owed => plannerJob.epoch <= current.epoch

SpeechInv == Types /\ Order

LEMMA StopIsNoJob == STOP.epoch \notin Nat /\ STOP \in Elements
  BY DEF STOP, NoJob, Elements

LEMMA InEpochs ==
    ASSUME NEW s \in Seq(Elements), NEW x
    PROVE  x \in Epochs(s) <=> x \in Nat /\ \E i \in 1..Len(s) : s[i].epoch = x
  BY DEF Epochs

LEMMA AppendJob ==
    ASSUME NEW s \in Seq(Elements), NEW job \in Elements
    PROVE  LET t == Append(s, job)
           IN  /\ t \in Seq(Elements)
               /\ Epochs(t) = Epochs(s) \cup ({job.epoch} \cap Nat)
               /\ Rises(s) /\ (\A x \in Epochs(s) : job.epoch \in Nat => x < job.epoch)
                     => Rises(t)
<1> DEFINE t == Append(s, job)
<1>1. t \in Seq(Elements) /\ Len(t) = Len(s) + 1 /\ Len(s) \in Nat
  OBVIOUS
<1>2. (\A i \in 1..Len(s) : t[i] = s[i]) /\ t[Len(s) + 1] = job
  OBVIOUS
<1> HIDE DEF t
<1>3. ASSUME NEW x
      PROVE  x \in Epochs(t) <=> x \in Epochs(s) \cup ({job.epoch} \cap Nat)
  <2>1. x \in Epochs(s) <=> x \in Nat /\ \E i \in 1..Len(s) : s[i].epoch = x
    BY InEpochs
  <2>2. x \in Epochs(t) <=> x \in Nat /\ \E i \in 1..Len(t) : t[i].epoch = x
    BY <1>1, InEpochs
  <2>3. QED
    BY <1>1, <1>2, <2>1, <2>2
<1>4. ASSUME Rises(s), \A x \in Epochs(s) : job.epoch \in Nat => x < job.epoch,
             NEW i \in 1..Len(t), NEW j \in 1..Len(t), i < j,
             t[i].epoch \in Nat, t[j].epoch \in Nat
      PROVE  t[i].epoch < t[j].epoch
  <2>1. CASE j = Len(s) + 1
    <3>1. i \in 1..Len(s) /\ t[i] = s[i] /\ t[j] = job
      BY <1>1, <1>2, <1>4, <2>1
    <3>2. QED
      BY <3>1, <1>4, InEpochs
  <2>2. CASE j # Len(s) + 1
    BY <1>1, <1>2, <1>4, <2>2 DEF Rises
  <2>3. QED
    BY <2>1, <2>2
<1>5. QED
  BY <1>1, <1>3, <1>4 DEF Rises, t

LEMMA TailJob ==
    ASSUME NEW s \in Seq(Elements), s # <<>>
    PROVE  /\ Tail(s) \in Seq(Elements) /\ Head(s) \in Elements
           /\ Epochs(Tail(s)) \subseteq Epochs(s)
           /\ Head(s) # STOP => Head(s) \in RealJobs /\ Head(s).epoch \in Epochs(s)
           /\ Rises(s) => Rises(Tail(s))
           /\ Rises(s) /\ Head(s) # STOP
                 => \A y \in Epochs(Tail(s)) : Head(s).epoch < y
<1> DEFINE t == Tail(s)
<1>1. /\ t \in Seq(Elements) /\ Len(t) = Len(s) - 1
      /\ Len(s) \in Nat \ {0} /\ Head(s) = s[1] /\ Head(s) \in Elements
      /\ \A i \in 1..Len(t) : t[i] = s[i + 1] /\ i + 1 \in 1..Len(s)
  OBVIOUS
<1> HIDE DEF t
<1>2. Epochs(t) \subseteq Epochs(s)
  BY <1>1, InEpochs
<1>3. Head(s) # STOP => Head(s) \in RealJobs /\ Head(s).epoch \in Epochs(s)
  <2>1. Head(s) # STOP => Head(s) \in RealJobs /\ s[1].epoch \in Nat /\ 1 \in 1..Len(s)
    BY <1>1 DEF Elements, RealJobs
  <2>2. QED
    BY <1>1, <2>1, InEpochs
<1>4. ASSUME Rises(s), NEW i \in 1..Len(t), NEW j \in 1..Len(t), i < j,
             t[i].epoch \in Nat, t[j].epoch \in Nat
      PROVE  t[i].epoch < t[j].epoch
  <2>1. /\ t[i] = s[i + 1] /\ i + 1 \in 1..Len(s)
        /\ t[j] = s[j + 1] /\ j + 1 \in 1..Len(s) /\ i + 1 < j + 1
    BY <1>1, <1>4
  <2>2. QED
    BY <1>4, <2>1 DEF Rises
<1>5. ASSUME Rises(s), Head(s) # STOP, NEW y \in Epochs(t)
      PROVE  Head(s).epoch < y
  <2>1. PICK i \in 1..Len(t) : t[i].epoch = y /\ y \in Nat
    BY <1>1, InEpochs
  <2>2. s[i + 1].epoch = y /\ i + 1 \in 1..Len(s) /\ 1 < i + 1 /\ 1 \in 1..Len(s)
    BY <1>1, <2>1
  <2>3. s[1].epoch \in Nat
    BY <1>1, <1>3, <1>5 DEF RealJobs
  <2>4. QED
    BY <1>1, <1>5, <2>1, <2>2, <2>3 DEF Rises
<1>6. Rises(s) => Rises(t)
  BY <1>4 DEF Rises
<1>7. QED
  BY <1>1, <1>2, <1>3, <1>5, <1>6 DEF t

\* Nothing goes wrong where queues lose elements or get a STOP.
LEMMA ShrinkKeepsOrder ==
    ASSUME SpeechInv,
           queue' \in [Queues -> Seq(Elements)],
           \A q \in {"planner", "speech"} :
              Epochs(queue'[q]) \subseteq Epochs(queue[q]) /\ Rises(queue'[q]),
           current' = current, spoken' = spoken,
           planner' \in Owed => planner \in Owed /\ plannerJob'.epoch = plannerJob.epoch,
           planner' \in Busy => plannerJob' \in RealJobs
    PROVE  SpeechInv'
<1>1. Types'
  BY DEF SpeechInv, Types
<1>2. Said' = Said /\ SpokenOnceInOrder'
  BY DEF Said, SpeechInv, Order, SpokenOnceInOrder
<1>3. /\ Epochs(queue["planner"])' \subseteq Epochs(queue["planner"])
      /\ Epochs(queue["speech"])' \subseteq Epochs(queue["speech"])
      /\ Rises(queue["planner"])' /\ Rises(queue["speech"])'
  BY DEF Epochs, Rises
<1>4. Order'
  BY <1>2, <1>3 DEF SpeechInv, Order
<1>5. QED
  BY <1>1, <1>4 DEF SpeechInv

LEMMA UnchangedKeepsOrder ==
    ASSUME SpeechInv, UNCHANGED <<queue, current, spoken, planner, plannerJob>>
    PROVE  SpeechInv'
  BY ShrinkKeepsOrder DEF SpeechInv, Types, Order

LEMMA SamePlanner ==
    ASSUME SpeechInv, planner' = planner, plannerJob' = plannerJob
    PROVE  /\ planner' \in Owed => planner \in Owed /\ plannerJob'.epoch = plannerJob.epoch
           /\ planner' \in Busy => plannerJob' \in RealJobs
  BY DEF SpeechInv, Types

\* Taking an element from a queue, and offering it a STOP
LEMMA TakeKeepsOrder ==
    ASSUME SpeechInv, NEW q \in Queues, queue[q] # <<>>,
           queue' = [queue EXCEPT ![q] = Tail(@)]
    PROVE  /\ queue' \in [Queues -> Seq(Elements)]
           /\ \A p \in {"planner", "speech"} :
                 Epochs(queue'[p]) \subseteq Epochs(queue[p]) /\ Rises(queue'[p])
<1>1. queue \in [Queues -> Seq(Elements)] /\ queue[q] \in Seq(Elements)
  BY DEF SpeechInv, Types
<1>2. /\ Tail(queue[q]) \in Seq(Elements)
      /\ Epochs(Tail(queue[q])) \subseteq Epochs(queue[q])
      /\ Rises(queue[q]) => Rises(Tail(queue[q]))
  BY <1>1, TailJob
<1>3. \A p \in Queues : queue'[p] = IF p = q THEN Tail(queue[q]) ELSE queue[p]
  BY <1>1
<1>4. queue' \in [Queues -> Seq(Elements)]
  BY <1>1, <1>2
<1>5. QED
  BY <1>2, <1>3, <1>4 DEF SpeechInv, Order, Queues

LEMMA StopKeepsOrder ==
    ASSUME SpeechInv, NEW q \in Queues, queue' = Offered(q, STOP)
    PROVE  /\ queue' \in [Queues -> Seq(Elements)]
           /\ \A p \in {"planner", "speech"} :
                 Epochs(queue'[p]) \subseteq Epochs(queue[p]) /\ Rises(queue'[p])
<1>1. queue \in [Queues -> Seq(Elements)] /\ queue[q] \in Seq(Elements)
  BY DEF SpeechInv, Types
<1>2. /\ Append(queue[q], STOP) \in Seq(Elements)
      /\ Epochs(Append(queue[q], STOP)) = Epochs(queue[q])
      /\ Rises(queue[q]) => Rises(Append(queue[q], STOP))
  <2>1. {STOP.epoch} \cap Nat = {} /\ STOP.epoch \notin Nat
    BY StopIsNoJob
  <2> DEFINE s == queue[q]
  <2>2. s \in Seq(Elements)
    BY <1>1
  <2> HIDE DEF s
  <2>3. /\ Append(s, STOP) \in Seq(Elements)
        /\ Epochs(Append(s, STOP)) = Epochs(s) \cup ({STOP.epoch} \cap Nat)
        /\ Rises(s) => Rises(Append(s, STOP))
    BY <2>1, <2>2, AppendJob, StopIsNoJob
  <2>4. QED
    BY <2>1, <2>3 DEF s
<1>3. queue' = queue \/ queue' = [queue EXCEPT ![q] = Append(@, STOP)]
  BY DEF Offered
<1>4. queue' \in [Queues -> Seq(Elements)]
  BY <1>1, <1>2, <1>3
<1>5. \A p \in Queues :
         queue'[p] = queue[p] \/ (p = q /\ queue'[p] = Append(queue[q], STOP))
  BY <1>1, <1>3
<1>6. QED
  BY <1>2, <1>4, <1>5 DEF SpeechInv, Order, Queues

LEMMA ClosingKeepsOrder ==
    ASSUME SpeechInv, NEW c \in Closers, Closes(c)
    PROVE  SpeechInv'
<1>1. CASE Signal(c)
  BY <1>1, UnchangedKeepsOrder DEF Signal, world, plannerVars, speechVars
<1>2. CASE CloseQueue(c)
  <2> DEFINE q == Target(closing[c])
  <2>1. q \in Queues
    BY DEF Target, Queues
  <2>2. /\ current' = current /\ spoken' = spoken /\ planner' = planner
        /\ plannerJob' = plannerJob
    BY <1>2 DEF CloseQueue, world, plannerVars, speechVars
  <2>3. queue' = Offered(q, STOP) \/ (queue[q] # <<>> /\ queue' = [queue EXCEPT ![q] = Tail(@)])
    BY <1>2, RuntimeAssumption DEF CloseQueue, OfferStop
  <2>4. QED
    BY <2>1, <2>2, <2>3, StopKeepsOrder, TakeKeepsOrder, SamePlanner, ShrinkKeepsOrder
<1>3. QED
  BY <1>1, <1>2 DEF Closes

LEMMA ObserveKeepsOrder ==
    ASSUME SpeechInv, Observe
    PROVE  SpeechInv'
<1>1. PICK object \in Obstruction, newWorld \in BOOLEAN :
         /\ current' = Reduced(object, newWorld)
         /\ \/ /\ Requests(Reduced(object, newWorld))
               /\ Submit(Reduced(object, newWorld))
            \/ queue' = queue
  BY DEF Observe
<1> DEFINE seen == Reduced(object, newWorld)
           job == [epoch |-> seen.epoch, talk |-> seen.talk,
                   version |-> seen.version, repetitions |-> 0]
<1>2. /\ {seen.version, seen.epoch, seen.talk} \subseteq Nat
      /\ seen.epoch >= current.epoch
  BY DEF Reduced, SpeechInv, Types
<1>3. UNCHANGED <<spoken, planner, plannerJob>>
  BY DEF Observe, plannerVars, speechVars
<1>4. current' = seen
  BY <1>1
<1> HIDE DEF seen
<1>5. job \in RealJobs /\ job \in Elements
  BY <1>2 DEF RealJobs, Elements
<1>6. queue \in [Queues -> Seq(Elements)] /\ "planner" \in Queues /\ "speech" \in Queues
  BY DEF SpeechInv, Types, Queues
<1>7. Said' = Said /\ SpokenOnceInOrder'
  BY <1>3 DEF Said, SpeechInv, Order, SpokenOnceInOrder
<1>8. CASE queue' = queue
  <2>1. Types'
    BY <1>2, <1>3, <1>4, <1>8 DEF SpeechInv, Types
  <2>2. /\ Epochs(queue["planner"])' = Epochs(queue["planner"])
        /\ Epochs(queue["speech"])' = Epochs(queue["speech"])
        /\ Rises(queue["planner"])' /\ Rises(queue["speech"])'
    BY <1>8 DEF SpeechInv, Order, Epochs, Rises
  <2>3. (Said \cup Epochs(queue["speech"]) \cup Epochs(queue["planner"])) \subseteq Nat
    BY DEF Epochs, Said, SpeechInv, Types
  <2>4. current'.epoch >= current.epoch /\ {current'.epoch, current.epoch} \subseteq Nat
    BY <1>2, <1>4 DEF SpeechInv, Types
  <2>5. planner \in Owed => plannerJob.epoch \in Nat
    BY DEF SpeechInv, Types, RealJobs, Busy
  <2>6. Order'
    BY <1>3, <1>7, <2>2, <2>3, <2>4, <2>5 DEF SpeechInv, Order
  <2>7. QED
    BY <2>1, <2>6 DEF SpeechInv
<1>9. CASE seen.epoch > current.epoch /\ queue' = [queue EXCEPT !["planner"] = Append(@, job)]
  <2> HIDE DEF job
  <2>0. queue["planner"] \in Seq(Elements)
    BY <1>6
  <2>1. Types'
    <3>1. queue' \in [Queues -> Seq(Elements)]
      BY <1>5, <1>6, <1>9, <2>0, AppendJob
    <3>2. QED
      BY <3>1, <1>2, <1>3, <1>4 DEF SpeechInv, Types
  <2>2. job.epoch = seen.epoch /\ job.epoch \in Nat
    BY <1>2 DEF job
  <2>3. (Said \cup Epochs(queue["speech"]) \cup Epochs(queue["planner"])) \subseteq Nat
    BY DEF Epochs, Said, SpeechInv, Types
  <2>4. current'.epoch = job.epoch /\ job.epoch > current.epoch /\ current.epoch \in Nat
    BY <1>4, <1>9, <2>2 DEF SpeechInv, Types
  <2>5. /\ Epochs(Append(queue["planner"], job)) = Epochs(queue["planner"]) \cup {job.epoch}
        /\ Rises(Append(queue["planner"], job))
    <3>1. \A x \in Epochs(queue["planner"]) : x < job.epoch
      BY <2>3, <2>4, <2>2 DEF SpeechInv, Order
    <3>2. QED
      BY <3>1, <2>0, <2>2, <1>5, AppendJob DEF SpeechInv, Order
  <2>6. queue'["planner"] = Append(queue["planner"], job) /\ queue'["speech"] = queue["speech"]
    BY <1>6, <1>9
  <2>7. /\ Epochs(queue["planner"])' = Epochs(queue["planner"]) \cup {job.epoch}
        /\ Epochs(queue["speech"])' = Epochs(queue["speech"])
        /\ Rises(queue["planner"])' /\ Rises(queue["speech"])'
    BY <2>5, <2>6 DEF SpeechInv, Order, Epochs, Rises
  <2>8. planner \in Owed => plannerJob.epoch \in Nat
    BY DEF SpeechInv, Types, RealJobs, Busy
  <2>9. Order'
    BY <1>3, <1>7, <2>2, <2>3, <2>4, <2>7, <2>8 DEF SpeechInv, Order
  <2>10. QED
    BY <2>1, <2>9 DEF SpeechInv
<1>10. QED
  <2>1. CASE Requests(seen) /\ Submit(seen)
    BY <2>1, <1>8, <1>9 DEF Submit, Offered, Requests, job
  <2>2. QED
    BY <1>1, <1>8, <2>1 DEF seen

LEMMA PlannerGetKeepsOrder ==
    ASSUME SpeechInv, PlannerGet
    PROVE  SpeechInv'
<1> DEFINE s == queue["planner"]
           job == Head(s)
<1>1. /\ s # <<>> /\ queue' = [queue EXCEPT !["planner"] = Tail(@)]
      /\ current' = current /\ spoken' = spoken
  BY DEF PlannerGet, Take, world, speechVars
<1>2. /\ "planner" \in Queues /\ "speech" \in Queues
      /\ queue \in [Queues -> Seq(Elements)] /\ s \in Seq(Elements)
  BY DEF Queues, SpeechInv, Types
<1>3. /\ queue' \in [Queues -> Seq(Elements)]
      /\ \A q \in {"planner", "speech"} :
            Epochs(queue'[q]) \subseteq Epochs(queue[q]) /\ Rises(queue'[q])
  BY <1>1, <1>2, TakeKeepsOrder
<1>4. CASE planner' = "ended"
  BY <1>1, <1>3, <1>4, ShrinkKeepsOrder DEF Owed, Busy
<1>5. CASE planner' = "calling" /\ plannerJob' = job /\ job # STOP
  <2>1. Rises(s)
    BY DEF SpeechInv, Order
  <2> HIDE DEF s
  <2>2. /\ job \in RealJobs /\ job.epoch \in Epochs(s)
        /\ \A y \in Epochs(Tail(s)) : job.epoch < y
    BY <1>1, <1>2, <1>5, <2>1, TailJob
  <2>3. queue'["planner"] = Tail(s)
    BY <1>1, <1>2 DEF s
  <2>4. Types'
    BY <1>1, <1>3, <1>5, <2>2 DEF SpeechInv, Types, Busy, Owed
  <2>5. Said' = Said /\ SpokenOnceInOrder'
    BY <1>1 DEF Said, SpeechInv, Order, SpokenOnceInOrder
  <2>6. /\ Epochs(queue["planner"])' = Epochs(Tail(s))
        /\ Epochs(queue["planner"])' \subseteq Epochs(s)
        /\ Epochs(queue["speech"])' \subseteq Epochs(queue["speech"])
        /\ Rises(queue["planner"])' /\ Rises(queue["speech"])'
    BY <1>3, <2>3 DEF Epochs, Rises, s
  <2> HIDE DEF job
  <2>7. Order'
    BY <1>1, <1>5, <2>2, <2>5, <2>6 DEF SpeechInv, Order, Owed, s
  <2>8. QED
    BY <2>4, <2>7 DEF SpeechInv
<1>6. QED
  BY <1>4, <1>5 DEF PlannerGet, Ends

\* The steps of the planner's thread that add nothing to the speech queue
LEMMA PlannerDecidesKeepsOrder ==
    ASSUME SpeechInv, PlannerReturns \/ PlannerJudges \/ OfferGesture
    PROVE  SpeechInv'
<1>1. current' = current /\ spoken' = spoken
  BY DEF PlannerReturns, PlannerJudges, OfferGesture, world, speechVars
<1>2. queue \in [Queues -> Seq(Elements)]
  BY DEF SpeechInv, Types
<1>3. CASE PlannerReturns
  <2>1. queue' = queue
    BY <1>3 DEF PlannerReturns
  <2>2. /\ planner' \in Busy => planner' = "judge" /\ plannerJob' = plannerJob
        /\ planner \in Owed /\ planner \in Busy
    BY <1>3 DEF PlannerReturns, Owed, Busy
  <2>3. /\ planner' \in Owed => planner \in Owed /\ plannerJob'.epoch = plannerJob.epoch
        /\ planner' \in Busy => plannerJob' \in RealJobs
    BY <2>2 DEF SpeechInv, Types, Busy
  <2>4. \A q \in {"planner", "speech"} :
           Epochs(queue'[q]) \subseteq Epochs(queue[q]) /\ Rises(queue'[q])
    BY <2>1 DEF SpeechInv, Order
  <2>5. QED
    BY <1>1, <1>2, <2>1, <2>3, <2>4, ShrinkKeepsOrder
<1>4. CASE PlannerJudges
  <2>1. queue' = queue
    BY <1>4 DEF PlannerJudges
  <2>2. planner \in Owed /\ planner \in Busy /\ plannerJob \in RealJobs
    BY <1>4 DEF PlannerJudges, Owed, Busy, SpeechInv, Types
  <2>3. CASE planner' = "get"
    BY <1>1, <1>2, <2>1, <2>3, ShrinkKeepsOrder DEF SpeechInv, Types, Order, Owed, Busy
  <2>4. CASE \E n \in 0..MaxRepetitions : plannerJob' = [plannerJob EXCEPT !.repetitions = n]
    <3>1. plannerJob' \in RealJobs /\ plannerJob'.epoch = plannerJob.epoch
      BY <2>2, <2>4, RuntimeAssumption DEF RealJobs
    <3>2. QED
      BY <1>1, <1>2, <2>1, <2>2, <3>1, ShrinkKeepsOrder DEF SpeechInv, Types, Order
  <2>5. QED
    BY <1>4, <2>3, <2>4 DEF PlannerJudges
<1>5. CASE OfferGesture
  <2>1. plannerJob \in Elements /\ planner' \notin Busy /\ planner' \notin Owed
    BY <1>5 DEF OfferGesture, Busy, Owed, SpeechInv, Types, Elements
  <2>2. queue' = queue \/ queue' = [queue EXCEPT !["arm"] = Append(@, plannerJob)]
    BY <1>5 DEF OfferGesture, Offered
  <2>3. /\ queue' \in [Queues -> Seq(Elements)]
        /\ queue'["planner"] = queue["planner"] /\ queue'["speech"] = queue["speech"]
    <3>1. Append(queue["arm"], plannerJob) \in Seq(Elements)
      BY <1>2, <2>1 DEF Queues
    <3>2. QED
      BY <1>2, <2>2, <3>1 DEF Queues
  <2>4. QED
    BY <1>1, <2>1, <2>3, ShrinkKeepsOrder DEF SpeechInv, Order
<1>6. QED
  BY <1>3, <1>4, <1>5

\* What is offered to the speaker comes after all that waits to be spoken about.
LEMMA OfferSpeechKeepsOrder ==
    ASSUME SpeechInv, OfferSpeech
    PROVE  SpeechInv'
<1> DEFINE job == plannerJob
<1>1. /\ planner = "offerSpeech" /\ planner' = "offerArm"
      /\ current' = current /\ spoken' = spoken /\ plannerJob' = plannerJob
  BY DEF OfferSpeech, world, speechVars
<1>2. job \in RealJobs /\ planner \in Owed /\ planner' \notin Owed
  BY <1>1 DEF SpeechInv, Types, Busy, Owed
<1>3. queue \in [Queues -> Seq(Elements)]
  BY DEF SpeechInv, Types
<1>4. queue' = queue \/ queue' = [queue EXCEPT !["speech"] = Append(@, job)]
  BY DEF OfferSpeech, Offered
<1>5. /\ queue'["planner"] = queue["planner"]
      /\ queue'["speech"] \in {queue["speech"], Append(queue["speech"], job)}
      /\ queue' \in [Queues -> Seq(Elements)]
  <2>1. Append(queue["speech"], job) \in Seq(Elements)
    BY <1>2, <1>3 DEF Queues, Elements
  <2>2. QED
    BY <1>3, <1>4, <2>1 DEF Queues
<1>6. Types'
  BY <1>1, <1>2, <1>5 DEF SpeechInv, Types
<1>7. Said' = Said /\ SpokenOnceInOrder'
  BY <1>1 DEF Said, SpeechInv, Order, SpokenOnceInOrder
<1>8. /\ Epochs(queue["planner"])' = Epochs(queue["planner"])
      /\ Rises(queue["planner"])'
  BY <1>5 DEF Epochs, Rises, SpeechInv, Order
<1>9. /\ job.epoch \in Nat /\ job \in Elements
      /\ \A x \in Epochs(queue["speech"]) : x < job.epoch
  BY <1>2 DEF SpeechInv, Order, RealJobs, Elements
<1> HIDE DEF job
<1>10. /\ Epochs(queue["speech"])' \subseteq Epochs(queue["speech"]) \cup {job.epoch}
       /\ Rises(queue["speech"])'
  <2> DEFINE s == queue["speech"]
             t == queue'["speech"]
  <2>1. s \in Seq(Elements) /\ Rises(s)
    BY <1>3 DEF Queues, SpeechInv, Order
  <2>2. t \in {s, Append(s, job)}
    BY <1>5
  <2> HIDE DEF s
  <2>3. /\ Epochs(Append(s, job)) \subseteq Epochs(s) \cup {job.epoch}
        /\ Rises(Append(s, job))
    BY <1>9, <2>1, AppendJob DEF s
  <2> HIDE DEF t
  <2>4. Epochs(t) \subseteq Epochs(s) \cup {job.epoch} /\ Rises(t)
    BY <2>1, <2>2, <2>3
  <2>5. QED
    BY <2>4 DEF Epochs, Rises, s, t
<1>11. Order'
  BY <1>1, <1>2, <1>7, <1>8, <1>9, <1>10 DEF SpeechInv, Order, job
<1>12. QED
  BY <1>6, <1>11 DEF SpeechInv

LEMMA SpeechGetKeepsOrder ==
    ASSUME SpeechInv, SpeechGet
    PROVE  SpeechInv'
<1> DEFINE s == queue["speech"]
           job == Head(s)
<1>1. /\ s # <<>> /\ queue' = [queue EXCEPT !["speech"] = Tail(@)]
      /\ current' = current /\ planner' = planner /\ plannerJob' = plannerJob
  BY DEF SpeechGet, Take, world, plannerVars
<1>2. /\ "planner" \in Queues /\ "speech" \in Queues
      /\ queue \in [Queues -> Seq(Elements)] /\ s \in Seq(Elements)
  BY DEF Queues, SpeechInv, Types
<1>3. /\ queue' \in [Queues -> Seq(Elements)]
      /\ \A q \in {"planner", "speech"} :
            Epochs(queue'[q]) \subseteq Epochs(queue[q]) /\ Rises(queue'[q])
  BY <1>1, <1>2, TakeKeepsOrder
<1>4. CASE spoken' = spoken
  BY <1>1, <1>3, <1>4, SamePlanner, ShrinkKeepsOrder
<1>5. CASE spoken' = Append(spoken, job.epoch) /\ job # STOP
  <2>1. Rises(s)
    BY DEF SpeechInv, Order
  <2> HIDE DEF s
  <2>2. /\ job.epoch \in Nat /\ job.epoch \in Epochs(s)
        /\ \A y \in Epochs(Tail(s)) : job.epoch < y
    BY <1>1, <1>2, <1>5, <2>1, TailJob DEF RealJobs
  <2>3. queue'["speech"] = Tail(s)
    BY <1>1, <1>2 DEF s
  <2> HIDE DEF job
  <2>4. spoken \in Seq(Nat) /\ spoken' \in Seq(Nat) /\ Len(spoken') = Len(spoken) + 1
        /\ Len(spoken) \in Nat
        /\ (\A i \in 1..Len(spoken) : spoken'[i] = spoken[i])
        /\ spoken'[Len(spoken) + 1] = job.epoch
    BY <1>5, <2>2 DEF SpeechInv, Types
  <2>5. Types'
    BY <1>1, <1>3, <2>4 DEF SpeechInv, Types
  <2>6. Said' \subseteq Said \cup {job.epoch}
    BY SMTT(30), <2>4 DEF Said
  <2>7. \A x \in Said : x < job.epoch
    BY <2>2 DEF SpeechInv, Order, s
  <2>8. SpokenOnceInOrder'
    <3>1. \A i \in 1..Len(spoken) : spoken[i] < job.epoch
      BY <2>7 DEF Said
    <3>2. \A i, j \in 1..Len(spoken) : i < j => spoken[i] < spoken[j]
      BY SMTT(30), <2>4 DEF SpeechInv, Order, SpokenOnceInOrder
    <3>3. ASSUME NEW i \in 1..Len(spoken'), NEW j \in 1..Len(spoken'), i < j
          PROVE  spoken'[i] < spoken'[j]
      <4>1. CASE j = Len(spoken) + 1
        BY <2>4, <3>1, <3>3, <4>1
      <4>2. CASE j # Len(spoken) + 1
        <5>1. i \in 1..Len(spoken) /\ j \in 1..Len(spoken)
          <6>1. Len(spoken') = Len(spoken) + 1 /\ Len(spoken) \in Nat
            BY <2>4
          <6>2. QED
            BY <3>3, <4>2, <6>1
        <5>2. spoken[i] < spoken[j] /\ spoken'[i] = spoken[i] /\ spoken'[j] = spoken[j]
          BY <2>4, <3>2, <3>3, <5>1
        <5>3. QED
          BY <5>2
      <4>3. QED
        BY <4>1, <4>2
    <3>4. DOMAIN spoken' = 1..Len(spoken')
      BY <2>4
    <3>5. QED
      BY <3>3, <3>4 DEF SpokenOnceInOrder
  <2>9. /\ Epochs(queue["speech"])' = Epochs(Tail(s))
        /\ Epochs(queue["speech"])' \subseteq Epochs(s)
        /\ Epochs(queue["planner"])' \subseteq Epochs(queue["planner"])
        /\ Rises(queue["planner"])' /\ Rises(queue["speech"])'
    BY <1>3, <2>3 DEF Epochs, Rises, s
  <2>10. Order'
    BY <1>1, <2>2, <2>6, <2>7, <2>8, <2>9 DEF SpeechInv, Order, s
  <2>11. QED
    BY <2>5, <2>10 DEF SpeechInv
<1>6. QED
  BY <1>4, <1>5 DEF SpeechGet, Ends, speechVars

LEMMA ArmGetKeepsOrder ==
    ASSUME SpeechInv, ArmGet
    PROVE  SpeechInv'
<1>1. /\ queue["arm"] # <<>> /\ queue' = [queue EXCEPT !["arm"] = Tail(@)]
      /\ current' = current /\ spoken' = spoken
      /\ planner' = planner /\ plannerJob' = plannerJob
  BY DEF ArmGet, Take, world, plannerVars, speechVars
<1>2. QED
  BY <1>1, TakeKeepsOrder, SamePlanner, ShrinkKeepsOrder DEF Queues

LEMMA OthersKeepOrder ==
    ASSUME SpeechInv,
           \/ Hook \/ Acknowledge \/ EnterWait \/ Timeout \/ Decide \/ PulseEnds
           \/ Closed \/ Join \/ SpeakerReturns \/ RequestPause \/ AwaitPause
           \/ StartGesture \/ NextSegment \/ ReleasePause \/ ExecutorReturns
    PROVE  SpeechInv'
<1>1. UNCHANGED <<queue, current, spoken, planner, plannerJob>>
  BY DEF Hook, Acknowledge, EnterWait, Timeout, Decide, PulseEnds, Closed, Join,
     Moves, SpeakerReturns, RequestPause, AwaitPause, StartGesture, NextSegment,
     ReleasePause, ExecutorReturns, ArmMoves, world, plannerVars, speechVars
<1>2. QED
  BY <1>1, UnchangedKeepsOrder

THEOREM SpeechInvariance == Spec => []SpeechInv
<1>1. Init => SpeechInv
  <2>1. SUFFICES ASSUME Init PROVE SpeechInv
    OBVIOUS
  <2>2. /\ queue = [q \in Queues |-> <<>>] /\ spoken = <<>>
        /\ planner \notin Owed /\ planner \notin Busy
        /\ current.version = 0 /\ current.epoch = 0 /\ current.talk = 0
    BY <2>1 DEF Init, Owed, Busy
  <2>3. queue["speech"] = <<>> /\ queue["planner"] = <<>>
    BY <2>2 DEF Queues
  <2>4. Types
    BY <2>2 DEF Types
  <2>5. Epochs(<<>>) = {} /\ Rises(<<>>)
    BY DEF Epochs, Rises
  <2>6. Order
    BY <2>2, <2>3, <2>5 DEF Order, SpokenOnceInOrder, Said
  <2>7. QED
    BY <2>4, <2>6 DEF SpeechInv
<1>2. SpeechInv /\ [Next]_vars => SpeechInv'
  <2>1. ASSUME SpeechInv, Next PROVE SpeechInv'
    BY <2>1, ObserveKeepsOrder, ClosingKeepsOrder, PlannerGetKeepsOrder,
       PlannerDecidesKeepsOrder, OfferSpeechKeepsOrder, SpeechGetKeepsOrder,
       ArmGetKeepsOrder, OthersKeepOrder
       DEF Next, NavigationStep, PlannerStep, ArmStep, Closers
  <2>2. ASSUME SpeechInv, UNCHANGED vars PROVE SpeechInv'
    BY <2>2, UnchangedKeepsOrder DEF vars, world, plannerVars, speechVars
  <2>3. QED
    BY <2>1, <2>2
<1>3. QED
  BY <1>1, <1>2, PTL DEF Spec

\* _observation_sink, _planner_worker, _speech_worker: every obstruction epoch is
\* spoken about at most once, and in the order they were met.
THEOREM SpeechIsOrdered == Spec => []SpokenOnceInOrder
<1>1. SpeechInv => SpokenOnceInOrder
  BY DEF SpeechInv, Order
<1>2. QED
  BY <1>1, SpeechInvariance, PTL

-----------------------------------------------------------------------------
(* The capacities and the budgets                                          *)

Fits(s) ==
    /\ Len(s) <= QueueCapacity
    /\ \A i \in 1..Len(s) : s[i].repetitions \in 0..MaxRepetitions

Room == \A q \in Queues : Fits(queue[q])

Places ==
    /\ setup \in Setups
    /\ current.object \in Obstruction /\ current.key \in Obstruction
    /\ {cancelled, requested, acked, released, late} \subseteq BOOLEAN
    /\ nav \in {"observe", "hook", "ack", "enter", "wait", "refresh", "decide",
                "driving", "timeout", "close", "join", "returned"}
    /\ planner \in Busy \cup {"get", "ended"}
    /\ planner \in {"offerSpeech", "offerArm"} =>
          plannerJob.repetitions \in 0..MaxRepetitions
    /\ speech \in {"get", "speaking", "ended"}
    /\ arm \in {"get", "clearAck", "clearRelease", "request", "await",
                "blocked", "woken", "segment", "moving", "release",
                "withdraw", "ended"}
    /\ closing \in [Closers -> 0..8]

\* The arm holds a job it has found room for in the budgets.
Granted == {"clearAck", "clearRelease", "request", "await", "blocked", "woken"}

\* What the arm may still charge to its budgets is left of them: the whole
\* gesture before it begins, then the segments it has not executed.
Charges ==
    /\ requests \in 0..MaxPlannerRequests
    /\ utterances \in 0..MaxUtterances
    /\ gestures \in 0..MaxGestures
    /\ segments \in 0..MaxSegments
    /\ left \in 0..(2 * MaxRepetitions)
    /\ armJob.repetitions \in 0..MaxRepetitions
    /\ arm \in Granted => /\ gestures < MaxGestures
                          /\ segments + 2 * armJob.repetitions <= MaxSegments
    /\ arm = "segment" => segments + left <= MaxSegments
    /\ arm = "moving" => left > 0 /\ segments + left <= MaxSegments + 1

RuntimeInv == SpeechInv /\ Room /\ Places /\ Charges

LEMMA Limits ==
    /\ {QueueCapacity, MaxPlannerRequests, MaxUtterances, MaxGestures,
        MaxSegments, MaxRepetitions} \subseteq Nat
    /\ QueueCapacity > 0
  BY RuntimeAssumption

LEMMA StopAsksNothing == STOP.repetitions = 0 /\ NoJob.repetitions = 0
  BY DEF STOP, NoJob

LEMMA FitsTail ==
    ASSUME NEW s \in Seq(Elements), s # <<>>, Fits(s)
    PROVE  Fits(Tail(s)) /\ Head(s).repetitions \in 0..MaxRepetitions
<1> DEFINE t == Tail(s)
<1>1. /\ t \in Seq(Elements) /\ Len(t) = Len(s) - 1
      /\ Len(s) \in Nat \ {0} /\ Head(s) = s[1]
      /\ \A i \in 1..Len(t) : t[i] = s[i + 1] /\ i + 1 \in 1..Len(s)
  OBVIOUS
<1> HIDE DEF t
<1>2. Len(t) <= QueueCapacity
  BY <1>1, Limits DEF Fits
<1>3. s[1].repetitions \in 0..MaxRepetitions
  BY <1>1 DEF Fits
<1>4. ASSUME NEW i \in 1..Len(t) PROVE t[i].repetitions \in 0..MaxRepetitions
  <2>1. t[i] = s[i + 1] /\ i + 1 \in 1..Len(s)
    BY <1>1
  <2>2. QED
    BY <2>1 DEF Fits
<1>5. QED
  BY <1>1, <1>2, <1>3, <1>4 DEF Fits, t

LEMMA FitsAppend ==
    ASSUME NEW s \in Seq(Elements), NEW job \in Elements, Fits(s),
           Len(s) < QueueCapacity, job.repetitions \in 0..MaxRepetitions
    PROVE  Fits(Append(s, job))
<1> DEFINE t == Append(s, job)
<1>1. /\ Len(t) = Len(s) + 1 /\ Len(s) \in Nat /\ t[Len(s) + 1] = job
      /\ \A i \in 1..Len(s) : t[i] = s[i]
  OBVIOUS
<1> HIDE DEF t
<1>2. ASSUME NEW i \in 1..Len(t) PROVE t[i].repetitions \in 0..MaxRepetitions
  <2>1. CASE i = Len(s) + 1
    BY <1>1, <2>1
  <2>2. CASE i # Len(s) + 1
    BY <1>1, <2>2 DEF Fits
  <2>3. QED
    BY <2>1, <2>2
<1>3. QED
  BY <1>1, <1>2, Limits DEF Fits, t

\* _put_bounded fills no queue beyond its capacity.
LEMMA OfferKeepsRoom ==
    ASSUME Types, Room, NEW q \in Queues, NEW job \in Elements,
           job.repetitions \in 0..MaxRepetitions
    PROVE  \A p \in Queues : Fits(Offered(q, job)[p])
<1>1. queue \in [Queues -> Seq(Elements)]
  BY DEF Types
<1>2. CASE Len(queue[q]) < QueueCapacity
  <2>1. Fits(Append(queue[q], job))
    BY <1>1, <1>2, FitsAppend DEF Room
  <2>2. \A p \in Queues : Offered(q, job)[p] = IF p = q THEN Append(queue[q], job)
                                                        ELSE queue[p]
    BY <1>1, <1>2 DEF Offered
  <2>3. QED
    BY <2>1, <2>2 DEF Room
<1>3. CASE ~(Len(queue[q]) < QueueCapacity)
  BY <1>3 DEF Offered, Room
<1>4. QED
  BY <1>2, <1>3

LEMMA TakeKeepsRoom ==
    ASSUME Types, Room, NEW q \in Queues, queue[q] # <<>>,
           queue' = [queue EXCEPT ![q] = Tail(@)]
    PROVE  Room' /\ Head(queue[q]).repetitions \in 0..MaxRepetitions
<1>1. queue \in [Queues -> Seq(Elements)]
  BY DEF Types
<1>2. Fits(Tail(queue[q])) /\ Head(queue[q]).repetitions \in 0..MaxRepetitions
  BY <1>1, FitsTail DEF Room
<1>3. \A p \in Queues : queue'[p] = IF p = q THEN Tail(queue[q]) ELSE queue[p]
  BY <1>1
<1>4. \A p \in Queues : Fits(queue'[p])
  BY <1>2, <1>3 DEF Room
<1>5. QED
  BY <1>2, <1>4 DEF Room, Fits

LEMMA SameRoom == ASSUME Room, queue' = queue PROVE Room'
  BY DEF Room, Fits

LEMMA ObserveKeepsBudgets ==
    ASSUME RuntimeInv, Observe
    PROVE  Room' /\ Places' /\ Charges'
<1>1. PICK object \in Obstruction, newWorld \in BOOLEAN :
         /\ current' = Reduced(object, newWorld)
         /\ \/ /\ Requests(Reduced(object, newWorld))
               /\ Submit(Reduced(object, newWorld))
            \/ UNCHANGED <<queue, requests>>
  BY DEF Observe
<1> DEFINE seen == Reduced(object, newWorld)
           job == [epoch |-> seen.epoch, talk |-> seen.talk,
                   version |-> seen.version, repetitions |-> 0]
<1>2. /\ {seen.version, seen.epoch, seen.talk} \subseteq Nat
      /\ seen.object \in Obstruction /\ seen.key \in Obstruction
  BY DEF Reduced, RuntimeInv, SpeechInv, Types, Places
<1>3. /\ UNCHANGED <<setup, events, plannerVars, speechVars, armVars, closing, late>>
      /\ nav' = "hook" /\ current' = seen
  BY <1>1 DEF Observe
<1> HIDE DEF seen
<1>4. Places'
  BY <1>2, <1>3 DEF RuntimeInv, Places, events, plannerVars, speechVars, armVars
<1>5. requests' \in 0..MaxPlannerRequests
  BY <1>1, Limits DEF RuntimeInv, Charges, Requests, Submit, seen
<1>6. Charges'
  BY <1>3, <1>5 DEF RuntimeInv, Charges, speechVars, armVars
<1>7. CASE queue' = Offered("planner", job)
  <2>1. job \in Elements /\ job.repetitions \in 0..MaxRepetitions
    BY <1>2, Limits DEF RealJobs, Elements
  <2> HIDE DEF job
  <2>2. \A p \in Queues : Fits(queue'[p])
    BY <1>7, <2>1, OfferKeepsRoom DEF RuntimeInv, SpeechInv, Queues
  <2>3. QED
    BY <2>2, <1>4, <1>6 DEF Room, Fits
<1>8. CASE queue' = queue
  BY <1>4, <1>6, <1>8, SameRoom DEF RuntimeInv
<1>9. QED
  BY <1>1, <1>7, <1>8 DEF Submit, seen, job

\* The steps of navigation that only move it on, and the acknowledgement
LEMMA NavigationKeepsBudgets ==
    ASSUME RuntimeInv,
           \/ Hook \/ Acknowledge \/ EnterWait \/ Timeout \/ Decide \/ PulseEnds
           \/ Closed \/ Join
    PROVE  Room' /\ Places' /\ Charges'
<1>1. /\ UNCHANGED <<world, queue, plannerVars, speechVars, armJob, gestures,
                     segments, left, late>>
      /\ UNCHANGED <<cancelled, requested, released>>
  BY DEF Hook, Acknowledge, EnterWait, Timeout, Decide, PulseEnds, Closed, Join,
     Moves, events, armVars
<1>2. /\ acked' \in BOOLEAN
      /\ arm' = arm \/ (arm = "blocked" /\ arm' = "woken")
  BY DEF Hook, Acknowledge, EnterWait, Timeout, Decide, PulseEnds, Closed, Join,
     Moves, events, armVars, Acknowledged, RuntimeInv, Places
<1>3. nav' \in {"observe", "hook", "ack", "enter", "wait", "refresh", "decide",
                "driving", "timeout", "close", "join", "returned"}
  BY DEF Hook, Acknowledge, EnterWait, Timeout, Decide, PulseEnds, Closed, Join,
     EndEpisode
<1>4. closing' \in [Closers -> 0..8]
  BY DEF Hook, Acknowledge, EnterWait, Timeout, Decide, PulseEnds, Closed, Join,
     EndEpisode, RuntimeInv, Places
<1>5. Places'
  BY <1>1, <1>2, <1>3, <1>4 DEF RuntimeInv, Places, world, plannerVars, speechVars
<1>6. Charges'
  BY <1>1, <1>2 DEF RuntimeInv, Charges, Granted, world, speechVars
<1>7. QED
  BY <1>1, <1>5, <1>6, SameRoom DEF RuntimeInv

LEMMA ClosingKeepsBudgets ==
    ASSUME RuntimeInv, NEW c \in Closers, Closes(c)
    PROVE  Room' /\ Places' /\ Charges'
<1>1. CASE Signal(c)
  <2>1. UNCHANGED <<world, queue, requested, plannerVars, speechVars, armJob,
                    gestures, segments, left, late>>
    BY <1>1 DEF Signal
  <2>2. /\ {cancelled, acked, released}' \subseteq BOOLEAN
        /\ arm' = arm \/ (arm = "blocked" /\ arm' = "woken")
        /\ nav' = nav \/ nav' = "refresh"
    BY <1>1 DEF Signal, Signals, Wake, Acknowledged, Freed, RuntimeInv, Places
  <2>3. closing' \in [Closers -> 0..8]
    BY <1>1 DEF Signal, Signals, RuntimeInv, Places
  <2>4. Places'
    BY <2>1, <2>2, <2>3 DEF RuntimeInv, Places, world, plannerVars, speechVars
  <2>5. Charges'
    BY <2>1, <2>2 DEF RuntimeInv, Charges, Granted, world, speechVars
  <2>6. QED
    BY <2>1, <2>4, <2>5, SameRoom DEF RuntimeInv
<1>2. CASE CloseQueue(c)
  <2> DEFINE q == Target(closing[c])
  <2>1. q \in Queues
    BY DEF Target, Queues
  <2>2. UNCHANGED <<world, events, nav, plannerVars, speechVars, armVars, late>>
    BY <1>2 DEF CloseQueue
  <2>3. closing' \in [Closers -> 0..8]
    BY <1>2 DEF CloseQueue, OfferStop, RuntimeInv, Places
  <2>4. Places'
    BY <2>2, <2>3 DEF RuntimeInv, Places, world, events, plannerVars, speechVars, armVars
  <2>5. Charges'
    BY <2>2 DEF RuntimeInv, Charges, world, speechVars, armVars
  <2>6. \/ queue' = Offered(q, STOP)
        \/ queue[q] # <<>> /\ queue' = [queue EXCEPT ![q] = Tail(@)]
    BY <1>2, RuntimeAssumption DEF CloseQueue, OfferStop
  <2>7. CASE queue' = Offered(q, STOP)
    <3>1. STOP \in Elements /\ STOP.repetitions \in 0..MaxRepetitions
      BY StopIsNoJob, StopAsksNothing, Limits
    <3>2. \A p \in Queues : Fits(queue'[p])
      BY <2>1, <2>7, <3>1, OfferKeepsRoom DEF RuntimeInv, SpeechInv
    <3>3. QED
      BY <2>4, <2>5, <3>2 DEF Room, Fits
  <2>8. CASE queue[q] # <<>> /\ queue' = [queue EXCEPT ![q] = Tail(@)]
    BY <2>1, <2>4, <2>5, <2>8, TakeKeepsRoom DEF RuntimeInv, SpeechInv
  <2>9. QED
    BY <2>6, <2>7, <2>8
<1>3. QED
  BY <1>1, <1>2 DEF Closes

\* The planner asks for repetitions within their limit, and keeps what it asks for.
LEMMA PlannerKeepsBudgets ==
    ASSUME RuntimeInv, PlannerStep \/ PlannerReturns
    PROVE  Room' /\ Places' /\ Charges'
<1>1. UNCHANGED <<world, events, nav, speechVars, armVars, closing, late>>
  BY DEF PlannerStep, PlannerGet, PlannerReturns, PlannerJudges, OfferSpeech,
     OfferGesture
<1>2. planner' \in Busy \cup {"get", "ended"}
  BY DEF PlannerStep, PlannerGet, PlannerReturns, PlannerJudges, OfferSpeech,
     OfferGesture, Busy, Owed
<1>3. planner \in Busy => plannerJob \in RealJobs
  BY DEF RuntimeInv, SpeechInv, Types
<1>4. planner' \in {"offerSpeech", "offerArm"} =>
         plannerJob'.repetitions \in 0..MaxRepetitions
  <2>1. ASSUME planner = "judge", planner' = "offerSpeech", PlannerJudges
        PROVE  plannerJob'.repetitions \in 0..MaxRepetitions
    <3>1. plannerJob \in RealJobs
      BY <1>3, <2>1 DEF Busy, Owed
    <3>2. QED
      BY <2>1, <3>1 DEF PlannerJudges, RealJobs
  <2>2. QED
    BY <2>1 DEF PlannerStep, PlannerGet, PlannerReturns, PlannerJudges, OfferSpeech,
       OfferGesture, RuntimeInv, Places
<1>5. Places'
  BY <1>1, <1>2, <1>4 DEF RuntimeInv, Places, world, events, speechVars, armVars
<1>6. Charges'
  BY <1>1 DEF RuntimeInv, Charges, world, speechVars, armVars
<1>7. CASE PlannerGet
  BY <1>5, <1>6, <1>7, TakeKeepsRoom DEF PlannerGet, Take, RuntimeInv, SpeechInv, Queues
<1>8. CASE queue' = queue
  BY <1>5, <1>6, <1>8, SameRoom DEF RuntimeInv
<1>9. CASE /\ planner \in {"offerSpeech", "offerArm"}
           /\ \E q \in Queues : queue' = Offered(q, plannerJob)
  <2>1. PICK q \in Queues : queue' = Offered(q, plannerJob)
    BY <1>9
  <2>2. plannerJob \in Elements /\ plannerJob.repetitions \in 0..MaxRepetitions
    BY <1>3, <1>9 DEF Busy, Owed, Elements, RuntimeInv, Places
  <2>3. \A p \in Queues : Fits(queue'[p])
    BY <2>1, <2>2, OfferKeepsRoom DEF RuntimeInv, SpeechInv
  <2>4. QED
    BY <1>5, <1>6, <2>3 DEF Room, Fits
<1>10. QED
  BY <1>7, <1>8, <1>9 DEF PlannerStep, PlannerReturns, PlannerJudges, OfferSpeech,
     OfferGesture, Queues

LEMMA SpeechKeepsBudgets ==
    ASSUME RuntimeInv, SpeechGet \/ SpeakerReturns
    PROVE  Room' /\ Places' /\ Charges'
<1>1. /\ UNCHANGED <<world, events, nav, plannerVars, armVars, closing, late>>
      /\ speech' \in {"get", "speaking", "ended"}
  BY DEF SpeechGet, SpeakerReturns, speechVars, RuntimeInv, Places
<1>2. utterances' \in 0..MaxUtterances
  BY SMTT(30), Limits DEF SpeechGet, SpeakerReturns, speechVars, RuntimeInv, Charges
<1>3. Places'
  BY <1>1 DEF RuntimeInv, Places, world, events, plannerVars, armVars
<1>4. Charges'
  BY <1>1, <1>2 DEF RuntimeInv, Charges, world, armVars
<1>5. CASE SpeechGet
  BY <1>3, <1>4, <1>5, TakeKeepsRoom DEF SpeechGet, Take, RuntimeInv, SpeechInv, Queues
<1>6. CASE SpeakerReturns
  BY <1>3, <1>4, <1>6, SameRoom DEF SpeakerReturns, RuntimeInv
<1>7. QED
  BY <1>5, <1>6

\* A job the arm accepts leaves the budgets what its gesture may charge.
LEMMA ArmGetKeepsBudgets ==
    ASSUME RuntimeInv, ArmGet
    PROVE  Room' /\ Places' /\ Charges'
<1> DEFINE job == Head(queue["arm"])
<1>1. /\ queue["arm"] # <<>> /\ queue' = [queue EXCEPT !["arm"] = Tail(@)]
      /\ UNCHANGED <<world, events, nav, plannerVars, speechVars, gestures,
                     segments, left, closing, late>>
  BY DEF ArmGet, Take
<1>2. Room' /\ job.repetitions \in 0..MaxRepetitions
  BY <1>1, TakeKeepsRoom DEF RuntimeInv, SpeechInv, Queues
<1> HIDE DEF job
<1>3. /\ arm = "get"
      /\ \/ arm' \in {"get", "ended"} /\ armJob' = armJob
         \/ /\ arm' = "clearAck" /\ armJob' = job
            /\ gestures < MaxGestures
            /\ segments + 2 * job.repetitions <= MaxSegments
  BY DEF ArmGet, job
<1>4. Places'
  BY <1>1, <1>3 DEF RuntimeInv, Places, world, events, plannerVars, speechVars
<1>5. Charges'
  BY <1>1, <1>2, <1>3 DEF RuntimeInv, Charges, Granted, world, speechVars
<1>6. QED
  BY <1>2, <1>4, <1>5

LEMMA PauseKeepsBudgets ==
    ASSUME RuntimeInv, RequestPause \/ AwaitPause
    PROVE  Room' /\ Places' /\ Charges'
<1>1. /\ UNCHANGED <<world, queue, cancelled, nav, plannerVars, speechVars,
                     armJob, gestures, segments, left, closing>>
      /\ arm \in Granted /\ arm' \in Granted
  BY DEF RequestPause, AwaitPause, ArmMoves, events, Granted
<1>2. {requested, acked, released, late}' \subseteq BOOLEAN
  BY DEF RequestPause, AwaitPause, ArmMoves, events, RuntimeInv, Places
<1>3. Places'
  BY <1>1, <1>2 DEF RuntimeInv, Places, Granted, world, plannerVars, speechVars
<1>4. Charges'
  BY <1>1 DEF RuntimeInv, Charges, Granted, world, speechVars
<1>5. QED
  BY <1>1, <1>3, <1>4, SameRoom DEF RuntimeInv

LEMMA GestureKeepsBudgets ==
    ASSUME RuntimeInv, StartGesture \/ NextSegment \/ ExecutorReturns
    PROVE  Room' /\ Places' /\ Charges'
<1>1. UNCHANGED <<world, queue, events, nav, plannerVars, speechVars, closing, late>>
  BY DEF StartGesture, NextSegment, ExecutorReturns, ArmMoves
<1>2. arm' \in {"segment", "moving", "release"}
  BY DEF StartGesture, NextSegment, ExecutorReturns
<1>3. Places'
  BY <1>1, <1>2 DEF RuntimeInv, Places, world, events, plannerVars, speechVars
<1>4. armJob'.repetitions \in 0..MaxRepetitions
  BY StopAsksNothing, Limits
     DEF StartGesture, NextSegment, ExecutorReturns, RuntimeInv, Charges
<1>5. requests' = requests /\ utterances' = utterances
  BY <1>1 DEF world, speechVars
<1>6. CASE StartGesture
  <2>1. /\ arm = "woken" /\ segments' = segments
        /\ \/ /\ arm' = "segment" /\ gestures' = gestures + 1
              /\ left' = 2 * armJob.repetitions
           \/ arm' = "release" /\ gestures' = gestures /\ left' = left
    BY <1>6 DEF StartGesture
  <2>2. Charges'
    BY <1>4, <1>5, <2>1, Limits DEF RuntimeInv, Charges, Granted
  <2>3. QED
    BY <1>1, <1>3, <2>2, SameRoom DEF RuntimeInv
<1>7. CASE NextSegment
  <2>1. /\ arm = "segment" /\ gestures' = gestures
        /\ \/ arm' = "release" /\ left' = 0 /\ segments' = segments
           \/ /\ arm' = "moving" /\ left # 0 /\ left' = left
              /\ segments' = segments + 1
    BY <1>7 DEF NextSegment
  <2>2. Charges'
    BY <1>4, <1>5, <2>1, Limits DEF RuntimeInv, Charges, Granted
  <2>3. QED
    BY <1>1, <1>3, <2>2, SameRoom DEF RuntimeInv
<1>8. CASE ExecutorReturns
  <2>1. /\ arm = "moving" /\ arm' = "segment" /\ gestures' = gestures
        /\ segments' = segments /\ (left' = left - 1 \/ left' = 0)
    BY <1>8 DEF ExecutorReturns
  <2>2. Charges'
    BY <1>4, <1>5, <2>1, Limits DEF RuntimeInv, Charges, Granted
  <2>3. QED
    BY <1>1, <1>3, <2>2, SameRoom DEF RuntimeInv
<1>9. QED
  BY <1>6, <1>7, <1>8

LEMMA ReleaseKeepsBudgets ==
    ASSUME RuntimeInv, ReleasePause
    PROVE  Room' /\ Places' /\ Charges'
<1>1. /\ UNCHANGED <<world, queue, cancelled, acked, plannerVars, speechVars,
                     gestures, segments, left, closing, late>>
      /\ arm' \in {"withdraw", "ended", "get"}
      /\ armJob' \in {armJob, NoJob}
      /\ nav' \in {nav, "refresh"}
  BY DEF ReleasePause, Freed
<1>2. {requested, released}' \subseteq BOOLEAN
  BY DEF ReleasePause, RuntimeInv, Places
<1>3. Places'
  BY <1>1, <1>2 DEF RuntimeInv, Places, world, plannerVars, speechVars
<1>4. armJob'.repetitions \in 0..MaxRepetitions
  BY <1>1, StopAsksNothing, Limits DEF RuntimeInv, Charges
<1>5. Charges'
  BY <1>1, <1>4 DEF RuntimeInv, Charges, Granted, world, speechVars
<1>6. QED
  BY <1>1, <1>3, <1>5, SameRoom DEF RuntimeInv

LEMMA BudgetsInit == Init => Room /\ Places /\ Charges
<1> SUFFICES ASSUME Init PROVE Room /\ Places /\ Charges
  OBVIOUS
<1>1. /\ queue = [q \in Queues |-> <<>>]
      /\ armJob = NoJob /\ closing = [c \in Closers |-> 0]
  BY DEF Init
<1>2. Room
  BY <1>1, Limits DEF Room, Fits
<1>3. Places
  <2>1. closing \in [Closers -> 0..8]
    BY <1>1
  <2>2. /\ setup \in Setups
        /\ current.object = "clear" /\ current.key = "clear"
        /\ speech \in {"get", "ended"} /\ arm \in {"get", "ended"}
    BY DEF Init
  <2>3. "clear" \in Obstruction
    BY DEF Obstruction
  <2>4. {cancelled, requested, acked, released, late} \subseteq BOOLEAN
    BY DEF Init
  <2>5. nav = "observe" /\ planner = "get"
    BY DEF Init
  <2>6. QED
    BY <2>1, <2>2, <2>3, <2>4, <2>5 DEF Places
<1>4. Charges
  BY StopAsksNothing, Limits DEF Init, Charges, Granted
<1>5. QED
  BY <1>2, <1>3, <1>4

THEOREM RuntimeInvariance == Spec => []RuntimeInv
<1>1. Init => Room /\ Places /\ Charges
  BY BudgetsInit
<1>2. SpeechInv /\ Room /\ Places /\ Charges /\ [Next]_vars
         => (Room /\ Places /\ Charges)'
  <2>1. ASSUME RuntimeInv, Next PROVE (Room /\ Places /\ Charges)'
    BY <2>1, ObserveKeepsBudgets, NavigationKeepsBudgets, ClosingKeepsBudgets,
       PlannerKeepsBudgets, SpeechKeepsBudgets, ArmGetKeepsBudgets,
       PauseKeepsBudgets, GestureKeepsBudgets, ReleaseKeepsBudgets
       DEF Next, NavigationStep, ArmStep, Closers
  <2>2. ASSUME RuntimeInv, UNCHANGED vars PROVE (Room /\ Places /\ Charges)'
    <3>1. Room'
      BY <2>2, SameRoom DEF RuntimeInv, vars
    <3>2. Places'
      BY <2>2 DEF RuntimeInv, Places, vars, world, events, plannerVars,
         speechVars, armVars
    <3>3. Charges'
      BY <2>2 DEF RuntimeInv, Charges, vars, world, speechVars, armVars
    <3>4. QED
      BY <3>1, <3>2, <3>3
  <2>3. QED
    BY <2>1, <2>2 DEF RuntimeInv
<1>3. SpeechInv /\ Room /\ Places /\ Charges => RuntimeInv
  BY DEF RuntimeInv
<1>4. QED
  BY <1>1, <1>2, <1>3, SpeechInvariance, PTL DEF Spec

\* ConcurrentRuntimePolicy: no queue holds more than its capacity, and planner
\* requests, utterances, gestures and arm segments stay within their budgets.
THEOREM RuntimeTypeCorrect == Spec => []TypeOK
<1>1. RuntimeInv => TypeOK
  <2> SUFFICES ASSUME RuntimeInv PROVE TypeOK
    OBVIOUS
  <2>1. DOMAIN queue = Queues /\ {current.version, current.epoch, current.talk} \subseteq Nat
    BY DEF RuntimeInv, SpeechInv, Types
  <2>2. \A q \in Queues : Len(queue[q]) <= QueueCapacity
    BY DEF RuntimeInv, Room, Fits
  <2>3. QED
    BY <2>1, <2>2 DEF TypeOK, RuntimeInv, Places, Charges, Busy, Owed
<1>2. QED
  BY <1>1, RuntimeInvariance, PTL
=============================================================================
