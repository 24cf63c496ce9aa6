------------------------ MODULE RobotControlProofs ------------------------
(***************************************************************************)
(* Proofs about RobotControl for any number of robots, HTTP threads,       *)
(* requests, starts and settings revisions.                                *)
(***************************************************************************)
EXTENDS RobotControl, FiniteSetTheorems, SequenceTheorems, TLAPS

Alive == {"begun", "driving", "completed", "incomplete", "raised", "unwinding"}
Working == Alive \ {"unwinding"}     \* before the cleanup
InAdapter == Working \ {"begun"}     \* adapter.run was entered

\* The threads inside an adapter call on s: what inflight counts.
Signalling(s) ==
    {c \in Caller : call[c] \in {Calls("stop", s), Calls("estop", s)}}

SignalCount == \A s \in Service : inflight[s] = Cardinality(Signalling(s))

\* Episodes not yet started have left no trace.
Fresh(s) ==
    /\ episode[s] <= Len(attempts[s])
    /\ Len(attempts[s]) <= MaxAttempts
    /\ \A e \in Episode : e > Len(attempts[s]) =>
           runner[s][e] = "none" /\ e \notin stopSet[s]

\* Which thread is registered, and what the threads have done by state.
Threads(s) ==
    /\ thread[s] \in {NoThread, episode[s]}
    /\ thread[s] \in Episode => runner[s][thread[s]] \in Alive
    /\ \A e \in Episode :
          /\ runner[s][e] \in Working => thread[s] = e
          /\ runner[s][e] = "begun" =>
                state[s] \in {"STARTING", "STOPPING", "FAULTED"}
          /\ runner[s][e] \in InAdapter =>
                /\ state[s] \in {"RUNNING", "STOPPING", "FAULTED"}
                /\ pinned[s][e] = revision[s]
          /\ runner[s][e] = "begun" => pinned[s][e] = revision[s]

\* What the states of the service mean.
States(s) ==
    /\ state[s] \in {"STARTING", "RUNNING"} =>
          /\ thread[s] \in Episode
          /\ runner[s][thread[s]] \in Working
          /\ thread[s] \notin stopSet[s]
          /\ inflight[s] = 0
    /\ state[s] = "STOPPING" => ~Quiescent(thread[s], inflight[s])
    /\ inflight[s] # 0 => (thread[s] # NoThread => thread[s] \in stopSet[s])

Gate(s) ==
    /\ Gated /\ (state[s] \in Active \/ thread[s] # NoThread) => gate = s
    /\ gate = s => state[s] \in Active \/ ~Quiescent(thread[s], inflight[s])

Closed(s) ==
    /\ closing[s] # "open" => ~accepting[s]
    /\ closing[s] = "clean" =>
          \A e \in Episode : runner[s][e] \notin {"begun", "driving"}

Shown(s) == shown[s] \in {0, episode[s]}

ServiceInv(s) ==
    Fresh(s) /\ Threads(s) /\ States(s) /\ Gate(s) /\ Closed(s) /\ Shown(s)

\* shutdown() has refused starts before its emergency stop goes out.
CloserCalls ==
    \A s \in Service : call[Closer] = Calls("estop", s) => closing[s] # "open"

IInv ==
    /\ TypeOK
    /\ SignalCount
    /\ CloserCalls
    /\ ~Gated => gate = NoService
    /\ \A s \in Service : ServiceInv(s)

-----------------------------------------------------------------------------
(* A thread inside an adapter call is counted: inflight cannot be zero.    *)
LEMMA FiniteSignalling ==
    ASSUME NEW s \in Service
    PROVE  IsFiniteSet(Signalling(s))
<1>1. IsFiniteSet(Caller)
  BY CallerAssumption, FS_Singleton, FS_Union DEF Caller
<1> QED
  BY <1>1, FS_Subset DEF Signalling

LEMMA CountedCall ==
    ASSUME TypeOK, SignalCount, NEW s \in Service, NEW c \in Caller,
           call[c] \in {Calls("stop", s), Calls("estop", s)}
    PROVE  inflight[s] \in Nat \ {0}
<1>1. c \in Signalling(s)
  BY DEF Signalling
<1>2. Cardinality(Signalling(s)) # 0
  BY <1>1, FiniteSignalling, FS_EmptySet
<1> QED
  BY <1>2 DEF SignalCount, TypeOK


(* What a settling step leaves is of the right type, whatever it settles.  *)
LEMMA SettlesType ==
    ASSUME TypeOK, NEW s \in Service, NEW st \in State, NEW r \in Reason,
           NEW thr, NEW n, Settles(s, st, r, thr, n)
    PROVE  /\ state' \in [Service -> State]
           /\ reason' \in [Service -> Reason]
           /\ gate' \in Service \cup {NoService}
<1>1. state' \in [Service -> State]
  BY DEF Settles, SettledState, TypeOK, State
<1>2. reason' \in [Service -> Reason]
  BY DEF Settles, SettledReason, TypeOK, Reason
<1>3. gate' \in Service \cup {NoService}
  BY DEF Settles, SettledGate, TypeOK
<1> QED
  BY <1>1, <1>2, <1>3

(* The request history stays a history when a request is added or evicted. *)
LEMMA EvictType ==
    ASSUME NEW h \in Seq(Request)
    PROVE  (IF Len(h) = HistoryLimit THEN Tail(h) ELSE h) \in Seq(Request)
<1>1. Len(h) = HistoryLimit => h # << >>
  BY LimitAssumption
<1> QED
  BY <1>1

LEMMA RememberType ==
    ASSUME NEW h \in Seq(Request), NEW r \in Request
    PROVE  Remember(h, r) \in Seq(Request)
BY EvictType DEF Remember

(* Every step keeps the types.                                             *)
LEMMA TypeStep == TypeOK /\ SignalCount /\ [Next]_vars => TypeOK'
<1> SUFFICES ASSUME TypeOK, SignalCount, [Next]_vars PROVE TypeOK'
  OBVIOUS
<1>1. ASSUME NEW s \in Service, NEW r \in Request, Start(s, r)
      PROVE  TypeOK'
  <2>1. attempts[s] \in Seq(Request \X BOOLEAN) /\ remembered[s] \in Seq(Request)
    BY DEF TypeOK
  <2>2. Len(attempts[s]) + 1 \in Episode
    BY <1>1, <2>1, LimitAssumption DEF Start, MayStart, Episode
  <2>3. Remember(remembered[s], r) \in Seq(Request)
    BY <2>1, RememberType
  <2>4. /\ episode' \in [Service -> Episode \cup {NoThread}]
        /\ thread' \in [Service -> Episode \cup {NoThread}]
        /\ shown' \in [Service -> Episode \cup {NoThread}]
    BY <1>1, <2>2 DEF Start, TypeOK, NoThread
  <2>5. remembered' \in [Service -> Seq(Request)]
    BY <1>1, <2>3 DEF Start, TypeOK
  <2>6. <<r, TRUE>> \in Request \X BOOLEAN
    OBVIOUS
  <2>7. Append(attempts[s], <<r, TRUE>>) \in Seq(Request \X BOOLEAN)
    BY <2>1, <2>6, AppendProperties
  <2>8. attempts' \in [Service -> Seq(Request \X BOOLEAN)]
    BY <1>1, <2>7 DEF Start, TypeOK
  <2>9. /\ runner' \in [Service -> [Episode -> RunnerState]]
        /\ pinned' \in [Service -> [Episode -> Nat]]
    BY <1>1, <2>2 DEF Start, TypeOK, RunnerState
  <2>10. /\ state' \in [Service -> State]
         /\ reason' \in [Service -> Reason]
         /\ gate' \in Service \cup {NoService}
    BY <1>1 DEF Start, TypeOK, State, Reason
  <2> QED
    BY <1>1, <2>4, <2>5, <2>8, <2>9, <2>10 DEF Start, TypeOK
<1>2. ASSUME NEW s \in Service, NEW r \in Request, StartRollsBack(s, r)
      PROVE  TypeOK'
  <2>1. attempts[s] \in Seq(Request \X BOOLEAN) /\ remembered[s] \in Seq(Request)
    BY DEF TypeOK
  <2>2. (IF Len(remembered[s]) = HistoryLimit THEN Tail(remembered[s])
         ELSE remembered[s]) \in Seq(Request)
    BY <2>1, EvictType
  <2>3. <<r, FALSE>> \in Request \X BOOLEAN
    OBVIOUS
  <2>4. Append(attempts[s], <<r, FALSE>>) \in Seq(Request \X BOOLEAN)
    BY <2>1, <2>3, AppendProperties
  <2>5. remembered' \in [Service -> Seq(Request)]
    BY <1>2, <2>2 DEF StartRollsBack, TypeOK
  <2>6. attempts' \in [Service -> Seq(Request \X BOOLEAN)]
    BY <1>2, <2>4 DEF StartRollsBack, TypeOK
  <2> QED
    BY <1>2, <2>5, <2>6 DEF StartRollsBack, TypeOK
<1>3. ASSUME NEW s \in Service, UpdateSettings(s)
      PROVE  TypeOK'
  BY <1>3 DEF UpdateSettings, TypeOK
<1>4. ASSUME NEW s \in Service, AcknowledgeFault(s)
      PROVE  TypeOK'
  BY <1>4 DEF AcknowledgeFault, TypeOK, State, Reason
<1>5. ASSUME NEW s \in Service, NEW e \in Episode, Publish(s, e)
      PROVE  TypeOK'
  BY <1>5 DEF Publish, TypeOK
<1>6. ASSUME NEW s \in Service, NEW e \in Episode, RunnerBegins(s, e)
      PROVE  TypeOK'
  BY <1>6 DEF RunnerBegins, TypeOK, State, RunnerState, Reason
<1>7. ASSUME NEW s \in Service, NEW e \in Episode, RunnerConcludes(s, e)
      PROVE  TypeOK'
  <2>1. runner' \in [Service -> [Episode -> RunnerState]]
    BY <1>7 DEF RunnerConcludes, TypeOK, RunnerState
  <2>2. reason' \in [Service -> Reason]
    BY <1>7 DEF RunnerConcludes, TerminalReason, TypeOK, Reason
  <2>3. state' \in [Service -> State]
    BY <1>7 DEF RunnerConcludes, TypeOK, State
  <2> QED
    BY <1>7, <2>1, <2>2, <2>3 DEF RunnerConcludes, TypeOK
<1>8. ASSUME NEW s \in Service, NEW e \in Episode, RunnerFaults(s, e)
      PROVE  TypeOK'
  <2>1. runner' \in [Service -> [Episode -> RunnerState]]
    BY <1>8 DEF RunnerFaults, TypeOK, RunnerState
  <2>2. /\ reason' \in [Service -> Reason]
        /\ state' \in [Service -> State]
    BY <1>8 DEF RunnerFaults, TypeOK, Reason, State
  <2>3. shown' \in [Service -> Episode \cup {NoThread}]
    BY ZenonT(60), <1>8 DEF RunnerFaults, TypeOK
  <2> QED
    BY <1>8, <2>1, <2>2, <2>3 DEF RunnerFaults, TypeOK
<1>9. ASSUME NEW s \in Service, NEW e \in Episode, RunnerUnwinds(s, e)
      PROVE  TypeOK'
  <2>1. runner' \in [Service -> [Episode -> RunnerState]]
    BY <1>9 DEF RunnerUnwinds, TypeOK, RunnerState
  <2>2. CASE e # episode[s]
    BY <1>9, <2>1, <2>2 DEF RunnerUnwinds, TypeOK
  <2>3. CASE e = episode[s]
    <3>1. state[s] \in State /\ reason[s] \in Reason
      BY DEF TypeOK
    <3>2. Settles(s, state[s], reason[s], NoThread, inflight[s])
      BY <1>9, <2>3 DEF RunnerUnwinds
    <3>3. thread' \in [Service -> Episode \cup {NoThread}]
      BY <1>9, <2>3 DEF RunnerUnwinds, TypeOK
    <3> QED
      BY <1>9, <2>1, <3>1, <3>2, <3>3, SettlesType DEF RunnerUnwinds, TypeOK
  <2> QED
    BY <2>2, <2>3
<1>10. ASSUME NEW s \in Service, NEW e \in Episode, NEW outcome \in Outcome,
              AdapterReturns(s, e, outcome)
       PROVE  TypeOK'
  BY <1>10 DEF AdapterReturns, Outcome, TypeOK, RunnerState
<1>11. ASSUME NEW s \in Service, NEW c \in Client, Stop(s, c)
       PROVE  TypeOK'
  <2>1. stopSet' \in [Service -> SUBSET Episode]
    BY <1>11 DEF Stop, SetStopEvent, TypeOK
  <2>2. /\ inflight' \in [Service -> Nat]
        /\ state' \in [Service -> State]
    BY <1>11 DEF Stop, TypeOK, State
  <2>3. call' \in [Caller -> Call]
    BY <1>11 DEF Stop, Calls, TypeOK, Call, Caller
  <2> QED
    BY <1>11, <2>1, <2>2, <2>3 DEF Stop, TypeOK
<1>12. ASSUME NEW s \in Service, NEW c \in Caller, SignalEmergency(s, c),
              UNCHANGED closing
       PROVE  TypeOK'
  <2>1. /\ stopSet' \in [Service -> SUBSET Episode]
        /\ estopSet' \in [Service -> SUBSET Episode]
    BY <1>12 DEF SignalEmergency, SetStopEvent, TypeOK
  <2>2. /\ inflight' \in [Service -> Nat]
        /\ state' \in [Service -> State]
    BY <1>12 DEF SignalEmergency, TypeOK, State
  <2>3. call' \in [Caller -> Call]
    BY <1>12 DEF SignalEmergency, Calls, TypeOK, Call
  <2> QED
    BY <1>12, <2>1, <2>2, <2>3 DEF SignalEmergency, TypeOK
<1>13. ASSUME NEW s \in Service, NEW c \in Caller, CallReturns(s, c)
       PROVE  TypeOK'
  <2>1. inflight[s] \in Nat \ {0}
    BY <1>13, CountedCall
       DEF CallReturns, StopReturns, EmergencyStopReturns, EmergencyStopFails
  <2>2. inflight' = [inflight EXCEPT ![s] = inflight[s] - 1]
    BY <1>13 DEF CallReturns, StopReturns, EmergencyStopReturns,
       EmergencyStopFails, SignalsLeft
  <2>3. inflight' \in [Service -> Nat]
    BY <2>1, <2>2 DEF TypeOK
  <2>4. call' \in [Caller -> Call]
    <3>1. call' = [call EXCEPT ![c] = NoCall]
      BY <1>13 DEF CallReturns, StopReturns, EmergencyStopReturns,
         EmergencyStopFails
    <3>2. NoCall \in Call
      BY DEF NoCall, Call
    <3> QED
      BY <3>1, <3>2 DEF TypeOK
  <2>5. closing' \in [Service -> Closing]
    BY <1>13 DEF CallReturns, StopReturns, EmergencyStopReturns,
       EmergencyStopFails, AfterCall, TypeOK, Closing
  <2>6. \E st \in State, r \in Reason :
            Settles(s, st, r, thread[s], SignalsLeft(s))
    <3>1. state[s] \in State /\ reason[s] \in Reason
      BY DEF TypeOK
    <3>2. "FAULTED" \in State /\ "faulted" \in Reason
      BY DEF State, Reason
    <3> QED
      BY <1>13, <3>1, <3>2 DEF CallReturns, StopReturns,
         EmergencyStopReturns, EmergencyStopFails
  <2>7. /\ state' \in [Service -> State]
        /\ reason' \in [Service -> Reason]
        /\ gate' \in Service \cup {NoService}
    BY <2>6, SettlesType
  <2> QED
    BY <1>13, <2>3, <2>4, <2>5, <2>7 DEF CallReturns, StopReturns,
       EmergencyStopReturns, EmergencyStopFails, TypeOK
<1>14. ASSUME NEW s \in Service, Shutdown(s)
       PROVE  TypeOK'
  BY <1>14 DEF Shutdown, TypeOK, Closing
<1>15. ASSUME NEW s \in Service, NEW result \in {"clean", "pending"},
              ShutdownJoins(s, result)
       PROVE  TypeOK'
  BY <1>15 DEF ShutdownJoins, TypeOK, Closing
<1>16. CASE UNCHANGED vars
  BY <1>16 DEF vars, TypeOK
<1> QED
  BY <1>1, <1>2, <1>3, <1>4, <1>5, <1>6, <1>7, <1>8, <1>9, <1>10, <1>11,
     <1>12, <1>13, <1>14, <1>15, <1>16
     DEF Next, ServiceStep, RunnerStep, EmergencyStop, ShutdownSignals,
        Caller

-----------------------------------------------------------------------------
(* inflight counts the calls: up when one begins, down when it returns.    *)
LEMMA CountUp ==
    ASSUME TypeOK, SignalCount, NEW s \in Service, NEW c \in Caller,
           NEW op \in {"stop", "estop"}, call[c] = NoCall,
           call' = [call EXCEPT ![c] = Calls(op, s)],
           inflight' = [inflight EXCEPT ![s] = @ + 1]
    PROVE  SignalCount'
<1> SUFFICES ASSUME NEW t \in Service
             PROVE  inflight'[t] = Cardinality(Signalling(t)')
  BY DEF SignalCount
<1>1. CASE t = s
  <2>1. c \notin Signalling(s)
    BY DEF Signalling, NoCall, Calls
  <2>2. Signalling(s)' = Signalling(s) \cup {c}
    BY DEF Signalling, Calls, TypeOK
  <2>3. Cardinality(Signalling(s)') = Cardinality(Signalling(s)) + 1
    BY <2>1, <2>2, FiniteSignalling, FS_AddElement
  <2> QED
    BY <1>1, <2>3 DEF SignalCount, TypeOK
<1>2. CASE t # s
  <2>1. Signalling(t)' = Signalling(t)
    BY <1>2 DEF Signalling, NoCall, Calls, TypeOK
  <2> QED
    BY <1>2, <2>1 DEF SignalCount, TypeOK
<1> QED
  BY <1>1, <1>2

LEMMA CountDown ==
    ASSUME TypeOK, SignalCount, NEW s \in Service, NEW c \in Caller,
           call[c] \in {Calls("stop", s), Calls("estop", s)},
           call' = [call EXCEPT ![c] = NoCall],
           inflight' = [inflight EXCEPT ![s] = @ - 1]
    PROVE  SignalCount'
<1> SUFFICES ASSUME NEW t \in Service
             PROVE  inflight'[t] = Cardinality(Signalling(t)')
  BY DEF SignalCount
<1>1. CASE t = s
  <2>1. c \in Signalling(s)
    BY DEF Signalling
  <2>2. Signalling(s)' = Signalling(s) \ {c}
    BY DEF Signalling, NoCall, Calls, TypeOK
  <2>3. Cardinality(Signalling(s)') = Cardinality(Signalling(s)) - 1
    BY <2>1, <2>2, FiniteSignalling, FS_RemoveElement
  <2> QED
    BY <1>1, <2>3 DEF SignalCount, TypeOK
<1>2. CASE t # s
  <2>1. Signalling(t)' = Signalling(t)
    BY <1>2 DEF Signalling, NoCall, Calls, TypeOK
  <2> QED
    BY <1>2, <2>1 DEF SignalCount, TypeOK
<1> QED
  BY <1>1, <1>2

LEMMA CountStep == TypeOK /\ SignalCount /\ [Next]_vars => SignalCount'
<1> SUFFICES ASSUME TypeOK, SignalCount, [Next]_vars PROVE SignalCount'
  OBVIOUS
<1>1. ASSUME NEW s \in Service, NEW c \in Caller,
             Stop(s, c) \/ SignalEmergency(s, c)
      PROVE  SignalCount'
  <2>1. \E op \in {"stop", "estop"} : call' = [call EXCEPT ![c] = Calls(op, s)]
    BY <1>1 DEF Stop, SignalEmergency
  <2> QED
    BY <1>1, <2>1, CountUp DEF Stop, SignalEmergency
<1>2. ASSUME NEW s \in Service, NEW c \in Caller, CallReturns(s, c)
      PROVE  SignalCount'
  BY <1>2, CountDown DEF CallReturns, StopReturns, EmergencyStopReturns,
     EmergencyStopFails, SignalsLeft
<1>3. ASSUME UNCHANGED <<call, inflight>>
      PROVE  SignalCount'
  BY <1>3 DEF SignalCount, Signalling
<1>4. CASE UNCHANGED vars
  BY <1>3, <1>4 DEF vars
<1>5. ASSUME NEW s \in Service,
             \/ \E r \in Request : Start(s, r) \/ StartRollsBack(s, r)
             \/ UpdateSettings(s)
             \/ AcknowledgeFault(s)
             \/ \E e \in Episode :
                  \/ Publish(s, e)
                  \/ RunnerStep(s, e)
                  \/ \E outcome \in Outcome : AdapterReturns(s, e, outcome)
             \/ Shutdown(s)
             \/ \E result \in {"clean", "pending"} : ShutdownJoins(s, result)
      PROVE  UNCHANGED <<call, inflight>>
  BY <1>5 DEF Start, StartRollsBack, UpdateSettings, AcknowledgeFault,
     Publish, RunnerStep, RunnerBegins, RunnerConcludes, RunnerFaults,
     RunnerUnwinds, AdapterReturns, Shutdown, ShutdownJoins
<1> QED
  BY <1>1, <1>2, <1>3, <1>4, <1>5
     DEF Next, ServiceStep, EmergencyStop, ShutdownSignals, Caller

LEMMA CloserStep == TypeOK /\ CloserCalls /\ [Next]_vars => CloserCalls'
<1> SUFFICES ASSUME TypeOK, CloserCalls, [Next]_vars PROVE CloserCalls'
  OBVIOUS
<1>1. ASSUME NEW s \in Service, NEW c \in Client, Stop(s, c) \/ EmergencyStop(s, c)
      PROVE  CloserCalls'
  BY <1>1, CallerAssumption
     DEF Stop, EmergencyStop, SignalEmergency, TypeOK, CloserCalls, Caller
<1>2. ASSUME NEW s \in Service, NEW c \in Caller, CallReturns(s, c)
      PROVE  CloserCalls'
  <2>1. call' = [call EXCEPT ![c] = NoCall]
    BY <1>2 DEF CallReturns, StopReturns, EmergencyStopReturns,
       EmergencyStopFails
  <2>2. \A t \in Service : closing'[t] \in {closing[t], "join"}
    BY <1>2 DEF CallReturns, StopReturns, EmergencyStopReturns,
       EmergencyStopFails, AfterCall, TypeOK
  <2>3. \A t \in Service : NoCall # Calls("estop", t)
    BY DEF NoCall, Calls
  <2> QED
    BY <2>1, <2>2, <2>3 DEF TypeOK, CloserCalls, Caller
<1>3. ASSUME NEW s \in Service, ShutdownSignals(s)
      PROVE  CloserCalls'
  BY <1>3 DEF ShutdownSignals, SignalEmergency, Calls, TypeOK, CloserCalls,
     Caller
<1>4. ASSUME NEW s \in Service, NEW result \in {"clean", "pending"},
             Shutdown(s) \/ ShutdownJoins(s, result)
      PROVE  CloserCalls'
  BY <1>4 DEF Shutdown, ShutdownJoins, TypeOK, CloserCalls
<1>5. ASSUME UNCHANGED <<call, closing>>
      PROVE  CloserCalls'
  BY <1>5 DEF CloserCalls
<1>6. CASE UNCHANGED vars
  BY <1>5, <1>6 DEF vars
<1>7. ASSUME NEW s \in Service,
             \/ \E r \in Request : Start(s, r) \/ StartRollsBack(s, r)
             \/ UpdateSettings(s)
             \/ AcknowledgeFault(s)
             \/ \E e \in Episode :
                  \/ Publish(s, e)
                  \/ RunnerStep(s, e)
                  \/ \E outcome \in Outcome : AdapterReturns(s, e, outcome)
      PROVE  UNCHANGED <<call, closing>>
  BY <1>7 DEF Start, StartRollsBack, UpdateSettings, AcknowledgeFault,
     Publish, RunnerStep, RunnerBegins, RunnerConcludes, RunnerFaults,
     RunnerUnwinds, AdapterReturns
<1> QED
  BY <1>1, <1>2, <1>3, <1>4, <1>5, <1>6, <1>7 DEF Next, ServiceStep

-----------------------------------------------------------------------------
(* A step of one service leaves the invariant of another alone: what they  *)
(* share is the gate, and neither takes or releases it for the other.      *)
Undisturbed(t) ==
    /\ UNCHANGED <<state[t], accepting[t], episode[t], thread[t], inflight[t],
                   revision[t], shown[t], runner[t], stopSet[t], pinned[t],
                   closing[t], attempts[t]>>
    /\ gate' = t <=> gate = t

LEMMA ElsewhereInv ==
    ASSUME NEW t \in Service, ServiceInv(t), Undisturbed(t)
    PROVE  ServiceInv(t)'
BY DEF Undisturbed, ServiceInv, Fresh, Threads, States, Gate, Closed, Shown,
   Quiescent

LEMMA Elsewhere ==
    ASSUME TypeOK, NEW s \in Service, NEW t \in Service, t # s, ServiceStep(s)
    PROVE  Undisturbed(t)
<1>1. ASSUME NEW r \in Request, Start(s, r)
      PROVE  Undisturbed(t)
  BY <1>1, ServiceAssumption, GateAssumption
     DEF Start, MayStart, GateFree, TypeOK, Undisturbed
<1>2. ASSUME NEW r \in Request, StartRollsBack(s, r)
      PROVE  Undisturbed(t)
  BY <1>2 DEF StartRollsBack, TypeOK, Undisturbed
<1>3. ASSUME NEW e \in Episode, Publish(s, e)
      PROVE  Undisturbed(t)
  BY <1>3 DEF Publish, TypeOK, Undisturbed
<1>4. ASSUME NEW e \in Episode, RunnerStep(s, e)
      PROVE  Undisturbed(t)
  BY <1>4, ServiceAssumption DEF RunnerStep, RunnerBegins, RunnerConcludes,
     RunnerFaults, RunnerUnwinds, Settles, SettledGate, TypeOK, Undisturbed
<1>5. ASSUME NEW e \in Episode, NEW outcome \in Outcome,
             AdapterReturns(s, e, outcome)
      PROVE  Undisturbed(t)
  BY <1>5 DEF AdapterReturns, TypeOK, Undisturbed
<1>6. ASSUME NEW c \in Caller, SignalEmergency(s, c), UNCHANGED closing
      PROVE  Undisturbed(t)
  BY <1>6 DEF SignalEmergency, SetStopEvent, TypeOK, Undisturbed
<1>7. ASSUME NEW c \in Caller, CallReturns(s, c)
      PROVE  Undisturbed(t)
  BY <1>7, ServiceAssumption DEF CallReturns, StopReturns,
     EmergencyStopReturns, EmergencyStopFails, AfterCall, Settles,
     SettledGate, TypeOK, Undisturbed
<1>8. ASSUME NEW result \in {"clean", "pending"},
             \/ UpdateSettings(s)
             \/ AcknowledgeFault(s)
             \/ Shutdown(s)
             \/ ShutdownJoins(s, result)
      PROVE  Undisturbed(t)
  BY <1>8 DEF UpdateSettings, AcknowledgeFault, Shutdown, ShutdownJoins,
     TypeOK, Undisturbed
<1> QED
  <2>1. ASSUME NEW c \in Client, EmergencyStop(s, c)
        PROVE  Undisturbed(t)
    BY <1>6, <2>1 DEF EmergencyStop, Caller
  <2>3. ASSUME NEW c \in Client, Stop(s, c)
        PROVE  Undisturbed(t)
    BY <2>3 DEF Stop, SetStopEvent, TypeOK, Undisturbed
  <2>2. ASSUME ShutdownSignals(s)
        PROVE  Undisturbed(t)
    BY <1>6, <2>2 DEF ShutdownSignals, Caller
  <2> QED
    BY <1>1, <1>2, <1>3, <1>4, <1>5, <1>7, <1>8, <2>1, <2>2, <2>3
       DEF ServiceStep

-----------------------------------------------------------------------------
(* The steps of a thread.                                                  *)
RunnerFrame(s) ==
    UNCHANGED <<accepting[s], episode[s], inflight[s], revision[s],
                stopSet[s], pinned[s], closing[s], attempts[s]>>

RunnerMoves(s, e, where) ==
    \A f \in Episode :
        runner'[s][f] = IF f = e THEN where ELSE runner[s][f]

(* A thread that gets past its last critical section is still registered.  *)
LEMMA LeavesInv ==
    ASSUME IInv, NEW s \in Service, NEW e \in Episode, runner[s][e] \in Working,
           RunnerMoves(s, e, "unwinding"), RunnerFrame(s),
           UNCHANGED <<thread[s], gate>>,
           shown'[s] \in {shown[s], e},
           state'[s] \in {state[s], "IDLE", "FAULTED"},
           state'[s] \notin {"STARTING", "RUNNING"}
    PROVE  ServiceInv(s)'
<1>1. /\ ServiceInv(s)
      /\ inflight[s] \in Nat
      /\ Len(attempts[s]) \in Nat
  BY DEF IInv, TypeOK
<1>2. thread[s] = e /\ episode[s] = e /\ e # NoThread
  BY <1>1 DEF ServiceInv, Threads, Episode, NoThread
<1>3. Fresh(s)'
  BY <1>1 DEF ServiceInv, Fresh, RunnerFrame, RunnerMoves, Working, Alive
<1>4. Threads(s)' /\ States(s)'
  BY <1>1, <1>2 DEF ServiceInv, Threads, States, RunnerFrame, RunnerMoves,
     Working, InAdapter, Alive, Quiescent
<1>5. Gate(s)' /\ Shown(s)'
  BY <1>1, <1>2 DEF ServiceInv, Gate, Shown, RunnerFrame, Active, Quiescent
<1>6. Closed(s)'
  BY <1>1 DEF ServiceInv, Closed, RunnerFrame, RunnerMoves
<1> QED
  BY <1>3, <1>4, <1>5, <1>6 DEF ServiceInv

LEMMA BeginsInv ==
    ASSUME IInv, NEW s \in Service, NEW e \in Episode, RunnerBegins(s, e)
    PROVE  ServiceInv(s)'
<1>1. /\ ServiceInv(s)
      /\ inflight[s] \in Nat
      /\ Len(attempts[s]) \in Nat
  BY DEF IInv, TypeOK
<1>2. thread[s] = e /\ episode[s] = e /\ e # NoThread
  BY <1>1 DEF RunnerBegins, ServiceInv, Threads, Working, Alive, Episode,
     NoThread
<1>3. RunnerFrame(s) /\ UNCHANGED <<thread[s], shown[s], gate>>
  BY DEF RunnerBegins, RunnerFrame
<1>4. CASE state[s] = "STARTING"
  <2>1. RunnerMoves(s, e, "driving") /\ state'[s] = "RUNNING"
    BY <1>2, <1>4 DEF IInv, TypeOK, RunnerBegins, RunnerMoves, MayDrive
  <2>2. Fresh(s)'
    BY <1>1, <1>3, <2>1
       DEF ServiceInv, Fresh, RunnerFrame, RunnerMoves, RunnerBegins
  <2>3. Threads(s)' /\ States(s)'
    BY <1>1, <1>2, <1>3, <1>4, <2>1 DEF ServiceInv, Threads, States,
       RunnerFrame, RunnerMoves, RunnerBegins, Working, InAdapter, Alive,
       Quiescent
  <2>4. Gate(s)' /\ Shown(s)'
    BY <1>1, <1>2, <1>3, <1>4, <2>1
       DEF ServiceInv, Gate, Shown, RunnerFrame, Active, Quiescent
  <2>5. Closed(s)'
    BY <1>1, <1>3, <2>1
       DEF ServiceInv, Closed, RunnerFrame, RunnerMoves, RunnerBegins
  <2> QED
    BY <2>2, <2>3, <2>4, <2>5 DEF ServiceInv
<1>5. CASE state[s] # "STARTING"
  <2>1. /\ RunnerMoves(s, e, "unwinding")
        /\ state'[s] \in {state[s], "IDLE"}
    BY <1>5 DEF IInv, TypeOK, RunnerBegins, RunnerMoves, MayDrive
  <2>2. state[s] # "RUNNING" /\ runner[s][e] \in Working
    BY <1>1 DEF RunnerBegins, ServiceInv, Threads, Working, Alive
  <2> QED
    BY <1>3, <1>5, <2>1, <2>2, LeavesInv
<1> QED
  BY <1>4, <1>5

LEMMA AdapterInv ==
    ASSUME IInv, NEW s \in Service, NEW e \in Episode, NEW outcome \in Outcome,
           AdapterReturns(s, e, outcome)
    PROVE  ServiceInv(s)'
<1>1. /\ ServiceInv(s)
      /\ Len(attempts[s]) \in Nat
  BY DEF IInv, TypeOK
<1>2. /\ RunnerFrame(s)
      /\ RunnerMoves(s, e, outcome)
      /\ UNCHANGED <<state[s], thread[s], shown[s], gate>>
  BY DEF IInv, TypeOK, AdapterReturns, RunnerFrame, RunnerMoves
<1>3. runner[s][e] = "driving" /\ outcome \in InAdapter \ {"driving"}
  BY DEF AdapterReturns, Outcome, InAdapter, Working, Alive
<1>4. Fresh(s)'
  BY <1>1, <1>2, <1>3 DEF ServiceInv, Fresh, RunnerFrame, RunnerMoves
<1>5. Threads(s)'
  BY <1>1, <1>2, <1>3 DEF ServiceInv, Threads, RunnerFrame, RunnerMoves,
     Working, InAdapter, Alive
<1>6. States(s)' /\ Gate(s)' /\ Shown(s)'
  BY <1>1, <1>2, <1>3 DEF ServiceInv, States, Gate, Shown, RunnerFrame,
     RunnerMoves, InAdapter, Quiescent
<1>7. Closed(s)'
  BY <1>1, <1>2, <1>3 DEF ServiceInv, Closed, RunnerFrame, RunnerMoves,
     InAdapter, Working, Alive
<1> QED
  BY <1>4, <1>5, <1>6, <1>7 DEF ServiceInv

LEMMA ConcludesInv ==
    ASSUME IInv, NEW s \in Service, NEW e \in Episode,
           RunnerConcludes(s, e) \/ RunnerFaults(s, e)
    PROVE  ServiceInv(s)'
<1>1. ServiceInv(s) /\ inflight[s] \in Nat
  BY DEF IInv, TypeOK
<1>2. runner[s][e] \in InAdapter /\ runner[s][e] \in Working
  BY DEF RunnerConcludes, RunnerFaults, InAdapter, Working, Alive
<1>3. /\ thread[s] = e
      /\ episode[s] = e
      /\ state[s] \in {"RUNNING", "STOPPING", "FAULTED"}
  BY <1>1, <1>2 DEF ServiceInv, Threads, Episode, NoThread
<1>4. /\ RunnerFrame(s)
      /\ RunnerMoves(s, e, "unwinding")
      /\ UNCHANGED <<thread[s], gate>>
  BY DEF IInv, TypeOK, RunnerConcludes, RunnerFaults, RunnerFrame, RunnerMoves
<1>5. CASE RunnerConcludes(s, e)
  <2>1. shown'[s] = shown[s]
    BY <1>5 DEF RunnerConcludes
  <2>2. state'[s] = IF state[s] # "FAULTED" /\ inflight[s] = 0 THEN "IDLE"
                    ELSE state[s]
    BY <1>3, <1>5 DEF IInv, TypeOK, RunnerConcludes, MayConclude
  <2>3. state'[s] \notin {"STARTING", "RUNNING"}
    BY <1>1, <1>3, <2>2 DEF ServiceInv, States
  <2> QED
    BY <1>2, <1>4, <2>1, <2>2, <2>3, LeavesInv
<1>6. CASE RunnerFaults(s, e)
  <2>1. state'[s] = "FAULTED" /\ shown'[s] \in {shown[s], e}
    BY <1>3, <1>6 DEF IInv, TypeOK, RunnerFaults, MayConclude
  <2> QED
    BY <1>2, <1>4, <2>1, LeavesInv
<1> QED
  BY <1>5, <1>6

(* What a settling step leaves: it never enters an active state, it leaves *)
(* STOPPING only when nothing is left to do, and then gives up the gate.   *)
LEMMA SettlesInv ==
    ASSUME TypeOK, NEW s \in Service, NEW st \in State, NEW r, NEW thr, NEW n,
           Settles(s, st, r, thr, n)
    PROVE  /\ state'[s] = IF st = "STOPPING" /\ Quiescent(thr, n) THEN "IDLE"
                          ELSE st
           /\ gate' = IF /\ gate = s
                         /\ Quiescent(thr, n)
                         /\ state'[s] \notin Active
                      THEN NoService ELSE gate
BY DEF Settles, SettledState, SettledGate, TypeOK

LEMMA UnwindsInv ==
    ASSUME IInv, NEW s \in Service, NEW e \in Episode, RunnerUnwinds(s, e)
    PROVE  ServiceInv(s)'
<1>1. /\ ServiceInv(s)
      /\ inflight[s] \in Nat
      /\ Len(attempts[s]) \in Nat
      /\ state[s] \in State
  BY DEF IInv, TypeOK
<1>2. /\ RunnerFrame(s)
      /\ RunnerMoves(s, e, "done")
      /\ runner[s][e] = "unwinding"
      /\ UNCHANGED shown[s]
  BY DEF IInv, TypeOK, RunnerUnwinds, RunnerFrame, RunnerMoves
<1>3. Fresh(s)' /\ Closed(s)' /\ Shown(s)'
  BY <1>1, <1>2 DEF ServiceInv, Fresh, Closed, Shown, RunnerFrame, RunnerMoves
<1>4. CASE e # episode[s]
  <2>1. UNCHANGED <<state[s], thread[s], gate>>
    BY <1>4 DEF RunnerUnwinds
  <2>2. Threads(s)'
    BY <1>1, <1>2, <1>4, <2>1 DEF ServiceInv, Threads, RunnerFrame,
       RunnerMoves, Working, InAdapter, Alive, Episode, NoThread
  <2>3. States(s)' /\ Gate(s)'
    BY <1>1, <1>2, <2>1 DEF ServiceInv, States, Gate, RunnerFrame,
       RunnerMoves, Threads, Working, Quiescent
  <2> QED
    BY <1>3, <2>2, <2>3 DEF ServiceInv
<1>5. CASE e = episode[s]
  <2>1. /\ thread'[s] = NoThread
        /\ Settles(s, state[s], reason[s], NoThread, inflight[s])
    BY <1>5 DEF RunnerUnwinds, IInv, TypeOK
  <2>2. /\ state'[s] = IF state[s] = "STOPPING" /\ inflight[s] = 0 THEN "IDLE"
                       ELSE state[s]
        /\ gate' = IF gate = s /\ inflight[s] = 0 /\ state'[s] \notin Active
                   THEN NoService ELSE gate
    BY <1>1, <2>1, SettlesInv DEF IInv, Quiescent
  <2>3. \A f \in Episode : runner[s][f] \notin Working
    BY <1>1, <1>2, <1>5 DEF ServiceInv, Threads, Working, Alive, Episode,
       NoThread
  <2>4. state[s] \notin {"STARTING", "RUNNING"}
    BY <1>1, <2>3 DEF ServiceInv, States
  <2>5. Threads(s)'
    BY <1>1, <1>2, <2>1, <2>3 DEF ServiceInv, Threads, RunnerFrame,
       RunnerMoves, Working, InAdapter, Alive, Episode, NoThread
  <2>6. States(s)'
    BY <1>1, <1>2, <2>1, <2>2, <2>4 DEF ServiceInv, States, RunnerFrame,
       Quiescent, NoThread, Episode
  <2>7. Gate(s)'
    BY <1>1, <1>2, <2>1, <2>2, <2>4, ServiceAssumption
       DEF ServiceInv, Gate, RunnerFrame, Active, Quiescent
  <2> QED
    BY <1>3, <2>5, <2>6, <2>7 DEF ServiceInv
<1> QED
  BY <1>4, <1>5

-----------------------------------------------------------------------------
(* The requests.                                                           *)
LEMMA StartInv ==
    ASSUME IInv, NEW s \in Service, NEW r \in Request, Start(s, r), TypeOK'
    PROVE  ServiceInv(s)'
<1> DEFINE e == Len(attempts[s]) + 1
<1>1. /\ ServiceInv(s)
      /\ attempts[s] \in Seq(Request \X BOOLEAN)
      /\ Len(attempts[s]) \in Nat
  BY SMTT(30) DEF IInv, TypeOK
<1>2. e \in Episode /\ state[s] = "IDLE" /\ inflight[s] = 0 /\ accepting[s]
  BY <1>1, LimitAssumption
     DEF Start, MayStart, RobotIdle, Accepts, Episode
<1>3. Len(attempts'[s]) = e
  <2>1. attempts' = [attempts EXCEPT ![s] = Append(attempts[s], <<r, TRUE>>)]
    BY DEF Start
  <2>2. attempts'[s] = Append(attempts[s], <<r, TRUE>>)
    BY <2>1 DEF IInv, TypeOK
  <2>3. <<r, TRUE>> \in Request \X BOOLEAN
    OBVIOUS
  <2> QED
    BY <1>1, <2>2, <2>3, AppendProperties
<1>4. /\ RunnerMoves(s, e, "begun")
      /\ \A f \in Episode : pinned'[s][f] = IF f = e THEN revision[s]
                                            ELSE pinned[s][f]
  BY DEF Start, IInv, TypeOK, RunnerMoves
<1>5. /\ episode'[s] = e
      /\ thread'[s] = e
      /\ state'[s] = "STARTING"
      /\ shown'[s] = 0
      /\ gate' = IF Gated THEN s ELSE gate
      /\ UNCHANGED <<accepting[s], inflight[s], revision[s], stopSet[s],
                     closing[s]>>
  BY DEF Start, IInv, TypeOK
<1> HIDE DEF e
<1>6. \A f \in Episode : runner[s][f] \notin Working
  BY <1>1, <1>2 DEF ServiceInv, Threads, Working, InAdapter, Alive
<1>7. Fresh(s)'
  <2>1. e = Len(attempts[s]) + 1
    BY DEF e
  <2> QED
    BY <1>1, <1>2, <1>3, <1>4, <1>5, <2>1, LimitAssumption
       DEF ServiceInv, Fresh, RunnerMoves, Episode
<1>8. Threads(s)'
  BY <1>2, <1>4, <1>5, <1>6
     DEF Threads, RunnerMoves, Working, InAdapter, Alive
<1>9. States(s)'
  <2>1. e \notin stopSet[s]
    BY <1>1, <1>2 DEF ServiceInv, Fresh, e
  <2> QED
    BY <1>2, <1>4, <1>5, <2>1 DEF States, RunnerMoves, Working, Alive
<1>10. Gate(s)' /\ Shown(s)'
  BY <1>5 DEF Gate, Shown, Active
<1>11. Closed(s)'
  BY <1>1, <1>2, <1>5 DEF ServiceInv, Closed
<1> QED
  BY <1>7, <1>8, <1>9, <1>10, <1>11 DEF ServiceInv

LEMMA RollBackInv ==
    ASSUME IInv, NEW s \in Service, NEW r \in Request, StartRollsBack(s, r)
    PROVE  ServiceInv(s)'
<1>1. /\ ServiceInv(s)
      /\ attempts[s] \in Seq(Request \X BOOLEAN)
      /\ Len(attempts[s]) \in Nat
      /\ Len(attempts[s]) < MaxAttempts
  BY DEF IInv, TypeOK, StartRollsBack, MayStart
<1>2. UNCHANGED <<state, accepting, episode, thread, inflight, revision,
                  shown, gate, runner, stopSet, pinned, closing>>
  BY DEF StartRollsBack
<1>3. Len(attempts'[s]) = Len(attempts[s]) + 1
  <2>1. attempts' = [attempts EXCEPT ![s] = Append(attempts[s], <<r, FALSE>>)]
    BY DEF StartRollsBack
  <2>2. attempts'[s] = Append(attempts[s], <<r, FALSE>>)
    BY <2>1 DEF IInv, TypeOK
  <2>3. <<r, FALSE>> \in Request \X BOOLEAN
    OBVIOUS
  <2> QED
    BY <1>1, <2>2, <2>3, AppendProperties
<1>4. Fresh(s)'
  <2>1. episode[s] \in Nat /\ \A e \in Episode : e \in Nat
    BY LimitAssumption DEF IInv, TypeOK, Episode, NoThread
  <2> QED
    BY <1>1, <1>2, <1>3, <2>1, LimitAssumption DEF ServiceInv, Fresh
<1> QED
  BY <1>1, <1>2, <1>4 DEF ServiceInv, Threads, States, Gate, Closed, Shown,
     Quiescent

(* No thread works for an idle robot, so nobody sees the settings change.  *)
LEMMA SettingsInv ==
    ASSUME IInv, NEW s \in Service, UpdateSettings(s)
    PROVE  ServiceInv(s)'
<1>1. ServiceInv(s) /\ state[s] = "IDLE"
  BY DEF IInv, UpdateSettings, RobotIdle
<1>2. UNCHANGED <<state, accepting, episode, thread, inflight, shown, gate,
                  runner, stopSet, pinned, closing, attempts>>
  BY DEF UpdateSettings
<1>3. \A f \in Episode : runner[s][f] \notin Working
  BY <1>1 DEF ServiceInv, Threads, Working, InAdapter, Alive
<1>4. Threads(s)'
  BY <1>1, <1>2, <1>3 DEF ServiceInv, Threads, Working, InAdapter, Alive
<1> QED
  BY <1>1, <1>2, <1>4 DEF ServiceInv, Fresh, States, Gate, Closed, Shown,
     Quiescent

LEMMA AcknowledgeInv ==
    ASSUME IInv, NEW s \in Service, AcknowledgeFault(s)
    PROVE  ServiceInv(s)'
<1>1. /\ ServiceInv(s)
      /\ state[s] = "FAULTED"
      /\ Quiescent(thread[s], inflight[s])
  BY DEF IInv, AcknowledgeFault
<1>2. /\ UNCHANGED <<accepting, episode, thread, inflight, revision, shown,
                     gate, runner, stopSet, pinned, closing, attempts>>
      /\ state'[s] = "IDLE"
  BY DEF AcknowledgeFault, IInv, TypeOK
<1>3. \A f \in Episode : runner[s][f] \notin Working
  BY <1>1 DEF ServiceInv, Threads, Working, Alive, Quiescent, Episode, NoThread
<1>4. Threads(s)'
  BY <1>1, <1>2, <1>3 DEF ServiceInv, Threads, Working, InAdapter, Alive
<1>5. States(s)' /\ Gate(s)'
  BY <1>1, <1>2 DEF ServiceInv, States, Gate, Active, Quiescent
<1> QED
  BY <1>1, <1>2, <1>4, <1>5 DEF ServiceInv, Fresh, Closed, Shown

LEMMA PublishInv ==
    ASSUME IInv, NEW s \in Service, NEW e \in Episode, Publish(s, e)
    PROVE  ServiceInv(s)'
<1>1. ServiceInv(s) /\ shown'[s] = episode[s]
  BY DEF IInv, TypeOK, Publish
<1>2. UNCHANGED <<state, accepting, episode, thread, inflight, revision, gate,
                  runner, stopSet, pinned, closing, attempts>>
  BY DEF Publish
<1> QED
  BY <1>1, <1>2 DEF ServiceInv, Fresh, Threads, States, Gate, Closed, Shown,
     Quiescent

(* A signal goes out: the registered thread has its stop event set first.  *)
LEMMA SignalInv ==
    ASSUME IInv, NEW s \in Service, NEW c \in Caller,
           Stop(s, c) \/ SignalEmergency(s, c), closing' = closing
    PROVE  ServiceInv(s)'
<1>1. /\ ServiceInv(s)
      /\ inflight[s] \in Nat
      /\ Len(attempts[s]) \in Nat
  BY DEF IInv, TypeOK
<1>2. /\ UNCHANGED <<accepting[s], episode[s], thread[s], revision[s],
                     shown[s], gate, runner[s], pinned[s], closing[s],
                     attempts[s]>>
      /\ inflight'[s] = inflight[s] + 1
      /\ stopSet'[s] = stopSet[s] \cup ({thread[s]} \ {NoThread})
  BY DEF Stop, SignalEmergency, SetStopEvent, IInv, TypeOK
<1>3. state'[s] = IF state[s] \in {"STARTING", "RUNNING"} THEN "STOPPING"
                  ELSE state[s]
  BY DEF Stop, SignalEmergency, IInv, TypeOK
<1>4. Fresh(s)'
  BY <1>1, <1>2 DEF ServiceInv, Fresh, Threads, Alive, Episode, NoThread
<1>5. Threads(s)'
  BY <1>1, <1>2, <1>3 DEF ServiceInv, Threads
<1>6. States(s)' /\ Gate(s)'
  BY <1>1, <1>2, <1>3 DEF ServiceInv, States, Gate, Active, Quiescent
<1> QED
  BY <1>1, <1>2, <1>4, <1>5, <1>6 DEF ServiceInv, Closed, Shown

(* A call returns: the last one out settles what the thread has left.      *)
LEMMA ReturnInv ==
    ASSUME IInv, NEW s \in Service, NEW c \in Caller, CallReturns(s, c)
    PROVE  ServiceInv(s)'
<1>1. /\ ServiceInv(s)
      /\ inflight[s] \in Nat \ {0}
      /\ state[s] \in State
    BY CountedCall DEF CallReturns, StopReturns, EmergencyStopReturns,
       EmergencyStopFails, IInv, TypeOK
<1>2. /\ UNCHANGED <<accepting[s], episode[s], thread[s], revision[s],
                     shown[s], runner[s], stopSet[s], pinned[s], attempts[s]>>
      /\ inflight'[s] = inflight[s] - 1
  BY DEF CallReturns, StopReturns, EmergencyStopReturns, EmergencyStopFails,
     SignalsLeft, IInv, TypeOK
<1>3. PICK st \in {state[s], "FAULTED"} :
          /\ state'[s] = IF st = "STOPPING"
                            /\ Quiescent(thread[s], inflight'[s])
                         THEN "IDLE" ELSE st
          /\ gate' = IF /\ gate = s
                        /\ Quiescent(thread[s], inflight'[s])
                        /\ state'[s] \notin Active
                     THEN NoService ELSE gate
  <2>1. \E st \in {state[s], "FAULTED"}, r \in Reason :
            Settles(s, st, r, thread[s], SignalsLeft(s))
    BY DEF CallReturns, StopReturns, EmergencyStopReturns,
       EmergencyStopFails, IInv, TypeOK, Reason
  <2>2. SignalsLeft(s) = inflight'[s] /\ "FAULTED" \in State
    BY <1>2 DEF SignalsLeft, State
  <2> QED
    BY <1>1, <2>1, <2>2, SettlesInv DEF IInv
<1>4. /\ closing'[s] \in {closing[s], "join"}
      /\ closing'[s] # closing[s] => ~accepting[s]
  <2>1. CASE c = Closer /\ call[c] = Calls("estop", s)
    BY <1>1, <2>1 DEF CallReturns, StopReturns, EmergencyStopReturns,
       EmergencyStopFails, AfterCall, IInv, TypeOK, CloserCalls, ServiceInv,
       Closed
  <2>2. CASE c # Closer \/ call[c] # Calls("estop", s)
    BY <2>2 DEF CallReturns, StopReturns, EmergencyStopReturns,
       EmergencyStopFails, AfterCall
  <2> QED
    BY <2>1, <2>2
<1>5. state[s] \notin {"STARTING", "RUNNING"}
  BY <1>1 DEF ServiceInv, States
<1>6. Fresh(s)' /\ Shown(s)'
  BY <1>1, <1>2 DEF ServiceInv, Fresh, Shown
<1>7. Closed(s)'
  BY <1>1, <1>2, <1>4 DEF ServiceInv, Closed
<1>8. Threads(s)'
  BY <1>1, <1>2, <1>3, <1>5 DEF ServiceInv, Threads, Working, InAdapter,
     Alive, Quiescent, Episode, NoThread
<1>9. States(s)'
  BY <1>1, <1>2, <1>3, <1>5 DEF ServiceInv, States, Quiescent
<1>10. Gate(s)'
  BY <1>1, <1>2, <1>3, <1>5, ServiceAssumption
     DEF ServiceInv, Gate, Active, Quiescent
<1> QED
  BY <1>6, <1>7, <1>8, <1>9, <1>10 DEF ServiceInv

LEMMA ShutdownInv ==
    ASSUME IInv, NEW s \in Service, NEW result \in {"clean", "pending"},
           Shutdown(s) \/ ShutdownJoins(s, result)
    PROVE  ServiceInv(s)'
<1>1. ServiceInv(s)
  BY DEF IInv
<1>2. UNCHANGED <<state, episode, thread, inflight, revision, shown, gate,
                  runner, stopSet, pinned, attempts>>
  BY DEF Shutdown, ShutdownJoins
<1>3. /\ closing'[s] # "open" => ~accepting'[s]
      /\ closing'[s] = "clean" =>
             \A e \in Episode : e = episode[s] => runner[s][e] = "done"
  BY <1>1 DEF Shutdown, ShutdownJoins, IInv, TypeOK, ServiceInv, Closed
<1>4. Closed(s)'
  BY <1>1, <1>2, <1>3
     DEF ServiceInv, Closed, Threads, Working, Alive, Episode, NoThread
<1> QED
  BY <1>1, <1>2, <1>4 DEF ServiceInv, Fresh, Threads, States, Gate, Shown,
     Quiescent

-----------------------------------------------------------------------------
(* The invariant.                                                          *)
LEMMA ServiceStepInv ==
    ASSUME IInv, TypeOK', NEW s \in Service, ServiceStep(s)
    PROVE  ServiceInv(s)'
<1>1. ASSUME NEW r \in Request, Start(s, r) \/ StartRollsBack(s, r)
      PROVE  ServiceInv(s)'
  BY <1>1, StartInv, RollBackInv
<1>2. ASSUME NEW e \in Episode, Publish(s, e) \/ RunnerStep(s, e)
      PROVE  ServiceInv(s)'
  BY <1>2, PublishInv, BeginsInv, ConcludesInv, UnwindsInv DEF RunnerStep
<1>3. ASSUME NEW e \in Episode, NEW outcome \in Outcome,
             AdapterReturns(s, e, outcome)
      PROVE  ServiceInv(s)'
  BY <1>3, AdapterInv
<1>4. ASSUME NEW c \in Client, Stop(s, c) \/ EmergencyStop(s, c)
      PROVE  ServiceInv(s)'
  <2>1. c \in Caller
    BY DEF Caller
  <2>2. CASE Stop(s, c)
    <3>1. closing' = closing
      BY <2>2 DEF Stop
    <3> QED
      BY <2>1, <2>2, <3>1, SignalInv
  <2>3. CASE EmergencyStop(s, c)
    BY <2>1, <2>3, SignalInv DEF EmergencyStop
  <2> QED
    BY <1>4, <2>2, <2>3
<1>5. ASSUME ShutdownSignals(s)
      PROVE  ServiceInv(s)'
  <2>1. Closer \in Caller
    BY DEF Caller
  <2> QED
    BY <1>5, <2>1, SignalInv DEF ShutdownSignals
<1>6. ASSUME NEW c \in Caller, CallReturns(s, c)
      PROVE  ServiceInv(s)'
  BY <1>6, ReturnInv
<1>7. ASSUME NEW result \in {"clean", "pending"},
             Shutdown(s) \/ ShutdownJoins(s, result)
      PROVE  ServiceInv(s)'
  BY <1>7, ShutdownInv
<1> QED
  BY <1>1, <1>2, <1>3, <1>4, <1>5, <1>6, <1>7, SettingsInv, AcknowledgeInv
     DEF ServiceStep

LEMMA GateStep == IInv /\ [Next]_vars => (~Gated => gate' = NoService)
<1> SUFFICES ASSUME IInv, [Next]_vars, ~Gated PROVE gate' = NoService
  OBVIOUS
<1>1. gate = NoService
  BY DEF IInv
<1>2. ASSUME NEW s \in Service, ServiceStep(s)
      PROVE  gate' = NoService
  BY <1>1, <1>2 DEF ServiceStep, Start, StartRollsBack, UpdateSettings,
     AcknowledgeFault, Publish, RunnerStep, RunnerBegins, RunnerConcludes,
     RunnerFaults, RunnerUnwinds, AdapterReturns, Stop, EmergencyStop,
     SignalEmergency, CallReturns, StopReturns, EmergencyStopReturns,
     EmergencyStopFails, Settles, SettledGate, Shutdown, ShutdownSignals,
     ShutdownJoins
<1> QED
  BY <1>1, <1>2 DEF Next, vars

LEMMA InitInv == Init => IInv
<1> SUFFICES ASSUME Init PROVE IInv
  OBVIOUS
<1>1. TypeOK
  BY DEF Init, TypeOK, State, Reason, RunnerState, Call, NoCall, Closing,
     NoThread
<1>2. SignalCount
  <2>1. ASSUME NEW s \in Service
        PROVE  Signalling(s) = {}
    BY DEF Init, Signalling, NoCall, Calls
  <2> QED
    BY <2>1, FS_EmptySet DEF Init, SignalCount
<1>3. CloserCalls
  BY DEF Init, CloserCalls, NoCall, Calls, Caller
<1>4. ASSUME NEW s \in Service
      PROVE  ServiceInv(s)
  BY LimitAssumption, ServiceAssumption DEF Init, ServiceInv, Fresh, Threads,
     States, Gate, Closed, Shown, Working, InAdapter, Alive, Active,
     Quiescent, Episode, NoThread
<1> QED
  BY <1>1, <1>2, <1>3, <1>4 DEF IInv, Init

LEMMA IInvStep == IInv /\ [Next]_vars => IInv'
<1> SUFFICES ASSUME IInv, [Next]_vars PROVE IInv'
  OBVIOUS
<1>1. TypeOK' /\ SignalCount' /\ CloserCalls'
  BY TypeStep, CountStep, CloserStep DEF IInv
<1>2. ASSUME NEW t \in Service
      PROVE  ServiceInv(t)'
  <2>1. ASSUME NEW s \in Service, ServiceStep(s)
        PROVE  ServiceInv(t)'
    BY <1>1, <2>1, ServiceStepInv, Elsewhere, ElsewhereInv
       DEF IInv
  <2>2. CASE UNCHANGED vars
    BY <2>2, ElsewhereInv DEF vars, Undisturbed, IInv
  <2> QED
    BY <2>1, <2>2 DEF Next
<1> QED
  BY <1>1, <1>2, GateStep DEF IInv

(* The invariant holds in every reachable state.                           *)
THEOREM Invariance == Spec => []IInv
  BY InitInv, IInvStep, PTL DEF Spec

(* Every variable keeps its type; in particular the count of signals in    *)
(* flight, which four code paths decrement, never drops below zero.        *)
THEOREM TypeCorrect == Spec => []TypeOK
<1>1. IInv => TypeOK
  BY DEF IInv
<1> QED
  BY <1>1, Invariance, PTL

(* At most one thread drives a robot, and at most one drives any of the    *)
(* robots that share a gate.                                               *)
THEOREM Exclusion == Spec => []OneEpisodeDrives
<1>1. IInv => OneEpisodeDrives
  <2> SUFFICES ASSUME IInv, NEW s \in Service, NEW t \in Service,
                      NEW e \in Episode, NEW f \in Episode,
                      Driving(s, e), Driving(t, f), Gated \/ s = t
               PROVE  s = t /\ e = f
    BY DEF OneEpisodeDrives
  <2>1. thread[s] = e /\ thread[t] = f
    BY DEF Driving, IInv, ServiceInv, Threads, Working, Alive
  <2>2. Gated => gate = s /\ gate = t
    BY <2>1 DEF IInv, ServiceInv, Gate, Episode, NoThread
  <2> QED
    BY <2>1, <2>2
<1> QED
  BY <1>1, Invariance, PTL

(* The gate is held exactly while there is work to finish.                 *)
THEOREM GateIsTight == Spec => []GateTracksWork
<1>1. IInv => GateTracksWork
  BY DEF IInv, ServiceInv, Gate, GateTracksWork
<1> QED
  BY <1>1, Invariance, PTL

(* No stop signal meets an episode that was started after it.              *)
THEOREM SignalsStayHome == Spec => []SignalBelongsToEpisode
<1>1. IInv => SignalBelongsToEpisode
  BY DEF IInv, ServiceInv, States, SignalBelongsToEpisode
<1> QED
  BY <1>1, Invariance, PTL

(* Settings are pinned while an episode drives; nothing stale is shown.    *)
THEOREM Isolation == Spec => []EpisodeIsolation
<1>1. IInv => EpisodeIsolation
  BY DEF IInv, ServiceInv, Threads, Shown, InAdapter, Working, Alive,
     Driving, EpisodeIsolation
<1> QED
  BY <1>1, Invariance, PTL

(* A service that reported its shutdown never drives again.                *)
THEOREM ShutdownHolds == Spec => []ShutdownIsFinal
<1>1. IInv => ShutdownIsFinal
  BY DEF IInv, ServiceInv, Closed, ShutdownIsFinal
<1> QED
  BY <1>1, Invariance, PTL

(* Only a stop() that finds the robot quiescent clears a latched fault.    *)
THEOREM FaultLatched == Spec => FaultStaysLatched
<1> DEFINE Latch == \A s \in Service :
        state[s] = "FAULTED" /\ state'[s] # "FAULTED" =>
          /\ state'[s] = "IDLE"
          /\ reason'[s] = "fault_acknowledged"
          /\ Quiescent(thread[s], inflight[s])
<1>1. IInv /\ [Next]_vars => [Latch]_vars
  <2> SUFFICES ASSUME IInv, NEW s \in Service, ServiceStep(s),
                      NEW t \in Service,
                      state[t] = "FAULTED", state'[t] # "FAULTED"
               PROVE  /\ state'[t] = "IDLE"
                      /\ reason'[t] = "fault_acknowledged"
                      /\ Quiescent(thread[t], inflight[t])
    BY DEF Next, vars
  <2>1. s = t
    BY Elsewhere DEF IInv, Undisturbed
  <2>2. CASE AcknowledgeFault(s)
    BY <2>1, <2>2 DEF AcknowledgeFault, IInv, TypeOK
  <2>3. ASSUME NEW e \in Episode, RunnerStep(s, e)
        PROVE  state'[s] = "FAULTED"
    <3>1. CASE RunnerUnwinds(s, e)
      BY <2>1, <3>1 DEF RunnerUnwinds, Settles, SettledState, IInv, TypeOK
    <3>2. CASE ~RunnerUnwinds(s, e)
      BY <2>1, <2>3, <3>2 DEF RunnerStep, RunnerBegins, RunnerConcludes,
         RunnerFaults, MayDrive, MayConclude, IInv, TypeOK
    <3> QED
      BY <3>1, <3>2
  <2>4. ASSUME NEW c \in Caller, CallReturns(s, c)
        PROVE  state'[s] = "FAULTED"
    BY <2>1, <2>4 DEF CallReturns, StopReturns, EmergencyStopReturns,
       EmergencyStopFails, Settles, SettledState, IInv, TypeOK
  <2>5. ASSUME NEW c \in Caller, SignalEmergency(s, c)
        PROVE  state'[s] = "FAULTED"
    BY <2>1, <2>5 DEF SignalEmergency, IInv, TypeOK
  <2>6. ASSUME NEW c \in Client, Stop(s, c)
        PROVE  state'[s] = "FAULTED"
    BY <2>1, <2>6 DEF Stop, IInv, TypeOK
  <2>7. ASSUME NEW c \in Client, EmergencyStop(s, c) \/ ShutdownSignals(s)
        PROVE  state'[s] = "FAULTED"
    BY <2>5, <2>7 DEF EmergencyStop, ShutdownSignals, Caller
  <2>8. ASSUME NEW r \in Request, Start(s, r)
        PROVE  FALSE
    BY <2>1, <2>8 DEF Start, MayStart, RobotIdle
  <2> QED
    BY <2>1, <2>2, <2>3, <2>4, <2>5, <2>6, <2>7, <2>8 DEF ServiceStep,
       StartRollsBack, UpdateSettings, Publish, AdapterReturns, Shutdown,
       ShutdownJoins, EmergencyStop, ShutdownSignals, Caller
<1> QED
  BY <1>1, Invariance, PTL DEF Spec, FaultStaysLatched

(* A thread whose stop event is set does not enter the adapter any more.   *)
THEOREM StoppedHolds == Spec => StoppedNeverStarts
<1> DEFINE Stays == \A s \in Service : \A e \in stopSet[s] :
                        Driving(s, e)' => Driving(s, e)
<1>1. IInv /\ [Next]_vars => [Stays]_vars
  <2> SUFFICES ASSUME IInv, NEW s \in Service, ServiceStep(s),
                      NEW t \in Service, NEW e \in stopSet[t],
                      runner'[t][e] = "driving", runner[t][e] # "driving"
               PROVE  FALSE
    BY DEF Next, vars, Driving
  <2>1. s = t
    BY Elsewhere DEF IInv, Undisturbed
  <2>2. e \in Episode
    BY DEF IInv, TypeOK
  <2>3. state[s] # "STARTING" \/ e # episode[s]
    BY <2>1 DEF IInv, ServiceInv, States, Threads, Episode, NoThread
  <2>4. ASSUME NEW f \in Episode, RunnerStep(s, f)
        PROVE  runner'[s][e] # "driving"
    BY <2>1, <2>2, <2>3, <2>4 DEF RunnerStep, RunnerBegins, RunnerConcludes,
       RunnerFaults, RunnerUnwinds, MayDrive, IInv, TypeOK
  <2>5. ASSUME NEW f \in Episode, NEW outcome \in Outcome,
               AdapterReturns(s, f, outcome)
        PROVE  runner'[s][e] # "driving"
    BY <2>1, <2>2, <2>5 DEF AdapterReturns, Outcome, IInv, TypeOK
  <2>6. ASSUME NEW r \in Request, Start(s, r)
        PROVE  runner'[s][e] # "driving"
    BY <2>1, <2>2, <2>6 DEF Start, IInv, TypeOK
  <2>7. ASSUME NEW c \in Caller, CallReturns(s, c)
        PROVE  runner' = runner
    BY <2>7 DEF CallReturns, StopReturns, EmergencyStopReturns,
       EmergencyStopFails
  <2> QED
    BY <2>1, <2>4, <2>5, <2>6, <2>7 DEF ServiceStep, StartRollsBack,
       UpdateSettings, AcknowledgeFault, Publish, Stop, EmergencyStop,
       SignalEmergency, Shutdown, ShutdownSignals, ShutdownJoins
<1> QED
  BY <1>1, Invariance, PTL DEF Spec, StoppedNeverStarts

-----------------------------------------------------------------------------
(* What _request_order still remembers of the starts: an accepted request  *)
(* is remembered no further from the end than its start is from the last   *)
(* one, or HistoryLimit starts came after it.                              *)

Recalled(s, i) ==
    \E p \in 1..Len(remembered[s]) :
        /\ remembered[s][p] = attempts[s][i][1]
        /\ Len(remembered[s]) - p <= Len(attempts[s]) - i

Repeats(s, i, j) ==
    i < j /\ attempts[s][i][2] /\ attempts[s][j][2]
          /\ attempts[s][i][1] = attempts[s][j][1]

History(s) ==
    /\ Len(remembered[s]) <= HistoryLimit
    /\ \A i \in 1..Len(attempts[s]) : attempts[s][i][2] =>
          Recalled(s, i) \/ Len(attempts[s]) - i >= HistoryLimit
    /\ \A i, j \in 1..Len(attempts[s]) : Repeats(s, i, j) => j - i > HistoryLimit

HistoryInv == \A s \in Service : History(s)

Evicted(h) == IF Len(h) = HistoryLimit THEN Tail(h) ELSE h

(* Making room costs a full history its oldest request, and no more.       *)
LEMMA EvictedHistory ==
    ASSUME NEW h \in Seq(Request), Len(h) <= HistoryLimit
    PROVE  /\ Evicted(h) \in Seq(Request)
           /\ Len(Evicted(h)) < HistoryLimit /\ Len(Evicted(h)) <= Len(h)
           /\ \A p \in 1..Len(h) :
                 \/ p = 1 /\ Len(h) = HistoryLimit
                 \/ \E q \in 1..Len(Evicted(h)) :
                       /\ Evicted(h)[q] = h[p]
                       /\ Len(Evicted(h)) - q = Len(h) - p
<1>1. Len(h) \in Nat /\ HistoryLimit \in Nat /\ HistoryLimit # 0
  BY LimitAssumption
<1>2. CASE Len(h) = HistoryLimit
  <2>1. h # << >> /\ Evicted(h) = Tail(h)
    BY <1>1, <1>2 DEF Evicted
  <2>2. /\ Tail(h) \in Seq(Request) /\ Len(Tail(h)) = Len(h) - 1
        /\ \A q \in 1..Len(Tail(h)) : Tail(h)[q] = h[q + 1]
    BY <2>1
  <2>3. ASSUME NEW p \in 1..Len(h), p # 1
        PROVE  \E q \in 1..Len(Tail(h)) :
                  Tail(h)[q] = h[p] /\ Len(Tail(h)) - q = Len(h) - p
    <3>1. p - 1 \in 1..Len(Tail(h)) /\ (p - 1) + 1 = p
      BY <1>1, <2>2, <2>3
    <3>2. Tail(h)[p - 1] = h[p] /\ Len(Tail(h)) - (p - 1) = Len(h) - p
      BY <1>1, <2>2, <3>1
    <3> QED
      BY <3>1, <3>2
  <2> QED
    BY <1>1, <1>2, <2>1, <2>2, <2>3
<1>3. CASE Len(h) # HistoryLimit
  BY <1>1, <1>3 DEF Evicted
<1> QED
  BY <1>2, <1>3

(* A start, or one that is rolled back, records its request x: flag says   *)
(* whether it was accepted, and then x is remembered.                      *)
LEMMA AttemptKeeps ==
    ASSUME TypeOK, NEW s \in Service, History(s), NEW r \in Request,
           NEW flag \in BOOLEAN, ~Remembers(s, r),
           attempts'[s] = Append(attempts[s], <<r, flag>>),
           remembered'[s] = IF flag THEN Append(Evicted(remembered[s]), r)
                            ELSE Evicted(remembered[s])
    PROVE  History(s)'
<1> DEFINE a == attempts[s]
           h == remembered[s]
           n == Len(a)
           new == remembered'[s]
<1>1. /\ a \in Seq(Request \X BOOLEAN) /\ h \in Seq(Request) /\ n \in Nat
      /\ Len(h) \in Nat /\ HistoryLimit \in Nat \ {0}
  BY LimitAssumption DEF TypeOK
<1>2. /\ attempts'[s] = Append(a, <<r, flag>>) /\ Len(attempts'[s]) = n + 1
      /\ \A i \in 1..n : attempts'[s][i] = a[i]
      /\ attempts'[s][n + 1] = <<r, flag>>
  BY <1>1
<1>3. Len(h) <= HistoryLimit
  BY DEF History
<1>4. /\ Evicted(h) \in Seq(Request) /\ Len(Evicted(h)) \in Nat
      /\ Len(Evicted(h)) < HistoryLimit
      /\ \A p \in 1..Len(h) :
            \/ p = 1 /\ Len(h) = HistoryLimit
            \/ \E q \in 1..Len(Evicted(h)) :
                  Evicted(h)[q] = h[p] /\ Len(Evicted(h)) - q = Len(h) - p
  <2> HIDE DEF h
  <2> QED
    BY <1>1, <1>3, EvictedHistory
<1>5. /\ Len(new) \in Nat /\ Len(new) <= HistoryLimit
      /\ Len(new) = IF flag THEN Len(Evicted(h)) + 1 ELSE Len(Evicted(h))
      /\ \A q \in 1..Len(Evicted(h)) : q \in 1..Len(new) /\ new[q] = Evicted(h)[q]
      /\ flag => Len(new) \in 1..Len(new) /\ new[Len(new)] = r
  <2>1. CASE flag
    <3>1. /\ new = Append(Evicted(h), r) /\ Len(new) = Len(Evicted(h)) + 1
          /\ \A q \in 1..Len(Evicted(h)) : new[q] = Evicted(h)[q]
          /\ new[Len(Evicted(h)) + 1] = r
      BY <1>4, <2>1
    <3> QED
      BY <1>1, <1>4, <2>1, <3>1
  <2>2. CASE ~flag
    <3>1. new = Evicted(h)
      BY <2>2
    <3> QED
      BY <1>1, <1>4, <2>2, <3>1
  <2> QED
    BY <2>1, <2>2
<1> HIDE DEF a, h, n, new
<1>6. ASSUME NEW i \in 1..n, a[i][2]
      PROVE  \/ n - i >= HistoryLimit
             \/ n - i >= HistoryLimit - 1 /\ h[1] = a[i][1] /\ 1 \in 1..Len(h)
             \/ \E q \in 1..Len(Evicted(h)) :
                   Evicted(h)[q] = a[i][1] /\ Len(Evicted(h)) - q <= n - i
  <2>1. CASE n - i >= HistoryLimit
    BY <2>1
  <2>2. CASE Recalled(s, i)
    <3>1. PICK p \in 1..Len(h) : h[p] = a[i][1] /\ Len(h) - p <= n - i
      BY <2>2 DEF Recalled, a, h, n
    <3>2. CASE p = 1 /\ Len(h) = HistoryLimit
      BY <1>1, <3>1, <3>2
    <3>3. CASE \E q \in 1..Len(Evicted(h)) :
                  Evicted(h)[q] = h[p] /\ Len(Evicted(h)) - q = Len(h) - p
      BY <1>1, <3>1, <3>3
    <3> QED
      BY <1>4, <3>2, <3>3
  <2> QED
    BY <1>6, <2>1, <2>2 DEF History, a, h, n
<1>7. ASSUME NEW i \in 1..(n + 1), attempts'[s][i][2]
      PROVE  Recalled(s, i)' \/ Len(attempts'[s]) - i >= HistoryLimit
  <2>1. CASE i = n + 1
    <3>1. flag /\ attempts'[s][i][1] = r
      BY <1>2, <1>7, <2>1
    <3>2. Len(new) \in 1..Len(new) /\ new[Len(new)] = attempts'[s][i][1]
          /\ Len(new) - Len(new) <= Len(attempts'[s]) - i
      BY <1>1, <1>2, <1>5, <2>1, <3>1
    <3> QED
      BY <3>2 DEF Recalled, new
  <2>2. CASE i \in 1..n
    <3>1. a[i][2] /\ attempts'[s][i] = a[i] /\ Len(attempts'[s]) = n + 1
      BY <1>2, <1>7, <2>2
    <3>2. CASE n - i >= HistoryLimit - 1
      BY <1>1, <2>2, <3>1, <3>2
    <3>3. CASE \E q \in 1..Len(Evicted(h)) :
                   Evicted(h)[q] = a[i][1] /\ Len(Evicted(h)) - q <= n - i
      <4>1. PICK q \in 1..Len(Evicted(h)) :
                   Evicted(h)[q] = a[i][1] /\ Len(Evicted(h)) - q <= n - i
        BY <3>3
      <4>2. q \in 1..Len(new) /\ new[q] = attempts'[s][i][1]
        BY <1>5, <3>1, <4>1
      <4>3. Len(new) <= Len(Evicted(h)) + 1
        BY <1>4, <1>5
      <4>4. Len(new) - q <= Len(attempts'[s]) - i
        BY SMTT(30), <1>1, <1>4, <1>5, <2>2, <3>1, <4>1, <4>3
      <4> QED
        BY <4>2, <4>4 DEF Recalled, new
    <3> QED
      BY <1>1, <1>6, <2>2, <3>1, <3>2, <3>3
  <2> QED
    BY <1>1, <2>1, <2>2
<1>8. ASSUME NEW i \in 1..(n + 1), NEW j \in 1..(n + 1), Repeats(s, i, j)'
      PROVE  j - i > HistoryLimit
  <2>1. i \in 1..n /\ attempts'[s][i] = a[i] /\ a[i][2]
    BY <1>1, <1>2, <1>8 DEF Repeats
  <2>2. CASE j \in 1..n
    <3>1. attempts'[s][j] = a[j]
      BY <1>2, <2>2
    <3> QED
      BY <1>8, <2>1, <2>2, <3>1 DEF Repeats, History, a, n
  <2>3. CASE j = n + 1
    <3>1. a[i][1] = r /\ r \in Request
      BY <1>2, <1>8, <2>1, <2>3 DEF Repeats
    <3>2. \A p \in 1..Len(h) : h[p] # a[i][1]
      BY <3>1 DEF Remembers, h
    <3>3. ~Recalled(s, i)
      BY <3>2 DEF Recalled, h, a
    <3>4. n - i >= HistoryLimit
      BY <2>1, <3>3 DEF History, a, n
    <3> QED
      BY <1>1, <2>1, <2>3, <3>4
  <2> QED
    BY <1>1, <2>2, <2>3
<1> QED
  BY <1>2, <1>5, <1>7, <1>8 DEF History, new

LEMMA HistoryStep == TypeOK /\ HistoryInv /\ [Next]_vars => HistoryInv'
<1> SUFFICES ASSUME TypeOK, HistoryInv, [Next]_vars, NEW t \in Service
             PROVE  History(t)'
  BY DEF HistoryInv
<1>1. History(t)
  BY DEF HistoryInv
<1>2. ASSUME UNCHANGED <<attempts[t], remembered[t]>>
      PROVE  History(t)'
  BY <1>1, <1>2 DEF History, Recalled, Repeats
<1>3. ASSUME NEW s \in Service, NEW r \in Request, Start(s, r)
      PROVE  History(t)'
  <2>1. CASE s = t
    <3>1. /\ attempts'[s] = Append(attempts[s], <<r, TRUE>>)
          /\ remembered'[s] = Append(Evicted(remembered[s]), r)
          /\ ~Remembers(s, r)
      BY <1>3 DEF Start, MayStart, TypeOK, Remember, Evicted
    <3> QED
      BY <1>1, <2>1, <3>1, AttemptKeeps
  <2>2. CASE s # t
    BY <1>2, <1>3, <2>2 DEF Start, TypeOK
  <2> QED
    BY <2>1, <2>2
<1>4. ASSUME NEW s \in Service, NEW r \in Request, StartRollsBack(s, r)
      PROVE  History(t)'
  <2>1. CASE s = t
    <3>1. /\ attempts'[s] = Append(attempts[s], <<r, FALSE>>)
          /\ remembered'[s] = Evicted(remembered[s])
          /\ ~Remembers(s, r)
      BY <1>4 DEF StartRollsBack, MayStart, TypeOK, Evicted
    <3> QED
      BY <1>1, <2>1, <3>1, AttemptKeeps
  <2>2. CASE s # t
    BY <1>2, <1>4, <2>2 DEF StartRollsBack, TypeOK
  <2> QED
    BY <2>1, <2>2
<1>5. CASE UNCHANGED <<attempts, remembered>>
  BY <1>2, <1>5
<1>6. ASSUME NEW s \in Service, ServiceStep(s)
      PROVE  \/ UNCHANGED <<attempts, remembered>>
             \/ \E r \in Request : Start(s, r) \/ StartRollsBack(s, r)
  BY <1>6 DEF ServiceStep, UpdateSettings, AcknowledgeFault, Publish,
     RunnerStep, RunnerBegins, RunnerConcludes, RunnerFaults, RunnerUnwinds,
     AdapterReturns, Stop, EmergencyStop, SignalEmergency, CallReturns,
     StopReturns, EmergencyStopReturns, EmergencyStopFails, Shutdown,
     ShutdownSignals, ShutdownJoins
<1> QED
  BY <1>3, <1>4, <1>5, <1>6 DEF Next, vars

(* A client_request_id is not accepted a second time before HistoryLimit   *)
(* other starts: what start() remembers reaches that far back, although a  *)
(* start that is rolled back evicts a request and adds none.               *)
THEOREM NoRequestRunsTwice == Spec => []RequestRunsOnce
<1>1. Init => HistoryInv
  <2>1. ASSUME Init, NEW s \in Service PROVE History(s)
    <3>1. Len(attempts[s]) = 0 /\ Len(remembered[s]) = 0
      BY <2>1 DEF Init
    <3> QED
      BY <3>1, LimitAssumption DEF History
  <2> QED
    BY <2>1 DEF HistoryInv
<1>2. HistoryInv => RequestRunsOnce
  BY DEF HistoryInv, History, Repeats, RequestRunsOnce
<1> QED
  BY <1>1, <1>2, HistoryStep, TypeCorrect, PTL DEF Spec

=============================================================================
