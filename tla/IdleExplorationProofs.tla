----------------------- MODULE IdleExplorationProofs -----------------------
(* Proofs about IdleExploration: it uses the goal authority only through   *)
(* the authority's own operations, and its tasks keep and end their lease. *)
EXTENDS IdleExploration, GoalAuthorityProofs

-----------------------------------------------------------------------------
(* Every step is a step of the coordinator or leaves it alone.             *)

\* The steps of the explorer that only move its own state.
LEMMA OwnStepsLeaveAuthority ==
    ASSUME \/ SessionStarts \/ SessionEnds \/ Check \/ Observe \/ Ask \/ Wait
           \/ Answered \/ Revalidate \/ Recheck \/ RevalidateAgain \/ Plan
           \/ Leg \/ Episode \/ Tick \/ Dispatch \/ Apply \/ ApplyIsStale
           \/ Stop \/ Brake \/ Boundary
    PROVE  UNCHANGED authorityVars
<1>1. CASE SessionStarts \/ SessionEnds
  BY <1>1 DEF SessionStarts, SessionEnds
<1>2. CASE Check \/ Observe \/ Ask \/ Wait \/ Answered
  BY <1>2 DEF Check, Observe, Ask, Wait, Answered, RetryOrFinish,
     FinishWithoutMission, Goto
<1>3. CASE Revalidate \/ Recheck \/ RevalidateAgain \/ Plan \/ Leg \/ Episode
  BY <1>3 DEF Revalidate, Recheck, RevalidateAgain, Plan, Leg, Episode,
     RetryOrFinish, FinishWithoutMission, FinishMission, Goto
<1>4. CASE Tick \/ Dispatch \/ Apply \/ ApplyIsStale
  BY <1>4 DEF Tick, Dispatch, Apply, ApplyIsStale, FinishMission, Goto
<1>5. CASE Stop \/ Brake \/ Boundary
  BY <1>5 DEF Stop, Brake, Boundary, FinishMission, Goto
<1> QED
  BY <1>1, <1>2, <1>3, <1>4, <1>5

\* Switched, reserved or told otherwise: the environment's steps.
LEMMA EnvironmentLeavesAuthority ==
    ASSUME DeadlinePasses \/ WorldChanges \/ WorkerReturns \/ UserMoves
    PROVE  UNCHANGED authorityVars
BY DEF DeadlinePasses, WorldChanges, WorkerReturns, UserMoves

LEMMA StepIsAuthorityStep ==
    ASSUME Next
    PROVE  [AuthorityNext]_authorityVars
<1>1. CASE TaskStarts
  BY <1>1 DEF TaskStarts, AuthorityNext
<1>2. CASE RearmBegins \/ RearmEnds
  BY <1>2 DEF RearmBegins, RearmEnds, AuthorityNext
<1>3. CASE FinishRelease
  BY <1>3 DEF FinishRelease, AuthorityNext
<1>4. CASE UserClaims
  BY <1>4 DEF UserClaims, AuthorityNext
<1>5. CASE UserActivates
  BY <1>5 DEF UserActivates, AuthorityNext
<1>6. CASE UserReleases
  BY <1>6 DEF UserReleases, AuthorityNext
<1>7. CASE OperatorSwitches
  BY <1>7 DEF OperatorSwitches, AuthorityNext
<1> QED
  BY <1>1, <1>2, <1>3, <1>4, <1>5, <1>6, <1>7, OwnStepsLeaveAuthority,
     EnvironmentLeavesAuthority DEF Next, Explore, Environment

(* The explorer, its user and its operator implement the coordinator's     *)
(* specification, so all that is proved of the coordinator holds here.     *)
THEOREM ExplorerUsesAuthority == Spec => AuthoritySpec
<1>1. Init => AuthorityInit
  BY DEF Init
<1>2. [Next]_vars => [AuthorityNext]_authorityVars
  BY StepIsAuthorityStep DEF vars
<1> QED
  BY <1>1, <1>2, PTL DEF Spec, AuthoritySpec

-----------------------------------------------------------------------------
(* A task holds its lease from start to end.                               *)

\* Inside a task every step but the last leaves the explorer inside it.
LEMMA TaskGoesOn ==
    ASSUME \/ Check \/ Observe \/ Ask \/ Wait \/ Answered \/ Revalidate
           \/ Recheck \/ RevalidateAgain \/ Plan \/ Leg \/ Episode \/ Tick
           \/ Dispatch \/ Apply \/ ApplyIsStale \/ Stop \/ Brake \/ Boundary
    PROVE  InTask /\ InTask'
<1> USE DEF InTask, Selecting, Driving, Stopping
<1>1. CASE Check \/ Observe \/ Ask \/ Wait \/ Answered
  BY <1>1 DEF Check, Observe, Ask, Wait, Answered, RetryOrFinish,
     FinishWithoutMission, Goto
<1>2. CASE Revalidate \/ Recheck \/ RevalidateAgain \/ Plan \/ Leg \/ Episode
  BY <1>2 DEF Revalidate, Recheck, RevalidateAgain, Plan, Leg, Episode,
     RetryOrFinish, FinishWithoutMission, FinishMission, Goto
<1>3. CASE Tick \/ Dispatch \/ Apply \/ ApplyIsStale
  BY <1>3 DEF Tick, Dispatch, Apply, ApplyIsStale, FinishMission, Goto
<1>4. CASE Stop \/ Brake \/ Boundary
  BY <1>4 DEF Stop, Brake, Boundary, FinishMission, Goto
<1> QED
  BY <1>1, <1>2, <1>3, <1>4

\* Outside a task the run lock's holder does not enter one by these.
LEMMA RestGoesOn ==
    ASSUME SessionStarts \/ SessionEnds \/ RearmBegins \/ RearmEnds
    PROVE  ~InTask /\ ~InTask' /\ UNCHANGED <<active, seen>>
BY DEF SessionStarts, SessionEnds, RearmBegins, RearmEnds, InTask, Selecting,
   Driving, Stopping, BeginIdleDutyRearm, FinishIdleDutyRearm, authorityVars

LEMMA OthersKeepTheTask ==
    ASSUME \/ DeadlinePasses \/ WorldChanges \/ WorkerReturns \/ UserClaims
           \/ UserMoves \/ OperatorSwitches
    PROVE  UNCHANGED <<pc, seen, active>>
<1>1. CASE DeadlinePasses \/ WorldChanges \/ WorkerReturns \/ UserMoves
  BY <1>1 DEF DeadlinePasses, WorldChanges, WorkerReturns, UserMoves,
     authorityVars
<1>2. CASE UserClaims \/ OperatorSwitches
  BY <1>2 DEF UserClaims, OperatorSwitches, ReserveUser,
     CancelUserReservation, SetIdleEnabled, explorerVars
<1> QED
  BY <1>1, <1>2

LEMMA LeaseStep ==
    ASSUME LeaseEndsWithItsTask, [Next]_vars
    PROVE  LeaseEndsWithItsTask'
<1>1. CASE UNCHANGED vars
  BY <1>1 DEF vars, authorityVars, explorerVars, LeaseEndsWithItsTask, InTask,
     IdleHolds
<1>2. CASE \/ Check \/ Observe \/ Ask \/ Wait \/ Answered \/ Revalidate
           \/ Recheck \/ RevalidateAgain \/ Plan \/ Leg \/ Episode \/ Tick
           \/ Dispatch \/ Apply \/ ApplyIsStale \/ Stop \/ Brake \/ Boundary
  <2>1. InTask /\ InTask' /\ active' = active
    BY <1>2, TaskGoesOn, OwnStepsLeaveAuthority DEF authorityVars
  <2> QED
    BY <2>1 DEF LeaseEndsWithItsTask, IdleHolds
<1>3. CASE SessionStarts \/ SessionEnds \/ RearmBegins \/ RearmEnds
  BY <1>3, RestGoesOn DEF LeaseEndsWithItsTask, IdleHolds
<1>4. CASE \/ DeadlinePasses \/ WorldChanges \/ WorkerReturns \/ UserClaims
           \/ UserMoves \/ OperatorSwitches
  BY <1>4, OthersKeepTheTask DEF LeaseEndsWithItsTask, InTask, IdleHolds
<1>5. CASE TaskStarts
  <2>1. active'.owner = "IDLE_EXPLORATION"
    BY <1>5 DEF TaskStarts, TryAcquireIdle, Allocate
  <2>2. InTask'
    BY <1>5 DEF TaskStarts, InTask, Selecting
  <2> QED
    BY <2>1, <2>2 DEF LeaseEndsWithItsTask, IdleHolds
<1>6. CASE FinishRelease
  <2>1. ~InTask'
    BY <1>6 DEF FinishRelease, TaskReturns, InTask, Selecting, Driving,
       Stopping
  <2>2. CASE ReleaseIsPossible
    <3>1. active' = NoLease
      BY <1>6, <2>2 DEF FinishRelease, Release
    <3> QED
      BY <2>1, <3>1, NullFields DEF LeaseEndsWithItsTask, IdleHolds
  <2>3. CASE ~ReleaseIsPossible
    <3>1. ~seen /\ seen' = seen
      BY <1>6, <2>3 DEF FinishRelease, ReleaseIsPossible
    <3> QED
      BY <2>1, <3>1 DEF LeaseEndsWithItsTask
  <2> QED
    BY <2>2, <2>3
<1>7. CASE UserActivates
  <2>1. /\ active = NoLease /\ active'.owner = "USER"
        /\ UNCHANGED <<pc, seen>>
    BY <1>7 DEF UserActivates, ActivateUser, Allocate, explorerVars
  <2>2. ~InTask /\ ~InTask'
    BY <2>1, NullFields DEF LeaseEndsWithItsTask, IdleHolds, InTask
  <2> QED
    BY <2>1, <2>2 DEF LeaseEndsWithItsTask, IdleHolds
<1>8. CASE UserReleases
  <2>1. /\ active.owner = "USER" /\ active' = NoLease
        /\ UNCHANGED <<pc, seen>>
    BY <1>8 DEF UserReleases, Release, explorerVars
  <2>2. ~InTask /\ ~InTask'
    BY <2>1 DEF LeaseEndsWithItsTask, IdleHolds, InTask
  <2> QED
    BY <2>1, <2>2, NullFields DEF LeaseEndsWithItsTask, IdleHolds
<1> QED
  BY <1>1, <1>2, <1>3, <1>4, <1>5, <1>6, <1>7, <1>8
     DEF Next, Explore, Environment

(* No step of the explorer, the user or the operator takes the lease from  *)
(* a running task, and a task that returns has released it, except one     *)
(* that never got a snapshot to release it with.                           *)
THEOREM TaskKeepsLease == Spec => []LeaseEndsWithItsTask
<1>1. Init => LeaseEndsWithItsTask
  BY NullFields DEF Init, AuthorityInit, LeaseEndsWithItsTask, InTask,
     Selecting, Driving, Stopping, IdleHolds
<1> QED
  BY <1>1, LeaseStep, PTL DEF Spec

-----------------------------------------------------------------------------
(* What a duty cycle uses is accounted and stays within its budgets.       *)

\* Used and accounted differ by what the running task has used, and each use
\* was allowed when it was made or is still allowed when it is about to be.
Accounts ==
    /\ {session, duty, spent} \subseteq [Budget -> Nat]
    /\ task \in [Work -> Nat]
    /\ ~InTask => task = Unused
    /\ \A k \in Work : spent[k] = duty[k] + task[k]
    /\ spent["tasks"] = duty["tasks"] + (IF InTask THEN 1 ELSE 0)
    /\ DutyWithinBudget
    /\ pc \in {"observe", "ask"} => task["calls"] < Remaining("calls")
    /\ pc = "apply" /\ pulse = "DRIVE" => task["actions"] < Remaining("actions")

LEMMA Budgets == /\ Budget = Work \cup {"tasks"} /\ "tasks" \notin Work
                 /\ {"calls", "replans", "actions"} = Work
  BY DEF Budget, Work

LEMMA RemainingIsDuty ==
    ASSUME {session, duty} \subseteq [Budget -> Nat], NEW k \in Budget, NEW n \in Nat,
           n < Remaining(k)
    PROVE  duty[k] + n + 1 <= DutyLimit[k]
<1>1. /\ session[k] \in Nat /\ duty[k] \in Nat
      /\ SessionLimit[k] \in Nat /\ DutyLimit[k] \in Nat
  BY LimitAssumption
<1>2. QED
  BY <1>1 DEF Remaining

\* Inside a task: one more of some budgets that were not used up.
LEMMA UseKeepsAccounts ==
    ASSUME Accounts, InTask, InTask', UNCHANGED <<session, duty>>,
           NEW used \in SUBSET Work, \A k \in used : task[k] < Remaining(k),
           task' = [k \in Work |-> IF k \in used THEN task[k] + 1 ELSE task[k]],
           spent' = [k \in Budget |-> IF k \in used THEN spent[k] + 1 ELSE spent[k]],
           pc' \in {"observe", "ask"} => used = {} /\ task["calls"] < Remaining("calls"),
           pc' = "apply" /\ pulse' = "DRIVE" =>
              used = {} /\ task["actions"] < Remaining("actions")
    PROVE  Accounts'
<1>1. /\ {session, duty, spent} \subseteq [Budget -> Nat] /\ task \in [Work -> Nat]
      /\ \A k \in Work : spent[k] = duty[k] + task[k] /\ k \in Budget /\ k # "tasks"
      /\ spent["tasks"] = duty["tasks"] + 1 /\ "tasks" \in Budget
      /\ DutyWithinBudget
  BY Budgets DEF Accounts
<1>2. /\ task' \in [Work -> Nat] /\ spent' \in [Budget -> Nat]
      /\ \A k \in used : task'[k] = task[k] + 1 /\ spent'[k] = spent[k] + 1
      /\ \A k \in Work \ used : task'[k] = task[k] /\ spent'[k] = spent[k]
      /\ spent'["tasks"] = spent["tasks"]
  BY <1>1
<1>3. \A k \in Work : spent'[k] = duty[k] + task'[k]
  BY <1>1, <1>2
<1>4. \A k \in Budget : spent'[k] <= DutyLimit[k]
  <2>1. ASSUME NEW k \in used PROVE spent'[k] <= DutyLimit[k]
    <3>1. duty[k] + task[k] + 1 <= DutyLimit[k] /\ task[k] \in Nat
      BY <1>1, RemainingIsDuty
    <3>2. QED
      BY <1>1, <1>2, <3>1
  <2>2. \A k \in Budget \ used : spent'[k] = spent[k]
    BY <1>2, Budgets
  <2>3. QED
    BY <1>1, <2>1, <2>2 DEF DutyWithinBudget
<1>5. used = {} => \A k \in Work : task'[k] = task[k]
  BY <1>2
<1>6. \A k \in Budget : Remaining(k)' = Remaining(k)
  BY DEF Remaining
<1>7. /\ pc' \in {"observe", "ask"} => task'["calls"] < Remaining("calls")'
      /\ pc' = "apply" /\ pulse' = "DRIVE" => task'["actions"] < Remaining("actions")'
  BY <1>1, <1>5, <1>6, Budgets
<1>8. QED
  BY <1>1, <1>2, <1>3, <1>4, <1>7 DEF Accounts, DutyWithinBudget

\* Inside a task: nothing used.
LEMMA NoUseKeepsAccounts ==
    ASSUME Accounts, InTask, InTask', UNCHANGED <<session, duty, task, spent>>,
           pc' \in {"observe", "ask"} => task["calls"] < Remaining("calls"),
           pc' = "apply" /\ pulse' = "DRIVE" => task["actions"] < Remaining("actions")
    PROVE  Accounts'
<1>1. task \in [Work -> Nat] /\ spent \in [Budget -> Nat]
  BY DEF Accounts
<1>2. /\ task' = [k \in Work |-> IF k \in {} THEN task[k] + 1 ELSE task[k]]
      /\ spent' = [k \in Budget |-> IF k \in {} THEN spent[k] + 1 ELSE spent[k]]
  BY <1>1
<1>3. QED
  BY <1>2, UseKeepsAccounts, {} \in SUBSET Work

LEMMA OneUse ==
    ASSUME Accounts, NEW k \in Work, Use(k)
    PROVE  /\ task' = [j \in Work |-> IF j \in {k} THEN task[j] + 1 ELSE task[j]]
           /\ spent' = [j \in Budget |-> IF j \in {k} THEN spent[j] + 1 ELSE spent[j]]
           /\ {k} \in SUBSET Work
<1>1. task \in [Work -> Nat] /\ spent \in [Budget -> Nat]
  BY DEF Accounts
<1>2. QED
  BY <1>1 DEF Use

LEMMA RetryKeepsAccounts ==
    ASSUME Accounts, InTask, InTask', RetryOrFinish
    PROVE  Accounts'
<1>1. UNCHANGED <<session, duty>> /\ pc' \notin {"observe", "ask", "apply"}
  BY DEF RetryOrFinish, FinishWithoutMission, Goto
<1>2. CASE MayReplan /\ Use("replans")
  <2>1. "replans" \in Work /\ task["replans"] < Remaining("replans")
    BY <1>2, Budgets DEF MayReplan
  <2>2. \A k \in {"replans"} : task[k] < Remaining(k)
    BY <2>1
  <2>3. QED
    BY <1>1, <1>2, <2>1, <2>2, OneUse, UseKeepsAccounts
<1>3. CASE UNCHANGED <<task, spent>>
  BY <1>1, <1>3, NoUseKeepsAccounts
<1>4. QED
  BY <1>2, <1>3 DEF RetryOrFinish

LEMMA AskKeepsAccounts ==
    ASSUME Accounts, Ask
    PROVE  Accounts'
<1>1. InTask /\ InTask'
  BY TaskGoesOn
<1>2. UNCHANGED <<session, duty>> /\ pc' \notin {"observe", "ask", "apply"}
  BY DEF Ask, FinishWithoutMission, Goto
<1>3. "calls" \in Work /\ "replans" \in Work /\ "calls" # "replans"
      /\ task["calls"] < Remaining("calls")
  BY Budgets DEF Ask, Accounts
<1>4. CASE Use("calls")
  <2>1. \A k \in {"calls"} : task[k] < Remaining(k)
    BY <1>3
  <2>2. QED
    BY <1>1, <1>2, <1>3, <1>4, <2>1, OneUse, UseKeepsAccounts
<1>5. CASE /\ MayReplan
           /\ task' = [task EXCEPT !["calls"] = @ + 1, !["replans"] = @ + 1]
           /\ spent' = [spent EXCEPT !["calls"] = @ + 1, !["replans"] = @ + 1]
  <2>1. task \in [Work -> Nat] /\ spent \in [Budget -> Nat]
    BY DEF Accounts
  <2>2. /\ task' = [k \in Work |-> IF k \in {"calls", "replans"}
                                   THEN task[k] + 1 ELSE task[k]]
        /\ spent' = [k \in Budget |-> IF k \in {"calls", "replans"}
                                      THEN spent[k] + 1 ELSE spent[k]]
    BY <1>3, <1>5, <2>1
  <2>3. {"calls", "replans"} \in SUBSET Work
        /\ \A k \in {"calls", "replans"} : task[k] < Remaining(k)
    BY <1>3, <1>5 DEF MayReplan
  <2>4. QED
    BY <1>1, <1>2, <2>2, <2>3, UseKeepsAccounts
<1>6. QED
  BY <1>4, <1>5 DEF Ask

LEMMA SelectionKeepsAccounts ==
    ASSUME Accounts, Check \/ Observe \/ Wait \/ Answered \/ Revalidate \/ Recheck
                     \/ RevalidateAgain
    PROVE  Accounts'
<1>1. InTask /\ InTask'
  BY TaskGoesOn
<1>2. CASE RetryOrFinish
  BY <1>1, <1>2, RetryKeepsAccounts
<1>3. CASE Check
  BY <1>1, <1>3, NoUseKeepsAccounts DEF Check, FinishWithoutMission, Goto
<1>4. CASE Observe
  BY <1>1, <1>4, NoUseKeepsAccounts DEF Observe, FinishWithoutMission, Goto, Accounts
<1>5. CASE (Wait \/ Answered) /\ ~RetryOrFinish
  BY <1>1, <1>5, NoUseKeepsAccounts DEF Wait, Answered, FinishWithoutMission, Goto
<1>6. CASE (Revalidate \/ Recheck \/ RevalidateAgain) /\ ~RetryOrFinish
  BY <1>1, <1>6, NoUseKeepsAccounts
     DEF Revalidate, Recheck, RevalidateAgain, FinishWithoutMission, Goto
<1>7. QED
  BY <1>2, <1>3, <1>4, <1>5, <1>6

LEMMA MissionKeepsAccounts ==
    ASSUME Accounts, Plan \/ Leg \/ Episode \/ Tick \/ Dispatch \/ Apply \/ ApplyIsStale
                     \/ Stop \/ Brake \/ Boundary
    PROVE  Accounts'
<1>1. InTask /\ InTask'
  BY TaskGoesOn
<1>2. CASE Plan \/ Leg \/ Episode
  BY <1>1, <1>2, NoUseKeepsAccounts
     DEF Plan, Leg, Episode, FinishWithoutMission, FinishMission, Goto
<1>3. CASE Tick \/ ApplyIsStale
  BY <1>1, <1>3, NoUseKeepsAccounts DEF Tick, ApplyIsStale, FinishMission, Goto
<1>4. CASE Dispatch
  BY <1>1, <1>4, NoUseKeepsAccounts DEF Dispatch, FinishMission, Goto
<1>5. CASE Apply
  <2>1. UNCHANGED <<session, duty>> /\ pc' \notin {"observe", "ask", "apply"}
    BY <1>5 DEF Apply
  <2>2. CASE DriveApplies
    <3>1. "actions" \in Work /\ \A k \in {"actions"} : task[k] < Remaining(k)
      BY <1>5, <2>2, Budgets DEF Apply, DriveApplies, Accounts
    <3>2. QED
      BY <1>1, <2>1, <2>2, <3>1, OneUse, UseKeepsAccounts DEF DriveApplies
  <2>3. CASE StopApplies
    BY <1>1, <2>1, <2>3, NoUseKeepsAccounts DEF StopApplies
  <2>4. QED
    BY <1>5, <2>2, <2>3 DEF Apply
<1>6. CASE Stop \/ Brake \/ Boundary
  BY <1>1, <1>6, NoUseKeepsAccounts DEF Stop, Brake, Boundary, FinishMission, Goto
<1>7. QED
  BY <1>2, <1>3, <1>4, <1>5, <1>6

LEMMA UnusedIsNothing == Unused \in [Work -> Nat] /\ \A k \in Work : Unused[k] = 0
  BY DEF Unused

LEMMA TaskStartKeepsAccounts ==
    ASSUME Accounts, TaskStarts
    PROVE  Accounts'
<1>1. /\ pc = "next" /\ pc' = "check" /\ task' = Unused /\ UNCHANGED <<session, duty>>
      /\ spent' = [spent EXCEPT !["tasks"] = @ + 1] /\ ~DutyExhausted
  BY DEF TaskStarts
<1>2. ~InTask /\ InTask'
  BY <1>1 DEF InTask, Selecting, Driving, Stopping
<1>3. /\ spent \in [Budget -> Nat] /\ duty \in [Budget -> Nat] /\ session \in [Budget -> Nat]
      /\ task = Unused /\ "tasks" \in Budget
      /\ \A k \in Work : spent[k] = duty[k] + task[k] /\ k \in Budget /\ k # "tasks"
      /\ spent["tasks"] = duty["tasks"]
  BY <1>2, Budgets DEF Accounts
<1>4. /\ spent' \in [Budget -> Nat] /\ spent'["tasks"] = spent["tasks"] + 1
      /\ \A k \in Work : spent'[k] = spent[k]
  BY <1>1, <1>3
<1>5. duty["tasks"] < DutyLimit["tasks"]
  BY <1>1, <1>3, LimitAssumption DEF DutyExhausted
<1>6. DutyWithinBudget'
  BY <1>3, <1>4, <1>5, Budgets, LimitAssumption DEF Accounts, DutyWithinBudget
<1>7. QED
  BY <1>1, <1>2, <1>3, <1>4, <1>6, UnusedIsNothing DEF Accounts

LEMMA ReleaseKeepsAccounts ==
    ASSUME Accounts, FinishRelease
    PROVE  Accounts'
<1> DEFINE used(budget) == [k \in Budget |-> Charge(budget, k)]
<1>1. /\ pc = "release" /\ InTask
      /\ pc' \in {"next", "rest"} /\ ~InTask' /\ task' = Unused
  BY DEF FinishRelease, TaskReturns, InTask, Selecting, Driving, Stopping
<1>2. PICK more \in {0, 1} :
         /\ session' = [used(session) EXCEPT !["replans"] = @ + more]
            \/ session' = [k \in Budget |-> 0]
         /\ duty' = [used(duty) EXCEPT !["replans"] = @ + more]
         /\ spent' = [spent EXCEPT !["replans"] = @ + more]
         /\ more = 1 => used(duty)["replans"] < DutyLimit["replans"]
  <2>1. PICK safe \in BOOLEAN : TaskReturns(safe)
    BY DEF FinishRelease
  <2> DEFINE again == /\ safe
                      /\ mission
                      /\ MissionIsStale
                      /\ ~once
                      /\ used(session)["replans"] < SessionLimit["replans"]
                      /\ used(duty)["replans"] < DutyLimit["replans"]
             extra == IF again THEN 1 ELSE 0
  <2>2. /\ session' = [used(session) EXCEPT !["replans"] = @ + extra]
           \/ session' = [k \in Budget |-> 0]
        /\ duty' = [used(duty) EXCEPT !["replans"] = @ + extra]
        /\ spent' = [spent EXCEPT !["replans"] = @ + extra]
    BY <2>1 DEF TaskReturns
  <2>3. extra \in {0, 1} /\ (extra = 1 => used(duty)["replans"] < DutyLimit["replans"])
    OBVIOUS
  <2> HIDE DEF extra, used
  <2>4. QED
    BY <2>2, <2>3
<1>3. /\ spent \in [Budget -> Nat] /\ duty \in [Budget -> Nat] /\ session \in [Budget -> Nat]
      /\ task \in [Work -> Nat] /\ "tasks" \in Budget /\ "replans" \in Work
      /\ \A k \in Work : spent[k] = duty[k] + task[k] /\ k \in Budget /\ k # "tasks"
      /\ spent["tasks"] = duty["tasks"] + 1
  BY <1>1, Budgets DEF Accounts
<1>4. ASSUME NEW budget \in [Budget -> Nat]
      PROVE  /\ used(budget) \in [Budget -> Nat]
             /\ used(budget)["tasks"] = budget["tasks"] + 1
             /\ \A k \in Work : used(budget)[k] = budget[k] + task[k]
  BY <1>3, Budgets DEF Charge
<1>5. used(duty) = spent
  <2>1. \A k \in Budget : used(duty)[k] = spent[k]
    BY <1>3, <1>4, Budgets
  <2>2. QED
    BY <1>3, <1>4, <2>1
<1>6. used(session) \in [Budget -> Nat]
  BY <1>3, <1>4
<1> HIDE DEF used
<1>7. session' \in [Budget -> Nat]
  BY <1>2, <1>3, <1>6
<1>8. duty' = spent' /\ spent' \in [Budget -> Nat]
  BY <1>2, <1>3, <1>5
<1>9. DutyWithinBudget'
  <2>1. \A k \in Budget \ {"replans"} : spent'[k] = spent[k]
    BY <1>2, <1>3
  <2>2. spent'["replans"] = spent["replans"] + more
    BY <1>2, <1>3
  <2>3. spent'["replans"] <= DutyLimit["replans"]
    <3>1. CASE more = 0
      BY <1>3, <2>2, <3>1 DEF Accounts, DutyWithinBudget
    <3>2. CASE more = 1
      BY <1>2, <1>3, <1>5, <2>2, <3>2, LimitAssumption
    <3>3. QED
      BY <3>1, <3>2
  <2>4. QED
    BY <2>1, <2>3 DEF Accounts, DutyWithinBudget
<1>10. QED
  BY <1>1, <1>3, <1>7, <1>8, <1>9, UnusedIsNothing DEF Accounts

\* A new duty cycle, and all that does not concern the accounts
LEMMA OthersKeepAccounts ==
    ASSUME Accounts, SessionStarts \/ SessionEnds \/ RearmBegins \/ RearmEnds
                     \/ DeadlinePasses \/ WorldChanges \/ WorkerReturns \/ UserClaims
                     \/ UserActivates \/ UserMoves \/ UserReleases \/ OperatorSwitches
                     \/ UNCHANGED vars
    PROVE  Accounts'
<1>1. CASE SessionStarts \/ RearmBegins
  <2>1. ~InTask /\ ~InTask' /\ UNCHANGED <<session, duty, task, spent>>
        /\ pc' \notin {"observe", "ask", "apply"}
    BY <1>1 DEF SessionStarts, RearmBegins, InTask, Selecting, Driving, Stopping
  <2>2. QED
    BY <2>1 DEF Accounts, DutyWithinBudget
<1>2. CASE SessionEnds
  <2>1. ~InTask /\ ~InTask' /\ UNCHANGED <<duty, task, spent>>
        /\ pc' \notin {"observe", "ask", "apply"} /\ session' \in [Budget -> Nat]
    BY <1>2 DEF SessionEnds, InTask, Selecting, Driving, Stopping
  <2>2. QED
    BY <2>1 DEF Accounts, DutyWithinBudget
<1>3. CASE RearmEnds
  <2>1. ~InTask /\ ~InTask' /\ UNCHANGED <<session, task>>
        /\ pc' \notin {"observe", "ask", "apply"}
    BY <1>3 DEF RearmEnds, InTask, Selecting, Driving, Stopping
  <2>2. CASE UNCHANGED <<duty, spent>>
    BY <2>1, <2>2 DEF Accounts, DutyWithinBudget
  <2>3. CASE duty' = [k \in Budget |-> 0] /\ spent' = [k \in Budget |-> 0]
    <3>1. /\ duty' \in [Budget -> Nat] /\ spent' \in [Budget -> Nat]
          /\ \A k \in Budget : duty'[k] = 0 /\ spent'[k] = 0
      BY <2>3
    <3>2. DutyWithinBudget'
      BY <3>1, LimitAssumption DEF DutyWithinBudget
    <3>3. task = Unused /\ session \in [Budget -> Nat]
      BY <2>1 DEF Accounts
    <3>4. QED
      BY <2>1, <3>1, <3>2, <3>3, UnusedIsNothing, Budgets DEF Accounts
  <2>4. QED
    BY <1>3, <2>2, <2>3 DEF RearmEnds
<1>4. CASE \/ DeadlinePasses \/ WorldChanges \/ WorkerReturns \/ UserClaims
           \/ UserActivates \/ UserMoves \/ UserReleases \/ OperatorSwitches
           \/ UNCHANGED vars
  <2>1. UNCHANGED <<pc, pulse, session, duty, task, spent>>
    BY <1>4 DEF DeadlinePasses, WorldChanges, WorkerReturns, UserClaims, UserActivates,
       UserMoves, UserReleases, OperatorSwitches, explorerVars, vars
  <2>2. QED
    BY <2>1 DEF Accounts, DutyWithinBudget, InTask, Remaining
<1>5. QED
  BY <1>1, <1>2, <1>3, <1>4

LEMMA AccountsInit == Init => Accounts
<1> SUFFICES ASSUME Init PROVE Accounts
  OBVIOUS
<1>1. /\ pc = "rest" /\ session = [k \in Budget |-> 0] /\ duty = [k \in Budget |-> 0]
      /\ spent = [k \in Budget |-> 0] /\ task = Unused
  BY DEF Init
<1>2. ~InTask /\ {session, duty, spent} \subseteq [Budget -> Nat]
      /\ \A k \in Budget : duty[k] = 0 /\ spent[k] = 0
  BY <1>1 DEF InTask, Selecting, Driving, Stopping
<1>3. DutyWithinBudget
  BY <1>2, LimitAssumption DEF DutyWithinBudget
<1>4. QED
  BY <1>1, <1>2, <1>3, UnusedIsNothing, Budgets DEF Accounts

LEMMA AccountsStep ==
    ASSUME Accounts, [Next]_vars
    PROVE  Accounts'
BY AskKeepsAccounts, SelectionKeepsAccounts, MissionKeepsAccounts,
   TaskStartKeepsAccounts, ReleaseKeepsAccounts, OthersKeepAccounts
   DEF Next, Explore, Environment

(* Over all tasks, sessions, interruptions and re-arm attempts the explorer *)
(* never uses more of a budget than the duty cycle allows.                  *)
THEOREM DutyIsBounded == Spec => []DutyWithinBudget
<1>1. Accounts => DutyWithinBudget
  BY DEF Accounts
<1> QED
  BY <1>1, AccountsInit, AccountsStep, PTL DEF Spec

-----------------------------------------------------------------------------
(* Budgets come back only when everything is quiet.                        *)

RearmIsAlone == pc = "rearm" => worker = "none"

LEMMA RearmAloneStep ==
    ASSUME RearmIsAlone, [Next]_vars
    PROVE  RearmIsAlone'
<1>1. CASE \/ Check \/ Observe \/ Ask \/ Wait \/ Answered \/ Revalidate
           \/ Recheck \/ RevalidateAgain \/ Plan \/ Leg \/ Episode \/ Tick
           \/ Dispatch \/ Apply \/ ApplyIsStale \/ Stop \/ Brake \/ Boundary
  BY <1>1, TaskGoesOn DEF RearmIsAlone, InTask, Selecting, Driving, Stopping
<1>2. CASE SessionStarts \/ SessionEnds \/ TaskStarts \/ RearmBegins \/ RearmEnds
  BY <1>2 DEF RearmIsAlone, SessionStarts, SessionEnds, TaskStarts, RearmBegins, RearmEnds
<1>3. CASE FinishRelease
  BY <1>3 DEF RearmIsAlone, FinishRelease, TaskReturns
<1>4. CASE DeadlinePasses \/ WorldChanges \/ WorkerReturns \/ UserMoves
  BY <1>4 DEF RearmIsAlone, DeadlinePasses, WorldChanges, WorkerReturns, UserMoves
<1>5. CASE \/ UserClaims \/ UserActivates \/ UserReleases \/ OperatorSwitches
           \/ UNCHANGED vars
  BY <1>5 DEF RearmIsAlone, UserClaims, UserActivates, UserReleases, OperatorSwitches,
     explorerVars, vars
<1> QED
  BY <1>1, <1>2, <1>3, <1>4, <1>5 DEF Next, Explore, Environment

LEMMA ResetStep ==
    ASSUME Accounts, AuthorityInv, RearmIsAlone, [Next]_vars,
           NEW k \in Budget, duty'[k] < duty[k]
    PROVE  ResetIsQuiet
<1>1. duty[k] \in Nat
  BY DEF Accounts
<1>2. duty' # duty
  BY <1>1
<1>3. CASE RearmEnds
  <2>1. pc = "rearm" /\ guard # NoGuard /\ ~unsafe
    BY <1>2, <1>3 DEF RearmEnds, FinishIdleDutyRearm
  <2>2. QED
    BY <2>1 DEF ResetIsQuiet, AuthorityInv, RearmIsQuiet, RearmIsAlone
<1>4. CASE FinishRelease
  <2>1. PICK more \in {0, 1} :
           duty' = [[j \in Budget |-> Charge(duty, j)] EXCEPT !["replans"] = @ + more]
    <3>1. PICK safe \in BOOLEAN : TaskReturns(safe)
      BY <1>4 DEF FinishRelease
    <3>2. QED
      BY <3>1 DEF TaskReturns
  <2>2. /\ duty \in [Budget -> Nat] /\ task \in [Work -> Nat]
        /\ \A j \in Budget : Charge(duty, j) \in Nat /\ Charge(duty, j) >= duty[j]
    BY Budgets DEF Accounts, Charge
  <2>3. duty'[k] >= duty[k]
    BY <2>1, <2>2
  <2>4. QED
    BY <1>1, <2>2, <2>3, <2>1
<1>5. CASE ~RearmEnds /\ ~FinishRelease
  <2>1. UNCHANGED duty
    <3>1. CASE \/ Check \/ Observe \/ Ask \/ Wait \/ Answered \/ Revalidate
               \/ Recheck \/ RevalidateAgain
      BY <3>1 DEF Check, Observe, Ask, Wait, Answered, Revalidate, Recheck,
         RevalidateAgain, RetryOrFinish, FinishWithoutMission, Goto
    <3>2. CASE \/ Plan \/ Leg \/ Episode \/ Tick \/ Dispatch \/ Apply
               \/ ApplyIsStale \/ Stop \/ Brake \/ Boundary
      BY <3>2 DEF Plan, Leg, Episode, Tick, Dispatch, Apply, ApplyIsStale, Stop,
         Brake, Boundary, FinishMission, FinishWithoutMission, Goto
    <3>3. CASE \/ SessionStarts \/ SessionEnds \/ TaskStarts \/ RearmBegins
               \/ DeadlinePasses \/ WorldChanges \/ WorkerReturns \/ UserMoves
      BY <3>3 DEF SessionStarts, SessionEnds, TaskStarts, RearmBegins, DeadlinePasses,
         WorldChanges, WorkerReturns, UserMoves
    <3>4. CASE \/ UserClaims \/ UserActivates \/ UserReleases \/ OperatorSwitches
               \/ UNCHANGED vars
      BY <3>4 DEF UserClaims, UserActivates, UserReleases, OperatorSwitches,
         explorerVars, vars
    <3>5. QED
      BY <1>5, <3>1, <3>2, <3>3, <3>4 DEF Next, Explore, Environment
  <2>2. QED
    BY <1>2, <2>1
<1>6. QED
  BY <1>3, <1>4, <1>5

(* rearm_idle_duty_cycle gives a budget back only while nothing owns or     *)
(* awaits the robot, idling is off, the robot is safe and no selector is    *)
(* alive, and nothing else gives one back.                                  *)
THEOREM ResetsAreQuiet == Spec => BudgetResetIsQuiet
<1>1. Init => RearmIsAlone /\ AuthorityInv
  BY AuthorityInitInv DEF Init, RearmIsAlone
<1>2. AuthorityInv /\ [Next]_vars => AuthorityInv'
  BY AuthorityStep, StepIsAuthorityStep DEF vars
<1>3. Accounts /\ AuthorityInv /\ RearmIsAlone /\ [Next]_vars
         => [(\E k \in Budget : duty'[k] < duty[k]) => ResetIsQuiet]_vars
  BY ResetStep
<1> QED
  BY <1>1, <1>2, <1>3, AccountsInit, AccountsStep, RearmAloneStep, PTL
     DEF Spec, BudgetResetIsQuiet

-----------------------------------------------------------------------------
(* A pulse belongs to the world in which its goal was offered.             *)

\* What is still current of the things the thread holds was read in order.
Views ==
    /\ "context" \in current \/ "plan" \in current => "menu" \in current
    /\ pc \in {"plan"} \cup Driving /\ inPlan /\ "snapshot" \in current
          => "plan" \in current
    /\ pc \in {"dispatch", "apply"} => inPlan

LEMMA SelectionKeepsViews ==
    ASSUME Views, \/ Check \/ Observe \/ Ask \/ Wait \/ Answered \/ Revalidate
                  \/ Recheck \/ RevalidateAgain
    PROVE  Views'
<1> USE DEF Views, Driving
<1>1. CASE Check \/ Ask \/ Wait \/ Answered \/ Recheck
  BY <1>1 DEF Check, Ask, Wait, Answered, Recheck, RetryOrFinish, FinishWithoutMission, Goto
<1>2. CASE Observe
  BY <1>2 DEF Observe, FinishWithoutMission, Goto
<1>3. CASE Revalidate
  BY <1>3 DEF Revalidate, RetryOrFinish, FinishWithoutMission, Goto
<1>4. CASE RevalidateAgain
  BY <1>4 DEF RevalidateAgain, ContextHolds, RetryOrFinish, FinishWithoutMission, Goto
<1> QED
  BY <1>1, <1>2, <1>3, <1>4

LEMMA MissionKeepsViews ==
    ASSUME Views, \/ Plan \/ Leg \/ Episode \/ Tick \/ Dispatch \/ Apply
                  \/ ApplyIsStale \/ Stop \/ Brake \/ Boundary
    PROVE  Views'
<1> USE DEF Views, Driving
<1>1. CASE Plan
  BY <1>1 DEF Plan, FinishMission, FinishWithoutMission, Goto
<1>2. CASE Leg \/ Episode
  BY <1>2 DEF Leg, Episode, FinishMission, Goto
<1>3. CASE Tick
  BY <1>3 DEF Tick, EpisodeMayGo, FinishMission, Goto
<1>4. CASE Dispatch
  BY <1>4 DEF Dispatch, FinishMission, Goto
<1>5. CASE Apply
  BY <1>5 DEF Apply
<1>6. CASE ApplyIsStale
  BY <1>6 DEF ApplyIsStale, FinishMission, Goto
<1>7. CASE Stop \/ Brake \/ Boundary
  BY <1>7 DEF Stop, Brake, Boundary, FinishMission, Goto
<1> QED
  BY <1>1, <1>2, <1>3, <1>4, <1>5, <1>6, <1>7

LEMMA ViewsStep ==
    ASSUME Views, [Next]_vars
    PROVE  Views'
<1>1. CASE SessionStarts \/ SessionEnds \/ TaskStarts \/ RearmBegins \/ RearmEnds
  BY <1>1 DEF Views, Driving, SessionStarts, SessionEnds, TaskStarts, RearmBegins, RearmEnds
<1>2. CASE FinishRelease
  BY <1>2 DEF Views, Driving, FinishRelease, TaskReturns
<1>3. CASE DeadlinePasses \/ WorldChanges \/ WorkerReturns \/ UserMoves
  <2>1. UNCHANGED <<pc, inPlan>> /\ (current' = current \/ current' = {})
    BY <1>3 DEF DeadlinePasses, WorldChanges, WorkerReturns, UserMoves
  <2>2. CASE current' = {}
    <3>1. \A x : x \notin current'
      BY <2>2
    <3> QED
      BY <2>1, <3>1 DEF Views
  <2>3. CASE current' = current
    BY <2>1, <2>3 DEF Views
  <2> QED
    BY <2>1, <2>2, <2>3
<1>4. CASE \/ UserClaims \/ UserActivates \/ UserReleases \/ OperatorSwitches
           \/ UNCHANGED vars
  BY <1>4 DEF Views, UserClaims, UserActivates, UserReleases, OperatorSwitches,
     explorerVars, vars
<1> QED
  BY <1>1, <1>2, <1>3, <1>4, SelectionKeepsViews, MissionKeepsViews
     DEF Next, Explore, Environment

(* A pulse the plant is about to accept belongs to the idle lease and to    *)
(* the world in which the model was offered its goal, whatever changed and  *)
(* whenever it was looked at in between.                                    *)
THEOREM DrivesMatchMenus == Spec => []DriveMatchesMenu
<1>1. Init => Views
  BY DEF Init, Views, Driving
<1>2. Views /\ LeaseEndsWithItsTask => DriveMatchesMenu
  BY DEF Views, Driving, LeaseEndsWithItsTask, InTask, DriveMatchesMenu, PulseIsCurrent
<1> QED
  BY <1>1, <1>2, ViewsStep, TaskKeepsLease, PTL DEF Spec

-----------------------------------------------------------------------------
(* At most one pulse comes after the cancellation.                         *)

\* After a late pulse the next look ends the mission.
Lateness ==
    /\ clock \in Deadline
    /\ lateDrives \in {0, 1}
    /\ lateDrives = 1 => pc \in {"tick"} \cup Stopping
    /\ lateDrives = 1 /\ pc = "tick" => MissionCancelled

LEMMA OwnStepsKeepLateness ==
    ASSUME Lateness, \/ Check \/ Observe \/ Ask \/ Wait \/ Answered \/ Revalidate
                     \/ Recheck \/ RevalidateAgain \/ Plan \/ Leg \/ Episode \/ Tick
                     \/ Dispatch \/ Apply \/ ApplyIsStale \/ Stop \/ Brake \/ Boundary
    PROVE  Lateness'
<1> USE DEF Lateness, Stopping
<1>1. UNCHANGED <<active, cancelSet>>
  BY OwnStepsLeaveAuthority DEF authorityVars
<1>2. CASE Check \/ Observe \/ Ask \/ Wait \/ Answered
  BY <1>2 DEF Check, Observe, Ask, Wait, Answered, RetryOrFinish,
     FinishWithoutMission, Goto, Deadline
<1>3. CASE Revalidate \/ Recheck \/ RevalidateAgain \/ Plan \/ Leg \/ Episode
  BY <1>3 DEF Revalidate, Recheck, RevalidateAgain, Plan, Leg, Episode,
     RetryOrFinish, FinishWithoutMission, FinishMission, Goto
<1>4. CASE Tick
  BY <1>4 DEF Tick, EpisodeMayGo, FinishMission, Goto
<1>5. CASE Dispatch \/ ApplyIsStale
  BY <1>5 DEF Dispatch, ApplyIsStale, FinishMission, Goto
<1>6. CASE Apply
  <2>1. /\ lateDrives = 0 /\ UNCHANGED clock /\ pc' \in {"tick", "brake"}
    BY <1>6 DEF Apply
  <2>2. CASE DriveApplies
    <3>1. lateDrives' = 0 \/ (lateDrives' = 1 /\ (Cancelled \/ clock >= 1))
      BY <2>1, <2>2 DEF DriveApplies
    <3> QED
      BY <1>1, <2>1, <3>1 DEF MissionCancelled, Cancelled
  <2>3. CASE StopApplies
    BY <2>1, <2>3 DEF StopApplies
  <2> QED
    BY <1>6, <2>2, <2>3 DEF Apply
<1>7. CASE Stop \/ Brake \/ Boundary
  BY <1>7 DEF Stop, Brake, Boundary, FinishMission, Goto
<1> QED
  BY <1>2, <1>3, <1>4, <1>5, <1>6, <1>7

LEMMA LatenessStep ==
    ASSUME Lateness, LeaseEndsWithItsTask, [Next]_vars
    PROVE  Lateness'
<1>1. CASE SessionStarts \/ SessionEnds \/ TaskStarts \/ RearmBegins \/ RearmEnds
  BY <1>1 DEF Lateness, Stopping, Deadline, SessionStarts, SessionEnds, TaskStarts,
     RearmBegins, RearmEnds
<1>2. CASE FinishRelease
  BY <1>2 DEF Lateness, FinishRelease
<1>3. CASE DeadlinePasses \/ WorldChanges \/ WorkerReturns \/ UserMoves
  <2>1. UNCHANGED <<pc, lateDrives, active, cancelSet>>
    BY <1>3 DEF DeadlinePasses, WorldChanges, WorkerReturns, UserMoves, authorityVars
  <2>2. clock' \in Deadline /\ (clock >= 1 => clock' >= 1)
    <3>1. CASE DeadlinePasses
      BY <3>1 DEF DeadlinePasses, Lateness, Deadline
    <3>2. CASE WorldChanges \/ WorkerReturns \/ UserMoves
      BY <3>2 DEF WorldChanges, WorkerReturns, UserMoves, Lateness
    <3> QED
      BY <1>3, <3>1, <3>2
  <2> QED
    BY <2>1, <2>2 DEF Lateness, MissionCancelled, Cancelled
<1>4. CASE UserClaims \/ OperatorSwitches
  <2>1. UNCHANGED <<pc, lateDrives, active, clock>> /\ cancelSet \subseteq cancelSet'
    BY <1>4 DEF UserClaims, OperatorSwitches, ReserveUser, CancelUserReservation,
       SetIdleEnabled, explorerVars
  <2> QED
    BY <2>1 DEF Lateness, MissionCancelled, Cancelled
<1>5. CASE UserActivates \/ UserReleases
  <2>1. UNCHANGED <<pc, lateDrives, clock>> /\ ~IdleHolds
    BY <1>5, NullFields DEF UserActivates, UserReleases, ActivateUser, explorerVars, IdleHolds
  <2>2. pc # "tick"
    BY <2>1 DEF LeaseEndsWithItsTask, InTask, Driving
  <2> QED
    BY <2>1, <2>2 DEF Lateness
<1>6. CASE UNCHANGED vars
  BY <1>6 DEF vars, explorerVars, authorityVars, Lateness, MissionCancelled, Cancelled
<1> QED
  BY <1>1, <1>2, <1>3, <1>4, <1>5, <1>6, OwnStepsKeepLateness
     DEF Next, Explore, Environment

(* In whatever order a user, the operator and the deadlines cancel a        *)
(* mission, only a pulse past its last check still reaches the plant.       *)
THEOREM OneLatePulse == Spec => []AtMostOneLatePulse
<1>1. Init => Lateness
  BY DEF Init, Lateness, Deadline
<1>2. Lateness => AtMostOneLatePulse
  BY DEF Lateness, AtMostOneLatePulse
<1> QED
  BY <1>1, <1>2, LatenessStep, TaskKeepsLease, PTL DEF Spec

-----------------------------------------------------------------------------
(* The types that neither the accounts nor the lateness carry.             *)

Marks ==
    /\ pc \in AtRest \cup Selecting \cup {"plan"} \cup Driving \cup Stopping
    /\ current \in SUBSET Known
    /\ {once, seen, inPlan, unsafe, verified, mission} \subseteq BOOLEAN
    /\ worker \in {"none", "asked", "done", "late"}
    /\ pulse \in {"DRIVE", "STOP"}
    /\ outcome \in {"completed", "aborted", "stale", "ended"}

LEMMA SelectionKeepsMarks ==
    ASSUME Marks, Check \/ Observe \/ Ask \/ Wait \/ Answered \/ Revalidate
                  \/ Recheck \/ RevalidateAgain
    PROVE  Marks'
<1> USE DEF Marks, Selecting, Driving, Stopping, AtRest, Known, RetryOrFinish,
    FinishWithoutMission, Goto
<1>1. CASE Check \/ Observe
  BY <1>1 DEF Check, Observe
<1>2. CASE Ask \/ Wait \/ Answered
  BY <1>2 DEF Ask, Wait, Answered
<1>3. CASE Revalidate \/ Recheck \/ RevalidateAgain
  BY <1>3 DEF Revalidate, Recheck, RevalidateAgain
<1> QED
  BY <1>1, <1>2, <1>3

LEMMA MissionKeepsMarks ==
    ASSUME Marks, Plan \/ Leg \/ Episode \/ Tick \/ Dispatch \/ Apply \/ ApplyIsStale
                  \/ Stop \/ Brake \/ Boundary
    PROVE  Marks'
<1> USE DEF FinishMission, FinishWithoutMission, Goto
<1>1. current' \in SUBSET Known
  BY DEF Plan, Leg, Episode, Tick, Dispatch, Apply, ApplyIsStale, Stop, Brake,
     Boundary, Marks, Known
<1>2. inPlan' \in BOOLEAN
  <2>1. inPlan' = inPlan \/ inPlan' = ("plan" \in current)
    BY DEF Plan, Leg, Episode, Tick, Dispatch, Apply, ApplyIsStale, Stop, Brake, Boundary
  <2>2. inPlan \in BOOLEAN /\ ("plan" \in current) \in BOOLEAN
    BY DEF Marks
  <2> QED
    BY <2>1, <2>2
<1>3. {verified, unsafe}' \subseteq BOOLEAN
  <2>1. verified' \in BOOLEAN
    <3>1. verified' = verified \/ verified' = PulseIsCurrent
      BY DEF Plan, Leg, Episode, Tick, Dispatch, Apply, ApplyIsStale, Stop, Brake, Boundary
    <3>2. verified \in BOOLEAN /\ PulseIsCurrent \in BOOLEAN
      BY DEF Marks, PulseIsCurrent
    <3> QED
      BY <3>1, <3>2
  <2>2. unsafe' \in BOOLEAN
    BY DEF Plan, Leg, Episode, Tick, Dispatch, Apply, DriveApplies, StopApplies,
       ApplyIsStale, Stop, Brake, Boundary, Marks
  <2> QED
    BY <2>1, <2>2
<1>4. UNCHANGED <<once, seen, worker>> /\ mission' \in {mission, TRUE, FALSE}
  BY DEF Plan, Leg, Episode, Tick, Dispatch, Apply, ApplyIsStale, Stop, Brake, Boundary
<1>5. /\ pc' \in {"stop", "leg", "episode", "tick", "dispatch", "apply", "brake",
                  "boundary", "release"}
      /\ outcome' \in {outcome, "ended", "aborted", "stale", "completed"}
      /\ pulse' \in {pulse, "DRIVE", "STOP"}
  BY DEF Plan, Leg, Episode, Tick, Dispatch, Apply, ApplyIsStale, Stop, Brake, Boundary
<1> QED
  BY ZenonT(60), <1>1, <1>2, <1>3, <1>4, <1>5 DEF Marks, Driving, Stopping

LEMMA MarksStep ==
    ASSUME Marks, [Next]_vars
    PROVE  Marks'
<1> USE DEF Marks, Selecting, Driving, Stopping, AtRest, Known
<1>1. CASE SessionStarts \/ SessionEnds \/ TaskStarts \/ RearmBegins \/ RearmEnds
  BY <1>1 DEF SessionStarts, SessionEnds, TaskStarts, RearmBegins, RearmEnds
<1>2. CASE FinishRelease
  BY <1>2 DEF FinishRelease, TaskReturns
<1>3. CASE DeadlinePasses \/ WorldChanges \/ WorkerReturns \/ UserMoves
  BY <1>3 DEF DeadlinePasses, WorldChanges, WorkerReturns, UserMoves
<1>4. CASE \/ UserClaims \/ UserActivates \/ UserReleases \/ OperatorSwitches
           \/ UNCHANGED vars
  BY <1>4 DEF UserClaims, UserActivates, UserReleases, OperatorSwitches, vars, explorerVars
<1> QED
  BY <1>1, <1>2, <1>3, <1>4, SelectionKeepsMarks, MissionKeepsMarks
     DEF Next, Explore, Environment

(* IdleExplorationService: its own state and the coordinator's it shares    *)
(* keep their types: no count goes below zero, no lease, reservation or     *)
(* generation is one the coordinator did not issue.                         *)
THEOREM ExplorerTypeCorrect == Spec => []TypeOK
<1>1. Init => Marks
  BY DEF Init, Marks, AtRest
<1>2. Init => Lateness
  BY DEF Init, Lateness, Deadline
<1>3. Accounts /\ Lateness /\ Marks /\ AuthorityTypeOK => TypeOK
  BY DEF Accounts, Lateness, Marks, TypeOK
<1> QED
  BY <1>1, <1>2, <1>3, AccountsInit, AccountsStep, LatenessStep, TaskKeepsLease, MarksStep,
     ExplorerUsesAuthority, AuthorityTypeCorrect, PTL DEF Spec

=============================================================================
