--------------------------- MODULE GoalAuthority ---------------------------
(***************************************************************************)
(* GoalLeaseCoordinator: which high-level goal, the user's or the idle     *)
(* explorer's, may create motion on one robot.  Every method holds the     *)
(* coordinator's lock throughout, so every method is one step; a call that *)
(* raises or answers without effect is no step at all.                     *)
(*                                                                         *)
(* A lease and a reservation are in-process capabilities compared by       *)
(* identity; the generation each carries identifies it here.               *)
(***************************************************************************)
EXTENDS Integers

CONSTANTS
    UserRequest,    \* request ids of user goals
    MaxGeneration   \* bound: leases, reservations and guards ever issued

ASSUME GenerationAssumption == MaxGeneration \in Nat

Owner == {"IDLE_EXPLORATION", "USER"}
Generation == 1..MaxGeneration

Lease == [owner : Owner, generation : Generation, goal_epoch : Generation]
NoLease == [owner |-> "none", generation |-> 0, goal_epoch |-> 0]

Reservation == [request : UserRequest, generation : Generation]
NoReservation == [request |-> "none", generation |-> 0]

NoGuard == 0

VARIABLES
    idleEnabled,     \* _idle_enabled
    faulted,         \* _faulted
    active,          \* _active
    pending,         \* _pending_user
    guard,           \* _idle_rearm_guard: its generation, or NoGuard
    generation,      \* _generation
    nextEpoch,       \* _next_goal_epoch (and _next_plan_revision with it)
    cancelSet,       \* generations of the leases whose cancel event is set
    cancelledUsers,  \* _cancelled_users: generations of the reservations
    activatedUsers   \* _activated_users

authorityVars == <<idleEnabled, faulted, active, pending, guard, generation,
                   nextEpoch, cancelSet, cancelledUsers, activatedUsers>>

AuthorityTypeOK ==
    /\ idleEnabled \in BOOLEAN
    /\ faulted \in BOOLEAN
    /\ active \in Lease \cup {NoLease}
    /\ pending \in Reservation \cup {NoReservation}
    /\ active.generation \in 0..generation
    /\ pending.generation \in 0..generation
    /\ guard \in Generation \cup {NoGuard}
    /\ generation \in 0..MaxGeneration
    /\ nextEpoch \in 1..generation + 1
    /\ cancelSet \in SUBSET (1..generation)
    /\ cancelledUsers \in SUBSET (1..generation)
    /\ activatedUsers \in SUBSET (1..generation)

AuthorityInit ==
    /\ idleEnabled \in BOOLEAN
    /\ faulted = FALSE
    /\ active = NoLease
    /\ pending = NoReservation
    /\ guard = NoGuard
    /\ generation = 0
    /\ nextEpoch = 1
    /\ cancelSet = {}
    /\ cancelledUsers = {}
    /\ activatedUsers = {}

-----------------------------------------------------------------------------
IdleHolds == active.owner = "IDLE_EXPLORATION"

\* The bound leaves every reservation room for its activation.
MayIssue == generation < MaxGeneration
MayReserve == generation + 1 < MaxGeneration

\* _allocate_locked
Allocate(owner) ==
    /\ MayIssue
    /\ generation' = generation + 1
    /\ nextEpoch' = nextEpoch + 1
    /\ active' = [owner |-> owner, generation |-> generation + 1,
                  goal_epoch |-> nextEpoch]

\* Disabling cancels an active idle lease; enabling restores nothing.
SetIdleEnabled(enabled) ==
    /\ enabled => guard = NoGuard
    /\ idleEnabled' = enabled
    /\ cancelSet' = IF ~enabled /\ IdleHolds
                    THEN cancelSet \cup {active.generation} ELSE cancelSet
    /\ UNCHANGED <<faulted, active, pending, guard, generation, nextEpoch,
                   cancelledUsers, activatedUsers>>

\* Variant: a waiting user does not count as a claim.
NoClaims_Waiting ==
    /\ ~faulted
    /\ active = NoLease
    /\ guard = NoGuard

\* No goal of any kind exists or is claimed.
NoClaims ==
    /\ ~faulted
    /\ active = NoLease
    /\ pending = NoReservation
    /\ guard = NoGuard

TryAcquireIdle ==
    /\ idleEnabled
    /\ NoClaims
    /\ Allocate("IDLE_EXPLORATION")
    /\ UNCHANGED <<idleEnabled, faulted, pending, guard, cancelSet,
                   cancelledUsers, activatedUsers>>

\* Variant: the claim does not cancel the idle lease it waits for.
ReserveUser_Uncancelled(request) ==
    /\ guard = NoGuard
    /\ ~faulted
    /\ pending = NoReservation
    /\ active.owner # "USER"
    /\ MayReserve
    /\ generation' = generation + 1
    /\ pending' = [request |-> request, generation |-> generation + 1]
    /\ UNCHANGED <<idleEnabled, faulted, active, guard, nextEpoch, cancelSet,
                   cancelledUsers, activatedUsers>>

\* Repeating the request id of the pending reservation only returns it.
ReserveUser(request) ==
    /\ guard = NoGuard
    /\ ~faulted
    /\ pending = NoReservation
    /\ active.owner # "USER"
    /\ MayReserve
    /\ generation' = generation + 1
    /\ pending' = [request |-> request, generation |-> generation + 1]
    /\ cancelSet' = IF active # NoLease
                    THEN cancelSet \cup {active.generation} ELSE cancelSet
    /\ UNCHANGED <<idleEnabled, faulted, active, guard, nextEpoch,
                   cancelledUsers, activatedUsers>>

\* Variant: the claim is recorded as cancelled and still pending.
CancelUserReservation_Pending ==
    /\ pending # NoReservation
    /\ cancelledUsers' = cancelledUsers \cup {pending.generation}
    /\ UNCHANGED <<idleEnabled, faulted, active, pending, guard, generation,
                   nextEpoch, cancelSet, activatedUsers>>

\* Cancelling never takes an idle lease's cancel event back.
CancelUserReservation ==
    /\ pending # NoReservation
    /\ pending' = NoReservation
    /\ cancelledUsers' = cancelledUsers \cup {pending.generation}
    /\ UNCHANGED <<idleEnabled, faulted, active, guard, generation, nextEpoch,
                   cancelSet, activatedUsers>>

ActivateUser ==
    /\ guard = NoGuard
    /\ ~faulted
    /\ pending # NoReservation
    /\ active = NoLease
    /\ pending' = NoReservation
    /\ activatedUsers' = activatedUsers \cup {pending.generation}
    /\ Allocate("USER")
    /\ UNCHANGED <<idleEnabled, faulted, guard, cancelSet, cancelledUsers>>

BeginIdleDutyRearm ==
    /\ ~idleEnabled
    /\ NoClaims
    /\ MayIssue
    /\ generation' = generation + 1
    /\ guard' = generation + 1
    /\ UNCHANGED <<idleEnabled, faulted, active, pending, nextEpoch, cancelSet,
                   cancelledUsers, activatedUsers>>

FinishIdleDutyRearm ==
    /\ guard # NoGuard
    /\ guard' = NoGuard
    /\ UNCHANGED <<idleEnabled, faulted, active, pending, generation,
                   nextEpoch, cancelSet, cancelledUsers, activatedUsers>>

IsCurrentIdle(lease) ==
    /\ active = lease
    /\ lease.owner = "IDLE_EXPLORATION"
    /\ idleEnabled
    /\ ~faulted
    /\ pending = NoReservation
    /\ lease.generation \notin cancelSet

\* Variant: the fault forgets the user who is waiting.
Release_Waiting(lease, safe) ==
    /\ active # NoLease
    /\ active = lease
    /\ active' = NoLease
    /\ faulted' = (faulted \/ ~safe)
    /\ UNCHANGED <<idleEnabled, pending, guard, generation, nextEpoch, cancelSet,
                   cancelledUsers, activatedUsers>>

\* safe: the stop is verified and the final snapshot is of this robot, goal
\* and plan, without motion, touch or fault.
Release(lease, safe) ==
    /\ active # NoLease
    /\ active = lease
    /\ active' = NoLease
    /\ faulted' = (faulted \/ ~safe)
    /\ pending' = IF safe THEN pending ELSE NoReservation
    /\ UNCHANGED <<idleEnabled, guard, generation, nextEpoch, cancelSet,
                   cancelledUsers, activatedUsers>>

AuthorityNext ==
    \/ \E enabled \in BOOLEAN : SetIdleEnabled(enabled)
    \/ TryAcquireIdle
    \/ \E request \in UserRequest : ReserveUser(request)
    \/ CancelUserReservation
    \/ ActivateUser
    \/ BeginIdleDutyRearm
    \/ FinishIdleDutyRearm
    \/ \E safe \in BOOLEAN : Release(active, safe)

AuthoritySpec == AuthorityInit /\ [][AuthorityNext]_authorityVars

(***************************************************************************)
(* Properties                                                              *)
(***************************************************************************)

\* An idle lease that has lost its right to move, because a user waits or
\* idle was disabled, has its cancel event set: nothing is lost between the
\* explorer's checks.
PreemptedIdleIsCancelled ==
    IdleHolds /\ (pending # NoReservation \/ ~idleEnabled) =>
        active.generation \in cancelSet

\* While host budgets are re-armed no goal exists or can be created.
RearmIsQuiet ==
    guard # NoGuard =>
        active = NoLease /\ pending = NoReservation /\ ~idleEnabled

\* After an unverified stop nothing owns the robot and nothing ever will.
FaultIsFinal ==
    /\ [](faulted => active = NoLease /\ pending = NoReservation)
    /\ [][faulted => faulted' /\ active' = NoLease]_authorityVars

\* A reservation is spent once: cancelled or activated, whichever wins the
\* race, and a spent one is not pending any more.
ReservationSpentOnce ==
    /\ cancelledUsers \cap activatedUsers = {}
    /\ pending.generation \notin cancelledUsers \cup activatedUsers

=============================================================================
