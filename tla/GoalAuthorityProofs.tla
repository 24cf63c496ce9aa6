------------------------ MODULE GoalAuthorityProofs ------------------------
(* Proofs about GoalAuthority, whatever its callers do and however often.  *)
EXTENDS GoalAuthority, TLAPS

\* After a fault nothing is owned and nobody waits.
FaultedIsEmpty == faulted => active = NoLease /\ pending = NoReservation

AuthorityInv ==
    /\ AuthorityTypeOK
    /\ PreemptedIdleIsCancelled
    /\ RearmIsQuiet
    /\ ReservationSpentOnce
    /\ FaultedIsEmpty

LEMMA NullFields ==
    /\ NoLease.owner = "none" /\ NoLease.generation = 0
    /\ NoReservation.generation = 0
BY DEF NoLease, NoReservation

\* What is held or waiting was issued: its generation is a positive one.
LEMMA HeldWasIssued ==
    ASSUME AuthorityTypeOK
    PROVE  /\ active # NoLease => active.generation \in 1..generation
           /\ pending # NoReservation => pending.generation \in 1..generation
<1>1. ASSUME active # NoLease PROVE active.generation \in 1..generation
  <2>1. active \in Lease
    BY <1>1 DEF AuthorityTypeOK
  <2>2. active.generation \in Generation
    BY <2>1 DEF Lease
  <2> QED
    BY <2>2, GenerationAssumption DEF AuthorityTypeOK, Generation
<1>2. ASSUME pending # NoReservation
      PROVE  pending.generation \in 1..generation
  <2>1. pending \in Reservation
    BY <1>2 DEF AuthorityTypeOK
  <2>2. pending.generation \in Generation
    BY <2>1 DEF Reservation
  <2> QED
    BY <2>2, GenerationAssumption DEF AuthorityTypeOK, Generation
<1> QED
  BY <1>1, <1>2

LEMMA AuthorityInitInv == AuthorityInit => AuthorityInv
<1> SUFFICES ASSUME AuthorityInit PROVE AuthorityInv
  OBVIOUS
<1>1. AuthorityTypeOK
  <2>1. /\ active = NoLease /\ active.generation = 0
        /\ pending = NoReservation /\ pending.generation = 0
    BY NullFields DEF AuthorityInit
  <2>2. /\ generation \in 0..MaxGeneration
        /\ nextEpoch \in 1..generation + 1
        /\ 0 \in 0..generation
    BY GenerationAssumption DEF AuthorityInit
  <2> QED
    BY <2>1, <2>2 DEF AuthorityInit, AuthorityTypeOK
<1>2. PreemptedIdleIsCancelled /\ RearmIsQuiet /\ FaultedIsEmpty
  BY NullFields DEF AuthorityInit, PreemptedIdleIsCancelled, RearmIsQuiet,
     FaultedIsEmpty, IdleHolds
<1>3. ReservationSpentOnce
  BY DEF AuthorityInit, ReservationSpentOnce
<1> QED
  BY <1>1, <1>2, <1>3 DEF AuthorityInv

\* What an issued lease looks like.
LEMMA AllocateType ==
    ASSUME AuthorityTypeOK, NEW owner \in Owner, Allocate(owner)
    PROVE  /\ generation' = generation + 1
           /\ generation' \in 0..MaxGeneration
           /\ nextEpoch' \in 1..generation' + 1
           /\ active' \in Lease
           /\ active'.generation \in 0..generation'
<1>1. generation + 1 \in Generation /\ nextEpoch \in Generation
  BY GenerationAssumption
     DEF AuthorityTypeOK, Allocate, MayIssue, Generation
<1>2. active' \in Lease /\ active'.generation = generation + 1
  BY <1>1 DEF Allocate, Lease
<1> QED
  BY <1>1, <1>2, GenerationAssumption
     DEF AuthorityTypeOK, Allocate, MayIssue, Generation

LEMMA AuthorityTypeStep ==
    ASSUME AuthorityTypeOK, AuthorityNext
    PROVE  AuthorityTypeOK'
<1> USE GenerationAssumption
<1>1. ASSUME NEW enabled \in BOOLEAN, SetIdleEnabled(enabled)
      PROVE  AuthorityTypeOK'
  <2>1. IdleHolds => active.generation \in 1..generation
    BY HeldWasIssued, NullFields DEF IdleHolds
  <2>2. cancelSet' \in SUBSET (1..generation)
    BY <1>1, <2>1 DEF SetIdleEnabled, AuthorityTypeOK
  <2> QED
    BY <1>1, <2>2 DEF SetIdleEnabled, AuthorityTypeOK
<1>2. CASE TryAcquireIdle
  <2>1. Allocate("IDLE_EXPLORATION")
    BY <1>2 DEF TryAcquireIdle
  <2>2. /\ generation' = generation + 1
        /\ generation' \in 0..MaxGeneration
        /\ nextEpoch' \in 1..generation' + 1
        /\ active' \in Lease
        /\ active'.generation \in 0..generation'
    BY <2>1, AllocateType DEF Owner
  <2> QED
    BY <1>2, <2>2 DEF TryAcquireIdle, AuthorityTypeOK
<1>3. ASSUME NEW request \in UserRequest, ReserveUser(request)
      PROVE  AuthorityTypeOK'
  <2>1. generation' = generation + 1 /\ generation + 1 \in Generation
    BY <1>3 DEF ReserveUser, MayReserve, AuthorityTypeOK, Generation
  <2>2. /\ pending' \in Reservation
        /\ pending'.generation \in 0..generation'
    BY <1>3, <2>1 DEF ReserveUser, Reservation, Generation
  <2>3. cancelSet' \in SUBSET (1..generation')
    <3>1. 1..generation \subseteq 1..generation'
      BY <2>1 DEF AuthorityTypeOK
    <3>2. cancelSet' \in SUBSET (1..generation)
      BY <1>3, HeldWasIssued DEF ReserveUser, AuthorityTypeOK
    <3> QED
      BY <3>1, <3>2
  <2> QED
    BY <1>3, <2>1, <2>2, <2>3 DEF ReserveUser, AuthorityTypeOK, Generation
<1>4. CASE CancelUserReservation
  <2>1. /\ pending' = NoReservation /\ pending'.generation = 0
        /\ cancelledUsers' \in SUBSET (1..generation)
    BY <1>4, HeldWasIssued, NullFields
       DEF CancelUserReservation, AuthorityTypeOK
  <2> QED
    BY <1>4, <2>1 DEF CancelUserReservation, AuthorityTypeOK
<1>5. CASE ActivateUser
  <2>1. Allocate("USER")
    BY <1>5 DEF ActivateUser
  <2>2. /\ generation' = generation + 1
        /\ generation' \in 0..MaxGeneration
        /\ nextEpoch' \in 1..generation' + 1
        /\ active' \in Lease
        /\ active'.generation \in 0..generation'
    BY <2>1, AllocateType DEF Owner
  <2>3. /\ pending' = NoReservation /\ pending'.generation = 0
        /\ activatedUsers' \in SUBSET (1..generation')
    <3>1. 1..generation \subseteq 1..generation'
      BY <2>2 DEF AuthorityTypeOK
    <3>2. activatedUsers' \in SUBSET (1..generation)
      BY <1>5, HeldWasIssued DEF ActivateUser, AuthorityTypeOK
    <3> QED
      BY <1>5, <3>1, <3>2, NullFields DEF ActivateUser
  <2> QED
    BY <1>5, <2>2, <2>3 DEF ActivateUser, AuthorityTypeOK
<1>6. CASE BeginIdleDutyRearm
  BY <1>6 DEF BeginIdleDutyRearm, MayIssue, AuthorityTypeOK, Generation
<1>7. CASE FinishIdleDutyRearm
  BY <1>7 DEF FinishIdleDutyRearm, AuthorityTypeOK
<1>8. ASSUME NEW safe \in BOOLEAN, Release(active, safe)
      PROVE  AuthorityTypeOK'
  <2>1. active'.generation = 0 /\ pending'.generation \in 0..generation
    BY <1>8, NullFields DEF Release, AuthorityTypeOK
  <2> QED
    BY <1>8, <2>1 DEF Release, AuthorityTypeOK
<1> QED
  BY <1>1, <1>2, <1>3, <1>4, <1>5, <1>6, <1>7, <1>8 DEF AuthorityNext

LEMMA AuthorityStep == AuthorityInv /\ [AuthorityNext]_authorityVars => AuthorityInv'
<1> SUFFICES ASSUME AuthorityInv, [AuthorityNext]_authorityVars
             PROVE  AuthorityInv'
  OBVIOUS
<1>1. CASE UNCHANGED authorityVars
  BY <1>1 DEF authorityVars, AuthorityInv, AuthorityTypeOK,
     PreemptedIdleIsCancelled, RearmIsQuiet, ReservationSpentOnce,
     FaultedIsEmpty, IdleHolds
<1>2. ASSUME AuthorityNext PROVE AuthorityInv'
  <2>1. AuthorityTypeOK'
    BY <1>2, AuthorityTypeStep DEF AuthorityInv
  <2>2. PreemptedIdleIsCancelled'
    BY <1>2 DEF AuthorityInv, AuthorityTypeOK, AuthorityNext, SetIdleEnabled,
       TryAcquireIdle, ReserveUser, CancelUserReservation, ActivateUser,
       BeginIdleDutyRearm, FinishIdleDutyRearm, Release, Allocate, NoClaims,
       PreemptedIdleIsCancelled, IdleHolds, Owner, Lease, NoLease
  <2>3. RearmIsQuiet'
    BY <1>2 DEF AuthorityInv, AuthorityNext, SetIdleEnabled,
       TryAcquireIdle, ReserveUser, CancelUserReservation, ActivateUser,
       BeginIdleDutyRearm, FinishIdleDutyRearm, Release, NoClaims,
       RearmIsQuiet
  <2>4. ReservationSpentOnce'
    <3>1. ASSUME NEW request \in UserRequest, ReserveUser(request)
          PROVE  ReservationSpentOnce'
      BY <3>1, GenerationAssumption DEF ReserveUser, AuthorityInv,
         AuthorityTypeOK, ReservationSpentOnce
    <3>2. CASE CancelUserReservation
      <4>1. pending.generation \in 1..generation
        BY <3>2, HeldWasIssued DEF CancelUserReservation, AuthorityInv
      <4>2. 0 \notin cancelledUsers' \cup activatedUsers
        BY <3>2, <4>1 DEF CancelUserReservation, AuthorityInv, AuthorityTypeOK
      <4> QED
        BY <3>2, <4>2, NullFields
           DEF CancelUserReservation, AuthorityInv, ReservationSpentOnce
    <3>3. CASE ActivateUser
      <4>1. pending.generation \in 1..generation
        BY <3>3, HeldWasIssued DEF ActivateUser, AuthorityInv
      <4>2. 0 \notin cancelledUsers \cup activatedUsers'
        BY <3>3, <4>1 DEF ActivateUser, AuthorityInv, AuthorityTypeOK
      <4> QED
        BY <3>3, <4>2, NullFields
           DEF ActivateUser, AuthorityInv, ReservationSpentOnce
    <3>4. ASSUME NEW safe \in BOOLEAN, Release(active, safe)
          PROVE  ReservationSpentOnce'
      BY <3>4 DEF Release, AuthorityInv, AuthorityTypeOK,
         ReservationSpentOnce, NoReservation
    <3>5. ASSUME UNCHANGED <<pending, cancelledUsers, activatedUsers>>
          PROVE  ReservationSpentOnce'
      BY <3>5 DEF AuthorityInv, ReservationSpentOnce
    <3> QED
      BY <1>2, <3>1, <3>2, <3>3, <3>4, <3>5 DEF AuthorityNext,
         SetIdleEnabled, TryAcquireIdle, BeginIdleDutyRearm,
         FinishIdleDutyRearm
  <2>5. FaultedIsEmpty'
    BY <1>2 DEF AuthorityInv, AuthorityNext, SetIdleEnabled,
       TryAcquireIdle, ReserveUser, CancelUserReservation, ActivateUser,
       BeginIdleDutyRearm, FinishIdleDutyRearm, Release, NoClaims,
       FaultedIsEmpty
  <2> QED
    BY <2>1, <2>2, <2>3, <2>4, <2>5 DEF AuthorityInv
<1> QED
  BY <1>1, <1>2

THEOREM AuthorityInvariance == AuthoritySpec => []AuthorityInv
  BY AuthorityInitInv, AuthorityStep, PTL DEF AuthoritySpec

(* The coordinator's fields keep their types; epochs never outrun the      *)
(* generations they are issued with.                                       *)
THEOREM AuthorityTypeCorrect == AuthoritySpec => []AuthorityTypeOK
<1>1. AuthorityInv => AuthorityTypeOK
  BY DEF AuthorityInv
<1> QED
  BY <1>1, AuthorityInvariance, PTL

(* An idle lease that must yield has been told so.                         *)
THEOREM PreemptionIsTold == AuthoritySpec => []PreemptedIdleIsCancelled
<1>1. AuthorityInv => PreemptedIdleIsCancelled
  BY DEF AuthorityInv
<1> QED
  BY <1>1, AuthorityInvariance, PTL

(* Re-arming the idle budgets excludes every goal.                         *)
THEOREM RearmExcludesGoals == AuthoritySpec => []RearmIsQuiet
<1>1. AuthorityInv => RearmIsQuiet
  BY DEF AuthorityInv
<1> QED
  BY <1>1, AuthorityInvariance, PTL

(* The race of a cancellation and an activation has one winner.            *)
THEOREM SpentOnce == AuthoritySpec => []ReservationSpentOnce
<1>1. AuthorityInv => ReservationSpentOnce
  BY DEF AuthorityInv
<1> QED
  BY <1>1, AuthorityInvariance, PTL

(* A fault ends all goal ownership for good.                               *)
THEOREM FaultEndsOwnership == AuthoritySpec => FaultIsFinal
<1>1. AuthorityInv => (faulted => active = NoLease /\ pending = NoReservation)
  BY DEF AuthorityInv, FaultedIsEmpty
<1>2. AuthorityInv /\ [AuthorityNext]_authorityVars =>
          [faulted => faulted' /\ active' = NoLease]_authorityVars
  BY DEF AuthorityInv, FaultedIsEmpty, AuthorityNext, SetIdleEnabled,
     TryAcquireIdle, ReserveUser, CancelUserReservation, ActivateUser,
     BeginIdleDutyRearm, FinishIdleDutyRearm, Release, NoClaims
<1> QED
  BY <1>1, <1>2, AuthorityInvariance, PTL DEF AuthoritySpec, FaultIsFinal

=============================================================================
