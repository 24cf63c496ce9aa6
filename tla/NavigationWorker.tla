-------------------------- MODULE NavigationWorker --------------------------
(***************************************************************************)
(* The navigation worker on the EV3 (src/ev3/navigation_worker.py and      *)
(* navigation_worker_cli.py) and the robot it moves.  The host starts it   *)
(* over SSH; it takes the motor lock, serves one request at a time, checks *)
(* before and during every slice of a motion whether its input has become  *)
(* readable (which means the channel was closed) and releases the lock,    *)
(* motors stopped, when it leaves.                                         *)
(*                                                                         *)
(* A worker whose host has gone keeps the lock until it notices, so one    *)
(* started meanwhile fails.  Touch, infrared and encoder verification are  *)
(* choices.  Budgets and the process lifetime end a session at any moment. *)
(* The encoders follow every movement of the robot: wheels do not slip.    *)
(***************************************************************************)
EXTENDS Integers

CONSTANTS
    Slices,         \* slices of a semantic pulse
    SliceTravel,    \* what a completed slice moves, in encoder degrees
    TurnSlip        \* by how much a verified turn may miss that

ASSUME WorkerAssumption == /\ Slices \in Nat \ {0} /\ SliceTravel \in Nat \ {0}
                           /\ TurnSlip \in Nat

VARIABLES
    worker,     \* the process that holds the motor lock
    by,         \* the episode that started it
    link,       \* its SSH channel
    boot,       \* a process on its way up, for which channel and episode
    frame,      \* the request in the pipe of the newest process
    job,        \* the motion being executed
    done,       \* completed slices of it
    travel,     \* what its receipts add up to
    fault,      \* motion_fault_latched
    reply,      \* the response line the host can read
    wheels      \* the encoder positions, and so the way the robot has gone

workerVars == <<worker, by, link, boot, frame, job, done, travel, fault, reply,
                wheels>>
motion == <<job, done, travel>>
process == <<by, link, boot>>

Motions == {"pulse", "turnOut", "turnBack"}
Readings == {"describe", "observe", "sample", "stop"}
NoBoot == [link |-> "none", by |-> 0]
NoReply == [kind |-> "none"]

Direction(op) == IF op = "turnBack" THEN -1 ELSE 1
SlicesOf(op) == IF op = "pulse" THEN Slices ELSE 1

Line(kind, status, moved, at, latched) ==
    [kind |-> kind, status |-> status, travel |-> moved, at |-> at,
     fault |-> latched]

(* Nothing written to a closed channel is read.                            *)
Reply(line) == reply' = IF link = "open" THEN line ELSE reply

(* The process ends: the motor lock is free, its pipe is gone with it.     *)
Gone == worker' = "none" /\ by' = 0 /\ link' = "none" /\ fault' = FALSE

(* A worker that has seen its channel close requests its own shutdown.     *)
AfterAnswer == IF link = "cut" THEN Gone
               ELSE worker' = "ready" /\ UNCHANGED <<by, link>>

-----------------------------------------------------------------------------
(* The process.                                                            *)

Boots ==
    /\ boot # NoBoot /\ worker = "none"
    /\ worker' = "ready" /\ by' = boot.by /\ link' = boot.link
    /\ boot' = NoBoot /\ fault' = FALSE
    /\ UNCHANGED <<frame, reply, wheels, motion>>

(* The motor lock is taken, or the startup stop or sensors fail.           *)
BootFails ==
    /\ boot # NoBoot
    /\ reply' = IF boot.link = "open"
                THEN Line("fatal", "none", 0, wheels, FALSE) ELSE reply
    /\ boot' = NoBoot /\ frame' = "none"
    /\ UNCHANGED <<worker, by, link, fault, wheels, motion>>

ChannelCloses ==
    /\ link = "closing"
    /\ link' = "cut"
    /\ UNCHANGED <<worker, by, boot, frame, fault, reply, wheels, motion>>

Leaves == /\ Gone /\ frame' = IF boot = NoBoot THEN "none" ELSE frame
          /\ UNCHANGED <<boot, reply, wheels, motion>>

HangsUp ==
    /\ worker = "ready" /\ link = "cut" /\ (frame = "none" \/ boot # NoBoot)
    /\ Leaves
Expires == worker = "ready" /\ Leaves

(* An error the worker cannot recover from: it stops the motors, says so   *)
(* and leaves.                                                             *)
Fails ==
    /\ worker \in {"ready", "guard", "moving"}
    /\ \E moved \in IF worker = "moving" THEN 0..SliceTravel ELSE {0} :
          wheels' = wheels + Direction(job) * moved
    /\ Reply(Line("fatal", "none", 0, wheels, fault))
    /\ Gone /\ job' = "none" /\ done' = 0 /\ travel' = 0
    /\ frame' = IF boot = NoBoot THEN "none" ELSE frame
    /\ UNCHANGED boot

-----------------------------------------------------------------------------
(* Requests.                                                               *)

Takes(op) == worker = "ready" /\ boot = NoBoot /\ frame = op /\ frame' = "none"

Reads ==
    /\ \E op \in Readings : Takes(op)
    /\ Reply(Line("ok", "observed", 0, wheels, fault))
    /\ AfterAnswer /\ (link # "cut" => UNCHANGED fault)
    /\ UNCHANGED <<boot, wheels, motion>>

(* A request the worker turns down without ending its session: a motion    *)
(* under a latched fault, a sample interrupted by touch.                   *)
Refuses ==
    /\ \E op \in Motions \cup {"sample"} :
          Takes(op) /\ (op \in Motions => fault)
    /\ Reply(Line("refused", "none", 0, wheels, fault))
    /\ AfterAnswer /\ (link # "cut" => UNCHANGED fault)
    /\ UNCHANGED <<boot, wheels, motion>>

ShutsDown ==
    /\ Takes("shutdown")
    /\ Reply(Line("ok", "observed", 0, wheels, fault))
    /\ Gone
    /\ UNCHANGED <<boot, wheels, motion>>

(* Touch, infrared or a closed channel deny a motion before it starts.     *)
Denies ==
    /\ \E op \in Motions : Takes(op)
    /\ ~fault
    /\ Reply(Line("ok", "denied", 0, wheels, fault))
    /\ AfterAnswer /\ (link # "cut" => UNCHANGED fault)
    /\ UNCHANGED <<boot, wheels, motion>>

Accepts ==
    /\ \E op \in Motions : Takes(op) /\ job' = op
    /\ ~fault /\ link # "cut"
    /\ worker' = "guard" /\ done' = 0 /\ travel' = 0
    /\ UNCHANGED <<process, fault, reply, wheels>>

-----------------------------------------------------------------------------
(* Slices.                                                                 *)

Answer(status, moved, latched) ==
    /\ Reply(Line("ok", status, travel + moved, wheels', latched))
    /\ AfterAnswer /\ (link # "cut" => fault' = latched)
    /\ job' = "none" /\ done' = 0 /\ travel' = 0
    /\ UNCHANGED <<boot, frame>>

MayStart == link # "cut"

StartsSlice ==
    /\ worker = "guard" /\ MayStart
    /\ worker' = "moving"
    /\ UNCHANGED <<process, frame, motion, fault, reply, wheels>>

(* The guard denies this slice; the ones before it stand.                  *)
StopsShort ==
    /\ worker = "guard"
    /\ UNCHANGED wheels
    /\ Answer(IF done = 0 THEN "denied" ELSE "interrupted", 0, fault)

(* The encoders verify a turn within a tolerance: a turn out and a turn    *)
(* back need not meet.                                                     *)
CompletesSlice ==
    /\ worker = "moving"
    /\ \E slip \in IF job = "pulse" THEN {0} ELSE -TurnSlip..TurnSlip :
          LET moved == Direction(job) * (SliceTravel + slip)
          IN /\ wheels' = wheels + moved
             /\ IF done + 1 = SlicesOf(job)
                THEN Answer("completed", moved, fault)
                ELSE /\ worker' = "guard"
                     /\ done' = done + 1 /\ travel' = travel + moved
                     /\ UNCHANGED <<process, frame, job, fault, reply>>

(* Touch, infrared, a closed channel or a motor fault end a slice early,   *)
(* or its encoders do not verify: the last two latch the fault.            *)
BreaksSlice ==
    /\ worker = "moving"
    /\ \E moved \in 0..(SliceTravel - 1), latched \in {fault, TRUE} :
          /\ wheels' = wheels + Direction(job) * moved
          /\ Answer("interrupted", Direction(job) * moved, latched)

WorkerStep == \/ Reads \/ Refuses \/ ShutsDown \/ Denies \/ Accepts
              \/ StartsSlice \/ StopsShort \/ CompletesSlice \/ BreaksSlice
              \/ Fails \/ HangsUp \/ Expires
              \/ Boots \/ BootFails \/ ChannelCloses

(* What the worker does by itself once it runs; it need not come up, and   *)
(* nothing says when its lifetime ends or a fault strikes.                 *)
WorkerGoesOn == \/ Reads \/ Refuses \/ ShutsDown \/ Denies \/ Accepts
                \/ StartsSlice \/ StopsShort \/ CompletesSlice \/ BreaksSlice
                \/ HangsUp \/ ChannelCloses

=============================================================================
