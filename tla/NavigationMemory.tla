-------------------------- MODULE NavigationMemory --------------------------
(***************************************************************************)
(* The persistent navigation memory of the physical robot                  *)
(* (navigation_memory_store.py): the pose the host believes in, the wheel   *)
(* encoder positions it was last true at (the anchor), and whether that    *)
(* pose may still be trusted.  The file is replaced atomically, so it holds *)
(* either the memory before a save or the memory after it.                 *)
(*                                                                         *)
(* Position and encoders are reduced to one dimension, in encoder degrees: *)
(* what the properties tell apart is whether a movement is accounted for,   *)
(* not where it leads.  The hazard map is left out.                        *)
(***************************************************************************)
EXTENDS Integers

CONSTANTS
    Settling,   \* MAX_SESSION_ENCODER_SETTLING_DEGREES
    NoAnchor    \* a memory no worker has been observed for yet

ASSUME MemoryAssumption == Settling \in Nat /\ NoAnchor \notin Int

VARIABLES
    memory,     \* the store of the running episode
    disk        \* the file

memoryVars == <<memory, disk>>

Fresh == [pose |-> 0, anchor |-> NoAnchor, valid |-> TRUE]

(* The new memory m is in the store; it reaches the file unless the save   *)
(* fails (a full disk, a file that cannot be replaced).                    *)
Save(m, saved) == /\ memory' = m
                  /\ disk' = IF saved THEN m ELSE disk

Load == memory' = disk /\ UNCHANGED disk

Invalid(m) == [m EXCEPT !.valid = FALSE]

Anchored(m, at) == [m EXCEPT !.anchor = at]

Distance(a, b) == IF a < b THEN b - a ELSE a - b

(* A session may begin where the last one ended, up to the residue of a    *)
(* stopped motor.                                                          *)
Settled(m, at) == m.anchor = NoAnchor \/ Distance(m.anchor, at) <= Settling

(* How much of a difference it may accept.                                 *)
Accepted(m, at) ==
    IF m.anchor = NoAnchor THEN 0
    ELSE IF Distance(m.anchor, at) <= Settling THEN Distance(m.anchor, at)
    ELSE Settling

BeginEpisode(m, at) == IF Settled(m, at) THEN Anchored(m, at) ELSE Invalid(m)

(* Inside a session a stationary observation has to match exactly.         *)
AtRest(m, at) == m.anchor \in {NoAnchor, at}

Observed(m, at) == IF AtRest(m, at) THEN Anchored(m, at) ELSE Invalid(m)

(* A motion result moves the pose by what its receipts add up to and       *)
(* adopts the encoder positions of its observation.                        *)
Travelled(m, travel, at) == [m EXCEPT !.pose = @ + travel, !.anchor = at]

(* A verified closed scan arc keeps the pose and adopts the encoders.      *)
Rescanned(m, at) == Anchored(m, at)

=============================================================================
