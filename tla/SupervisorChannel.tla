------------------------- MODULE SupervisorChannel -------------------------
(***************************************************************************)
(* What SupervisorSSHSession promises to those who send commands to the    *)
(* EV3 through it (docs/ARCHITECTURE.md: sequential and at most once).     *)
(* Requests travel one at a time.  The EV3 decides each at most once.  A   *)
(* caller is told the decision itself, that the outcome is unknown, or that*)
(* the request was never sent; after the first unknown outcome the channel *)
(* is broken and carries no other request.                                 *)
(***************************************************************************)
CONSTANTS Requests, Verdicts

VARIABLES
    outcome,   \* what is known of each request on the caller's side
    verdict,   \* what the EV3 decided, "none" if it did not
    broken     \* no request is accepted any more

channelVars == <<outcome, verdict, broken>>

ChannelInit ==
    /\ outcome = [r \in Requests |-> "none"]
    /\ verdict = [r \in Requests |-> "none"]
    /\ broken = FALSE

Tell(r, from, to) ==
    /\ outcome[r] = from
    /\ outcome' = [outcome EXCEPT ![r] = to]
    /\ UNCHANGED verdict

Send(r) ==
    /\ ~broken
    /\ \A s \in Requests : outcome[s] # "pending"
    /\ Tell(r, "none", "pending")
    /\ UNCHANGED broken

\* A request whose outcome is unknown may still be decided, and later.
Decide(r) ==
    /\ outcome[r] \in {"pending", "unknown"}
    /\ verdict[r] = "none"
    /\ \E v \in Verdicts : verdict' = [verdict EXCEPT ![r] = v]
    /\ UNCHANGED <<outcome, broken>>

Answer(r) ==
    /\ verdict[r] # "none"
    /\ Tell(r, "pending", verdict[r])
    /\ UNCHANGED broken

Lose(r) == Tell(r, "pending", "unknown") /\ broken' = TRUE

\* Never sent, as the caller is told.
Refuse(r) == Tell(r, "none", "refused") /\ UNCHANGED broken

Break == broken' = TRUE /\ UNCHANGED <<outcome, verdict>>

ChannelNext ==
    \/ \E r \in Requests :
          Send(r) \/ Decide(r) \/ Answer(r) \/ Lose(r) \/ Refuse(r)
    \/ Break

ChannelSpec == ChannelInit /\ [][ChannelNext]_channelVars
=============================================================================
