------------------------ MODULE SupervisorTransport ------------------------
(***************************************************************************)
(* SupervisorSSHSession: threads that send requests to the EV3 supervisor's*)
(* daemon one after another, threads that close the session, the thread    *)
(* that reads its answers (_StdoutPump) and the daemon at the other end of *)
(* the pipes, with everything that may go wrong on the way.  The contents  *)
(* of requests and answers are left out: a line carries the identifier of  *)
(* the request it answers, 0 when it answers none.                         *)
(*                                                                         *)
(* The responses queue is not bounded here: but for what comes after an    *)
(* accepted shutdown it never nears its 8 elements, and a full one ends the*)
(* reader, which matters no more by then.                                  *)
(***************************************************************************)
EXTENDS Integers, Sequences

CONSTANTS
    Clients,      \* threads that call request() and wait_closed()
    Closers,      \* threads that call close()
    MaxRequests,  \* bound of the model: requests of the clients
    MaxNoise      \* bound of the model: lines nobody asked for, and crashes

ASSUME TransportAssumption ==
    /\ Clients \cap Closers = {}
    /\ "nobody" \notin Clients \cup Closers
    /\ {MaxRequests, MaxNoise} \subseteq Nat

VARIABLES
    lifecycle,   \* _lifecycle_state
    poison,      \* outcome_unknown of _poison_info, "none" without one
    failure,     \* _receive_failure is set
    failed,      \* _failed
    inflight,    \* _inflight_request_id, 0 for None
    lines,       \* _inflight_response_lines
    number,      \* _request_number
    shutdownSent,
    closeStarted,
    lock,        \* who holds _request_lock
    at, op, id,  \* of each thread: what it does next, and the request it has
    told,        \* what its request() is about to return
    input,       \* the process's stdin is open
    inbox,       \* complete requests the daemon has not read
    daemon,      \* "up" or "gone"
    output,      \* what the reader has not read of stdout
    pump, item,  \* the reader's next step and the element it holds
    responses,   \* _responses
    noise,
    verdict,     \* of each request: what the daemon decided
    outcome,     \* of each request: what request() returned or raised
    disturbed    \* history: not everything went as it should

channel == <<lifecycle, poison, failure, failed, inflight, lines, shutdownSent,
             closeStarted>>
threads == <<number, lock, at, op, id, told, outcome>>
far == <<inbox, daemon, noise, verdict>>
vars == <<channel, threads, input, far, output, pump, item, responses, disturbed>>

Threads == Clients \cup Closers
Ids == 1..(MaxRequests + 2)    \* close() sends two of its own
Verdicts == {"done", "rejected"}
Told == Verdicts \cup {"unknown", "refused"}
Items == [kind : {"line"}, id : 0..(MaxRequests + 2)]
            \cup [kind : {"eof", "invalid"}, id : {0}]
Eof == [kind |-> "eof", id |-> 0]
Reply(r) == [kind |-> "line", id |-> r]

TypeOK ==
    /\ lifecycle \in {"OPEN", "CLOSING", "POISONED", "CLOSED"}
    /\ poison \in {"none", "known", "unknown"}
    /\ {failure, failed, shutdownSent, closeStarted, input, disturbed}
          \subseteq BOOLEAN
    /\ inflight \in Ids \cup {0} /\ lines \in Nat /\ number \in 0..(MaxRequests + 2)
    /\ lock \in Threads \cup {"nobody"}
    /\ at \in [Threads -> {"idle", "lock", "send", "begin", "write", "await",
                           "end", "reap", "drop", "finish", "waiting"}]
    /\ op \in [Threads -> {"request", "stop", "shutdown", "wait"}]
    /\ id \in [Threads -> Ids \cup {0}]
    /\ told \in [Threads -> Told \cup {"none"}]
    /\ inbox \in Seq(Ids) /\ daemon \in {"up", "gone"}
    /\ output \in Seq(Items) /\ responses \in Seq(Items)
    /\ pump \in {"read", "mark", "put", "ended"} /\ item \in Items
    /\ noise \in 0..MaxNoise
    /\ verdict \in [Ids -> Verdicts \cup {"none"}]
    /\ outcome \in [Ids -> Told \cup {"none"}]

Init ==
    /\ lifecycle = "OPEN" /\ poison = "none"
    /\ failure = FALSE /\ failed = FALSE
    /\ inflight = 0 /\ lines = 0 /\ number = 0
    /\ shutdownSent = FALSE /\ closeStarted = FALSE
    /\ lock = "nobody"
    /\ at = [t \in Threads |-> "idle"] /\ op = [t \in Threads |-> "request"]
    /\ id = [t \in Threads |-> 0] /\ told = [t \in Threads |-> "none"]
    /\ input = TRUE /\ inbox = <<>> /\ daemon = "up" /\ output = <<>>
    /\ pump = "read" /\ item = Eof /\ responses = <<>> /\ noise = 0
    /\ verdict = [r \in Ids |-> "none"] /\ outcome = [r \in Ids |-> "none"]
    /\ disturbed = FALSE

-----------------------------------------------------------------------------
(* Poisoning and admission, each under _state_lock                         *)

\* _poison: the first one counts, and all are told what it stored.
Poison(flag) ==
    IF poison # "none"
    THEN UNCHANGED <<poison, lifecycle>>
    ELSE /\ poison' = flag
         /\ lifecycle' = IF lifecycle = "CLOSED" THEN lifecycle ELSE "POISONED"

\* What an error raised by _poison says of the request it is raised for.
ToldByPoison == IF poison' = "unknown" THEN "unknown" ELSE "refused"

\* Variant: a failure of the reader poisons also under a request in flight.
RecordFailure_AtOnce ==
    failure' = TRUE /\ failed' = TRUE /\ Poison("known")

\* _record_receive_failure_locked: with a request in flight its caller will
\* find the failure, without one the channel is poisoned.
RecordFailure ==
    /\ failure' = TRUE
    /\ failed' = TRUE
    /\ IF inflight = 0 /\ lifecycle = "OPEN" /\ ~shutdownSent
       THEN Poison("known")
       ELSE UNCHANGED <<poison, lifecycle>>

\* _require_open_channel returns.
IsOpen(allowClosing) ==
    /\ poison = "none"
    /\ \/ lifecycle = "OPEN" /\ ~failure
       \/ lifecycle = "CLOSING" /\ allowClosing

\* It raises, and poisons an open channel whose reader has failed.
RaisesClosed ==
    IF lifecycle = "OPEN" /\ poison = "none" /\ failure
    THEN Poison("known") /\ failed' = TRUE
    ELSE UNCHANGED <<poison, lifecycle, failed>>

\* _begin_inflight
MayDispatch(allowClosing) ==
    /\ poison = "none" /\ ~failure
    /\ lifecycle = "OPEN" \/ (lifecycle = "CLOSING" /\ allowClosing)

Goes(t, stage) == at' = [at EXCEPT ![t] = stage]

-----------------------------------------------------------------------------
(* request(), by a client, and the requests close() sends                  *)

\* request() before it takes the lock; the arguments are valid.
Request(c) ==
    /\ at[c] = "idle" /\ number < MaxRequests
    /\ \E o \in {"request", "shutdown"} :
          IF IsOpen(FALSE)
          THEN /\ Goes(c, "lock") /\ op' = [op EXCEPT ![c] = o]
               /\ UNCHANGED <<poison, lifecycle, failed>>
          ELSE RaisesClosed /\ UNCHANGED <<at, op>>
    /\ UNCHANGED <<failure, inflight, lines, shutdownSent, closeStarted, number,
                   lock, id, told, outcome, input, far, output, pump, item,
                   responses, disturbed>>

\* Variant: a caller leaves with the lock.
After_Locked(t) ==
    /\ id' = [id EXCEPT ![t] = 0] /\ told' = [told EXCEPT ![t] = "none"]
    /\ op' = [op EXCEPT ![t] = "shutdown"]
    /\ Goes(t, IF t \in Clients THEN "idle"
               ELSE IF op[t] = "stop" THEN "send" ELSE "reap")
    /\ UNCHANGED lock

\* What follows request(): close() sends a shutdown after its stop.
After(t) ==
    /\ id' = [id EXCEPT ![t] = 0] /\ told' = [told EXCEPT ![t] = "none"]
    /\ IF t \in Clients
       THEN Goes(t, "idle") /\ lock' = "nobody" /\ UNCHANGED op
       ELSE /\ UNCHANGED lock
            /\ op' = [op EXCEPT ![t] = "shutdown"]
            /\ Goes(t, IF op[t] = "stop" THEN "send" ELSE "reap")

\* _request_locked: the request gets its number if the channel is open.
Number(t) ==
    /\ \/ at[t] = "lock" /\ t \in Clients /\ op[t] # "wait" /\ lock = "nobody"
       \/ at[t] = "send"
    /\ IF IsOpen(t \in Closers)
       THEN /\ number < MaxRequests + 2
            /\ number' = number + 1
            /\ id' = [id EXCEPT ![t] = number + 1]
            /\ lock' = t
            /\ Goes(t, "begin")
            /\ UNCHANGED <<op, told, poison, lifecycle, failed>>
       ELSE RaisesClosed /\ After(t) /\ UNCHANGED number
    /\ UNCHANGED <<failure, inflight, lines, shutdownSent, closeStarted,
                   outcome, input, far, output, pump, item, responses, disturbed>>

\* _begin_inflight, again under _state_lock
Begin(t) ==
    /\ at[t] = "begin"
    /\ IF MayDispatch(t \in Closers)
       THEN /\ inflight' = id[t] /\ lines' = 0
            /\ Goes(t, "write")
            /\ UNCHANGED <<poison, lifecycle, failed, lock, op, id, told, outcome>>
       ELSE /\ outcome' = [outcome EXCEPT ![id[t]] = "refused"]
            /\ RaisesClosed /\ After(t)
            /\ UNCHANGED <<inflight, lines>>
    /\ UNCHANGED <<failure, shutdownSent, closeStarted, number, input, far,
                   output, pump, item, responses, disturbed>>

\* _exchange_locked raises _poison's error.
Fails(t) ==
    /\ Poison("unknown") /\ failed' = TRUE
    /\ told' = [told EXCEPT ![t] = ToldByPoison]
    /\ Goes(t, "end")

\* The request is written.  A write that fails, as on a closed input it does,
\* leaves open how much of the request was written.
Write(t) ==
    /\ at[t] = "write"
    /\ \/ /\ input
          /\ inbox' = Append(inbox, id[t])
          /\ Goes(t, "await")
          /\ UNCHANGED <<poison, lifecycle, failed, told, disturbed>>
       \/ /\ Fails(t)
          /\ disturbed' = TRUE
          /\ inbox' \in {inbox} \cup IF input THEN {Append(inbox, id[t])} ELSE {}
    /\ UNCHANGED <<failure, inflight, lines, shutdownSent, closeStarted, number,
                   lock, op, id, outcome, input, daemon, noise, verdict, output,
                   pump, item, responses>>

\* Variant: an answer is not compared with the request.
Matches_Any(t, answer) == answer.kind = "line" /\ answer.id # 0

\* _decode_response: one well-formed line for this request
Matches(t, answer) == answer.kind = "line" /\ answer.id = id[t]

\* _responses.get: an answer, or anything else in its place, or a timeout.  An
\* accepted shutdown makes later failures of the reader harmless.
Receive(t) ==
    /\ at[t] = "await"
    /\ \/ /\ responses # <<>>
          /\ responses' = Tail(responses)
          /\ LET answer == Head(responses)
                 clean == op[t] = "shutdown" /\ verdict[answer.id] = "done"
             IN  \/ /\ ~Matches(t, answer) /\ Fails(t)
                    /\ UNCHANGED shutdownSent
                 \/ /\ Matches(t, answer)
                    /\ shutdownSent' = (shutdownSent \/ clean)
                    /\ IF failure /\ ~clean
                       THEN Poison("known") /\ failed' = TRUE
                       ELSE /\ UNCHANGED <<poison, failed>>
                            /\ lifecycle' = IF clean /\ lifecycle = "OPEN"
                                            THEN "CLOSING" ELSE lifecycle
                    /\ told' = [told EXCEPT ![t] = verdict[answer.id]]
                    /\ Goes(t, "end")
          /\ UNCHANGED disturbed
       \/ /\ responses = <<>>
          /\ Fails(t)
          /\ disturbed' = TRUE
          /\ UNCHANGED <<responses, shutdownSent>>
    /\ UNCHANGED <<failure, inflight, lines, closeStarted, number, lock, op, id,
                   outcome, input, far, output, pump, item>>

\* _end_inflight, and request() returns or raises.
End(t) ==
    /\ at[t] = "end"
    /\ inflight' = 0 /\ lines' = 0
    /\ outcome' = [outcome EXCEPT ![id[t]] = told[t]]
    /\ After(t)
    /\ UNCHANGED <<lifecycle, poison, failure, failed, shutdownSent,
                   closeStarted, number, input, far, output, pump, item,
                   responses, disturbed>>

-----------------------------------------------------------------------------
(* wait_closed() and close()                                               *)

\* wait_closed() announces the end before it waits for the lock.  (It is not
\* called twice in a row.)
WaitClosed(c) ==
    /\ at[c] = "idle" /\ op[c] # "wait"
    /\ op' = [op EXCEPT ![c] = "wait"]
    /\ Goes(c, "lock")
    /\ lifecycle' = IF lifecycle = "OPEN" THEN "CLOSING" ELSE lifecycle
    /\ UNCHANGED <<poison, failure, failed, inflight, lines, shutdownSent,
                   closeStarted, number, lock, id, told, outcome, input, far,
                   output, pump, item, responses, disturbed>>

\* With the lock it waits for the process, but not for ever.
AwaitExit(c) ==
    /\ c \in Clients /\ op[c] = "wait"
    /\ \/ /\ at[c] = "lock" /\ lock = "nobody"
          /\ lock' = c /\ Goes(c, "reap")
          /\ UNCHANGED <<op, id, told, poison, lifecycle, failed, disturbed>>
       \/ /\ at[c] = "reap"
          /\ lock' = "nobody" /\ Goes(c, "idle")
          /\ UNCHANGED <<op, id, told>>
          /\ IF daemon = "gone"
             THEN UNCHANGED <<poison, lifecycle, failed, disturbed>>
             ELSE Poison("known") /\ failed' = TRUE /\ disturbed' = TRUE
    /\ UNCHANGED <<failure, inflight, lines, shutdownSent, closeStarted, number,
                   outcome, input, far, output, pump, item, responses>>

\* close(): the first to call it closes, the others wait for it.
Close(k) ==
    /\ at[k] = "idle" /\ lifecycle # "CLOSED"
    /\ closeStarted' = TRUE
    /\ IF closeStarted
       THEN Goes(k, "waiting") /\ UNCHANGED lifecycle
       ELSE /\ Goes(k, "lock")
            /\ lifecycle' = IF lifecycle = "OPEN" THEN "CLOSING" ELSE lifecycle
    /\ UNCHANGED <<poison, failure, failed, inflight, lines, shutdownSent,
                   number, lock, op, id, told, outcome, input, far, output, pump, item, responses,
                   disturbed>>

\* With the lock: stop and shutdown, unless the process has ended (which poll()
\* may notice late), a shutdown was accepted or the channel is poisoned.
CloseLocked(k) ==
    /\ at[k] = "lock" /\ k \in Closers /\ lock = "nobody"
    /\ lock' = k
    /\ op' = [op EXCEPT ![k] = "stop"]
    /\ \/ poison = "none" /\ ~shutdownSent /\ Goes(k, "send")
       \/ (poison # "none" \/ shutdownSent \/ daemon = "gone") /\ Goes(k, "reap")
    /\ UNCHANGED <<channel, number, id, told, outcome, input, far, output, pump,
                   item, responses, disturbed>>

\* The input is closed, the process ends or is terminated, the session is closed.
CloseEnds(k) ==
    /\ k \in Closers
    /\ \/ /\ at[k] = "reap" /\ Goes(k, "drop")
          /\ input' = FALSE
          /\ UNCHANGED <<lifecycle, lock, daemon, output>>
       \/ /\ at[k] = "drop" /\ Goes(k, "finish")
          /\ daemon' = "gone"
          /\ output' = IF daemon = "up" THEN Append(output, Eof) ELSE output
          /\ UNCHANGED <<lifecycle, lock, input>>
       \/ /\ at[k] = "finish" /\ Goes(k, "idle")
          /\ lock' = "nobody" /\ lifecycle' = "CLOSED"
          /\ UNCHANGED <<input, daemon, output>>
    /\ UNCHANGED <<poison, failure, failed, inflight, lines, shutdownSent,
                   closeStarted, number, op, id, told, outcome, inbox, noise,
                   verdict, pump, item, responses, disturbed>>

\* _closed_event
CloseReturns(k) ==
    /\ at[k] = "waiting" /\ lifecycle = "CLOSED"
    /\ Goes(k, "idle")
    /\ UNCHANGED <<channel, number, lock, op, id, told, outcome, input, far, output, pump, item,
                   responses, disturbed>>

\* Who records the first failure or poisons the channel closes its input, after
\* it has left _state_lock.
CloseInput ==
    /\ input /\ failed
    /\ input' = FALSE
    /\ UNCHANGED <<channel, threads, far, output, pump, item, responses, disturbed>>

-----------------------------------------------------------------------------
(* The reader                                                              *)

\* The reader looks at _failed before each line, not while it waits for one.
PumpReads ==
    /\ pump = "read"
    /\ \/ failed /\ pump' = "ended" /\ UNCHANGED <<item, output>>
       \/ /\ output # <<>>
          /\ item' = Head(output) /\ output' = Tail(output)
          /\ pump' = "mark"
    /\ UNCHANGED <<channel, threads, input, far, responses, disturbed>>

\* An unsolicited line, or a second one for one request
IsUnasked ==
    \/ inflight = 0 /\ lifecycle \in {"OPEN", "CLOSING"} /\ ~shutdownSent
    \/ inflight # 0 /\ lines > 0

\* _mark_response_line, or _mark_receive_failure for anything else
PumpMarks ==
    /\ pump = "mark"
    /\ pump' = "put"
    /\ lines' = IF item.kind = "line" /\ inflight # 0 THEN lines + 1 ELSE lines
    /\ IF item.kind # "line" \/ IsUnasked
       THEN RecordFailure
       ELSE UNCHANGED <<failure, failed, poison, lifecycle>>
    /\ UNCHANGED <<inflight, shutdownSent, closeStarted, threads, input, far,
                   output, item, responses, disturbed>>

\* Only then is it put into the queue.
PumpPuts ==
    /\ pump = "put"
    /\ responses' = Append(responses, item)
    /\ pump' = IF item.kind = "line" THEN "read" ELSE "ended"
    /\ item' = Eof
    /\ UNCHANGED <<channel, threads, input, far, output, disturbed>>

-----------------------------------------------------------------------------
(* The daemon and the pipes                                                *)

DaemonAnswers ==
    /\ daemon = "up" /\ inbox # <<>>
    /\ inbox' = Tail(inbox)
    /\ \E v \in Verdicts : verdict' = [verdict EXCEPT ![Head(inbox)] = v]
    /\ output' = Append(output, Reply(Head(inbox)))
    /\ UNCHANGED <<channel, threads, input, daemon, noise, pump, item, responses,
                   disturbed>>

\* It ends after a shutdown, when its input is closed, or by itself.
DaemonExits ==
    /\ daemon = "up"
    /\ daemon' = "gone"
    /\ output' = Append(output, Eof)
    /\ IF \/ ~input
          \/ \E t \in Threads : op[t] = "shutdown" /\ id[t] # 0 /\ verdict[id[t]] = "done"
          \/ shutdownSent
       THEN UNCHANGED <<noise, disturbed>>
       ELSE noise < MaxNoise /\ noise' = noise + 1 /\ disturbed' = TRUE
    /\ UNCHANGED <<channel, threads, input, inbox, verdict, pump, item, responses>>

\* A line nobody asked for, an old answer once more, or what is no line
Noise ==
    /\ daemon = "up"
    /\ noise < MaxNoise
    /\ noise' = noise + 1
    /\ \E i \in {Reply(r) : r \in {s \in Ids : verdict[s] # "none"} \cup {0}}
                \cup {[kind |-> "invalid", id |-> 0]} :
          output' = Append(output, i)
    /\ disturbed' = TRUE
    /\ UNCHANGED <<channel, threads, input, inbox, daemon, verdict, pump, item,
                   responses>>

-----------------------------------------------------------------------------
ThreadStep(t) ==
    \/ Number(t) \/ Begin(t) \/ Write(t) \/ Receive(t) \/ End(t)
    \/ AwaitExit(t) \/ CloseLocked(t) \/ CloseEnds(t) \/ CloseReturns(t)

PumpStep == PumpReads \/ PumpMarks \/ PumpPuts

Next ==
    \/ \E c \in Clients : Request(c) \/ WaitClosed(c)
    \/ \E k \in Closers : Close(k)
    \/ \E t \in Threads : ThreadStep(t)
    \/ CloseInput \/ PumpStep
    \/ DaemonAnswers \/ DaemonExits \/ Noise

\* Every wait of a caller is timed, or for the lock or for the closing thread.
\* That some thread goes on is enough, as each has a bounded number of calls.
Spec ==
    /\ Init /\ [][Next]_vars
    /\ WF_vars(\E t \in Threads : ThreadStep(t))

-----------------------------------------------------------------------------
(* Properties                                                              *)

Channel == INSTANCE SupervisorChannel WITH
    Requests <- Ids,
    outcome <- [r \in Ids |-> IF outcome[r] = "none" /\ inflight = r
                              THEN "pending" ELSE outcome[r]],
    broken <- poison # "none"

\* SupervisorSSHSession keeps what the channel promises: requests go one at a
\* time, a caller is told the EV3's own decision on its request or that the
\* outcome is unknown, and after the latter nothing else is ever sent.
ChannelIsKept == Channel!ChannelSpec

\* _mark_response_line and _exchange_locked: while the daemon answers each
\* request once and in time the channel is not poisoned, however the reader's
\* count, the answers, a shutdown, its end of file and close() interleave.
NoFalseAlarm == ~disturbed => poison = "none"

\* request(), wait_closed() and close() return, whatever the daemon does.
CallsReturn == []<>(\A t \in Threads : at[t] = "idle")

\* docs/ARCHITECTURE.md and the outcome_unknown flag of the error: a request its
\* caller is told was not sent is never decided by the EV3.
RefusedNeverRuns == \A r \in Ids : outcome[r] = "refused" => verdict[r] = "none"
=============================================================================
