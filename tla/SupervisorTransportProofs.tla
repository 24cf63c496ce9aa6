---------------------- MODULE SupervisorTransportProofs ----------------------
(***************************************************************************)
(* SupervisorSSHSession implements SupervisorChannel, for one client and   *)
(* any number of closing threads, requests, failures and stray lines.      *)
(*                                                                         *)
(* The invariant says who holds the lock at each step, which request is in *)
(* flight, what may still be said of it, and that no other thread poisons  *)
(* the channel under it.  The last needs the single client (OneClient):    *)
(* with two the check of one can poison the channel while the other waits. *)
(*                                                                         *)
(* The second part proves NoFalseAlarm: a close that nothing disturbed     *)
(* never reports a failure.  Its invariant (CalmInv) says where the one    *)
(* answer of the closing course is, and that the end of the stream is seen *)
(* only after that answer has been taken.                                  *)
(*                                                                         *)
(* The third part is about any number of clients (SharedInv): what request *)
(* returns as decided was decided, once, and nothing follows a lost answer.*)
(***************************************************************************)
EXTENDS SupervisorTransport, TLAPS

OneClient == \A c, d \in Clients : c = d

Stages == {"idle", "lock", "send", "begin", "write", "await", "end", "reap",
           "drop", "finish", "waiting"}
Holding == {"send", "begin", "write", "await", "end", "reap", "drop", "finish"}
Working == {"begin", "write", "await", "end"}
Pending == {"write", "await", "end"}

Shapes ==
    /\ at \in [Threads -> Stages]
    /\ op \in [Threads -> {"request", "stop", "shutdown", "wait"}]
    /\ id \in [Threads -> Int]
    /\ told \in [Threads -> Told \cup {"none"}]
    /\ number \in 0..(MaxRequests + 2)
    /\ outcome \in [Ids -> Told \cup {"none"}]
    /\ verdict \in [Ids -> Verdicts \cup {"none"}]
    /\ inbox \in Seq(Ids)
    /\ output \in Seq(Items) /\ responses \in Seq(Items) /\ item \in Items
    /\ poison \in {"none", "known", "unknown"}

\* One thread at a time has a request, and that is the request in flight.
Turns ==
    /\ \A t \in Threads : at[t] \in Holding => lock = t
    /\ \A t \in Threads : at[t] \in Working => id[t] = number /\ number # 0
    /\ \A t \in Threads : at[t] \in Pending => inflight = number
    /\ inflight # 0 => \E t \in Threads : at[t] \in Pending

\* What has been said and decided of the requests, and may still be
Fates ==
    /\ \A r \in Ids : r > number => outcome[r] = "none" /\ verdict[r] = "none"
    /\ \A i \in 1..Len(inbox) : inbox[i] <= number
    /\ \A t \in Threads :
          /\ at[t] \in Working => outcome[number] = "none"
          /\ at[t] \in {"begin", "write"} =>
                /\ verdict[number] = "none"
                /\ \A i \in 1..Len(inbox) : inbox[i] # number
          /\ at[t] = "end" =>
                \/ told[t] = "unknown" /\ poison # "none"
                \/ told[t] \in Verdicts /\ told[t] = verdict[number]

\* A request the daemon has yet to read is undecided, and in flight or lost.
Mailbox ==
    /\ \A i \in 1..Len(inbox) :
          /\ verdict[inbox[i]] = "none"
          /\ \/ outcome[inbox[i]] = "unknown"
             \/ outcome[inbox[i]] = "none" /\ inflight = inbox[i]
    /\ \A i, j \in 1..Len(inbox) : i # j => inbox[i] # inbox[j]

\* A line that answers a request was written for it.
Decided(x) == x.kind = "line" /\ x.id # 0 => verdict[x.id] # "none"

Lines ==
    /\ \A i \in 1..Len(output) : Decided(output[i])
    /\ \A i \in 1..Len(responses) : Decided(responses[i])
    /\ Decided(item)

\* Nobody poisons the channel under a request in flight, nor does a failure
\* slip in between the two checks before one.
Trust ==
    /\ \A t \in Threads : at[t] \in {"write", "await"} => poison = "none"
    /\ \A t \in Threads : at[t] = "begin" /\ lifecycle = "OPEN" /\ failure
                             => poison # "none"
    /\ closeStarted => lifecycle # "OPEN"
    /\ \A k \in Closers : at[k] # "idle" => closeStarted
    /\ shutdownSent => lifecycle # "OPEN"

TransportInv == Shapes /\ Turns /\ Fates /\ Mailbox /\ Lines /\ Trust

Step == [Channel!ChannelNext]_(Channel!channelVars)

-----------------------------------------------------------------------------
(* Steps of the channel                                                    *)

LEMMA Constants ==
    /\ MaxRequests + 2 \in Nat /\ Clients \cap Closers = {}
    /\ "nobody" \notin Threads /\ 0 \notin Ids /\ Ids = 1..(MaxRequests + 2)
    /\ Ids \subseteq Nat
    /\ Threads = Clients \cup Closers
  BY TransportAssumption DEF Ids, Threads

LEMMA NothingSaid ==
    ASSUME UNCHANGED <<outcome, verdict, inflight>>,
           poison # "none" => poison' # "none"
    PROVE  Step
<1>1. CASE (poison' # "none") = (poison # "none")
  BY <1>1 DEF Step, Channel!channelVars
<1>2. CASE poison = "none" /\ poison' # "none"
  BY <1>2 DEF Step, Channel!ChannelNext, Channel!Break
<1>3. QED
  BY <1>1, <1>2

LEMMA PoisonStays ==
    ASSUME NEW flag \in {"known", "unknown"}, Shapes, Poison(flag)
    PROVE  /\ poison' # "none" /\ poison' \in {"known", "unknown"}
           /\ poison = "none" => poison' = flag
           /\ lifecycle' = "OPEN" => lifecycle = "OPEN"
           /\ lifecycle = "OPEN" => poison # "none" \/ lifecycle' # "OPEN"
  BY DEF Poison, Shapes

LEMMA RaisesClosedStays ==
    ASSUME Shapes, RaisesClosed
    PROVE  /\ poison # "none" => poison' = poison
           /\ poison' \in {"none", "known", "unknown"}
           /\ lifecycle' = "OPEN" => lifecycle = "OPEN"
           /\ poison' # poison => lifecycle = "OPEN" /\ failure
  BY DEF RaisesClosed, Poison, Shapes

-----------------------------------------------------------------------------
(* Steps in which no request is sent or answered                           *)

\* Thread t goes where it has no request.
LEMMA QuietKeeps ==
    ASSUME TransportInv, NEW t \in Threads, NEW stage \in Stages \ Working,
           at[t] \notin Pending, at' = [at EXCEPT ![t] = stage],
           UNCHANGED <<number, inflight, outcome, verdict, inbox, failure,
                       shutdownSent>>,
           \A u \in Threads \ {t} : id'[u] = id[u] /\ told'[u] = told[u],
           stage \in Holding => lock' = t,
           \A u \in Threads \ {t} : at[u] \in Holding => lock' = u,
           poison # "none" => poison' # "none",
           poison' = poison \/ \A u \in Threads : at[u] \notin {"write", "await"},
           lifecycle' = "OPEN" => lifecycle = "OPEN",
           closeStarted => closeStarted',
           closeStarted' => closeStarted \/ lifecycle' # "OPEN",
           t \in Closers /\ stage # "idle" => closeStarted'
    PROVE  Turns' /\ Fates' /\ Mailbox' /\ Trust'
<1>1. at \in [Threads -> Stages]
  BY DEF TransportInv, Shapes
<1>2. /\ at'[t] = stage /\ stage \notin Working /\ stage \notin Pending
      /\ \A u \in Threads \ {t} : at'[u] = at[u]
  BY <1>1 DEF Working, Pending
<1>3. Turns'
  BY <1>2 DEF TransportInv, Turns
<1>4. Fates'
  BY <1>2 DEF TransportInv, Fates, Working
<1>5. Mailbox'
  BY DEF TransportInv, Mailbox
<1>6. Trust'
  BY <1>2, Constants DEF TransportInv, Trust, Working
<1>7. QED
  BY <1>3, <1>4, <1>5, <1>6

\* When a client calls the channel broken, no other thread has a request.
LEMMA ClientIsAlone ==
    ASSUME TransportInv, OneClient, NEW c \in Clients, at[c] \notin {"write", "await"},
           lifecycle = "OPEN", NEW u \in Threads
    PROVE  at[u] \notin {"write", "await"}
<1>1. CASE u \in Clients
  BY <1>1 DEF OneClient
<1>2. CASE u \in Closers
  BY <1>2 DEF TransportInv, Trust
<1>3. QED
  BY <1>1, <1>2, Constants

LEMMA RequestKeeps ==
    ASSUME TransportInv, OneClient, NEW c \in Clients, Request(c)
    PROVE  TransportInv' /\ Step
<1>1. c \in Threads /\ c \notin Closers
  BY Constants
<1>2. /\ at[c] = "idle"
      /\ UNCHANGED <<failure, inflight, lines, shutdownSent, closeStarted, number,
                     lock, id, told, outcome, input, far, output, pump, item,
                     responses, disturbed>>
  BY DEF Request
<1>3. UNCHANGED <<inbox, verdict>>
  BY <1>2 DEF far
<1>4. PICK o \in {"request", "shutdown"} :
         IF IsOpen(FALSE)
         THEN /\ Goes(c, "lock") /\ op' = [op EXCEPT ![c] = o]
              /\ UNCHANGED <<poison, lifecycle, failed>>
         ELSE RaisesClosed /\ UNCHANGED <<at, op>>
  BY DEF Request
<1>5. PICK stage \in {"idle", "lock"} : at' = [at EXCEPT ![c] = stage]
  BY <1>1, <1>2, <1>4 DEF Goes, TransportInv, Shapes
<1>6. /\ poison # "none" => poison' # "none"
      /\ poison' \in {"none", "known", "unknown"}
      /\ lifecycle' = "OPEN" => lifecycle = "OPEN"
      /\ poison' = poison \/ lifecycle = "OPEN"
  BY <1>4, RaisesClosedStays DEF TransportInv, Shapes
<1>7. poison' = poison \/ \A u \in Threads : at[u] \notin {"write", "await"}
  BY <1>2, <1>6, ClientIsAlone
<1>8. Turns' /\ Fates' /\ Mailbox' /\ Trust'
  <2>1. stage \in Stages \ Working /\ stage \notin Holding /\ at[c] \notin Pending
    BY <1>2 DEF Stages, Working, Holding, Pending
  <2>2. \A u \in Threads \ {c} : at[u] \in Holding => lock' = u
    BY <1>2 DEF TransportInv, Turns
  <2>3. QED
    BY <1>1, <1>2, <1>3, <1>5, <1>6, <1>7, <2>1, <2>2, QuietKeeps
<1>9. Shapes'
  BY <1>1, <1>2, <1>3, <1>4, <1>5, <1>6 DEF TransportInv, Shapes, Stages
<1>10. Lines'
  BY <1>2, <1>3 DEF TransportInv, Lines, Decided
<1>11. Step
  BY <1>2, <1>3, <1>6, NothingSaid
<1>12. QED
  BY <1>8, <1>9, <1>10, <1>11 DEF TransportInv

LEMMA OthersWait ==
    ASSUME TransportInv, NEW t \in Threads,
           lock = t \/ lock = "nobody" \/ at[t] \in Holding
    PROVE  \A u \in Threads \ {t} : at[u] \notin Holding
  BY Constants DEF TransportInv, Turns

\* What follows a request leaves its thread without one.
LEMMA AfterRequest ==
    ASSUME TransportInv, NEW t \in Threads, After(t),
           lock = t \/ (lock = "nobody" /\ t \in Clients)
    PROVE  /\ \E stage \in Stages \ Working :
                 /\ at' = [at EXCEPT ![t] = stage]
                 /\ stage \in Holding => lock' = t
                 /\ t \in Closers => lock' = lock
           /\ \A u \in Threads \ {t} : id'[u] = id[u] /\ told'[u] = told[u]
           /\ op' \in [Threads -> {"request", "stop", "shutdown", "wait"}]
           /\ id' \in [Threads -> Int]
           /\ told' \in [Threads -> Told \cup {"none"}]
<1>1. op \in [Threads -> {"request", "stop", "shutdown", "wait"}]
      /\ id \in [Threads -> Int] /\ told \in [Threads -> Told \cup {"none"}]
  BY DEF TransportInv, Shapes
<1>2. id' = [id EXCEPT ![t] = 0] /\ told' = [told EXCEPT ![t] = "none"]
      /\ (op' = op \/ op' = [op EXCEPT ![t] = "shutdown"])
  BY DEF After
<1>3. /\ id' \in [Threads -> Int] /\ told' \in [Threads -> Told \cup {"none"}]
      /\ op' \in [Threads -> {"request", "stop", "shutdown", "wait"}]
      /\ \A u \in Threads \ {t} : id'[u] = id[u] /\ told'[u] = told[u]
  <2>1. id' \in [Threads -> Int] /\ \A u \in Threads \ {t} : id'[u] = id[u]
    BY <1>1, <1>2
  <2>2. told' \in [Threads -> Told \cup {"none"}]
        /\ \A u \in Threads \ {t} : told'[u] = told[u]
    BY <1>1, <1>2
  <2>3. op' \in [Threads -> {"request", "stop", "shutdown", "wait"}]
    BY <1>1, <1>2
  <2>4. QED
    BY <2>1, <2>2, <2>3
<1>4. PICK stage \in {"idle", "send", "reap"} :
         /\ at' = [at EXCEPT ![t] = stage]
         /\ t \in Clients => stage = "idle"
         /\ t \notin Clients => lock' = lock
  BY DEF After, Goes
<1>5. stage \in Stages \ Working /\ "idle" \notin Holding
  BY DEF Stages, Working, Holding
<1>6. stage \in Holding => lock' = t
  BY <1>4, <1>5
<1>7. t \in Closers => lock' = lock
  BY <1>4, Constants
<1>8. QED
  BY <1>3, <1>4, <1>5, <1>6, <1>7

LEMMA NumberKeeps ==
    ASSUME TransportInv, NEW t \in Threads, Number(t)
    PROVE  TransportInv' /\ Step
<1>1. /\ UNCHANGED <<failure, inflight, lines, shutdownSent, closeStarted, outcome,
                     input, far, output, pump, item, responses, disturbed>>
      /\ UNCHANGED <<inbox, verdict>>
  BY DEF Number, far
<1>2. \/ at[t] = "lock" /\ t \in Clients /\ lock = "nobody"
      \/ at[t] = "send" /\ lock = t
  BY DEF Number, TransportInv, Turns, Holding
<1>3. \A u \in Threads \ {t} : at[u] \notin Holding
  BY <1>2, OthersWait
<1>4. at[t] \notin Pending /\ \A u \in Threads : at[u] \notin Pending
  BY <1>2, <1>3 DEF Pending, Holding
<1>5. inflight = 0
  BY <1>4 DEF TransportInv, Turns
<1>6. Lines'
  BY <1>1 DEF TransportInv, Lines, Decided
<1>7. CASE IsOpen(t \in Closers)
  <2>1. /\ number < MaxRequests + 2 /\ number' = number + 1
        /\ id' = [id EXCEPT ![t] = number + 1] /\ lock' = t
        /\ at' = [at EXCEPT ![t] = "begin"]
        /\ UNCHANGED <<op, told, poison, lifecycle, failed>>
    BY <1>7 DEF Number, Goes
  <2>2. number \in Nat /\ number' \in 0..(MaxRequests + 2) /\ at \in [Threads -> Stages]
        /\ id \in [Threads -> Int] /\ number' # 0 /\ number' \in Ids
    BY <2>1, Constants DEF TransportInv, Shapes, Ids
  <2>3. /\ at'[t] = "begin" /\ id'[t] = number'
        /\ \A u \in Threads \ {t} : at'[u] = at[u] /\ at'[u] \notin Holding
    BY <1>3, <2>1, <2>2
  <2>4. Shapes'
    <3>1. id' \in [Threads -> Int] /\ at' \in [Threads -> Stages]
      BY <2>1, <2>2 DEF Stages
    <3>2. QED
      BY <1>1, <2>1, <2>2, <3>1 DEF TransportInv, Shapes
  <2>5. Turns'
    BY <1>1, <1>5, <2>1, <2>2, <2>3 DEF TransportInv, Turns, Holding, Working, Pending
  <2>6. Fates'
    <3>1. \A i \in 1..Len(inbox) : inbox[i] \in Nat /\ inbox[i] <= number
      BY Constants DEF TransportInv, Shapes, Fates
    <3>2. outcome[number + 1] = "none" /\ verdict[number + 1] = "none"
      BY <2>1, <2>2 DEF TransportInv, Fates
    <3>3. \A r \in Ids : r > number + 1 => r > number
      BY <2>2, Constants
    <3>4. \A u \in Threads : at'[u] \in Working => u = t
      BY <2>3 DEF Working, Holding
    <3>5. QED
      BY <1>1, <2>1, <2>2, <2>3, <3>1, <3>2, <3>3, <3>4
         DEF TransportInv, Fates, Working
  <2>7. Mailbox'
    BY <1>1 DEF TransportInv, Mailbox
  <2>8. Trust'
    <3>1. lifecycle = "OPEN" => ~failure
      BY <1>7 DEF IsOpen
    <3>2. QED
      BY <1>1, <2>1, <2>3, <3>1, Constants, <1>2 DEF TransportInv, Trust, Holding
  <2>9. Step
    BY <1>1, <2>1, NothingSaid
  <2>10. QED
    BY <1>6, <2>4, <2>5, <2>6, <2>7, <2>8, <2>9 DEF TransportInv
<1>8. CASE ~IsOpen(t \in Closers)
  <2>1. RaisesClosed /\ After(t) /\ number' = number
    BY <1>8 DEF Number
  <2>2. PICK stage \in Stages \ Working :
           /\ at' = [at EXCEPT ![t] = stage]
           /\ stage \in Holding => lock' = t
    BY <1>2, <2>1, AfterRequest
  <2>3. /\ poison # "none" => poison' # "none"
        /\ poison' \in {"none", "known", "unknown"}
        /\ lifecycle' = "OPEN" => lifecycle = "OPEN"
    BY <2>1, RaisesClosedStays DEF TransportInv
  <2>4. t \in Closers => closeStarted
    BY <1>2 DEF TransportInv, Trust
  <2>5. \A u \in Threads : at[u] \notin {"write", "await"}
    BY <1>4 DEF Pending
  <2>6. \A u \in Threads \ {t} : id'[u] = id[u] /\ told'[u] = told[u]
    BY <1>2, <2>1, AfterRequest
  <2>7. Turns' /\ Fates' /\ Mailbox' /\ Trust'
    BY <1>1, <1>3, <1>4, <2>1, <2>2, <2>3, <2>4, <2>5, <2>6, QuietKeeps
  <2>8. Shapes'
    <3>1. /\ op' \in [Threads -> {"request", "stop", "shutdown", "wait"}]
          /\ id' \in [Threads -> Int]
          /\ told' \in [Threads -> Told \cup {"none"}]
      BY <1>2, <2>1, AfterRequest
    <3>2. at' \in [Threads -> Stages]
      BY <2>2 DEF TransportInv, Shapes
    <3>3. QED
      BY <1>1, <2>1, <2>3, <3>1, <3>2 DEF TransportInv, Shapes
  <2>9. Step
    BY <1>1, <2>3, NothingSaid
  <2>10. QED
    BY <1>6, <2>7, <2>8, <2>9 DEF TransportInv
<1>9. QED
  BY <1>7, <1>8

-----------------------------------------------------------------------------
(* The steps of a request in flight                                        *)

LEMMA BeginKeeps ==
    ASSUME TransportInv, NEW t \in Threads, Begin(t)
    PROVE  TransportInv' /\ Step
<1>1. /\ UNCHANGED <<failure, shutdownSent, closeStarted, number, input, far,
                     output, pump, item, responses, disturbed>>
      /\ UNCHANGED <<inbox, verdict>>
  BY DEF Begin, far
<1>2. at[t] = "begin" /\ lock = t /\ id[t] = number /\ number # 0
  BY DEF Begin, TransportInv, Turns, Holding, Working
<1>3. \A u \in Threads \ {t} : at[u] \notin Holding
  BY <1>2, OthersWait
<1>4. \A u \in Threads : at[u] \notin Pending
  BY <1>2, <1>3 DEF Pending, Holding
<1>5. inflight = 0 /\ number \in Ids /\ number \in Nat
  BY <1>2, <1>4, Constants DEF TransportInv, Turns, Shapes, Ids
<1>6. /\ outcome[number] = "none" /\ verdict[number] = "none"
      /\ \A i \in 1..Len(inbox) : inbox[i] # number
  BY <1>2 DEF TransportInv, Fates, Working
<1>7. Lines'
  BY <1>1 DEF TransportInv, Lines, Decided
<1>8. \A i \in 1..Len(inbox) : inbox[i] \in Ids
  BY DEF TransportInv, Shapes
<1>9. outcome \in [Ids -> Told \cup {"none"}] /\ at \in [Threads -> Stages]
  BY DEF TransportInv, Shapes
<1>10. CASE MayDispatch(t \in Closers)
  <2>1. /\ inflight' = number /\ at' = [at EXCEPT ![t] = "write"]
        /\ UNCHANGED <<poison, lifecycle, failed, lock, op, id, told, outcome>>
    BY <1>2, <1>10 DEF Begin, Goes
  <2>2. at'[t] = "write" /\ \A u \in Threads \ {t} : at'[u] = at[u] /\ at'[u] \notin Holding
    BY <1>3, <1>9, <2>1
  <2>3. Shapes'
    <3>1. at' \in [Threads -> Stages]
      BY <1>9, <2>1 DEF Stages
    <3>2. QED
      BY <1>1, <2>1, <3>1 DEF TransportInv, Shapes
  <2>4. Turns'
    BY <1>1, <1>2, <2>1, <2>2 DEF TransportInv, Turns, Holding, Working, Pending
  <2>5. Fates'
    BY <1>1, <1>2, <1>6, <2>1, <2>2 DEF TransportInv, Fates, Holding, Working
  <2>6. Mailbox'
    BY <1>1, <1>5, <1>8, <2>1, Constants DEF TransportInv, Mailbox
  <2>7. Trust'
    <3>1. poison = "none"
      BY <1>10 DEF MayDispatch
    <3>2. t \in Closers => closeStarted
      BY <1>2 DEF TransportInv, Trust
    <3>3. QED
      BY <1>1, <2>1, <2>2, <3>1, <3>2, Constants DEF TransportInv, Trust, Holding
  <2>8. Step
    <3>1. poison = "none"
      BY <1>10 DEF MayDispatch
    <3> DEFINE said == [s \in Ids |-> IF outcome[s] = "none" /\ inflight = s
                                      THEN "pending" ELSE outcome[s]]
               now == [s \in Ids |-> IF outcome'[s] = "none" /\ inflight' = s
                                     THEN "pending" ELSE outcome'[s]]
    <3>2. \A s \in Ids : said[s] = outcome[s] /\ said[s] # "pending"
      BY <1>5, <1>9, Constants DEF Told, Verdicts
    <3>3. now[number] = "pending" /\ \A s \in Ids \ {number} : now[s] = outcome[s]
      BY <1>5, <1>6, <2>1, Constants
    <3>4. now = [said EXCEPT ![number] = "pending"]
      BY <1>5, <3>2, <3>3
    <3>5. PICK r \in Ids : r = number
      BY <1>5
    <3>6. Channel!Send(r)
      BY <1>1, <1>5, <1>6, <2>1, <3>1, <3>2, <3>4, <3>5 DEF Channel!Send, Channel!Tell
    <3>7. QED
      BY <3>6 DEF Step, Channel!ChannelNext
  <2>9. QED
    BY <1>7, <2>3, <2>4, <2>5, <2>6, <2>7, <2>8 DEF TransportInv
<1>11. CASE ~MayDispatch(t \in Closers)
  <2>1. /\ outcome' = [outcome EXCEPT ![number] = "refused"]
        /\ RaisesClosed /\ After(t) /\ inflight' = inflight
    BY <1>2, <1>11 DEF Begin
  <2>2. poison' = poison
    BY <1>2, <2>1, RaisesClosedStays DEF TransportInv, Trust
  <2>3. /\ poison' \in {"none", "known", "unknown"}
        /\ lifecycle' = "OPEN" => lifecycle = "OPEN"
    BY <2>1, RaisesClosedStays DEF TransportInv
  <2>4. PICK stage \in Stages \ Working :
           /\ at' = [at EXCEPT ![t] = stage]
           /\ stage \in Holding => lock' = t
    BY <1>2, <2>1, AfterRequest
  <2>5. /\ op' \in [Threads -> {"request", "stop", "shutdown", "wait"}]
        /\ id' \in [Threads -> Int] /\ told' \in [Threads -> Told \cup {"none"}]
    BY <1>2, <2>1, AfterRequest
  <2>6. at'[t] = stage /\ \A u \in Threads \ {t} : at'[u] = at[u] /\ at'[u] \notin Holding
    BY <1>3, <1>9, <2>4
  <2>7. /\ outcome'[number] = "refused" /\ \A s \in Ids \ {number} : outcome'[s] = outcome[s]
        /\ outcome' \in [Ids -> Told \cup {"none"}]
    BY <1>5, <1>9, <2>1 DEF Told
  <2>8. Shapes'
    <3>1. at' \in [Threads -> Stages]
      BY <1>9, <2>4
    <3>2. QED
      BY <1>1, <2>3, <2>5, <2>7, <3>1 DEF TransportInv, Shapes
  <2>9. \A u \in Threads : at'[u] \notin Working /\ at'[u] \notin Pending
    BY <2>6 DEF Working, Pending, Holding
  <2>10. Turns'
    <3>1. stage \in Holding => lock' = t
      BY <2>4
    <3>2. QED
      BY <1>5, <2>1, <2>6, <2>9, <3>1 DEF Turns
  <2>11. Fates'
    <3>1. \A r \in Ids : r > number => r # number
      BY <1>5
    <3>2. QED
      BY <1>1, <2>7, <2>9, <3>1 DEF TransportInv, Fates, Working
  <2>12. Mailbox'
    BY <1>1, <1>6, <1>8, <2>1, <2>7 DEF TransportInv, Mailbox
  <2>13. Trust'
    <3>1. t \in Closers => closeStarted
      BY <1>2 DEF TransportInv, Trust
    <3>2. QED
      BY <1>1, <2>3, <2>6, <2>9, <3>1, Constants DEF TransportInv, Trust, Working
  <2>14. Step
    <3> DEFINE said == [s \in Ids |-> IF outcome[s] = "none" /\ inflight = s
                                      THEN "pending" ELSE outcome[s]]
               now == [s \in Ids |-> IF outcome'[s] = "none" /\ inflight' = s
                                     THEN "pending" ELSE outcome'[s]]
    <3>1. \A s \in Ids : said[s] = outcome[s] /\ now[s] = outcome'[s]
      BY <1>5, <2>1, Constants
    <3>2. now = [said EXCEPT ![number] = "refused"]
      BY <1>5, <2>7, <3>1
    <3>3. PICK r \in Ids : r = number
      BY <1>5
    <3>4. Channel!Refuse(r)
      BY <1>1, <1>5, <1>6, <2>2, <3>1, <3>2, <3>3 DEF Channel!Refuse, Channel!Tell
    <3>5. QED
      BY <3>4 DEF Step, Channel!ChannelNext
  <2>15. QED
    BY <1>7, <2>8, <2>10, <2>11, <2>12, <2>13, <2>14 DEF TransportInv
<1>12. QED
  BY <1>10, <1>11

\* The thread with the request in flight goes on to its next stage.
LEMMA InFlight ==
    ASSUME TransportInv, NEW t \in Threads, at[t] \in Pending
    PROVE  /\ lock = t /\ id[t] = number /\ number # 0 /\ inflight = number
           /\ \A u \in Threads \ {t} : at[u] \notin Holding
           /\ number \in Ids /\ number \in Nat /\ outcome[number] = "none"
           /\ t \in Closers => closeStarted
           /\ at \in [Threads -> Stages] /\ told \in [Threads -> Told \cup {"none"}]
           /\ \A i \in 1..Len(inbox) : inbox[i] \in Ids
<1>1. at[t] \in Holding /\ at[t] \in Working /\ at[t] # "idle"
  BY DEF Pending, Holding, Working
<1>2. lock = t /\ id[t] = number /\ number # 0 /\ inflight = number
  BY <1>1 DEF TransportInv, Turns
<1>3. \A u \in Threads \ {t} : at[u] \notin Holding
  BY <1>2, OthersWait
<1>4. number \in Ids /\ number \in Nat
  BY <1>2, Constants DEF TransportInv, Shapes, Ids
<1>5. outcome[number] = "none" /\ (t \in Closers => closeStarted)
  BY <1>1 DEF TransportInv, Fates, Trust
<1>6. at \in [Threads -> Stages] /\ told \in [Threads -> Told \cup {"none"}]
      /\ \A i \in 1..Len(inbox) : inbox[i] \in Ids
  BY DEF TransportInv, Shapes
<1>7. QED
  BY <1>2, <1>3, <1>4, <1>5, <1>6

\* Whoever awaits an answer then ends its request, with what was decided or
\* on a broken channel.
LEMMA ProgressKeeps ==
    ASSUME TransportInv, NEW t \in Threads, at[t] \in {"write", "await"},
           NEW stage \in {"await", "end"}, at' = [at EXCEPT ![t] = stage],
           UNCHANGED <<number, inflight, outcome, verdict, failure, lock, op, id,
                       closeStarted>>,
           told' \in [Threads -> Told \cup {"none"}],
           \A u \in Threads \ {t} : told'[u] = told[u],
           inbox' = inbox \/ (at[t] = "write" /\ inbox' = Append(inbox, number)),
           stage = "await" => poison' = "none",
           stage = "end" => \/ told'[t] = "unknown" /\ poison' # "none"
                            \/ told'[t] \in Verdicts /\ told'[t] = verdict[number],
           poison' \in {"none", "known", "unknown"},
           poison # "none" => poison' # "none",
           lifecycle' = "OPEN" => lifecycle = "OPEN",
           shutdownSent' => lifecycle' # "OPEN"
    PROVE  /\ inbox' \in Seq(Ids) /\ at' \in [Threads -> Stages]
           /\ Turns' /\ Fates' /\ Mailbox' /\ Trust' /\ Step
<1>1. at[t] \in Pending
  BY DEF Pending
<1>2. /\ lock = t /\ id[t] = number /\ number # 0 /\ inflight = number
      /\ \A u \in Threads \ {t} : at[u] \notin Holding
      /\ number \in Ids /\ number \in Nat /\ outcome[number] = "none"
      /\ t \in Closers => closeStarted
      /\ at \in [Threads -> Stages] /\ told \in [Threads -> Told \cup {"none"}]
      /\ \A i \in 1..Len(inbox) : inbox[i] \in Ids
  BY <1>1, InFlight
<1>3. at'[t] = stage /\ \A u \in Threads \ {t} : at'[u] = at[u] /\ at'[u] \notin Holding
  BY <1>2
<1>4. at' \in [Threads -> Stages]
  BY <1>2 DEF Stages
<1>5. inbox \in Seq(Ids) /\ inbox' \in Seq(Ids)
  <2>1. inbox \in Seq(Ids)
    BY DEF TransportInv, Shapes
  <2>2. CASE inbox' = Append(inbox, number)
    BY <1>2, <2>1, <2>2
  <2>3. QED
    BY <2>1, <2>2
<1>6. \A i \in 1..Len(inbox') :
         \/ i \in 1..Len(inbox) /\ inbox'[i] = inbox[i]
         \/ at[t] = "write" /\ i = Len(inbox) + 1 /\ inbox'[i] = number
  BY <1>2, <1>5
<1>7. Turns'
  BY <1>2, <1>3 DEF TransportInv, Turns, Holding, Working, Pending
<1>8. Fates'
  <2>1. \A i \in 1..Len(inbox') : inbox'[i] <= number
    BY <1>2, <1>6 DEF TransportInv, Fates
  <2>2. QED
    BY <1>2, <1>3, <2>1 DEF TransportInv, Fates, Holding, Working
<1>9. Mailbox'
  <2>1. at[t] = "write" => /\ verdict[number] = "none"
                           /\ \A i \in 1..Len(inbox) : inbox[i] # number
    BY DEF TransportInv, Fates
  <2>2. \A i \in 1..Len(inbox') :
           /\ verdict[inbox'[i]] = "none"
           /\ \/ outcome[inbox'[i]] = "unknown"
              \/ outcome[inbox'[i]] = "none" /\ inflight = inbox'[i]
    BY <1>2, <1>6, <2>1 DEF TransportInv, Mailbox
  <2>3. \A i, j \in 1..Len(inbox') : i # j => inbox'[i] # inbox'[j]
    BY <1>6, <2>1 DEF TransportInv, Mailbox
  <2>4. QED
    BY <2>2, <2>3 DEF Mailbox
<1>10. Trust'
  BY <1>2, <1>3, Constants DEF TransportInv, Trust, Holding
<1>11. Step
  BY NothingSaid
<1>12. QED
  BY <1>4, <1>5, <1>7, <1>8, <1>9, <1>10, <1>11

LEMMA FailsTells ==
    ASSUME TransportInv, NEW t \in Threads, at[t] \in {"write", "await"}, Fails(t)
    PROVE  /\ poison' = "unknown" /\ told'[t] = "unknown"
           /\ told' \in [Threads -> Told \cup {"none"}]
           /\ \A u \in Threads \ {t} : told'[u] = told[u]
           /\ at' = [at EXCEPT ![t] = "end"]
           /\ lifecycle' = "OPEN" => lifecycle = "OPEN"
<1>1. poison = "none" /\ Shapes /\ told \in [Threads -> Told \cup {"none"}]
  BY DEF TransportInv, Trust, Shapes
<1>2. Poison("unknown")
  BY DEF Fails
<1>3. poison' = "unknown" /\ (lifecycle' = "OPEN" => lifecycle = "OPEN")
  BY <1>1, <1>2, PoisonStays
<1>4. told' = [told EXCEPT ![t] = "unknown"] /\ at' = [at EXCEPT ![t] = "end"]
  BY <1>3 DEF Fails, ToldByPoison, Goes
<1>5. /\ told'[t] = "unknown" /\ told' \in [Threads -> Told \cup {"none"}]
      /\ \A u \in Threads \ {t} : told'[u] = told[u]
  BY <1>1, <1>4 DEF Told
<1>6. QED
  BY <1>3, <1>4, <1>5

LEMMA WriteKeeps ==
    ASSUME TransportInv, NEW t \in Threads, Write(t)
    PROVE  TransportInv' /\ Step
<1>1. /\ at[t] = "write" /\ at[t] \in {"write", "await"}
      /\ UNCHANGED <<failure, inflight, lines, shutdownSent, closeStarted, number,
                     lock, op, id, outcome, verdict, output, item, responses>>
  BY DEF Write
<1>2. id[t] = number /\ told \in [Threads -> Told \cup {"none"}] /\ poison = "none"
  BY <1>1, InFlight DEF Pending, TransportInv, Trust
<1>3. Lines'
  BY <1>1 DEF TransportInv, Lines, Decided
<1>4. shutdownSent => lifecycle # "OPEN"
  BY DEF TransportInv, Trust
<1>5. CASE /\ inbox' = Append(inbox, id[t]) /\ Goes(t, "await")
           /\ UNCHANGED <<poison, lifecycle, told>>
  <2>1. inbox' \in Seq(Ids) /\ at' \in [Threads -> Stages]
        /\ Turns' /\ Fates' /\ Mailbox' /\ Trust' /\ Step
    BY <1>1, <1>2, <1>4, <1>5, ProgressKeeps DEF Goes
  <2>2. QED
    BY <1>1, <1>3, <1>5, <2>1 DEF TransportInv, Shapes
<1>6. CASE Fails(t) /\ inbox' \in {inbox} \cup IF input THEN {Append(inbox, id[t])} ELSE {}
  <2>1. /\ poison' = "unknown" /\ told'[t] = "unknown"
        /\ told' \in [Threads -> Told \cup {"none"}]
        /\ \A u \in Threads \ {t} : told'[u] = told[u]
        /\ at' = [at EXCEPT ![t] = "end"]
        /\ lifecycle' = "OPEN" => lifecycle = "OPEN"
    BY <1>1, <1>6, FailsTells
  <2>2. inbox' = inbox \/ inbox' = Append(inbox, number)
    BY <1>2, <1>6
  <2>3. inbox' \in Seq(Ids) /\ at' \in [Threads -> Stages]
        /\ Turns' /\ Fates' /\ Mailbox' /\ Trust' /\ Step
    BY <1>1, <1>4, <2>1, <2>2, ProgressKeeps
  <2>4. QED
    BY <1>1, <1>3, <2>1, <2>3 DEF TransportInv, Shapes
<1>7. QED
  BY <1>5, <1>6 DEF Write

LEMMA ReceiveKeeps ==
    ASSUME TransportInv, NEW t \in Threads, Receive(t)
    PROVE  TransportInv' /\ Step
<1>1. /\ at[t] = "await" /\ at[t] \in {"write", "await"}
      /\ UNCHANGED <<failure, inflight, lines, closeStarted, number, lock, op, id,
                     outcome, inbox, verdict, output, item>>
  BY DEF Receive, far
<1>2. /\ id[t] = number /\ number # 0 /\ number \in Ids
      /\ told \in [Threads -> Told \cup {"none"}] /\ poison = "none"
  BY <1>1, InFlight DEF Pending, TransportInv, Trust
<1>3. responses' \in Seq(Items) /\ \A i \in 1..Len(responses') : Decided(responses'[i])
  <2>1. responses \in Seq(Items) /\ \A i \in 1..Len(responses) : Decided(responses[i])
    BY DEF TransportInv, Shapes, Lines
  <2>2. responses' = responses \/ (responses # <<>> /\ responses' = Tail(responses))
    BY DEF Receive
  <2>3. CASE responses # <<>> /\ responses' = Tail(responses)
    <3>1. responses' \in Seq(Items) /\ Len(responses') = Len(responses) - 1
          /\ Len(responses) \in Nat
          /\ \A i \in 1..Len(responses') : responses'[i] = responses[i + 1]
      BY <2>1, <2>3
    <3>2. QED
      BY <2>1, <3>1
  <2>4. QED
    BY <2>1, <2>2, <2>3
<1>4. Lines'
  BY <1>1, <1>3 DEF TransportInv, Lines, Decided
<1>5. shutdownSent => lifecycle # "OPEN"
  BY DEF TransportInv, Trust
<1>6. CASE Fails(t) /\ UNCHANGED shutdownSent
  <2>1. /\ poison' = "unknown" /\ told'[t] = "unknown"
        /\ told' \in [Threads -> Told \cup {"none"}]
        /\ \A u \in Threads \ {t} : told'[u] = told[u]
        /\ at' = [at EXCEPT ![t] = "end"]
        /\ lifecycle' = "OPEN" => lifecycle = "OPEN"
    BY <1>1, <1>6, FailsTells
  <2>2. inbox' \in Seq(Ids) /\ at' \in [Threads -> Stages]
        /\ Turns' /\ Fates' /\ Mailbox' /\ Trust' /\ Step
    BY <1>1, <1>5, <1>6, <2>1, ProgressKeeps
  <2>3. QED
    BY <1>1, <1>3, <1>4, <2>1, <2>2 DEF TransportInv, Shapes
<1>7. CASE ~(Fails(t) /\ UNCHANGED shutdownSent)
  <2>1. /\ responses # <<>> /\ Matches(t, Head(responses))
        /\ told' = [told EXCEPT ![t] = verdict[Head(responses).id]]
        /\ Goes(t, "end")
    BY <1>7 DEF Receive
  <2>2. PICK clean \in BOOLEAN :
           /\ shutdownSent' = (shutdownSent \/ clean)
           /\ IF failure /\ ~clean
              THEN Poison("known") /\ failed' = TRUE
              ELSE /\ UNCHANGED <<poison, failed>>
                   /\ lifecycle' = IF clean /\ lifecycle = "OPEN"
                                   THEN "CLOSING" ELSE lifecycle
    BY <1>7 DEF Receive
  <2>3. Head(responses).id = number /\ verdict[number] \in Verdicts
    <3>1. Head(responses).kind = "line" /\ Head(responses).id = number
      BY <1>2, <2>1 DEF Matches
    <3>2. Head(responses) = responses[1] /\ 1 \in 1..Len(responses)
      BY <2>1 DEF TransportInv, Shapes
    <3>3. verdict[number] # "none"
      BY <1>2, <3>1, <3>2 DEF TransportInv, Lines, Decided
    <3>4. QED
      BY <1>2, <3>1, <3>3 DEF TransportInv, Shapes
  <2>4. /\ told'[t] = verdict[number] /\ told' \in [Threads -> Told \cup {"none"}]
        /\ \A u \in Threads \ {t} : told'[u] = told[u]
    BY <1>2, <2>1, <2>3 DEF Told
  <2>5. /\ poison' \in {"none", "known", "unknown"}
        /\ lifecycle' = "OPEN" => lifecycle = "OPEN"
        /\ shutdownSent' => lifecycle' # "OPEN"
    <3>1. CASE failure /\ ~clean
      BY <1>5, <2>2, <3>1, PoisonStays DEF TransportInv
    <3>2. CASE ~(failure /\ ~clean)
      BY <1>2, <1>5, <2>2, <3>2
    <3>3. QED
      BY <3>1, <3>2
  <2>6. inbox' \in Seq(Ids) /\ at' \in [Threads -> Stages]
        /\ Turns' /\ Fates' /\ Mailbox' /\ Trust' /\ Step
    BY <1>1, <1>2, <2>1, <2>3, <2>4, <2>5, ProgressKeeps DEF Goes
  <2>7. QED
    BY <1>1, <1>3, <1>4, <2>4, <2>5, <2>6 DEF TransportInv, Shapes
<1>8. QED
  BY <1>6, <1>7

LEMMA EndKeeps ==
    ASSUME TransportInv, NEW t \in Threads, End(t)
    PROVE  TransportInv' /\ Step
<1>1. /\ at[t] = "end" /\ inflight' = 0 /\ After(t)
      /\ UNCHANGED <<lifecycle, poison, failure, shutdownSent, closeStarted, number,
                     inbox, verdict, output, item, responses>>
  BY DEF End, far
<1>2. /\ lock = t /\ inflight = number /\ number # 0
      /\ \A u \in Threads \ {t} : at[u] \notin Holding
      /\ number \in Ids /\ number \in Nat /\ outcome[number] = "none"
      /\ t \in Closers => closeStarted
      /\ at \in [Threads -> Stages] /\ told \in [Threads -> Told \cup {"none"}]
      /\ \A i \in 1..Len(inbox) : inbox[i] \in Ids
  BY <1>1, InFlight DEF Pending
<1>3. \/ told[t] = "unknown" /\ poison # "none"
      \/ told[t] \in Verdicts /\ told[t] = verdict[number]
  BY <1>1 DEF TransportInv, Fates
<1>4. outcome \in [Ids -> Told \cup {"none"}] /\ outcome' = [outcome EXCEPT ![number] = told[t]]
  BY <1>1, InFlight DEF End, Pending, TransportInv, Shapes
<1>5. /\ outcome'[number] = told[t] /\ \A s \in Ids \ {number} : outcome'[s] = outcome[s]
      /\ outcome' \in [Ids -> Told \cup {"none"}]
  BY <1>2, <1>4
<1>6. PICK stage \in Stages \ Working :
         /\ at' = [at EXCEPT ![t] = stage]
         /\ stage \in Holding => lock' = t
  BY <1>1, <1>2, AfterRequest
<1>7. /\ op' \in [Threads -> {"request", "stop", "shutdown", "wait"}]
      /\ id' \in [Threads -> Int] /\ told' \in [Threads -> Told \cup {"none"}]
  BY <1>1, <1>2, AfterRequest
<1>8. at'[t] = stage /\ \A u \in Threads \ {t} : at'[u] = at[u] /\ at'[u] \notin Holding
  BY <1>2, <1>6
<1>9. \A u \in Threads : at'[u] \notin Working /\ at'[u] \notin Pending
  BY <1>8 DEF Working, Pending, Holding
<1>10. Shapes'
  <2>1. at' \in [Threads -> Stages]
    BY <1>2, <1>6
  <2>2. QED
    BY <1>1, <1>5, <1>7, <2>1 DEF TransportInv, Shapes
<1>11. Turns'
  BY <1>1, <1>6, <1>8, <1>9 DEF Turns
<1>12. Fates'
  <2>1. \A r \in Ids : r > number => r # number
    BY <1>2
  <2>2. QED
    BY <1>1, <1>5, <1>9, <2>1 DEF TransportInv, Fates, Working
<1>13. Mailbox'
  <2>1. \A i \in 1..Len(inbox) : outcome'[inbox[i]] = "unknown"
    <3>1. SUFFICES ASSUME NEW i \in 1..Len(inbox) PROVE outcome'[inbox[i]] = "unknown"
      OBVIOUS
    <3>2. inbox[i] \in Ids /\ verdict[inbox[i]] = "none"
      BY <1>2 DEF TransportInv, Mailbox
    <3>3. CASE inbox[i] = number
      BY <1>3, <1>5, <3>2, <3>3 DEF Verdicts
    <3>4. CASE inbox[i] # number
      BY <1>2, <1>5, <3>2, <3>4 DEF TransportInv, Mailbox
    <3>5. QED
      BY <3>3, <3>4
  <2>2. QED
    BY <1>1, <2>1 DEF TransportInv, Mailbox
<1>14. Lines'
  BY <1>1 DEF TransportInv, Lines, Decided
<1>15. Trust'
  BY <1>1, <1>2, <1>8, <1>9, Constants DEF TransportInv, Trust, Working
<1>16. Step
  <2> DEFINE said == [s \in Ids |-> IF outcome[s] = "none" /\ inflight = s
                                    THEN "pending" ELSE outcome[s]]
             now == [s \in Ids |-> IF outcome'[s] = "none" /\ inflight' = s
                                   THEN "pending" ELSE outcome'[s]]
  <2>1. \A s \in Ids : now[s] = outcome'[s]
    BY <1>1, Constants
  <2>2. said[number] = "pending" /\ \A s \in Ids \ {number} : said[s] = outcome[s]
    BY <1>2
  <2>3. now = [said EXCEPT ![number] = told[t]]
    BY <1>5, <2>1, <2>2
  <2>4. PICK r \in Ids : r = number
    BY <1>2
  <2>5. CASE told[t] = "unknown" /\ poison # "none"
    <3>1. Channel!Lose(r)
      BY <1>1, <2>2, <2>3, <2>4, <2>5 DEF Channel!Lose, Channel!Tell
    <3>2. QED
      BY <3>1 DEF Step, Channel!ChannelNext
  <2>6. CASE told[t] \in Verdicts /\ told[t] = verdict[number]
    <3>1. verdict[number] # "none"
      BY <2>6 DEF Verdicts
    <3>2. Channel!Answer(r)
      BY <1>1, <2>2, <2>3, <2>4, <2>6, <3>1 DEF Channel!Answer, Channel!Tell
    <3>3. QED
      BY <3>2 DEF Step, Channel!ChannelNext
  <2>7. QED
    BY <1>3, <2>5, <2>6
<1>17. QED
  BY <1>10, <1>11, <1>12, <1>13, <1>14, <1>15, <1>16 DEF TransportInv

-----------------------------------------------------------------------------
(* wait_closed() and close()                                               *)

LEMMA QuietStep ==
    ASSUME TransportInv, NEW t \in Threads, NEW stage \in Stages \ Working,
           at[t] \notin Pending, at' = [at EXCEPT ![t] = stage],
           UNCHANGED <<number, inflight, outcome, verdict, inbox, failure,
                       shutdownSent, id, told, responses, item>>,
           op' = op \/ \E o \in {"stop", "wait"} : op' = [op EXCEPT ![t] = o],
           output' = output \/ output' = Append(output, Eof),
           stage \in Holding => lock' = t,
           lock' = lock \/ lock = t \/ lock = "nobody",
           lock' = lock \/ lock' = t \/ stage \notin Holding,
           poison' \in {"none", "known", "unknown"},
           poison # "none" => poison' # "none",
           poison' = poison \/ lock = t,
           lifecycle' = "OPEN" => lifecycle = "OPEN",
           closeStarted => closeStarted',
           closeStarted' => closeStarted \/ lifecycle' # "OPEN",
           t \in Closers /\ stage # "idle" => closeStarted'
    PROVE  TransportInv' /\ Step
<1>1. \A u \in Threads \ {t} : at[u] \in Holding => lock' = u
  <2>1. CASE lock' = lock
    BY <2>1 DEF TransportInv, Turns
  <2>2. CASE lock = t \/ lock = "nobody"
    BY <2>2, OthersWait
  <2>3. QED
    BY <2>1, <2>2
<1>2. poison' = poison \/ \A u \in Threads : at[u] \notin {"write", "await"}
  <2>1. CASE lock = t
    <3>1. \A u \in Threads \ {t} : at[u] \notin Holding
      BY <2>1, OthersWait
    <3>2. QED
      BY <3>1 DEF Pending, Holding
  <2>2. QED
    BY <2>1
<1>3. Turns' /\ Fates' /\ Mailbox' /\ Trust'
  BY <1>1, <1>2, QuietKeeps
<1>4. output' \in Seq(Items) /\ \A i \in 1..Len(output') : Decided(output'[i])
  <2>1. output \in Seq(Items) /\ \A i \in 1..Len(output) : Decided(output[i])
    BY DEF TransportInv, Shapes, Lines
  <2>2. Eof \in Items /\ Decided(Eof)
    BY DEF Eof, Items, Decided
  <2>3. CASE output' = Append(output, Eof)
    BY <2>1, <2>2, <2>3
  <2>4. QED
    BY <2>1, <2>3
<1>5. Lines'
  BY <1>4 DEF TransportInv, Lines, Decided
<1>6. Shapes'
  <2>1. op' \in [Threads -> {"request", "stop", "shutdown", "wait"}]
    BY DEF TransportInv, Shapes
  <2>2. at' \in [Threads -> Stages]
    BY DEF TransportInv, Shapes
  <2>3. QED
    BY <1>4, <2>1, <2>2 DEF TransportInv, Shapes
<1>7. Step
  BY NothingSaid
<1>8. QED
  BY <1>3, <1>5, <1>6, <1>7 DEF TransportInv

LEMMA PoisonKept == TransportInv => poison \in {"none", "known", "unknown"}
  BY DEF TransportInv, Shapes

LEMMA WaitClosedKeeps ==
    ASSUME TransportInv, NEW c \in Clients, WaitClosed(c)
    PROVE  TransportInv' /\ Step
<1>1. c \in Threads /\ c \notin Closers
  BY Constants
<1>2. /\ at[c] \notin Pending /\ at' = [at EXCEPT ![c] = "lock"]
      /\ op' = [op EXCEPT ![c] = "wait"]
      /\ lifecycle' = "OPEN" => lifecycle = "OPEN"
      /\ UNCHANGED <<poison, failure, inflight, shutdownSent, closeStarted, number,
                     lock, id, told, outcome, inbox, verdict, output, item, responses>>
  BY DEF WaitClosed, Goes, Pending, far
<1>3. "lock" \in Stages \ Working /\ "lock" \notin Holding
  BY DEF Stages, Working, Holding
<1>4. QED
  BY <1>1, <1>2, <1>3, QuietStep, PoisonKept

LEMMA AwaitExitKeeps ==
    ASSUME TransportInv, NEW c \in Threads, AwaitExit(c)
    PROVE  TransportInv' /\ Step
<1>1. /\ c \notin Closers
      /\ UNCHANGED <<failure, inflight, shutdownSent, closeStarted, number, outcome,
                     inbox, verdict, output, item, responses>>
  BY Constants DEF AwaitExit, far
<1>2. CASE at[c] = "lock"
  <2>1. /\ lock = "nobody" /\ lock' = c /\ at' = [at EXCEPT ![c] = "reap"]
        /\ at[c] \notin Pending /\ UNCHANGED <<op, id, told, poison, lifecycle>>
    BY <1>2 DEF AwaitExit, Goes, Pending
  <2>2. "reap" \in Stages \ Working
    BY DEF Stages, Working
  <2>3. QED
    BY <1>1, <2>1, <2>2, QuietStep, PoisonKept
<1>3. CASE at[c] = "reap"
  <2>1. /\ lock = c /\ lock' = "nobody" /\ at' = [at EXCEPT ![c] = "idle"]
        /\ at[c] \notin Pending /\ UNCHANGED <<op, id, told>>
    BY <1>3 DEF AwaitExit, Goes, Pending, TransportInv, Turns, Holding
  <2>2. /\ poison' \in {"none", "known", "unknown"}
        /\ poison # "none" => poison' # "none"
        /\ lifecycle' = "OPEN" => lifecycle = "OPEN"
    <3>1. CASE UNCHANGED <<poison, lifecycle>>
      BY <3>1, PoisonKept
    <3>2. CASE Poison("known")
      BY <3>2, PoisonStays DEF TransportInv
    <3>3. QED
      BY <1>3, <3>1, <3>2 DEF AwaitExit
  <2>3. "idle" \in Stages \ Working /\ "idle" \notin Holding
    BY DEF Stages, Working, Holding
  <2>4. QED
    BY <1>1, <2>1, <2>2, <2>3, QuietStep
<1>4. QED
  BY <1>2, <1>3 DEF AwaitExit

LEMMA CloseKeeps ==
    ASSUME TransportInv, NEW k \in Closers, Close(k)
    PROVE  TransportInv' /\ Step
<1>1. k \in Threads
  BY Constants
<1>2. PICK stage \in {"lock", "waiting"} : at' = [at EXCEPT ![k] = stage]
  BY DEF Close, Goes
<1>3. /\ at[k] \notin Pending
      /\ lifecycle' = "OPEN" => lifecycle = "OPEN"
      /\ closeStarted' /\ (closeStarted \/ lifecycle' # "OPEN")
      /\ UNCHANGED <<poison, failure, inflight, shutdownSent, number, lock, op, id,
                     told, outcome, inbox, verdict, output, item, responses>>
  BY DEF Close, Pending, far
<1>4. stage \in Stages \ Working /\ stage \notin Holding
  BY DEF Stages, Working, Holding
<1>5. QED
  BY <1>1, <1>2, <1>3, <1>4, QuietStep, PoisonKept

LEMMA CloserStarted ==
    ASSUME TransportInv, NEW k \in Closers, at[k] # "idle"
    PROVE  closeStarted /\ k \in Threads
  BY Constants DEF TransportInv, Trust

LEMMA CloseLockedKeeps ==
    ASSUME TransportInv, NEW k \in Threads, CloseLocked(k)
    PROVE  TransportInv' /\ Step
<1>1. closeStarted
  BY CloserStarted DEF CloseLocked
<1>2. PICK stage \in {"send", "reap"} : at' = [at EXCEPT ![k] = stage]
  BY DEF CloseLocked, Goes
<1>3. /\ at[k] \notin Pending /\ lock = "nobody" /\ lock' = k
      /\ op' = [op EXCEPT ![k] = "stop"]
      /\ UNCHANGED <<poison, lifecycle, failure, inflight, shutdownSent, closeStarted,
                     number, id, told, outcome, inbox, verdict, output, item, responses>>
  BY DEF CloseLocked, Pending, far, channel
<1>4. stage \in Stages \ Working
  BY DEF Stages, Working
<1>5. QED
  BY <1>1, <1>2, <1>3, <1>4, QuietStep, PoisonKept

LEMMA CloseEndsKeeps ==
    ASSUME TransportInv, NEW k \in Threads, CloseEnds(k)
    PROVE  TransportInv' /\ Step
<1>1. /\ at[k] \in {"reap", "drop", "finish"} /\ k \in Closers
      /\ output' = output \/ output' = Append(output, Eof)
      /\ lifecycle' = "OPEN" => lifecycle = "OPEN"
      /\ UNCHANGED <<poison, failure, inflight, shutdownSent, closeStarted, number,
                     op, id, told, outcome, inbox, verdict, item, responses>>
  BY DEF CloseEnds
<1>2. closeStarted
  BY <1>1, CloserStarted
<1>3. at[k] \notin Pending /\ lock = k
  BY <1>1 DEF Pending, Holding, TransportInv, Turns
<1>4. PICK stage \in {"drop", "finish", "idle"} :
         /\ at' = [at EXCEPT ![k] = stage]
         /\ stage # "idle" => lock' = lock
  BY DEF CloseEnds, Goes
<1>5. stage \in Stages \ Working /\ "idle" \notin Holding
  BY DEF Stages, Working, Holding
<1>6. QED
  BY <1>1, <1>2, <1>3, <1>4, <1>5, QuietStep, PoisonKept

LEMMA CloseReturnsKeeps ==
    ASSUME TransportInv, NEW k \in Threads, CloseReturns(k)
    PROVE  TransportInv' /\ Step
<1>1. /\ at[k] \notin Pending /\ at' = [at EXCEPT ![k] = "idle"]
      /\ UNCHANGED <<poison, lifecycle, failure, inflight, shutdownSent, closeStarted,
                     number, lock, op, id, told, outcome, inbox, verdict, output, item,
                     responses>>
  BY DEF CloseReturns, Goes, Pending, far, channel
<1>2. "idle" \in Stages \ Working /\ "idle" \notin Holding
  BY DEF Stages, Working, Holding
<1>3. QED
  BY <1>1, <1>2, QuietStep, PoisonKept

-----------------------------------------------------------------------------
(* The reader, the daemon and the pipes                                    *)

\* Lines only move, or are of no account.
LEMMA LinesMove ==
    ASSUME TransportInv, UNCHANGED <<threads, inflight, inbox, verdict>>,
           output' \in Seq(Items) /\ \A i \in 1..Len(output') : Decided(output'[i]),
           responses' \in Seq(Items) /\ \A i \in 1..Len(responses') : Decided(responses'[i]),
           item' \in Items /\ Decided(item'),
           Trust', poison' \in {"none", "known", "unknown"},
           poison # "none" => poison' # "none"
    PROVE  TransportInv' /\ Step
<1>1. UNCHANGED <<number, lock, at, op, id, told, outcome>>
  BY DEF threads
<1>2. Shapes'
  BY <1>1 DEF TransportInv, Shapes
<1>3. Turns' /\ Mailbox'
  BY <1>1 DEF TransportInv, Turns, Mailbox
<1>4. Fates'
  BY <1>1 DEF TransportInv, Fates
<1>5. Lines'
  BY DEF Lines, Decided
<1>6. Step
  BY <1>1, NothingSaid
<1>7. QED
  BY <1>2, <1>3, <1>4, <1>5, <1>6 DEF TransportInv

LEMMA LinesKept ==
    ASSUME TransportInv
    PROVE  /\ output \in Seq(Items) /\ \A i \in 1..Len(output) : Decided(output[i])
           /\ responses \in Seq(Items) /\ \A i \in 1..Len(responses) : Decided(responses[i])
           /\ item \in Items /\ Decided(item)
  BY DEF TransportInv, Shapes, Lines

LEMMA AppendKeeps ==
    ASSUME NEW s \in Seq(Items), \A i \in 1..Len(s) : Decided(s[i]),
           NEW x \in Items, Decided(x)
    PROVE  /\ Append(s, x) \in Seq(Items)
           /\ \A i \in 1..Len(Append(s, x)) : Decided(Append(s, x)[i])
<1>1. /\ Append(s, x) \in Seq(Items) /\ Len(Append(s, x)) = Len(s) + 1
      /\ \A i \in 1..Len(s) : Append(s, x)[i] = s[i]
      /\ Append(s, x)[Len(s) + 1] = x /\ Len(s) \in Nat
  OBVIOUS
<1>2. \A i \in 1..(Len(s) + 1) : i \in 1..Len(s) \/ i = Len(s) + 1
  BY <1>1
<1>3. QED
  BY <1>1, <1>2

LEMMA EofIsNoAnswer == Eof \in Items /\ Decided(Eof)
  BY DEF Eof, Items, Decided

LEMMA TrustKept ==
    ASSUME TransportInv, UNCHANGED <<channel, at>>
    PROVE  Trust'
  BY DEF TransportInv, Trust, channel

LEMMA CloseInputKeeps ==
    ASSUME TransportInv, CloseInput
    PROVE  TransportInv' /\ Step
<1>1. UNCHANGED <<channel, threads, inbox, verdict, output, item, responses>>
  BY DEF CloseInput, far
<1>2. UNCHANGED <<at, inflight, poison>>
  BY <1>1 DEF threads, channel
<1>3. QED
  BY <1>1, <1>2, LinesKept, TrustKept, LinesMove, PoisonKept DEF Decided

LEMMA PumpReadsKeeps ==
    ASSUME TransportInv, PumpReads
    PROVE  TransportInv' /\ Step
<1>1. UNCHANGED <<channel, threads, inbox, verdict, responses>>
  BY DEF PumpReads, far
<1>2. UNCHANGED <<at, inflight, poison>>
  BY <1>1 DEF threads, channel
<1>3. /\ output' \in Seq(Items) /\ \A i \in 1..Len(output') : Decided(output'[i])
      /\ item' \in Items /\ Decided(item')
  <2>1. CASE UNCHANGED <<item, output>>
    BY <2>1, LinesKept
  <2>2. CASE output # <<>> /\ item' = Head(output) /\ output' = Tail(output)
    <3>1. output \in Seq(Items) /\ \A i \in 1..Len(output) : Decided(output[i])
      BY LinesKept
    <3>2. /\ output' \in Seq(Items) /\ Len(output') = Len(output) - 1
          /\ Len(output) \in Nat /\ 1 \in 1..Len(output) /\ item' = output[1]
          /\ \A i \in 1..Len(output') : output'[i] = output[i + 1]
      BY <2>2, <3>1
    <3>3. QED
      BY <3>1, <3>2
  <2>3. QED
    BY <2>1, <2>2 DEF PumpReads
<1>4. QED
  BY <1>1, <1>2, <1>3, LinesKept, TrustKept, LinesMove, PoisonKept DEF Decided

\* A failure of the reader poisons the channel only when nothing is in flight.
LEMMA PumpMarksKeeps ==
    ASSUME TransportInv, PumpMarks
    PROVE  TransportInv' /\ Step
<1>1. UNCHANGED <<inflight, shutdownSent, closeStarted, threads, inbox, verdict,
                  output, item, responses>>
  BY DEF PumpMarks, far
<1>2. UNCHANGED at
  BY <1>1 DEF threads
<1>3. Trust' /\ poison' \in {"none", "known", "unknown"} /\ (poison # "none" => poison' # "none")
  <2>1. CASE UNCHANGED <<failure, failed, poison, lifecycle>>
    BY <1>1, <1>2, <2>1, PoisonKept DEF TransportInv, Trust
  <2>2. CASE RecordFailure /\ inflight = 0 /\ lifecycle = "OPEN" /\ ~shutdownSent
    <3>1. Poison("known")
      BY <2>2 DEF RecordFailure
    <3>2. /\ poison' # "none" /\ poison' \in {"known", "unknown"}
          /\ lifecycle' = "OPEN" => lifecycle = "OPEN"
      BY <3>1, PoisonStays DEF TransportInv
    <3>3. \A u \in Threads : at[u] \notin {"write", "await"}
      BY <2>2, Constants DEF TransportInv, Turns, Working, Pending
    <3>4. QED
      BY <1>1, <1>2, <3>2, <3>3 DEF TransportInv, Trust
  <2>3. CASE RecordFailure /\ ~(inflight = 0 /\ lifecycle = "OPEN" /\ ~shutdownSent)
    <3>1. failure' = TRUE /\ UNCHANGED <<poison, lifecycle>>
      BY <2>3 DEF RecordFailure
    <3>2. \A t \in Threads : at[t] = "begin" => lifecycle # "OPEN"
      <4>1. SUFFICES ASSUME NEW t \in Threads, at[t] = "begin", lifecycle = "OPEN"
                     PROVE  FALSE
        OBVIOUS
      <4>2. lock = t
        BY <4>1 DEF TransportInv, Turns, Holding
      <4>3. \A u \in Threads : at[u] \notin Pending
        BY <4>1, <4>2, OthersWait DEF Pending, Holding
      <4>4. inflight = 0
        BY <4>3 DEF TransportInv, Turns
      <4>5. QED
        BY <2>3, <4>1, <4>4 DEF TransportInv, Trust
    <3>3. QED
      BY <1>1, <1>2, <3>1, <3>2, PoisonKept DEF TransportInv, Trust
  <2>4. QED
    BY <2>1, <2>2, <2>3 DEF PumpMarks
<1>4. QED
  BY <1>1, <1>3, LinesKept, LinesMove DEF Decided

LEMMA PumpPutsKeeps ==
    ASSUME TransportInv, PumpPuts
    PROVE  TransportInv' /\ Step
<1>1. UNCHANGED <<channel, threads, inbox, verdict, output>>
  BY DEF PumpPuts, far
<1>2. UNCHANGED <<at, inflight, poison>>
  BY <1>1 DEF threads, channel
<1>3. item' = Eof /\ responses' = Append(responses, item)
  BY DEF PumpPuts
<1>4. responses' \in Seq(Items) /\ \A i \in 1..Len(responses') : Decided(responses'[i])
  BY <1>3, LinesKept, AppendKeeps
<1>5. QED
  BY <1>1, <1>2, <1>3, <1>4, LinesKept, EofIsNoAnswer, TrustKept, LinesMove, PoisonKept
     DEF Decided

LEMMA DaemonExitsKeeps ==
    ASSUME TransportInv, DaemonExits
    PROVE  TransportInv' /\ Step
<1>1. /\ UNCHANGED <<channel, threads, inbox, verdict, item, responses>>
      /\ output' = Append(output, Eof)
  BY DEF DaemonExits
<1>2. UNCHANGED <<at, inflight, poison>>
  BY <1>1 DEF threads, channel
<1>3. output' \in Seq(Items) /\ \A i \in 1..Len(output') : Decided(output'[i])
  BY <1>1, LinesKept, EofIsNoAnswer, AppendKeeps
<1>4. QED
  BY <1>1, <1>2, <1>3, LinesKept, TrustKept, LinesMove, PoisonKept DEF Decided

LEMMA NoiseKeeps ==
    ASSUME TransportInv, Noise
    PROVE  TransportInv' /\ Step
<1>1. UNCHANGED <<channel, threads, inbox, verdict, item, responses>>
  BY DEF Noise
<1>2. UNCHANGED <<at, inflight, poison>>
  BY <1>1 DEF threads, channel
<1>3. PICK x : /\ output' = Append(output, x)
               /\ \/ \E r \in {s \in Ids : verdict[s] # "none"} \cup {0} : x = Reply(r)
                  \/ x = [kind |-> "invalid", id |-> 0]
  BY DEF Noise
<1>4. x \in Items /\ Decided(x)
  <2>1. CASE x = [kind |-> "invalid", id |-> 0]
    BY <2>1 DEF Items, Decided
  <2>2. CASE \E r \in {s \in Ids : verdict[s] # "none"} \cup {0} : x = Reply(r)
    <3>1. PICK r \in {s \in Ids : verdict[s] # "none"} \cup {0} : x = Reply(r)
      BY <2>2
    <3>2. r \in 0..(MaxRequests + 2) /\ x.kind = "line" /\ x.id = r
      BY <3>1, Constants DEF Reply, Ids
    <3>3. x \in Items
      BY <3>1, <3>2 DEF Reply, Items
    <3>4. QED
      BY <3>1, <3>2, <3>3 DEF Decided
  <2>3. QED
    BY <1>3, <2>1, <2>2
<1>5. output' \in Seq(Items) /\ \A i \in 1..Len(output') : Decided(output'[i])
  BY <1>3, <1>4, LinesKept, AppendKeeps
<1>6. QED
  BY <1>1, <1>2, <1>5, LinesKept, TrustKept, LinesMove, PoisonKept DEF Decided

\* What the daemon decides was in flight or had been lost.
LEMMA DaemonAnswersKeeps ==
    ASSUME TransportInv, DaemonAnswers
    PROVE  TransportInv' /\ Step
<1> DEFINE q == Head(inbox)
<1>1. /\ inbox # <<>> /\ inbox' = Tail(inbox)
      /\ output' = Append(output, Reply(q))
      /\ UNCHANGED <<channel, threads, item, responses>>
  BY DEF DaemonAnswers
<1>2. PICK v \in Verdicts : verdict' = [verdict EXCEPT ![q] = v]
  BY DEF DaemonAnswers
<1>3. UNCHANGED <<number, lock, at, op, id, told, outcome, inflight, poison>>
  BY <1>1 DEF threads, channel
<1>4. /\ inbox \in Seq(Ids) /\ verdict \in [Ids -> Verdicts \cup {"none"}]
      /\ number \in Nat
  BY DEF TransportInv, Shapes
<1>5. /\ Len(inbox) \in Nat /\ 1 \in 1..Len(inbox) /\ q = inbox[1] /\ q \in Ids
      /\ inbox' \in Seq(Ids) /\ Len(inbox') = Len(inbox) - 1
      /\ \A i \in 1..Len(inbox') : i + 1 \in 1..Len(inbox) /\ inbox'[i] = inbox[i + 1]
      /\ \A i \in 1..Len(inbox) : inbox[i] \in Ids
  BY <1>1, <1>4
<1>6. /\ verdict[q] = "none" /\ q <= number
      /\ outcome[q] = "unknown" \/ (outcome[q] = "none" /\ inflight = q)
  BY <1>5 DEF TransportInv, Mailbox, Fates
<1>7. /\ verdict'[q] = v /\ v # "none" /\ \A s \in Ids \ {q} : verdict'[s] = verdict[s]
      /\ verdict' \in [Ids -> Verdicts \cup {"none"}]
  BY <1>2, <1>4, <1>5 DEF Verdicts
<1>8. \A i \in 1..Len(inbox') : inbox'[i] # q
  BY <1>5 DEF TransportInv, Mailbox
<1> HIDE DEF q
<1>9. Reply(q) \in Items /\ Reply(q).id = q /\ Reply(q).kind = "line"
  BY <1>5, Constants DEF Reply, Items, Ids
<1>10. \A x \in Items : Decided(x) => (x.kind = "line" /\ x.id # 0 => verdict'[x.id] # "none")
  <2>1. \A x \in Items : x.id = 0 \/ x.id \in Ids
    BY Constants DEF Items, Ids
  <2>2. QED
    BY <1>7, <2>1 DEF Decided
<1>11. Lines' /\ output' \in Seq(Items)
  <2>1. output \in Seq(Items) /\ \A i \in 1..Len(output) : Decided(output[i])
    BY LinesKept
  <2>2. output' \in Seq(Items) /\ Len(output) \in Nat
        /\ \A i \in 1..Len(output') : \/ i \in 1..Len(output) /\ output'[i] = output[i]
                                      \/ output'[i] = Reply(q)
    BY <1>1, <1>9, <2>1
  <2>3. \A i \in 1..Len(output') :
           output'[i].kind = "line" /\ output'[i].id # 0 => verdict'[output'[i].id] # "none"
    BY <1>7, <1>9, <1>10, <2>1, <2>2
  <2>4. \A i \in 1..Len(responses) :
           responses[i].kind = "line" /\ responses[i].id # 0 => verdict'[responses[i].id] # "none"
    BY <1>10, LinesKept
  <2>5. item.kind = "line" /\ item.id # 0 => verdict'[item.id] # "none"
    BY <1>10, LinesKept
  <2>6. QED
    BY <1>1, <2>2, <2>3, <2>4, <2>5 DEF Lines, Decided
<1>12. Shapes'
  BY <1>1, <1>3, <1>5, <1>7, <1>11 DEF TransportInv, Shapes
<1>13. Turns'
  BY <1>3 DEF TransportInv, Turns
<1>14. Fates'
  <2>1. \A r \in Ids : r > number => outcome[r] = "none" /\ verdict'[r] = "none"
    <3>1. \A r \in Ids : r > number => r # q
      BY <1>4, <1>5, <1>6, Constants
    <3>2. QED
      BY <1>7, <3>1 DEF TransportInv, Fates
  <2>2. \A i \in 1..Len(inbox') : inbox'[i] <= number
    BY <1>5 DEF TransportInv, Fates
  <2>3. ASSUME NEW t \in Threads
        PROVE  /\ at[t] \in Working => outcome[number] = "none"
               /\ at[t] \in {"begin", "write"} =>
                     /\ verdict'[number] = "none"
                     /\ \A i \in 1..Len(inbox') : inbox'[i] # number
               /\ at[t] = "end" =>
                     \/ told[t] = "unknown" /\ poison # "none"
                     \/ told[t] \in Verdicts /\ told[t] = verdict'[number]
    <3>1. at[t] \in Working => outcome[number] = "none" /\ number # 0
      BY DEF TransportInv, Fates, Turns
    <3>2. CASE at[t] \in {"begin", "write"}
      <4>1. verdict[number] = "none" /\ \A i \in 1..Len(inbox) : inbox[i] # number
        BY <3>2 DEF TransportInv, Fates
      <4>2. number \in Ids /\ number # q
        BY <1>4, <1>5, <3>1, <3>2, <4>1 DEF Working, TransportInv, Shapes, Ids
      <4>3. QED
        BY <1>5, <1>7, <3>1, <3>2, <4>1, <4>2
    <3>3. CASE at[t] = "end"
      <4>1. \/ told[t] = "unknown" /\ poison # "none"
            \/ told[t] \in Verdicts /\ told[t] = verdict[number]
        BY <3>3 DEF TransportInv, Fates
      <4>2. number \in Ids
        BY <1>4, <3>1, <3>3 DEF Working, TransportInv, Shapes, Ids
      <4>3. CASE told[t] \in Verdicts /\ told[t] = verdict[number]
        <5>1. number # q
          BY <1>6, <4>3 DEF Verdicts
        <5>2. QED
          BY <1>7, <3>1, <3>3, <4>2, <4>3, <5>1
      <4>4. QED
        BY <3>1, <3>3, <4>1, <4>3
    <3>4. QED
      BY <3>1, <3>2, <3>3
  <2>4. QED
    BY <1>3, <2>1, <2>2, <2>3 DEF Fates
<1>15. Mailbox'
  <2>1. \A i \in 1..Len(inbox') :
           /\ verdict'[inbox'[i]] = "none"
           /\ \/ outcome[inbox'[i]] = "unknown"
              \/ outcome[inbox'[i]] = "none" /\ inflight = inbox'[i]
    BY <1>5, <1>7, <1>8 DEF TransportInv, Mailbox
  <2>2. \A i, j \in 1..Len(inbox') : i # j => inbox'[i] # inbox'[j]
    BY <1>5 DEF TransportInv, Mailbox
  <2>3. QED
    BY <1>3, <2>1, <2>2 DEF Mailbox
<1>16. Trust'
  BY <1>1, <1>3, TrustKept
<1>17. Step
  <2> DEFINE said == [s \in Ids |-> IF outcome[s] = "none" /\ inflight = s
                                    THEN "pending" ELSE outcome[s]]
  <2>1. said[q] \in {"pending", "unknown"}
    BY <1>5, <1>6
  <2>2. PICK r \in Ids : r = q
    BY <1>5
  <2>3. Channel!Decide(r)
    BY <1>2, <1>3, <1>6, <2>1, <2>2 DEF Channel!Decide
  <2>4. QED
    BY <2>3 DEF Step, Channel!ChannelNext
<1>18. QED
  BY <1>11, <1>12, <1>13, <1>14, <1>15, <1>16, <1>17 DEF TransportInv

-----------------------------------------------------------------------------
LEMMA InitKeeps == Init => TransportInv /\ Channel!ChannelInit
<1> SUFFICES ASSUME Init PROVE TransportInv /\ Channel!ChannelInit
  OBVIOUS
<1>1. /\ at = [t \in Threads |-> "idle"] /\ op = [t \in Threads |-> "request"]
      /\ id = [t \in Threads |-> 0] /\ told = [t \in Threads |-> "none"]
      /\ number = 0 /\ inflight = 0 /\ lock = "nobody"
      /\ outcome = [r \in Ids |-> "none"] /\ verdict = [r \in Ids |-> "none"]
      /\ inbox = <<>> /\ output = <<>> /\ responses = <<>> /\ item = Eof
      /\ poison = "none" /\ lifecycle = "OPEN"
      /\ failure = FALSE /\ shutdownSent = FALSE /\ closeStarted = FALSE
  BY DEF Init
<1>2. \A t \in Threads : /\ at[t] = "idle" /\ at[t] \notin Holding
                         /\ at[t] \notin Working /\ at[t] \notin Pending
  BY <1>1 DEF Holding, Working, Pending
<1>3. Shapes
  <2>1. /\ at \in [Threads -> Stages] /\ told \in [Threads -> Told \cup {"none"}]
        /\ op \in [Threads -> {"request", "stop", "shutdown", "wait"}]
        /\ id \in [Threads -> Int]
    BY <1>1 DEF Stages
  <2>2. /\ outcome \in [Ids -> Told \cup {"none"}]
        /\ verdict \in [Ids -> Verdicts \cup {"none"}]
    BY <1>1
  <2>3. inbox \in Seq(Ids) /\ output \in Seq(Items) /\ responses \in Seq(Items)
        /\ item \in Items /\ number \in 0..(MaxRequests + 2)
    BY <1>1, EofIsNoAnswer, Constants
  <2>4. QED
    BY <1>1, <2>1, <2>2, <2>3 DEF Shapes
<1>4. Turns
  BY <1>1, <1>2 DEF Turns
<1>5. Fates /\ Mailbox
  BY <1>1, <1>2 DEF Fates, Mailbox
<1>6. Lines
  BY <1>1, EofIsNoAnswer DEF Lines
<1>7. Trust
  BY <1>1, <1>2, Constants DEF Trust
<1>8. Channel!ChannelInit
  BY <1>1, Constants DEF Channel!ChannelInit
<1>9. QED
  BY <1>3, <1>4, <1>5, <1>6, <1>7, <1>8 DEF TransportInv

LEMMA NextKeeps ==
    ASSUME TransportInv, OneClient, [Next]_vars
    PROVE  TransportInv' /\ Step
<1>1. ASSUME NEW t \in Threads, ThreadStep(t) PROVE TransportInv' /\ Step
  BY <1>1, NumberKeeps, BeginKeeps, WriteKeeps, ReceiveKeeps, EndKeeps,
     AwaitExitKeeps, CloseLockedKeeps, CloseEndsKeeps, CloseReturnsKeeps DEF ThreadStep
<1>2. CASE PumpStep
  BY <1>2, PumpReadsKeeps, PumpMarksKeeps, PumpPutsKeeps DEF PumpStep
<1>3. CASE UNCHANGED vars
  <2>1. UNCHANGED <<channel, threads, far, output, item, responses>>
    BY <1>3 DEF vars
  <2>2. UNCHANGED <<at, inflight, poison, inbox, verdict>>
    BY <2>1 DEF threads, channel, far
  <2>3. QED
    BY <2>1, <2>2, LinesKept, TrustKept, LinesMove, PoisonKept DEF Decided
<1>4. QED
  BY <1>1, <1>2, <1>3, RequestKeeps, WaitClosedKeeps, CloseKeeps, CloseInputKeeps,
     DaemonAnswersKeeps, DaemonExitsKeeps, NoiseKeeps DEF Next

\* With one client, SupervisorSSHSession implements the sequential channel that
\* decides each request at most once: request(), close() and the reader never
\* tell of a request what the EV3 did not decide.
THEOREM ChannelKept == OneClient => (Spec => ChannelIsKept)
<1>1. SUFFICES ASSUME OneClient PROVE Spec => ChannelIsKept
  OBVIOUS
<1>2. Init => TransportInv /\ Channel!ChannelInit
  BY InitKeeps
<1>3. TransportInv /\ [Next]_vars => TransportInv' /\ [Channel!ChannelNext]_(Channel!channelVars)
  BY <1>1, NextKeeps DEF Step
<1>4. QED
  BY <1>2, <1>3, PTL DEF Spec, ChannelIsKept, Channel!ChannelSpec

-----------------------------------------------------------------------------
(* No false alarm: where the one request in flight is while nothing goes   *)
(* wrong, and when the end of the daemon, its input or the reader is due.  *)

Busy == {"lock", "send", "begin", "write", "await", "end", "reap", "drop", "finish"}

\* One closer at a time works; after a shutdown, and after it, no request.
Course ==
    /\ \A t \in Threads : id[t] # 0 => at[t] \in Working
    /\ \A j, k \in Closers : at[j] \in Busy /\ at[k] \in Busy => j = k
    /\ lifecycle = "CLOSED" => /\ \A k \in Closers : at[k] \notin Busy
                               /\ \A t \in Threads : at[t] \notin Working
    /\ \A t \in Threads :
          at[t] \in {"send", "begin", "write", "await"} \/ (at[t] = "end" /\ op[t] = "stop")
             => ~shutdownSent

\* The element the reader has taken and not yet put into the queue is item.
Held == pump \in {"mark", "put"}
HasEof(s) == \E i \in 1..Len(s) : s[i].kind = "eof"
OnlyEof(s) == \A i \in 1..Len(s) : s[i].kind = "eof"
Leads(s, r) == /\ 1 \in 1..Len(s) /\ s[1] = Reply(r)
               /\ \A i \in 1..Len(s) : i # 1 => s[i].kind = "eof"

\* An end is in order: of a session that closes, or after a shutdown.
Ending ==
    \/ shutdownSent
    \/ lifecycle = "CLOSED"
    \/ \E k \in Closers : at[k] \in {"drop", "finish"}
    \/ \E t \in Threads : at[t] = "await" /\ op[t] = "shutdown" /\ verdict[number] = "done"

\* Something has ended, or its end is on the way.
Ended ==
    \/ ~input \/ daemon = "gone" \/ failure \/ failed
    \/ HasEof(output) \/ HasEof(responses) \/ (Held /\ item.kind = "eof")

\* The request in flight, or its one answer: in the daemon's input, in its
\* output, in the reader's hand or in the queue.
InMail == inbox = <<number>> /\ output = <<>> /\ responses = <<>> /\ ~Held /\ lines = 0
InPipe == inbox = <<>> /\ Leads(output, number) /\ responses = <<>> /\ ~Held /\ lines = 0
InHand == /\ inbox = <<>> /\ OnlyEof(output) /\ responses = <<>> /\ item = Reply(number)
          /\ (pump = "mark" /\ lines = 0) \/ (pump = "put" /\ lines = 1)
InQueue == /\ inbox = <<>> /\ OnlyEof(output) /\ Leads(responses, number)
           /\ Held => item.kind = "eof"
Nowhere == inbox = <<>> /\ OnlyEof(output) /\ OnlyEof(responses) /\ (Held => item.kind = "eof")

Awaited == \E t \in Threads : at[t] = "await"

Calm ==
    /\ poison = "none"
    /\ Ended => Ending
    /\ Awaited => InMail \/ InPipe \/ InHand \/ InQueue
    /\ ~Awaited => Nowhere
    /\ \A t \in Threads :
          /\ at[t] = "write" => lines = 0
          /\ at[t] = "end" /\ op[t] = "shutdown" /\ verdict[number] = "done" => shutdownSent

CalmInv == TransportInv /\ Course /\ (~disturbed => Calm)

\* What reading a sequence of lines, and adding an end of file, leave of it
LEMMA ReadOne ==
    ASSUME NEW s \in Seq(Items), s # <<>>, NEW r
    PROVE  /\ Tail(s) \in Seq(Items) /\ Head(s) \in Items
           /\ OnlyEof(s) => Head(s).kind = "eof" /\ OnlyEof(Tail(s))
           /\ Leads(s, r) => Head(s) = Reply(r) /\ OnlyEof(Tail(s))
           /\ HasEof(Tail(s)) \/ Head(s).kind = "eof" => HasEof(s)
<1>1. /\ Tail(s) \in Seq(Items) /\ Len(Tail(s)) = Len(s) - 1 /\ Len(s) \in Nat
      /\ 1 \in 1..Len(s) /\ Head(s) = s[1] /\ s[1] \in Items
      /\ \A i \in 1..Len(Tail(s)) : i + 1 \in 1..Len(s) /\ i + 1 # 1 /\ Tail(s)[i] = s[i + 1]
  OBVIOUS
<1>2. QED
  BY <1>1 DEF OnlyEof, Leads, HasEof

LEMMA AddOne ==
    ASSUME NEW s \in Seq(Items), NEW x \in Items, NEW r
    PROVE  /\ Append(s, x) \in Seq(Items)
           /\ OnlyEof(s) /\ x.kind = "eof" => OnlyEof(Append(s, x))
           /\ Leads(s, r) /\ x.kind = "eof" => Leads(Append(s, x), r)
           /\ s = <<>> /\ x = Reply(r) => Leads(Append(s, x), r)
           /\ HasEof(Append(s, x)) => HasEof(s) \/ x.kind = "eof"
<1>1. /\ Append(s, x) \in Seq(Items) /\ Len(s) \in Nat /\ Len(Append(s, x)) = Len(s) + 1
      /\ \A i \in 1..Len(s) : Append(s, x)[i] = s[i]
      /\ Append(s, x)[Len(s) + 1] = x
  OBVIOUS
<1>2. \A i \in 1..(Len(s) + 1) : i \in 1..Len(s) \/ i = Len(s) + 1
  BY <1>1
<1>3. 1 \in 1..(Len(s) + 1) /\ (s = <<>> => Len(s) = 0)
  BY <1>1
<1>4. QED
  BY <1>1, <1>2, <1>3 DEF OnlyEof, Leads, HasEof

LEMMA ReplyIsLine == \A r \in Ids : Reply(r) \in Items /\ Reply(r).kind = "line" /\ Reply(r).id = r
  BY Constants DEF Reply, Items, Ids

\* At most one thread at a time holds the lock; who awaits has it.
LEMMA Lone ==
    ASSUME TransportInv, NEW t \in Threads, at[t] \in Holding \/ lock = t \/ lock = "nobody"
    PROVE  \A u \in Threads \ {t} :
              at[u] \notin {"send", "begin", "write", "await", "end", "reap", "drop", "finish"}
  BY OthersWait DEF Holding

\* An open channel whose reader has failed is one whose caller awaits the
\* answer to an accepted shutdown: whoever is let in then finds it closing.
LEMMA NothingToRaise ==
    ASSUME TransportInv, Calm, \A c \in Clients : at[c] # "await"
    PROVE  ~(lifecycle = "OPEN" /\ failure)
<1>1. ~(Ending /\ lifecycle = "OPEN")
  BY Constants DEF Ending, TransportInv, Trust
<1>2. QED
  BY <1>1 DEF Calm, Ended

\* No thread that still sends is in a session that ends.
LEMMA SenderInTime ==
    ASSUME TransportInv, Course, Calm, NEW t \in Threads, at[t] \in {"begin", "write"}
    PROVE  ~Ending /\ ~Ended
<1>1. \A u \in Threads \ {t} : at[u] \notin {"await", "drop", "finish"}
  BY Lone DEF Holding
<1>2. ~Ending
  BY <1>1, Constants DEF Ending, Course, Working
<1>3. QED
  BY <1>2 DEF Calm

\* An awaited answer in a session that ends is that to an accepted shutdown.
LEMMA AwaitsTheEnd ==
    ASSUME TransportInv, Course, Ending, NEW t \in Threads, at[t] = "await"
    PROVE  op[t] = "shutdown" /\ verdict[number] = "done"
<1>1. \A u \in Threads \ {t} : at[u] \notin {"await", "drop", "finish"}
  BY Lone DEF Holding
<1>2. ~shutdownSent /\ lifecycle # "CLOSED"
  BY DEF Course, Working
<1>3. QED
  BY <1>1, <1>2, Constants DEF Ending


\* A step of thread t that has no part in an exchange: nothing moves on the way.
LEMMA CalmMoves ==
    ASSUME TransportInv, Course, Calm, NEW t \in Threads, at[t] # "await",
           NEW stage \in Stages \ {"await", "end"}, at' = [at EXCEPT ![t] = stage],
           UNCHANGED <<inbox, output, responses, pump, item, verdict, poison, failure,
                       failed, input, daemon, shutdownSent>>,
           \A u \in Threads \ {t} : op'[u] = op[u],
           number' = number \/ (~Awaited /\ \A u \in Threads \ {t} : at[u] # "end"),
           lines' = lines \/ (~Awaited /\ lines' = 0),
           stage = "write" => lines' = 0,
           lifecycle = "CLOSED" => lifecycle' = "CLOSED",
           t \in Closers /\ at[t] \in {"drop", "finish"} =>
              stage \in {"drop", "finish"} \/ lifecycle' = "CLOSED"
    PROVE  Calm'
<1>1. /\ at'[t] = stage /\ \A u \in Threads \ {t} : at'[u] = at[u]
      /\ \A u \in Threads : at'[u] = "await" <=> at[u] = "await"
  BY DEF TransportInv, Shapes
<1>2. Awaited' = Awaited
  BY <1>1 DEF Awaited
<1>3. Ending => Ending'
  BY <1>1, Constants DEF Ending, Awaited
<1>4. Ended' = Ended
  BY DEF Ended, Held, HasEof
<1>5. Awaited => number' = number /\ lines' = lines
  OBVIOUS
<1>6. Awaited' => InMail' \/ InPipe' \/ InHand' \/ InQueue'
  BY <1>2, <1>5 DEF Calm, InMail, InPipe, InHand, InQueue, Held, OnlyEof, Leads
<1>7. ~Awaited' => Nowhere'
  BY <1>2 DEF Calm, Nowhere, Held, OnlyEof
<1>8. \A u \in Threads :
         /\ at'[u] = "write" => lines' = 0
         /\ at'[u] = "end" /\ op'[u] = "shutdown" /\ verdict'[number'] = "done"
               => shutdownSent'
  BY <1>1 DEF Calm
<1>9. QED
  BY <1>3, <1>4, <1>6, <1>7, <1>8 DEF Calm

\* RaisesClosed changes nothing while all is well.
LEMMA RaisesNothing ==
    ASSUME TransportInv, Calm, \A c \in Clients : at[c] # "await", RaisesClosed
    PROVE  UNCHANGED <<poison, lifecycle, failed>>
  BY NothingToRaise DEF RaisesClosed

LEMMA RequestCalm ==
    ASSUME TransportInv, OneClient, Course, Calm, NEW c \in Clients, Request(c)
    PROVE  Calm'
<1>1. c \in Threads /\ c \notin Closers /\ at[c] = "idle"
      /\ \A d \in Clients : at[d] # "await"
  BY Constants DEF Request, OneClient
<1>2. UNCHANGED <<inbox, output, responses, pump, item, verdict, failure, input, daemon,
                  shutdownSent, number, lines>>
  BY DEF Request, far
<1>3. UNCHANGED <<poison, lifecycle, failed>>
  BY <1>1, RaisesNothing DEF Request
<1>4. PICK stage \in {"idle", "lock"} : at' = [at EXCEPT ![c] = stage]
  BY <1>1 DEF Request, Goes, TransportInv, Shapes
<1>5. \A u \in Threads \ {c} : op'[u] = op[u]
  BY <1>1 DEF Request, TransportInv, Shapes
<1>6. stage \in Stages \ {"await", "end"} /\ stage # "write"
  BY DEF Stages
<1>7. QED
  BY <1>1, <1>2, <1>3, <1>4, <1>5, <1>6, CalmMoves

\* What follows a request: where the thread goes, and what it asks next.
LEMMA AfterGoes ==
    ASSUME TransportInv, NEW t \in Threads, After(t)
    PROVE  /\ \E stage \in {"idle", "send", "reap"} :
                 /\ at' = [at EXCEPT ![t] = stage]
                 /\ stage # "idle" => t \in Closers
                 /\ stage = "send" => op[t] = "stop"
           /\ \A u \in Threads \ {t} : op'[u] = op[u] /\ id'[u] = id[u]
           /\ id'[t] = 0
  BY Constants DEF After, Goes, TransportInv, Shapes

LEMMA NumberCalm ==
    ASSUME TransportInv, Course, Calm, NEW t \in Threads, Number(t)
    PROVE  Calm'
<1>1. /\ at[t] \in {"lock", "send"}
      /\ at[t] \in Holding \/ lock = "nobody"
      /\ UNCHANGED <<inbox, output, responses, pump, item, verdict, failure, input, daemon,
                     shutdownSent, lines>>
  BY DEF Number, far, Holding
<1>2. \A u \in Threads : at[u] \notin {"await", "end"}
  BY <1>1, Lone
<1>3. ~Awaited
  BY <1>2 DEF Awaited
<1>4. CASE IsOpen(t \in Closers)
  <2>1. /\ at' = [at EXCEPT ![t] = "begin"] /\ op' = op
        /\ UNCHANGED <<poison, lifecycle, failed>>
    BY <1>4 DEF Number, Goes
  <2>2. "begin" \in Stages \ {"await", "end"}
    BY DEF Stages
  <2>3. QED
    BY <1>1, <1>2, <1>3, <2>1, <2>2, CalmMoves
<1>5. CASE ~IsOpen(t \in Closers)
  <2>1. RaisesClosed /\ After(t) /\ number' = number
    BY <1>5 DEF Number
  <2>2. UNCHANGED <<poison, lifecycle, failed>>
    BY <1>2, <2>1, Constants, RaisesNothing
  <2>3. PICK stage \in {"idle", "send", "reap"} : at' = [at EXCEPT ![t] = stage]
    BY <2>1, AfterGoes
  <2>4. \A u \in Threads \ {t} : op'[u] = op[u]
    BY <2>1, AfterGoes
  <2>5. stage \in Stages \ {"await", "end"} /\ stage # "write"
    BY DEF Stages
  <2>6. QED
    BY <1>1, <1>2, <1>3, <2>1, <2>2, <2>3, <2>4, <2>5, CalmMoves
<1>6. QED
  BY <1>4, <1>5

LEMMA BeginCalm ==
    ASSUME TransportInv, Course, Calm, NEW t \in Threads, Begin(t)
    PROVE  Calm'
<1>1. /\ at[t] = "begin" /\ at[t] \in Holding
      /\ UNCHANGED <<inbox, output, responses, pump, item, verdict, failure, input, daemon,
                     shutdownSent, number>>
  BY DEF Begin, far, Holding
<1>2. \A u \in Threads : at[u] \notin {"await", "end"}
  BY <1>1, Lone
<1>3. ~Awaited
  BY <1>2 DEF Awaited
<1>4. CASE MayDispatch(t \in Closers)
  <2>1. /\ at' = [at EXCEPT ![t] = "write"] /\ op' = op /\ lines' = 0
        /\ UNCHANGED <<poison, lifecycle, failed>>
    BY <1>4 DEF Begin, Goes
  <2>2. "write" \in Stages \ {"await", "end"}
    BY DEF Stages
  <2>3. QED
    BY <1>1, <1>2, <1>3, <2>1, <2>2, CalmMoves
<1>5. CASE ~MayDispatch(t \in Closers)
  <2>1. RaisesClosed /\ After(t) /\ lines' = lines
    BY <1>5 DEF Begin
  <2>2. UNCHANGED <<poison, lifecycle, failed>>
    BY <1>2, <2>1, Constants, RaisesNothing
  <2>3. PICK stage \in {"idle", "send", "reap"} : at' = [at EXCEPT ![t] = stage]
    BY <2>1, AfterGoes
  <2>4. \A u \in Threads \ {t} : op'[u] = op[u]
    BY <2>1, AfterGoes
  <2>5. stage \in Stages \ {"await", "end"} /\ stage # "write"
    BY DEF Stages
  <2>6. QED
    BY <1>1, <1>2, <1>3, <2>1, <2>2, <2>3, <2>4, <2>5, CalmMoves
<1>6. QED
  BY <1>4, <1>5

\* A written request is on its way to a daemon that is there to read it.
LEMMA WriteCalm ==
    ASSUME TransportInv, Course, Calm, NEW t \in Threads, Write(t), ~disturbed'
    PROVE  Calm'
<1>1. /\ at[t] = "write" /\ id[t] = number /\ lines = 0
      /\ inbox' = Append(inbox, id[t]) /\ at' = [at EXCEPT ![t] = "await"]
      /\ UNCHANGED <<failure, failed, shutdownSent, lifecycle, poison, number, op, input,
                     daemon, verdict, output, pump, item, responses, lines>>
  BY DEF Write, Goes, Calm, TransportInv, Turns, Working
<1>2. \A u \in Threads \ {t} : at[u] \notin {"await", "write", "end"}
  BY <1>1, Lone DEF Holding
<1>3. ~Ending /\ ~Ended
  BY <1>1, SenderInTime
<1>4. ~Awaited
  BY <1>1, <1>2 DEF Awaited
<1>5. inbox = <<>> /\ ~Held /\ output = <<>> /\ responses = <<>>
  <2>1. inbox = <<>> /\ ~Held
    BY <1>3, <1>4 DEF Calm, Nowhere, Ended
  <2>2. \A s \in Seq(Items) : OnlyEof(s) /\ ~HasEof(s) => s = <<>>
    <3>1. SUFFICES ASSUME NEW s \in Seq(Items), OnlyEof(s), ~HasEof(s) PROVE s = <<>>
      OBVIOUS
    <3>2. Len(s) \in Nat /\ (Len(s) # 0 => 1 \in 1..Len(s))
      BY <3>1
    <3>3. QED
      BY <3>1, <3>2 DEF OnlyEof, HasEof
  <2>3. QED
    BY <1>3, <1>4, <2>1, <2>2 DEF Calm, Nowhere, Ended, TransportInv, Shapes
<1>6. inbox' = <<number>>
  BY <1>1, <1>5
<1>7. InMail'
  BY <1>1, <1>5, <1>6 DEF InMail, Held
<1>8. ~Ended'
  BY <1>1, <1>3 DEF Ended, Held, HasEof
<1>9. /\ at'[t] = "await" /\ \A u \in Threads \ {t} : at'[u] = at[u]
  BY <1>1 DEF TransportInv, Shapes
<1>10. Awaited'
  BY <1>9 DEF Awaited
<1>11. QED
  BY <1>1, <1>2, <1>7, <1>8, <1>9, <1>10 DEF Calm


\* The answer at the head of the queue is that to the request in flight, and a
\* reader that has failed by then has read the end an accepted shutdown brings.
LEMMA ReceiveCalm ==
    ASSUME TransportInv, Course, Calm, NEW t \in Threads, Receive(t), ~disturbed'
    PROVE  Calm' /\ (op[t] = "shutdown" /\ verdict[number] = "done" => shutdownSent')
                 /\ (lifecycle' = lifecycle \/ lifecycle' = "CLOSING")
                 /\ (shutdownSent' => op[t] = "shutdown")
                 /\ at' = [at EXCEPT ![t] = "end"]
<1>1. /\ at[t] = "await" /\ id[t] = number /\ responses # <<>>
      /\ responses' = Tail(responses)
      /\ UNCHANGED <<failure, inflight, lines, number, op, inbox, daemon, verdict, input,
                     output, pump, item>>
  BY DEF Receive, far, Calm, TransportInv, Turns, Working
<1>2. Awaited /\ \A u \in Threads \ {t} : at[u] \notin {"await", "write", "end"}
  BY <1>1, Lone DEF Awaited, Holding
<1>3. InQueue
  BY <1>1, <1>2 DEF Calm, InMail, InPipe, InHand
<1>4. /\ Head(responses) = Reply(number) /\ OnlyEof(Tail(responses))
      /\ HasEof(Tail(responses)) => HasEof(responses)
  BY <1>1, <1>3, ReadOne DEF InQueue, TransportInv, Shapes
<1>5. Matches(t, Head(responses)) /\ Head(responses).id = number
  BY <1>1, <1>4 DEF Matches, Reply
<1> DEFINE clean == op[t] = "shutdown" /\ verdict[number] = "done"
<1>6. failure => clean
  BY <1>1, AwaitsTheEnd DEF Calm, Ended
<1>7. /\ shutdownSent' = (shutdownSent \/ clean)
      /\ UNCHANGED <<poison, failed>>
      /\ lifecycle' = IF clean /\ lifecycle = "OPEN" THEN "CLOSING" ELSE lifecycle
      /\ at' = [at EXCEPT ![t] = "end"]
  BY <1>1, <1>5, <1>6 DEF Receive, Goes
<1>8. at'[t] = "end" /\ \A u \in Threads \ {t} : at'[u] = at[u]
  BY <1>7 DEF TransportInv, Shapes
<1>9. ~Awaited'
  BY <1>2, <1>8 DEF Awaited
<1>10. Nowhere'
  BY <1>1, <1>3, <1>4 DEF InQueue, Nowhere, Held, OnlyEof
<1>11. Ended' => Ending'
  <2>1. Ended' => Ended
    BY <1>1, <1>4, <1>7 DEF Ended, Held, HasEof
  <2>2. Ending => clean
    BY <1>1, AwaitsTheEnd
  <2>3. clean => Ending'
    BY <1>7 DEF Ending
  <2>4. QED
    BY <2>1, <2>2, <2>3 DEF Calm
<1>12. \A u \in Threads : at'[u] # "write" /\ (at'[u] = "end" => u = t)
  BY <1>2, <1>8
<1>13. Calm'
  BY <1>1, <1>7, <1>9, <1>10, <1>11, <1>12 DEF Calm
<1>14. ~shutdownSent
  BY <1>1 DEF Course
<1>15. QED
  BY <1>7, <1>13, <1>14

LEMMA EndCalm ==
    ASSUME TransportInv, Course, Calm, NEW t \in Threads, End(t)
    PROVE  Calm'
<1>1. /\ at[t] = "end" /\ lines' = 0 /\ After(t)
      /\ UNCHANGED <<inbox, output, responses, pump, item, verdict, poison, failure,
                     failed, input, daemon, shutdownSent, number, lifecycle>>
  BY DEF End, far
<1>2. ~Awaited
  BY <1>1, Lone DEF Awaited, Holding
<1>3. PICK stage \in {"idle", "send", "reap"} : at' = [at EXCEPT ![t] = stage]
  BY <1>1, AfterGoes
<1>4. \A u \in Threads \ {t} : op'[u] = op[u]
  BY <1>1, AfterGoes
<1>5. stage \in Stages \ {"await", "end"}
  BY DEF Stages
<1>6. QED
  BY <1>1, <1>2, <1>3, <1>4, <1>5, CalmMoves

LEMMA WaitClosedCalm ==
    ASSUME TransportInv, Course, Calm, NEW c \in Clients, WaitClosed(c)
    PROVE  Calm'
<1>1. /\ c \in Threads /\ c \notin Closers /\ at[c] = "idle"
      /\ at' = [at EXCEPT ![c] = "lock"] /\ op' = [op EXCEPT ![c] = "wait"]
      /\ lifecycle = "CLOSED" => lifecycle' = "CLOSED"
      /\ UNCHANGED <<inbox, output, responses, pump, item, verdict, poison, failure,
                     failed, input, daemon, shutdownSent, number, lines>>
  BY Constants DEF WaitClosed, Goes, far
<1>2. \A u \in Threads \ {c} : op'[u] = op[u]
  BY <1>1 DEF TransportInv, Shapes
<1>3. "lock" \in Stages \ {"await", "end"}
  BY DEF Stages
<1>4. QED
  BY <1>1, <1>2, <1>3, CalmMoves

LEMMA AwaitExitCalm ==
    ASSUME TransportInv, Course, Calm, NEW c \in Threads, AwaitExit(c), ~disturbed'
    PROVE  Calm'
<1>1. /\ c \notin Closers /\ at[c] \in {"lock", "reap"} /\ op' = op
      /\ UNCHANGED <<inbox, output, responses, pump, item, verdict, poison, failure,
                     failed, input, daemon, shutdownSent, number, lines, lifecycle>>
  BY Constants DEF AwaitExit, far
<1>2. PICK stage \in {"reap", "idle"} : at' = [at EXCEPT ![c] = stage]
  BY DEF AwaitExit, Goes
<1>3. stage \in Stages \ {"await", "end"} /\ stage # "write"
  BY DEF Stages
<1>4. QED
  BY <1>1, <1>2, <1>3, CalmMoves

\* close(), until it closes the input, and the closers that wait for it
LEMMA CloseCalm ==
    ASSUME TransportInv, Course, Calm, NEW k \in Threads,
           Close(k) \/ CloseLocked(k) \/ CloseReturns(k)
    PROVE  Calm'
<1>1. /\ at[k] \in {"idle", "lock", "waiting"}
      /\ UNCHANGED <<inbox, output, responses, pump, item, verdict, poison, failure,
                     failed, input, daemon, shutdownSent, number, lines>>
      /\ lifecycle = "CLOSED" => lifecycle' = "CLOSED"
      /\ op' = op \/ op' = [op EXCEPT ![k] = "stop"]
  BY DEF Close, CloseLocked, CloseReturns, far, channel
<1>2. PICK stage \in {"waiting", "lock", "send", "reap", "idle"} :
         at' = [at EXCEPT ![k] = stage]
  BY DEF Close, CloseLocked, CloseReturns, Goes
<1>3. \A u \in Threads \ {k} : op'[u] = op[u]
  BY <1>1 DEF TransportInv, Shapes
<1>4. stage \in Stages \ {"await", "end"} /\ stage # "write"
  BY DEF Stages
<1>5. QED
  BY <1>1, <1>2, <1>3, <1>4, CalmMoves

\* Once close() has the input closed and the process ended, an end is in order.
LEMMA CloseEndsCalm ==
    ASSUME TransportInv, Course, Calm, NEW k \in Threads, CloseEnds(k)
    PROVE  Calm'
<1>1. /\ k \in Closers /\ at[k] \in {"reap", "drop", "finish"} /\ at[k] \in Holding
      /\ UNCHANGED <<inbox, responses, pump, item, verdict, poison, failure, failed,
                     shutdownSent, number, lines, op>>
  BY DEF CloseEnds, Holding
<1>2. /\ ~Awaited
      /\ \A u \in Threads : at[u] \notin {"write", "end"}
  BY <1>1, Lone DEF Awaited
<1>3. CASE at[k] = "finish"
  <2>1. /\ at' = [at EXCEPT ![k] = "idle"] /\ lifecycle' = "CLOSED"
        /\ UNCHANGED <<input, daemon, output>> /\ "idle" \in Stages \ {"await", "end"}
    BY <1>3 DEF CloseEnds, Goes, Stages
  <2>2. QED
    BY <1>1, <1>2, <1>3, <2>1, CalmMoves
<1>4. CASE at[k] \in {"reap", "drop"}
  <2>1. PICK stage \in {"drop", "finish"} : at' = [at EXCEPT ![k] = stage]
    BY <1>4 DEF CloseEnds, Goes
  <2>2. output' = output \/ output' = Append(output, Eof)
    BY <1>4 DEF CloseEnds
  <2>3. at'[k] = stage /\ \A u \in Threads \ {k} : at'[u] = at[u]
    BY <2>1 DEF TransportInv, Shapes
  <2>4. Ending'
    BY <1>1, <2>3 DEF Ending
  <2>5. ~Awaited' /\ \A u \in Threads : at'[u] \notin {"write", "end"}
    BY <1>2, <2>3 DEF Awaited
  <2>6. OnlyEof(output)'
    <3>1. OnlyEof(output) /\ output \in Seq(Items)
      BY <1>2 DEF Calm, Nowhere, TransportInv, Shapes
    <3>2. Eof \in Items /\ Eof.kind = "eof"
      BY EofIsNoAnswer DEF Eof
    <3>3. OnlyEof(Append(output, Eof))
      BY <3>1, <3>2, AddOne
    <3>4. QED
      BY <2>2, <3>1, <3>3 DEF OnlyEof
  <2>7. Nowhere'
    BY <1>1, <1>2, <2>6 DEF Calm, Nowhere, Held, OnlyEof
  <2>8. QED
    BY <1>1, <2>4, <2>5, <2>7 DEF Calm
<1>5. QED
  BY <1>1, <1>3, <1>4


-----------------------------------------------------------------------------
(* The reader and the daemon                                               *)

\* Steps of others than the callers: the threads are where they were.
LEMMA CalmStays ==
    ASSUME Calm, UNCHANGED <<at, op, lifecycle, shutdownSent, number, poison>>,
           \A t \in Threads : at[t] \in {"await", "end"} => verdict' = verdict,
           Ended' => Ending,
           Awaited => InMail' \/ InPipe' \/ InHand' \/ InQueue',
           ~Awaited => Nowhere',
           \A t \in Threads : at[t] = "write" => lines' = 0
    PROVE  Calm'
<1>1. Awaited' = Awaited
  BY DEF Awaited
<1>2. Ending => Ending'
  BY DEF Ending
<1>3. QED
  BY <1>1, <1>2 DEF Calm

LEMMA CloseInputCalm ==
    ASSUME Calm, CloseInput
    PROVE  Calm'
<1>1. UNCHANGED <<at, op, lifecycle, shutdownSent, number, poison, verdict, lines, inbox,
                  output, responses, pump, item, daemon, failure, failed>>
  BY DEF CloseInput, channel, threads, far
<1>2. Ended' => Ended
  BY <1>1 DEF CloseInput, Ended, Held, HasEof
<1>3. QED
  BY <1>1, <1>2, CalmStays
     DEF Calm, InMail, InPipe, InHand, InQueue, Nowhere, Held, OnlyEof, Leads

LEMMA PumpReadsCalm ==
    ASSUME TransportInv, Calm, PumpReads
    PROVE  Calm'
<1>1. /\ pump = "read" /\ ~Held
      /\ UNCHANGED <<at, op, lifecycle, shutdownSent, number, poison, verdict, lines, inbox,
                     responses, input, daemon, failure, failed>>
  BY DEF PumpReads, channel, threads, far, Held
<1>2. CASE pump' = "ended" /\ UNCHANGED <<item, output>>
  <2>1. ~Held'
    BY <1>2 DEF Held
  <2>2. Ended' => Ended
    BY <1>1, <1>2, <2>1 DEF Ended, HasEof
  <2>3. Awaited => InMail' \/ InPipe' \/ InQueue'
    BY <1>1, <1>2, <2>1
       DEF Calm, InMail, InPipe, InHand, InQueue, OnlyEof, Leads
  <2>4. ~Awaited => Nowhere'
    BY <1>1, <1>2, <2>1 DEF Calm, Nowhere, OnlyEof
  <2>5. QED
    BY <1>1, <2>2, <2>3, <2>4, CalmStays DEF Calm
<1>3. CASE output # <<>> /\ item' = Head(output) /\ output' = Tail(output) /\ pump' = "mark"
  <2>1. /\ OnlyEof(output) => item'.kind = "eof" /\ OnlyEof(output')
        /\ Leads(output, number) => item' = Reply(number) /\ OnlyEof(output')
        /\ HasEof(output') \/ item'.kind = "eof" => HasEof(output)
    BY <1>3, ReadOne DEF TransportInv, Shapes
  <2>2. Held'
    BY <1>3 DEF Held
  <2>3. OnlyEof(output') <=> OnlyEof(output)'
    BY DEF OnlyEof
  <2>4. Ended' => Ended
    BY <1>1, <2>1 DEF Ended, HasEof
  <2>5. Awaited => InHand' \/ InQueue'
    BY <1>1, <1>3, <2>1, <2>2, <2>3
       DEF Calm, InMail, InPipe, InHand, InQueue, Leads
  <2>6. ~Awaited => Nowhere'
    BY <1>1, <1>3, <2>1, <2>2, <2>3 DEF Calm, Nowhere, OnlyEof
  <2>7. QED
    BY <1>1, <2>4, <2>5, <2>6, CalmStays DEF Calm
<1>4. QED
  BY <1>2, <1>3 DEF PumpReads

\* The one line an exchange brings is the first, and asked for; an end of file
\* is found while it is awaited, or after the session has ended.
LEMMA PumpMarksCalm ==
    ASSUME TransportInv, Calm, PumpMarks
    PROVE  Calm'
<1>1. /\ pump = "mark" /\ pump' = "put" /\ Held /\ Held'
      /\ UNCHANGED <<at, op, shutdownSent, number, verdict, inbox, output, item,
                     responses, input, daemon, inflight>>
  BY DEF PumpMarks, threads, far, Held
<1>2. Awaited => inflight # 0
  BY DEF Awaited, TransportInv, Turns, Working, Pending
<1>3. CASE item.kind = "line"
  <2>1. Awaited /\ InHand /\ lines = 0
    BY <1>1, <1>3 DEF Calm, InMail, InPipe, InHand, InQueue, Nowhere
  <2>2. /\ lines' = 1 /\ UNCHANGED <<failure, failed, poison, lifecycle>>
    BY <1>2, <1>3, <2>1 DEF PumpMarks, IsUnasked
  <2>3. Ended' => Ended
    BY <1>1, <1>3, <2>2 DEF Ended, HasEof
  <2>4. InHand'
    BY <1>1, <2>1, <2>2 DEF InHand, OnlyEof
  <2>5. \A t \in Threads : at[t] # "write"
    <3>1. PICK u \in Threads : at[u] = "await"
      BY <2>1 DEF Awaited
    <3>2. QED
      BY <3>1, Lone DEF Holding
  <2>6. QED
    BY <1>1, <2>1, <2>2, <2>3, <2>4, <2>5, CalmStays DEF Calm
<1>4. CASE item.kind # "line"
  <2>1. (Awaited => InQueue) /\ item.kind = "eof"
    BY <1>1, <1>4, Constants
       DEF Calm, InMail, InPipe, InHand, InQueue, Nowhere, Reply
  <2>2. Ending
    BY <1>1, <2>1 DEF Calm, Ended
  <2>3. ~(inflight = 0 /\ lifecycle = "OPEN" /\ ~shutdownSent)
    BY <1>2, <2>2, Constants DEF Ending, Awaited, TransportInv, Trust
  <2>4. lines' = lines /\ UNCHANGED <<poison, lifecycle>>
    BY <1>4, <2>3 DEF PumpMarks, RecordFailure
  <2>5. Awaited => InQueue'
    BY <1>1, <2>1, <2>4 DEF InQueue, OnlyEof, Leads
  <2>6. ~Awaited => Nowhere'
    BY <1>1, <2>4 DEF Calm, Nowhere, OnlyEof
  <2>7. QED
    BY <1>1, <2>2, <2>4, <2>5, <2>6, CalmStays DEF Calm
<1>5. QED
  BY <1>3, <1>4

LEMMA PumpPutsCalm ==
    ASSUME TransportInv, Calm, PumpPuts
    PROVE  Calm'
<1>1. /\ pump = "put" /\ Held /\ ~Held' /\ responses' = Append(responses, item)
      /\ UNCHANGED <<at, op, lifecycle, shutdownSent, number, poison, verdict, lines, inbox,
                     output, input, daemon, failure, failed>>
  BY DEF PumpPuts, channel, threads, far, Held
<1>2. /\ OnlyEof(responses) /\ item.kind = "eof" => OnlyEof(responses')
      /\ Leads(responses, number) /\ item.kind = "eof" => Leads(responses', number)
      /\ responses = <<>> /\ item = Reply(number) => Leads(responses', number)
      /\ HasEof(responses') => HasEof(responses) \/ item.kind = "eof"
  BY <1>1, AddOne DEF TransportInv, Shapes
<1>3. /\ OnlyEof(responses') <=> OnlyEof(responses)'
      /\ HasEof(responses') <=> HasEof(responses)'
      /\ Leads(responses', number) <=> Leads(responses, number)'
  BY <1>1 DEF OnlyEof, HasEof, Leads
<1>4. Ended' => Ended
  BY <1>1, <1>2, <1>3 DEF Ended, HasEof
<1>5. Awaited => InQueue'
  BY <1>1, <1>2, <1>3 DEF Calm, InMail, InPipe, InHand, InQueue, OnlyEof
<1>6. ~Awaited => Nowhere'
  BY <1>1, <1>2, <1>3 DEF Calm, Nowhere, OnlyEof
<1>7. QED
  BY <1>1, <1>4, <1>5, <1>6, CalmStays DEF Calm


\* The daemon answers the request in flight, and nothing else is on the way.
LEMMA DaemonAnswersCalm ==
    ASSUME TransportInv, Course, Calm, DaemonAnswers
    PROVE  Calm'
<1>1. /\ inbox # <<>> /\ inbox' = Tail(inbox)
      /\ output' = Append(output, Reply(Head(inbox)))
      /\ UNCHANGED <<at, op, lifecycle, shutdownSent, number, poison, lines, responses,
                     pump, item, input, daemon, failure, failed>>
  BY DEF DaemonAnswers, channel, threads
<1>2. Awaited /\ InMail
  BY <1>1 DEF Calm, InPipe, InHand, InQueue, Nowhere
<1>3. PICK t \in Threads : at[t] = "await"
  BY <1>2 DEF Awaited
<1>4. number \in Ids /\ \A u \in Threads \ {t} : at[u] \notin {"await", "write", "end"}
  BY <1>3, InFlight, Lone DEF Pending, Holding
<1>5. Head(inbox) = number /\ Tail(inbox) = <<>>
  BY <1>2 DEF InMail
<1>6. verdict[number] = "none"
  <2>1. 1 \in 1..Len(inbox) /\ inbox[1] = number
    BY <1>2 DEF InMail
  <2>2. QED
    BY <2>1 DEF TransportInv, Mailbox
<1>7. /\ Leads(output', number) /\ ~HasEof(output')
  <2>1. Reply(number) \in Items /\ Reply(number).kind # "eof"
    BY <1>4, ReplyIsLine
  <2>2. output = <<>> /\ output \in Seq(Items) /\ ~HasEof(output)
    BY <1>2 DEF InMail, HasEof, TransportInv, Shapes
  <2>3. QED
    BY <1>1, <1>5, <2>1, <2>2, AddOne
<1>8. Ending => Ending'
  BY <1>1, <1>6 DEF Ending
<1>9. Ended' => Ended
  <2>1. ~HasEof(output)'
    BY <1>7 DEF HasEof
  <2>2. QED
    BY <1>1, <2>1 DEF Ended, Held, HasEof
<1>10. InPipe'
  BY <1>1, <1>2, <1>5, <1>7 DEF InMail, InPipe, Held, Leads
<1>11. Awaited'
  BY <1>1, <1>2 DEF Awaited
<1>12. QED
  BY <1>1, <1>3, <1>4, <1>8, <1>9, <1>10, <1>11 DEF Calm

\* The daemon ends when an end is in order; its end of file comes last.
LEMMA DaemonExitsCalm ==
    ASSUME TransportInv, Course, Calm, DaemonExits, ~disturbed'
    PROVE  Calm'
<1>1. /\ output' = Append(output, Eof)
      /\ UNCHANGED <<at, op, id, lifecycle, shutdownSent, number, poison, verdict, lines,
                     inbox, responses, pump, item, input, failure, failed>>
  BY DEF DaemonExits, channel, threads
<1>2. Ending
  <2>1. CASE ~input \/ shutdownSent
    BY <2>1 DEF Calm, Ended, Ending
  <2>2. CASE \E t \in Threads : op[t] = "shutdown" /\ id[t] # 0 /\ verdict[id[t]] = "done"
    <3>1. PICK t \in Threads : op[t] = "shutdown" /\ id[t] # 0 /\ verdict[id[t]] = "done"
      BY <2>2
    <3>2. at[t] \in Working /\ id[t] = number
      BY <3>1 DEF Course, TransportInv, Turns
    <3>3. at[t] \in {"await", "end"}
      BY <3>1, <3>2 DEF TransportInv, Fates, Working
    <3>4. QED
      BY <3>1, <3>2, <3>3 DEF Calm, Ending
  <2>3. QED
    BY <2>1, <2>2 DEF DaemonExits
<1>3. ~InMail \/ ~Awaited
  <2>1. SUFFICES ASSUME InMail, NEW t \in Threads, at[t] = "await" PROVE FALSE
    BY DEF Awaited
  <2>2. 1 \in 1..Len(inbox) /\ inbox[1] = number
    BY <2>1 DEF InMail
  <2>3. verdict[number] = "none"
    BY <2>2 DEF TransportInv, Mailbox
  <2>4. QED
    BY <1>2, <2>1, <2>3, AwaitsTheEnd
<1>4. /\ OnlyEof(output) => OnlyEof(output')
      /\ Leads(output, number) => Leads(output', number)
  BY <1>1, EofIsNoAnswer, AddOne DEF TransportInv, Shapes, Eof
<1>5. OnlyEof(output') <=> OnlyEof(output)'
  BY DEF OnlyEof
<1>6. Awaited => InPipe' \/ InHand' \/ InQueue'
  BY <1>1, <1>3, <1>4, <1>5 DEF Calm, InPipe, InHand, InQueue, Held, Leads
<1>7. ~Awaited => Nowhere'
  BY <1>1, <1>4, <1>5 DEF Calm, Nowhere, Held, OnlyEof
<1>8. QED
  BY <1>1, <1>2, <1>6, <1>7, CalmStays DEF Calm

-----------------------------------------------------------------------------
(* The course of closing, whatever goes wrong                              *)

\* Thread t moves, and no session is closed and no shutdown accepted by it.
LEMMA CourseMoves ==
    ASSUME TransportInv, Course, NEW t \in Threads, NEW stage \in Stages,
           at' = [at EXCEPT ![t] = stage], shutdownSent' = shutdownSent,
           \A u \in Threads \ {t} : id'[u] = id[u] /\ op'[u] = op[u],
           id'[t] # 0 => stage \in Working,
           t \in Closers /\ stage \in Busy => at[t] \in Busy \/ ~closeStarted,
           lifecycle' = "CLOSED" => lifecycle = "CLOSED",
           stage \in Working => lifecycle' # "CLOSED",
           lifecycle = "CLOSED" /\ t \in Closers => stage \notin Busy,
           stage \in {"send", "begin", "write", "await"} \/ (stage = "end" /\ op'[t] = "stop")
              => ~shutdownSent
    PROVE  Course'
<1>1. at'[t] = stage /\ \A u \in Threads \ {t} : at'[u] = at[u]
  BY DEF TransportInv, Shapes
<1>2. \A u \in Threads : id'[u] # 0 => at'[u] \in Working
  BY <1>1 DEF Course
<1>3. \A j, k \in Closers : at'[j] \in Busy /\ at'[k] \in Busy => j = k
  <2>1. ~closeStarted => \A k \in Closers : at[k] \notin Busy
    BY DEF TransportInv, Trust, Busy
  <2>2. QED
    BY <1>1, <2>1, Constants DEF Course
<1>4. lifecycle' = "CLOSED" => /\ \A k \in Closers : at'[k] \notin Busy
                               /\ \A u \in Threads : at'[u] \notin Working
  BY <1>1, Constants DEF Course
<1>5. \A u \in Threads :
         at'[u] \in {"send", "begin", "write", "await"} \/ (at'[u] = "end" /\ op'[u] = "stop")
            => ~shutdownSent'
  BY <1>1 DEF Course
<1>6. QED
  BY <1>2, <1>3, <1>4, <1>5 DEF Course

\* Other steps leave the threads where they are.
LEMMA CourseStays ==
    ASSUME Course, UNCHANGED <<threads, shutdownSent>>,
           lifecycle' = "CLOSED" => lifecycle = "CLOSED"
    PROVE  Course'
BY DEF Course, threads

\* Neither what poisons a channel nor what finds it failed closes the session.
LEMMA NotClosedBy ==
    ASSUME NEW flag \in {"known", "unknown"}, Poison(flag) \/ RaisesClosed \/ RecordFailure
    PROVE  lifecycle' = "CLOSED" <=> lifecycle = "CLOSED"
BY DEF Poison, RaisesClosed, RecordFailure


LEMMA RequestCourse ==
    ASSUME TransportInv, Course, NEW c \in Clients, Request(c) \/ WaitClosed(c)
    PROVE  Course'
<1>1. c \in Threads /\ c \notin Closers /\ at[c] = "idle"
      /\ UNCHANGED <<shutdownSent, id>>
  BY Constants DEF Request, WaitClosed
<1>2. PICK stage \in {"idle", "lock"} : at' = [at EXCEPT ![c] = stage]
  BY <1>1 DEF Request, WaitClosed, Goes, TransportInv, Shapes
<1>3. \A u \in Threads \ {c} : op'[u] = op[u]
  BY <1>1 DEF Request, WaitClosed, TransportInv, Shapes
<1>4. lifecycle' = "CLOSED" => lifecycle = "CLOSED"
  BY NotClosedBy DEF Request, WaitClosed
<1>5. id'[c] = 0
  BY <1>1 DEF Course, Working
<1>6. stage \in Stages /\ stage \notin Working
  BY DEF Stages, Working
<1>7. QED
  BY <1>1, <1>2, <1>3, <1>4, <1>5, <1>6, CourseMoves

\* A request that is refused or answered.
LEMMA AfterCourse ==
    ASSUME TransportInv, Course, NEW t \in Threads, After(t), at[t] \in Busy,
           UNCHANGED shutdownSent, lifecycle' = "CLOSED" => lifecycle = "CLOSED",
           at[t] \in {"send", "begin"} \/ (at[t] = "end" /\ op[t] = "stop") => ~shutdownSent,
           at[t] \in {"lock", "send", "begin", "end"}, at[t] = "lock" => t \in Clients
    PROVE  Course'
<1>1. PICK stage \in {"idle", "send", "reap"} :
         /\ at' = [at EXCEPT ![t] = stage]
         /\ stage # "idle" => t \in Closers
         /\ stage = "send" => op[t] = "stop"
  BY AfterGoes
<1>2. /\ \A u \in Threads \ {t} : op'[u] = op[u] /\ id'[u] = id[u]
      /\ id'[t] = 0
  BY AfterGoes
<1>3. stage \in Stages /\ stage \notin Working
  BY DEF Stages, Working
<1>4. stage = "send" => ~shutdownSent
  BY <1>1, Constants
<1>5. lifecycle = "CLOSED" /\ t \in Closers => stage \notin Busy
  BY DEF Course
<1>6. QED
  BY <1>1, <1>2, <1>3, <1>4, <1>5, CourseMoves

LEMMA NumberCourse ==
    ASSUME TransportInv, Course, NEW t \in Threads, Number(t) \/ Begin(t)
    PROVE  Course'
<1>1. /\ at[t] \in {"lock", "send", "begin"} /\ at[t] \in Busy
      /\ at[t] = "lock" => t \in Clients
      /\ UNCHANGED shutdownSent
  BY DEF Number, Begin, Busy
<1>2. CASE RaisesClosed /\ After(t)
  BY <1>1, <1>2, NotClosedBy, AfterCourse DEF Course
<1>3. CASE ~(RaisesClosed /\ After(t))
  <2>1. PICK stage \in {"begin", "write"} :
           at' = [at EXCEPT ![t] = stage] /\ stage \in Working /\ stage \in Stages
    BY <1>1, <1>3 DEF Number, Begin, Goes, Working, Stages
  <2>2. /\ UNCHANGED <<lifecycle, op>> /\ lifecycle # "CLOSED"
        /\ \A u \in Threads \ {t} : id'[u] = id[u]
    <3>1. CASE Number(t)
      BY <1>3, <3>1 DEF Number, IsOpen, TransportInv, Shapes
    <3>2. CASE Begin(t)
      BY <1>3, <3>2 DEF Begin, MayDispatch
    <3>3. QED
      BY <3>1, <3>2
  <2>3. ~shutdownSent
    <3>1. CASE at[t] = "lock"
      <4>1. t \notin Closers /\ Number(t)
        BY <1>1, <3>1, Constants DEF Begin
      <4>2. lifecycle = "OPEN"
        BY <1>3, <4>1 DEF Number, IsOpen
      <4>3. QED
        BY <4>2 DEF TransportInv, Trust
    <3>2. CASE at[t] # "lock"
      BY <1>1, <3>2 DEF Course
    <3>3. QED
      BY <3>1, <3>2
  <2>4. t \in Closers => at[t] \in Busy
    BY <1>1
  <2>5. QED
    BY <1>1, <2>1, <2>2, <2>3, <2>4, CourseMoves
<1>4. QED
  BY <1>2, <1>3

LEMMA WriteCourse ==
    ASSUME TransportInv, Course, NEW t \in Threads, Write(t)
    PROVE  Course'
<1>1. /\ at[t] = "write" /\ at[t] \in Busy /\ at[t] \in Working
      /\ UNCHANGED <<shutdownSent, id, op>>
  BY DEF Write, Busy, Working
<1>2. PICK stage \in {"await", "end"} : at' = [at EXCEPT ![t] = stage]
  BY DEF Write, Fails, Goes
<1>3. lifecycle' = "CLOSED" => lifecycle = "CLOSED"
  BY NotClosedBy DEF Write, Fails
<1>4. stage \in Stages /\ stage \in Working /\ lifecycle # "CLOSED" /\ ~shutdownSent
  BY <1>1 DEF Stages, Working, Course
<1>5. QED
  BY <1>1, <1>2, <1>3, <1>4, CourseMoves

\* Only an accepted shutdown sets shutdownSent, and its caller asks no more.
LEMMA ReceiveCourse ==
    ASSUME TransportInv, Course, NEW t \in Threads, Receive(t)
    PROVE  Course'
<1>1. /\ at[t] = "await" /\ at[t] \in Busy /\ at[t] \in Working /\ ~shutdownSent
      /\ UNCHANGED <<id, op>> /\ at' = [at EXCEPT ![t] = "end"]
      /\ lifecycle # "CLOSED"
  BY DEF Receive, Fails, Goes, Busy, Working, Course
<1>2. at'[t] = "end" /\ \A u \in Threads \ {t} : at'[u] = at[u]
  BY <1>1 DEF TransportInv, Shapes
<1>3. lifecycle' # "CLOSED"
  BY <1>1, NotClosedBy DEF Receive, Fails
<1>4. shutdownSent' => op[t] = "shutdown"
  BY <1>1 DEF Receive
<1>5. \A u \in Threads \ {t} : at[u] \notin {"send", "begin", "write", "await", "end"}
  BY <1>1, Lone DEF Holding
<1>6. \A u \in Threads : id'[u] # 0 => at'[u] \in Working
  BY <1>1, <1>2 DEF Course, Working
<1>7. \A j, k \in Closers : at'[j] \in Busy /\ at'[k] \in Busy => j = k
  BY <1>1, <1>2, Constants DEF Course
<1>8. \A u \in Threads :
         at'[u] \in {"send", "begin", "write", "await"} \/ (at'[u] = "end" /\ op'[u] = "stop")
            => ~shutdownSent'
  BY <1>1, <1>2, <1>4, <1>5
<1>9. QED
  BY <1>3, <1>6, <1>7, <1>8 DEF Course

LEMMA EndCourse ==
    ASSUME TransportInv, Course, NEW t \in Threads, End(t)
    PROVE  Course'
<1>1. /\ at[t] = "end" /\ at[t] \in Busy /\ After(t)
      /\ UNCHANGED <<lifecycle, shutdownSent>>
  BY DEF End, Busy
<1>2. QED
  BY <1>1, AfterCourse DEF Course

\* A thread that has no request goes on without one.
LEMMA QuietCourse ==
    ASSUME TransportInv, Course, NEW t \in Threads,
           \/ AwaitExit(t) \/ CloseLocked(t) \/ CloseReturns(t)
           \/ Close(t) /\ t \in Closers
    PROVE  Course'
<1>1. /\ at[t] \notin Working /\ UNCHANGED <<id, shutdownSent>>
      /\ lifecycle' = "CLOSED" => lifecycle = "CLOSED"
  BY NotClosedBy DEF AwaitExit, Close, CloseLocked, CloseReturns, Working, channel
<1>2. PICK stage \in {"reap", "idle", "waiting", "lock", "send"} :
         at' = [at EXCEPT ![t] = stage]
  BY DEF AwaitExit, Close, CloseLocked, CloseReturns, Goes
<1>3. \A u \in Threads \ {t} : op'[u] = op[u]
  BY DEF AwaitExit, Close, CloseLocked, CloseReturns, TransportInv, Shapes
<1>4. stage \in Stages /\ stage \notin Working /\ id'[t] = 0
  BY <1>1 DEF Stages, Working, Course
<1>5. t \in Closers /\ stage \in Busy => at[t] \in Busy \/ ~closeStarted
  BY <1>2, Constants DEF AwaitExit, Close, CloseLocked, CloseReturns, Goes, Busy,
     TransportInv, Shapes
<1>6. lifecycle = "CLOSED" /\ t \in Closers => stage \notin Busy
  BY <1>2, Constants DEF AwaitExit, Close, CloseLocked, CloseReturns, Goes, Busy, Course,
     TransportInv, Shapes
<1>7. stage = "send" => ~shutdownSent
  BY <1>2, Constants DEF AwaitExit, Close, CloseLocked, CloseReturns, Goes,
     TransportInv, Shapes
<1>8. QED
  BY <1>1, <1>2, <1>3, <1>4, <1>5, <1>6, <1>7, CourseMoves

LEMMA CloseEndsCourse ==
    ASSUME TransportInv, Course, NEW k \in Threads, CloseEnds(k)
    PROVE  Course'
<1>1. /\ k \in Closers /\ at[k] \in {"reap", "drop", "finish"} /\ at[k] \in Busy
      /\ UNCHANGED <<id, op, shutdownSent>>
  BY DEF CloseEnds, Busy
<1>2. \A u \in Threads \ {k} : at[u] \notin Working
  BY <1>1, Lone DEF Holding, Working
<1>3. PICK stage \in {"drop", "finish", "idle"} : at' = [at EXCEPT ![k] = stage]
  BY DEF CloseEnds, Goes
<1>4. at'[k] = stage /\ \A u \in Threads \ {k} : at'[u] = at[u]
  BY <1>3 DEF TransportInv, Shapes
<1>5. \A u \in Threads : at'[u] \notin Working
  BY <1>2, <1>4 DEF Working
<1>6. id[k] = 0 /\ \A u \in Threads : id'[u] = 0
  BY <1>1, <1>2 DEF Course, Working
<1>7. \A j, l \in Closers : at'[j] \in Busy /\ at'[l] \in Busy => j = l
  BY <1>1, <1>4, Constants DEF Course
<1>8. lifecycle' = "CLOSED" => \A l \in Closers : at'[l] \notin Busy
  <2>1. lifecycle # "CLOSED"
    BY <1>1 DEF Course
  <2>2. lifecycle' = "CLOSED" => stage = "idle"
    BY <1>3, <2>1, <1>1, <1>4 DEF CloseEnds, Goes, TransportInv, Shapes
  <2>3. \A l \in Closers \ {k} : at[l] \notin Busy
    BY <1>1 DEF Course
  <2>4. QED
    BY <1>1, <1>4, <2>2, <2>3, Constants DEF Busy
<1>9. \A u \in Threads :
         at'[u] \in {"send", "begin", "write", "await"} \/ (at'[u] = "end" /\ op'[u] = "stop")
            => ~shutdownSent'
  BY <1>1, <1>4 DEF Course
<1>10. QED
  BY <1>5, <1>6, <1>7, <1>8, <1>9 DEF Course


-----------------------------------------------------------------------------
LEMMA InitCalm == Init => CalmInv
<1> SUFFICES ASSUME Init PROVE CalmInv
  OBVIOUS
<1>1. /\ at = [t \in Threads |-> "idle"] /\ id = [t \in Threads |-> 0]
      /\ lifecycle = "OPEN" /\ shutdownSent = FALSE /\ poison = "none"
      /\ input = TRUE /\ daemon = "up" /\ failure = FALSE /\ failed = FALSE
      /\ inbox = <<>> /\ output = <<>> /\ responses = <<>> /\ pump = "read"
  BY DEF Init
<1>2. \A t \in Threads : at[t] = "idle" /\ id[t] = 0
  BY <1>1
<1>3. Course
  BY <1>1, <1>2, Constants DEF Course, Busy
<1>4. ~HasEof(<<>>) /\ OnlyEof(<<>>) /\ ~Held /\ ~Awaited
  BY <1>1, <1>2 DEF HasEof, OnlyEof, Held, Awaited
<1>5. Calm
  BY <1>1, <1>2, <1>4 DEF Calm, Ended, Nowhere
<1>6. QED
  BY <1>3, <1>5, InitKeeps DEF CalmInv

LEMMA CourseStep ==
    ASSUME TransportInv, Course, [Next]_vars
    PROVE  Course'
<1>1. ASSUME NEW t \in Threads, ThreadStep(t) PROVE Course'
  <2>1. CASE Number(t) \/ Begin(t)
    BY <2>1, NumberCourse
  <2>2. CASE Write(t) \/ Receive(t) \/ End(t) \/ CloseEnds(t)
    BY <2>2, WriteCourse, ReceiveCourse, EndCourse, CloseEndsCourse
  <2>3. CASE AwaitExit(t) \/ CloseLocked(t) \/ CloseReturns(t)
    BY <2>3, QuietCourse
  <2>4. QED
    BY <1>1, <2>1, <2>2, <2>3 DEF ThreadStep
<1>2. CASE PumpStep
  <2>1. UNCHANGED <<threads, shutdownSent>> /\ (lifecycle' = "CLOSED" => lifecycle = "CLOSED")
    BY <1>2, NotClosedBy DEF PumpStep, PumpReads, PumpMarks, PumpPuts, channel
  <2>2. QED
    BY <2>1, CourseStays
<1>3. CASE CloseInput \/ DaemonAnswers \/ DaemonExits \/ Noise \/ UNCHANGED vars
  <2>1. UNCHANGED <<threads, channel>>
    BY <1>3 DEF CloseInput, DaemonAnswers, DaemonExits, Noise, vars
  <2>2. QED
    BY <2>1, CourseStays DEF channel
<1>4. ASSUME NEW k \in Closers, Close(k) PROVE Course'
  BY <1>4, QuietCourse, Constants
<1>5. QED
  BY <1>1, <1>2, <1>3, <1>4, RequestCourse DEF Next

LEMMA DisturbedStays == [Next]_vars /\ ~disturbed' => ~disturbed
  BY DEF Next, ThreadStep, PumpStep, Request, Number, Begin, Write, Receive, End,
     AwaitExit, CloseLocked, CloseEnds, CloseReturns, WaitClosed, Close, CloseInput,
     PumpReads, PumpMarks, PumpPuts, DaemonAnswers, DaemonExits, Noise, vars

LEMMA CalmStep ==
    ASSUME TransportInv, OneClient, Course, Calm, [Next]_vars, ~disturbed'
    PROVE  Calm'
<1>1. ASSUME NEW t \in Threads, ThreadStep(t) PROVE Calm'
  <2>1. CASE Number(t) \/ Begin(t) \/ Write(t) \/ Receive(t) \/ End(t)
    BY <2>1, NumberCalm, BeginCalm, WriteCalm, ReceiveCalm, EndCalm
  <2>2. CASE AwaitExit(t) \/ CloseEnds(t)
    BY <2>2, AwaitExitCalm, CloseEndsCalm
  <2>3. CASE CloseLocked(t) \/ CloseReturns(t)
    BY <2>3, CloseCalm
  <2>4. QED
    BY <1>1, <2>1, <2>2, <2>3 DEF ThreadStep
<1>2. CASE PumpStep
  BY <1>2, PumpReadsCalm, PumpMarksCalm, PumpPutsCalm DEF PumpStep
<1>3. CASE Noise
  BY <1>3 DEF Noise
<1>4. CASE UNCHANGED vars
  <2>1. UNCHANGED <<channel, threads, far, input, output, pump, item, responses>>
    BY <1>4 DEF vars
  <2>2. Ended' = Ended
    BY <2>1 DEF Ended, Held, HasEof, channel, far
  <2>3. QED
    BY <2>1, <2>2, CalmStays
       DEF channel, threads, far, Calm, InMail, InPipe, InHand, InQueue, Nowhere, Held,
           OnlyEof, Leads
<1>5. QED
  BY <1>1, <1>2, <1>3, <1>4, RequestCalm, WaitClosedCalm, CloseCalm, CloseInputCalm,
     DaemonAnswersCalm, DaemonExitsCalm, Constants DEF Next

\* With one client, and while the daemon answers each request once and in time,
\* the channel is not poisoned: neither the reader's count of the lines, nor the
\* end of file that an accepted shutdown or close() brings, is taken for a failure.
THEOREM NoAlarm == OneClient => (Spec => []NoFalseAlarm)
<1>1. SUFFICES ASSUME OneClient PROVE Spec => []NoFalseAlarm
  OBVIOUS
<1>2. Init => CalmInv
  BY InitCalm
<1>3. CalmInv /\ [Next]_vars => CalmInv'
  BY <1>1, NextKeeps, CourseStep, CalmStep, DisturbedStays DEF CalmInv
<1>4. CalmInv => NoFalseAlarm
  BY DEF CalmInv, Calm, NoFalseAlarm
<1>5. QED
  BY <1>2, <1>3, <1>4, PTL DEF Spec

-----------------------------------------------------------------------------
(* Any number of clients: what is left of the promise when several threads *)
(* call request().  That a refused request never ran is then not true, but *)
(* what is reported as decided was, once, and nothing follows a lost answer.*)

\* _decode_response and _end_inflight: what request() returns as decided is the
\* EV3's own decision on that request.
AnswersAreTrue == \A r \in Ids : outcome[r] \in Verdicts => verdict[r] = outcome[r]

\* _begin_inflight: after a request whose outcome is unknown none gets a number.
LossIsLast == \A r \in Ids : outcome[r] = "unknown" => r = number /\ poison # "none"

\* _exchange_locked: a request is written once, so the EV3 never decides it again.
DecidedOnce == [][\A r \in Ids : verdict[r] # "none" => verdict'[r] = verdict[r]]_vars

Fields ==
    /\ at \in [Threads -> Stages]
    /\ id \in [Threads -> Int]
    /\ told \in [Threads -> Told \cup {"none"}]
    /\ number \in 0..(MaxRequests + 2)
    /\ outcome \in [Ids -> Told \cup {"none"}]
    /\ verdict \in [Ids -> Verdicts \cup {"none"}]
    /\ inbox \in Seq(Ids)

\* The numbered request is its thread's alone, and no later one was heard of.
Numbered ==
    /\ \A t \in Threads : at[t] \in Holding => lock = t
    /\ \A t \in Threads : at[t] \in Working => id[t] = number /\ number # 0
    /\ \A r \in Ids : r > number => verdict[r] = "none"

\* What is unread is undecided and written once, and the request about to be
\* written is not among it.
Unread ==
    /\ \A i \in 1..Len(inbox) : inbox[i] <= number /\ verdict[inbox[i]] = "none"
    /\ \A i, j \in 1..Len(inbox) : i # j => inbox[i] # inbox[j]
    /\ \A t \in Threads : at[t] \in {"begin", "write"} =>
          /\ verdict[number] = "none"
          /\ \A i \in 1..Len(inbox) : inbox[i] # number

Reports ==
    \A t \in Threads : at[t] = "end" =>
        /\ told[t] \in Verdicts => told[t] = verdict[number]
        /\ told[t] = "unknown" => poison # "none"

SharedInv == Fields /\ Numbered /\ Unread /\ Reports /\ AnswersAreTrue /\ LossIsLast

DecisionsStand == \A r \in Ids : verdict[r] # "none" => verdict'[r] = verdict[r]

LEMMA PoisonLasts ==
    ASSUME NEW flag, flag # "none", Poison(flag) \/ RaisesClosed
    PROVE  poison # "none" => poison' # "none"
  BY DEF Poison, RaisesClosed

\* Thread t goes where it has no request, and the requests stay as they are.
LEMMA RestShared ==
    ASSUME SharedInv, NEW t \in Threads, NEW stage \in Stages \ Working,
           at' = [at EXCEPT ![t] = stage],
           UNCHANGED <<number, outcome, verdict, inbox>>,
           id' \in [Threads -> Int], told' \in [Threads -> Told \cup {"none"}],
           \A u \in Threads \ {t} : id'[u] = id[u] /\ told'[u] = told[u],
           stage \in Holding => lock' = t,
           \A u \in Threads \ {t} : at[u] \in Holding => lock' = u,
           poison # "none" => poison' # "none"
    PROVE  SharedInv' /\ DecisionsStand
<1>1. /\ at' \in [Threads -> Stages]
      /\ at'[t] = stage /\ stage \notin {"begin", "write", "await", "end"}
      /\ \A u \in Threads \ {t} : at'[u] = at[u]
  BY DEF SharedInv, Fields, Working
<1>2. Fields'
  BY <1>1 DEF SharedInv, Fields
<1>3. Numbered'
  BY <1>1 DEF SharedInv, Numbered, Working
<1>4. Unread'
  BY <1>1 DEF SharedInv, Unread
<1>5. Reports'
  BY <1>1 DEF SharedInv, Reports
<1>6. AnswersAreTrue' /\ LossIsLast' /\ DecisionsStand
  BY DEF SharedInv, AnswersAreTrue, LossIsLast, DecisionsStand
<1>7. QED
  BY <1>2, <1>3, <1>4, <1>5, <1>6 DEF SharedInv

\* No thread moves, and what the daemon has read and decided stays.
LEMMA StillShared ==
    ASSUME SharedInv,
           UNCHANGED <<at, id, told, lock, number, outcome, verdict, inbox>>,
           poison # "none" => poison' # "none"
    PROVE  SharedInv' /\ DecisionsStand
<1>1. Fields' /\ Numbered' /\ Unread'
  BY DEF SharedInv, Fields, Numbered, Unread
<1>2. Reports' /\ AnswersAreTrue' /\ LossIsLast' /\ DecisionsStand
  BY DEF SharedInv, Reports, AnswersAreTrue, LossIsLast, DecisionsStand
<1>3. QED
  BY <1>1, <1>2 DEF SharedInv

LEMMA OthersHaveNone ==
    ASSUME SharedInv, NEW t \in Threads, lock = t \/ lock = "nobody",
           NEW u \in Threads \ {t}
    PROVE  at[u] \notin Holding /\ at[u] \notin Working
  BY Constants DEF SharedInv, Numbered, Holding, Working

LEMMA RequestShared ==
    ASSUME SharedInv, NEW c \in Clients, Request(c) \/ WaitClosed(c)
    PROVE  SharedInv' /\ DecisionsStand
<1>1. c \in Threads /\ at[c] = "idle" /\ at \in [Threads -> Stages]
  BY Constants DEF Request, WaitClosed, SharedInv, Fields
<1>2. UNCHANGED <<number, outcome, verdict, inbox, id, told, lock>>
  BY DEF Request, WaitClosed, far
<1>3. PICK stage \in {"idle", "lock"} : at' = [at EXCEPT ![c] = stage]
  BY <1>1 DEF Request, WaitClosed, Goes
<1>4. poison # "none" => poison' # "none"
  BY PoisonLasts DEF Request, WaitClosed
<1>5. stage \in Stages \ Working /\ stage \notin Holding
  BY DEF Stages, Working, Holding
<1>6. id' \in [Threads -> Int] /\ told' \in [Threads -> Told \cup {"none"}]
  BY <1>2 DEF SharedInv, Fields
<1>7. \A u \in Threads \ {c} : at[u] \in Holding => lock' = u
  BY <1>2 DEF SharedInv, Numbered
<1>8. QED
  BY <1>1, <1>2, <1>3, <1>4, <1>5, <1>6, <1>7, RestShared

LEMMA QuietShared ==
    ASSUME SharedInv, NEW t \in Threads,
           AwaitExit(t) \/ CloseLocked(t) \/ CloseEnds(t) \/ CloseReturns(t)
             \/ (t \in Closers /\ Close(t))
    PROVE  SharedInv' /\ DecisionsStand
<1>1. UNCHANGED <<number, outcome, verdict, inbox, id, told>>
  BY DEF AwaitExit, CloseLocked, CloseEnds, CloseReturns, Close, far
<1>2. PICK stage \in {"idle", "reap", "waiting", "lock", "send", "drop", "finish"} :
         /\ at' = [at EXCEPT ![t] = stage]
         /\ \/ lock' = lock /\ (stage \in Holding => at[t] \in Holding)
            \/ lock = "nobody" /\ lock' = t
            \/ at[t] \in Holding /\ lock' = "nobody" /\ stage = "idle"
  BY DEF AwaitExit, CloseLocked, CloseEnds, CloseReturns, Close, Goes, Holding
<1>3. stage \in Stages \ Working
  BY DEF Stages, Working
<1>4. poison # "none" => poison' # "none"
  BY PoisonLasts DEF AwaitExit, CloseLocked, CloseEnds, CloseReturns, Close, channel
<1>5. id' \in [Threads -> Int] /\ told' \in [Threads -> Told \cup {"none"}]
  BY <1>1 DEF SharedInv, Fields
<1>6. stage \in Holding => lock' = t
  BY <1>2 DEF SharedInv, Numbered, Holding
<1>7. \A u \in Threads \ {t} : at[u] \in Holding => lock' = u
  BY <1>2, OthersHaveNone DEF SharedInv, Numbered
<1>8. QED
  BY <1>1, <1>2, <1>3, <1>4, <1>5, <1>6, <1>7, RestShared

\* The thread that has the lock, or takes it now, is done with its request.
LEMMA AfterShared ==
    ASSUME SharedInv, NEW t \in Threads, After(t), lock = t \/ lock = "nobody",
           t \in Closers => lock = t,
           UNCHANGED <<number, verdict, inbox>>,
           poison # "none" => poison' # "none",
           \/ outcome' = outcome
           \/ /\ number \in Ids
              /\ \E x \in Told \cup {"none"} :
                    /\ outcome' = [outcome EXCEPT ![number] = x]
                    /\ x \in Verdicts => x = verdict[number]
                    /\ x = "unknown" => poison' # "none"
    PROVE  SharedInv' /\ DecisionsStand
<1>1. \A u \in Threads \ {t} : at[u] \notin Holding /\ at[u] \notin Working
  BY OthersHaveNone
<1>2. PICK stage \in {"idle", "send", "reap"} :
         /\ at' = [at EXCEPT ![t] = stage]
         /\ stage # "idle" => lock' = t
  <2>1. CASE t \in Clients
    BY <2>1 DEF After, Goes
  <2>2. CASE t \notin Clients
    <3>1. t \in Closers /\ lock' = t
      BY <2>2, Constants DEF After
    <3>2. CASE op[t] = "stop"
      BY <2>2, <3>1, <3>2 DEF After, Goes
    <3>3. CASE op[t] # "stop"
      BY <2>2, <3>1, <3>3 DEF After, Goes
    <3>4. QED
      BY <3>2, <3>3
  <2>3. QED
    BY <2>1, <2>2
<1>3. /\ at'[t] = stage /\ stage \notin Working /\ stage \in Stages
      /\ \A u \in Threads \ {t} : at'[u] = at[u]
  BY <1>2 DEF SharedInv, Fields, Working, Stages
<1>4. id' = [id EXCEPT ![t] = 0] /\ told' = [told EXCEPT ![t] = "none"]
  BY DEF After
<1>5. Fields'
  <2>1. outcome' \in [Ids -> Told \cup {"none"}]
    BY DEF SharedInv, Fields
  <2>2. at' \in [Threads -> Stages]
    BY <1>2, <1>3 DEF SharedInv, Fields
  <2>3. id' \in [Threads -> Int] /\ told' \in [Threads -> Told \cup {"none"}]
    BY <1>4 DEF SharedInv, Fields
  <2>4. /\ number' \in 0..(MaxRequests + 2) /\ inbox' \in Seq(Ids)
        /\ verdict' \in [Ids -> Verdicts \cup {"none"}]
    BY DEF SharedInv, Fields
  <2>5. QED
    BY <2>1, <2>2, <2>3, <2>4 DEF Fields
<1>6. Numbered'
  BY <1>1, <1>2, <1>3 DEF SharedInv, Numbered, Holding
<1>7. Unread'
  BY <1>1, <1>3 DEF SharedInv, Unread, Working
<1>8. Reports'
  BY <1>1, <1>3 DEF Reports, Working
<1>9. AnswersAreTrue' /\ LossIsLast'
  BY DEF SharedInv, Fields, AnswersAreTrue, LossIsLast
<1>10. QED
  BY <1>5, <1>6, <1>7, <1>8, <1>9 DEF SharedInv, DecisionsStand

LEMMA NumberShared ==
    ASSUME SharedInv, NEW t \in Threads, Number(t)
    PROVE  SharedInv' /\ DecisionsStand
<1>1. UNCHANGED <<outcome, verdict, inbox>> /\ (lock = t \/ lock = "nobody")
  BY DEF Number, far, SharedInv, Numbered, Holding
<1>2. \A u \in Threads \ {t} : at[u] \notin Holding /\ at[u] \notin Working
  BY <1>1, OthersHaveNone
<1>3. CASE IsOpen(t \in Closers)
  <2>1. /\ number < MaxRequests + 2 /\ number' = number + 1
        /\ id' = [id EXCEPT ![t] = number + 1] /\ lock' = t
        /\ at' = [at EXCEPT ![t] = "begin"] /\ UNCHANGED <<told, poison>>
        /\ poison = "none"
    BY <1>3 DEF Number, IsOpen, Goes
  <2>2. /\ at'[t] = "begin" /\ id'[t] = number' /\ number' # 0 /\ number' \in Ids
        /\ \A u \in Threads \ {t} : at'[u] = at[u]
    BY <2>1, Constants DEF SharedInv, Fields
  <2>3. Fields'
    BY <2>1, <1>1, Constants DEF SharedInv, Fields, Stages
  <2>4. Numbered'
    BY <1>1, <1>2, <2>1, <2>2, Constants DEF SharedInv, Fields, Numbered
  <2>5. \A i \in 1..Len(inbox) : inbox[i] \in Nat /\ inbox[i] <= number
    BY Constants DEF SharedInv, Fields, Unread
  <2>6. verdict[number'] = "none" /\ \A i \in 1..Len(inbox) : inbox[i] # number'
    BY <2>1, <2>2, <2>5, Constants DEF SharedInv, Fields, Numbered
  <2>7. Unread'
    <3>1. \A i \in 1..Len(inbox) : inbox[i] <= number' /\ verdict[inbox[i]] = "none"
      BY <2>1, <2>5 DEF SharedInv, Fields, Unread
    <3>2. QED
      BY <1>1, <1>2, <2>2, <2>6, <3>1 DEF SharedInv, Unread, Working
  <2>8. Reports'
    BY <1>1, <1>2, <2>2 DEF Reports, Working
  <2>9. AnswersAreTrue' /\ LossIsLast' /\ DecisionsStand
    BY <1>1, <2>1 DEF SharedInv, AnswersAreTrue, LossIsLast, DecisionsStand
  <2>10. QED
    BY <2>3, <2>4, <2>7, <2>8, <2>9 DEF SharedInv
<1>4. CASE ~IsOpen(t \in Closers)
  <2>1. RaisesClosed /\ After(t) /\ UNCHANGED number
    BY <1>4 DEF Number
  <2>2. t \in Closers => lock = t
    BY Constants DEF Number, SharedInv, Numbered, Holding
  <2>3. poison # "none" => poison' # "none"
    BY <2>1, PoisonLasts
  <2>4. QED
    BY <1>1, <2>1, <2>2, <2>3, AfterShared
<1>5. QED
  BY <1>3, <1>4

LEMMA BeginShared ==
    ASSUME SharedInv, NEW t \in Threads, Begin(t)
    PROVE  SharedInv' /\ DecisionsStand
<1>1. /\ at[t] = "begin" /\ lock = t /\ id[t] = number
      /\ UNCHANGED <<verdict, inbox, number>>
  BY DEF Begin, far, SharedInv, Numbered, Holding, Working
<1>2. \A u \in Threads \ {t} : at[u] \notin Holding /\ at[u] \notin Working
  BY <1>1, OthersHaveNone
<1>3. CASE MayDispatch(t \in Closers)
  <2>1. at' = [at EXCEPT ![t] = "write"] /\ UNCHANGED <<poison, lock, id, told, outcome>>
    BY <1>3 DEF Begin, Goes
  <2>2. at'[t] = "write" /\ \A u \in Threads \ {t} : at'[u] = at[u]
    BY <2>1 DEF SharedInv, Fields
  <2>3. Fields'
    BY <1>1, <2>1 DEF SharedInv, Fields, Stages
  <2>4. Numbered' /\ Unread'
    BY <1>1, <1>2, <2>1, <2>2 DEF SharedInv, Numbered, Unread, Holding, Working
  <2>5. Reports' /\ AnswersAreTrue' /\ LossIsLast' /\ DecisionsStand
    BY <1>1, <2>1, <2>2 DEF SharedInv, Reports, AnswersAreTrue, LossIsLast, DecisionsStand
  <2>6. QED
    BY <2>3, <2>4, <2>5 DEF SharedInv
<1>4. CASE ~MayDispatch(t \in Closers)
  <2>1. outcome' = [outcome EXCEPT ![number] = "refused"] /\ RaisesClosed /\ After(t)
    BY <1>1, <1>4 DEF Begin
  <2>2. number \in Ids
    BY <1>1, Constants DEF SharedInv, Fields, Numbered, Working
  <2>3. poison # "none" => poison' # "none"
    BY <2>1, PoisonLasts
  <2>4. "refused" \in Told \cup {"none"} /\ "refused" \notin Verdicts
    BY DEF Told, Verdicts
  <2>5. QED
    BY <1>1, <2>1, <2>2, <2>3, <2>4, AfterShared
<1>5. QED
  BY <1>3, <1>4

LEMMA WriteShared ==
    ASSUME SharedInv, NEW t \in Threads, Write(t)
    PROVE  SharedInv' /\ DecisionsStand
<1>1. /\ at[t] = "write" /\ lock = t /\ id[t] = number /\ number # 0 /\ number \in Ids
      /\ UNCHANGED <<verdict, number, lock, id, outcome>>
  BY Constants DEF Write, SharedInv, Fields, Numbered, Holding, Working
<1>2. \A u \in Threads \ {t} : at[u] \notin Holding /\ at[u] \notin Working
  BY <1>1, OthersHaveNone
<1>3. PICK stage \in {"await", "end"} : at' = [at EXCEPT ![t] = stage]
  BY DEF Write, Fails, Goes
<1>4. at'[t] = stage /\ \A u \in Threads \ {t} : at'[u] = at[u]
  BY <1>3 DEF SharedInv, Fields
<1>5. inbox' = inbox \/ inbox' = Append(inbox, number)
  BY <1>1 DEF Write
<1>6. /\ poison # "none" => poison' # "none"
      /\ stage = "end" => /\ told' = [told EXCEPT ![t] = ToldByPoison]
                          /\ poison' # "none"
      /\ stage = "await" => told' = told
  BY <1>1, <1>3 DEF Write, Fails, Poison, Goes, SharedInv, Fields
<1>7. ToldByPoison \in {"unknown", "refused"} /\ Verdicts = {"done", "rejected"}
  BY DEF ToldByPoison, Verdicts
<1>8. /\ inbox' \in Seq(Ids) /\ Len(inbox) \in Nat
      /\ \A i \in 1..Len(inbox') :
            \/ i \in 1..Len(inbox) /\ inbox'[i] = inbox[i]
            \/ i = Len(inbox) + 1 /\ inbox'[i] = number
  <2>1. inbox \in Seq(Ids) /\ Len(inbox) \in Nat
    BY DEF SharedInv, Fields
  <2>2. CASE inbox' = inbox
    <3>1. inbox' \in Seq(Ids)
      BY <2>1, <2>2
    <3>2. \A i \in 1..Len(inbox') : i \in 1..Len(inbox) /\ inbox'[i] = inbox[i]
      BY <2>2
    <3>3. QED
      BY <2>1, <3>1, <3>2
  <2>3. CASE inbox' = Append(inbox, number)
    <3>1. inbox' \in Seq(Ids) /\ Len(inbox') = Len(inbox) + 1
      BY <1>1, <2>1, <2>3
    <3>2. /\ \A i \in 1..Len(inbox) : inbox'[i] = inbox[i]
          /\ inbox'[Len(inbox) + 1] = number
      BY <1>1, <2>1, <2>3
    <3>3. \A i \in 1..Len(inbox') : i \in 1..Len(inbox) \/ i = Len(inbox) + 1
      BY <2>1, <3>1
    <3>4. QED
      BY <2>1, <3>1, <3>2, <3>3
  <2>4. QED
    BY <1>5, <2>1, <2>2, <2>3
<1>9. Fields'
  BY <1>1, <1>3, <1>6, <1>7, <1>8 DEF SharedInv, Fields, Stages, Told
<1>10. Numbered'
  BY <1>1, <1>2, <1>4 DEF SharedInv, Numbered
<1>11. Unread'
  <2>1. \A i \in 1..Len(inbox') : inbox'[i] <= number /\ verdict[inbox'[i]] = "none"
    BY <1>1, <1>8 DEF SharedInv, Fields, Unread
  <2>2. \A i, j \in 1..Len(inbox') : i # j => inbox'[i] # inbox'[j]
    BY <1>1, <1>8 DEF SharedInv, Unread
  <2>3. QED
    BY <1>1, <1>2, <1>4, <2>1, <2>2 DEF Unread, Working
<1>12. Reports'
  BY <1>2, <1>4, <1>6, <1>7 DEF SharedInv, Fields, Reports, Working
<1>13. AnswersAreTrue' /\ LossIsLast' /\ DecisionsStand
  BY <1>1, <1>6 DEF SharedInv, AnswersAreTrue, LossIsLast, DecisionsStand
<1>14. QED
  BY <1>9, <1>10, <1>11, <1>12, <1>13 DEF SharedInv

LEMMA ReceiveShared ==
    ASSUME SharedInv, NEW t \in Threads, Receive(t)
    PROVE  SharedInv' /\ DecisionsStand
<1>1. /\ at[t] = "await" /\ lock = t /\ id[t] = number /\ number \in Ids
      /\ UNCHANGED <<verdict, inbox, number, lock, id, outcome>>
  BY Constants DEF Receive, far, SharedInv, Fields, Numbered, Holding, Working
<1>2. \A u \in Threads \ {t} : at[u] \notin Holding /\ at[u] \notin Working
  BY <1>1, OthersHaveNone
<1>3. at' = [at EXCEPT ![t] = "end"]
  BY DEF Receive, Fails, Goes
<1>4. at'[t] = "end" /\ \A u \in Threads \ {t} : at'[u] = at[u]
  BY <1>3 DEF SharedInv, Fields
<1>5. poison # "none" => poison' # "none"
  BY PoisonLasts DEF Receive, Fails, Poison
<1>6. \E x \in Told \cup {"none"} :
         /\ told' = [told EXCEPT ![t] = x]
         /\ x \in Verdicts => x = verdict[number]
         /\ x = "unknown" => poison' # "none"
  <2>1. CASE Fails(t)
    <3>1. ToldByPoison \in Told \ Verdicts /\ poison' # "none"
      BY <2>1 DEF Fails, Poison, ToldByPoison, Told, Verdicts
    <3>2. QED
      BY <2>1, <3>1 DEF Fails
  <2>2. CASE told' = [told EXCEPT ![t] = verdict[number]]
    <3>1. verdict[number] \in Verdicts \cup {"none"}
      BY <1>1 DEF SharedInv, Fields
    <3>2. verdict[number] \in Told \cup {"none"} /\ verdict[number] # "unknown"
      BY <3>1 DEF Told, Verdicts
    <3>3. QED
      BY <2>2, <3>2
  <2>3. Fails(t) \/ told' = [told EXCEPT ![t] = verdict[number]]
    BY <1>1 DEF Receive, Matches
  <2>4. QED
    BY <2>1, <2>2, <2>3
<1>7. Fields'
  BY <1>1, <1>3, <1>6 DEF SharedInv, Fields, Stages
<1>8. Numbered' /\ Unread'
  BY <1>1, <1>2, <1>4 DEF SharedInv, Numbered, Unread, Holding, Working
<1>9. Reports'
  BY <1>1, <1>2, <1>4, <1>6 DEF SharedInv, Fields, Reports, Working
<1>10. AnswersAreTrue' /\ LossIsLast' /\ DecisionsStand
  BY <1>1, <1>5 DEF SharedInv, AnswersAreTrue, LossIsLast, DecisionsStand
<1>11. QED
  BY <1>7, <1>8, <1>9, <1>10 DEF SharedInv

LEMMA EndShared ==
    ASSUME SharedInv, NEW t \in Threads, End(t)
    PROVE  SharedInv' /\ DecisionsStand
<1>1. /\ at[t] = "end" /\ lock = t /\ id[t] = number /\ number \in Ids /\ After(t)
      /\ UNCHANGED <<verdict, inbox, number, poison>>
      /\ outcome' = [outcome EXCEPT ![number] = told[t]]
  <2>1. at[t] = "end" /\ After(t) /\ UNCHANGED <<verdict, inbox, number, poison>>
    BY DEF End, far
  <2>2. lock = t /\ id[t] = number /\ number # 0 /\ number \in 0..(MaxRequests + 2)
    BY <2>1 DEF SharedInv, Fields, Numbered, Holding, Working
  <2>3. QED
    BY <2>1, <2>2, Constants DEF End
<1>2. /\ told[t] \in Told \cup {"none"}
      /\ told[t] \in Verdicts => told[t] = verdict[number]
      /\ told[t] = "unknown" => poison' # "none"
  BY <1>1 DEF SharedInv, Fields, Reports
<1>3. QED
  BY <1>1, <1>2, AfterShared

\* The daemon decides what it reads, and nobody was told of it before.
LEMMA DaemonAnswersShared ==
    ASSUME SharedInv, DaemonAnswers
    PROVE  SharedInv' /\ DecisionsStand
<1>1. /\ inbox # <<>> /\ inbox' = Tail(inbox)
      /\ UNCHANGED <<at, id, told, lock, number, outcome, poison>>
  BY DEF DaemonAnswers, channel, threads
<1>2. PICK v \in Verdicts : verdict' = [verdict EXCEPT ![Head(inbox)] = v]
  BY DEF DaemonAnswers
<1>3. /\ inbox \in Seq(Ids) /\ 1 \in 1..Len(inbox) /\ Head(inbox) = inbox[1]
      /\ Head(inbox) \in Ids /\ inbox' \in Seq(Ids)
      /\ \A i \in 1..Len(inbox') : /\ i + 1 \in 1..Len(inbox) /\ i + 1 # 1
                                   /\ inbox'[i] = inbox[i + 1]
      /\ \A i, j \in 1..Len(inbox') : i # j => i + 1 # j + 1
  <2>1. inbox \in Seq(Ids) /\ inbox # <<>>
    BY <1>1 DEF SharedInv, Fields
  <2>2. QED
    BY <1>1, <2>1
<1>4. /\ verdict[Head(inbox)] = "none" /\ Head(inbox) <= number
      /\ \A r \in Ids : r # Head(inbox) => verdict'[r] = verdict[r]
      /\ verdict' \in [Ids -> Verdicts \cup {"none"}]
  BY <1>2, <1>3 DEF SharedInv, Fields, Unread
<1>5. Fields'
  BY <1>1, <1>3, <1>4 DEF SharedInv, Fields
<1>6. Numbered'
  BY <1>1, <1>3, <1>4, Constants DEF SharedInv, Fields, Numbered
<1>7. Unread'
  <2>1. \A i \in 1..Len(inbox') : inbox'[i] # Head(inbox) /\ inbox'[i] \in Ids
    BY <1>3 DEF SharedInv, Unread
  <2>2. \A i \in 1..Len(inbox') : inbox'[i] <= number /\ verdict'[inbox'[i]] = "none"
    BY <1>3, <1>4, <2>1 DEF SharedInv, Unread
  <2>3. \A i, j \in 1..Len(inbox') : i # j => inbox'[i] # inbox'[j]
    BY <1>3 DEF SharedInv, Unread
  <2>4. ASSUME NEW t \in Threads, at[t] \in {"begin", "write"}
        PROVE  verdict'[number] = "none" /\ \A i \in 1..Len(inbox') : inbox'[i] # number
    <3>1. number \in Ids
      BY <2>4, Constants DEF SharedInv, Fields, Numbered, Working
    <3>2. QED
      BY <1>3, <1>4, <2>4, <3>1 DEF SharedInv, Unread
  <2>5. QED
    BY <1>1, <2>2, <2>3, <2>4 DEF Unread
<1>8. \A r \in Ids : verdict[r] # "none" => verdict'[r] = verdict[r]
  BY <1>4
<1>9. "none" \notin Verdicts
  BY DEF Verdicts
<1>10. Reports'
  <2>1. ASSUME NEW t \in Threads, at[t] = "end", told[t] \in Verdicts
        PROVE  told[t] = verdict'[number]
    <3>1. number \in Ids /\ told[t] = verdict[number]
      BY <2>1, Constants DEF SharedInv, Fields, Numbered, Reports, Working
    <3>2. QED
      BY <1>8, <1>9, <2>1, <3>1
  <2>2. QED
    BY <1>1, <2>1 DEF SharedInv, Reports
<1>11. AnswersAreTrue' /\ LossIsLast' /\ DecisionsStand
  BY <1>1, <1>8, <1>9 DEF SharedInv, AnswersAreTrue, LossIsLast, DecisionsStand
<1>12. QED
  BY <1>5, <1>6, <1>7, <1>10, <1>11 DEF SharedInv

LEMMA SharedStep ==
    ASSUME SharedInv, [Next]_vars
    PROVE  SharedInv' /\ DecisionsStand
<1>1. ASSUME NEW t \in Threads, ThreadStep(t) PROVE SharedInv' /\ DecisionsStand
  BY <1>1, NumberShared, BeginShared, WriteShared, ReceiveShared, EndShared,
     QuietShared DEF ThreadStep
<1>2. CASE PumpStep \/ CloseInput \/ DaemonExits \/ Noise \/ UNCHANGED vars
  <2>1. UNCHANGED <<at, id, told, lock, number, outcome, verdict, inbox>>
    BY <1>2 DEF PumpStep, PumpReads, PumpMarks, PumpPuts, CloseInput, DaemonExits, Noise,
                vars, threads, far
  <2>2. poison # "none" => poison' # "none"
    BY <1>2, PoisonLasts
       DEF PumpStep, PumpReads, PumpMarks, PumpPuts, CloseInput, DaemonExits, Noise, vars,
           channel, RecordFailure
  <2>3. QED
    BY <2>1, <2>2, StillShared
<1>3. ASSUME NEW k \in Closers, Close(k) PROVE SharedInv' /\ DecisionsStand
  BY <1>3, QuietShared, Constants
<1>4. QED
  BY <1>1, <1>2, <1>3, RequestShared, DaemonAnswersShared DEF Next

LEMMA InitShared == Init => SharedInv
<1> SUFFICES ASSUME Init PROVE SharedInv
  OBVIOUS
<1>1. Fields
  BY Constants DEF Init, Fields, Stages, Told, Verdicts
<1>2. Numbered /\ Unread /\ Reports
  BY DEF Init, Numbered, Unread, Reports, Holding, Working
<1>3. AnswersAreTrue /\ LossIsLast
  BY DEF Init, AnswersAreTrue, LossIsLast, Verdicts
<1>4. QED
  BY <1>1, <1>2, <1>3 DEF SharedInv

\* However many threads share the session: an accepted or rejected request was
\* accepted or rejected by the EV3, and no request follows one whose outcome
\* request() reports as unknown.
THEOREM WordIsKept == Spec => [](AnswersAreTrue /\ LossIsLast)
<1>1. SharedInv /\ [Next]_vars => SharedInv'
  BY SharedStep
<1>2. SharedInv => AnswersAreTrue /\ LossIsLast
  BY DEF SharedInv
<1>3. QED
  BY <1>1, <1>2, InitShared, PTL DEF Spec

\* And the EV3 decides no request twice: a line is written once, whatever fails.
THEOREM RequestsAreDecidedOnce == Spec => DecidedOnce
<1>1. SharedInv /\ [Next]_vars => SharedInv'
  BY SharedStep
<1>2. SharedInv /\ [Next]_vars =>
         [\A r \in Ids : verdict[r] # "none" => verdict'[r] = verdict[r]]_vars
  BY SharedStep DEF DecisionsStand
<1>3. QED
  BY <1>1, <1>2, InitShared, PTL DEF Spec, DecidedOnce

-----------------------------------------------------------------------------
(* Types                                                                   *)

LEMMA PoisonTypes ==
    ASSUME TypeOK, NEW flag \in {"known", "unknown"}, Poison(flag) \/ RaisesClosed
    PROVE  /\ poison' \in {"none", "known", "unknown"}
           /\ lifecycle' \in {"OPEN", "CLOSING", "POISONED", "CLOSED"}
           /\ RaisesClosed => failed' \in BOOLEAN
  BY DEF Poison, RaisesClosed, TypeOK

\* A thread's step leaves the threads well typed, and the lines it sends.
LEMMA ThreadTypes ==
    ASSUME TypeOK, SharedInv, NEW t \in Threads, ThreadStep(t)
    PROVE  TypeOK'
<1>1. ASSUME After(t)
      PROVE  /\ at' \in [Threads -> Stages] /\ lock' \in Threads \cup {"nobody"}
             /\ op' \in [Threads -> {"request", "stop", "shutdown", "wait"}]
             /\ id' \in [Threads -> Ids \cup {0}]
             /\ told' \in [Threads -> Told \cup {"none"}]
  BY <1>1 DEF After, Goes, TypeOK, Stages
<1>2. number \in Ids \/ at[t] \notin Working
  BY Constants DEF SharedInv, Fields, Numbered
<1>3. CASE Number(t)
  <2>1. CASE IsOpen(t \in Closers)
    <3>1. number' \in Ids /\ id' = [id EXCEPT ![t] = number'] /\ lock' = t
      BY <1>3, <2>1, Constants DEF Number, TypeOK
    <3>2. number' \in 0..(MaxRequests + 2) /\ at' \in [Threads -> Stages]
          /\ id' \in [Threads -> Ids \cup {0}]
      <4>1. Ids \subseteq 0..(MaxRequests + 2)
        BY Constants
      <4>2. at' = [at EXCEPT ![t] = "begin"]
        BY <1>3, <2>1 DEF Number, Goes
      <4>3. at \in [Threads -> Stages] /\ id \in [Threads -> Ids \cup {0}]
        BY DEF TypeOK, Stages
      <4>4. at' \in [Threads -> Stages]
        BY <4>2, <4>3 DEF Stages
      <4>5. QED
        BY <3>1, <4>1, <4>3, <4>4
    <3>3. QED
      BY <1>3, <2>1, <3>1, <3>2 DEF Number, TypeOK, Stages, far
  <2>2. CASE ~IsOpen(t \in Closers)
    BY <1>1, <1>3, <2>2, PoisonTypes DEF Number, TypeOK, far, Stages
  <2>3. QED
    BY <2>1, <2>2
<1>4. CASE Begin(t)
  <2>1. id[t] = number /\ number \in Ids
    BY <1>2, <1>4 DEF Begin, SharedInv, Numbered, Working
  <2>2. CASE MayDispatch(t \in Closers)
    BY <1>4, <2>1, <2>2 DEF Begin, TypeOK, Goes, far
  <2>3. CASE ~MayDispatch(t \in Closers)
    <3>1. outcome' \in [Ids -> Told \cup {"none"}]
      BY <1>4, <2>3 DEF Begin, TypeOK, Told
    <3>2. QED
      BY <1>1, <1>4, <2>3, <3>1, PoisonTypes DEF Begin, TypeOK, far, Stages
  <2>4. QED
    BY <2>2, <2>3
<1>5. CASE Write(t)
  <2>1. inbox' \in Seq(Ids)
    <3>1. id[t] \in Ids
      BY <1>2, <1>5 DEF Write, SharedInv, Numbered, Working
    <3>2. inbox' \in {inbox, Append(inbox, id[t])}
      BY <1>5 DEF Write
    <3>3. inbox \in Seq(Ids)
      BY DEF TypeOK
    <3>4. Append(inbox, id[t]) \in Seq(Ids)
      BY <3>1, <3>3
    <3>5. QED
      BY <3>2, <3>3, <3>4
  <2>2. CASE Fails(t) /\ disturbed' = TRUE
    <3>1. ToldByPoison \in Told
      BY DEF ToldByPoison, Told
    <3>2. told' \in [Threads -> Told \cup {"none"}]
      BY <2>2, <3>1 DEF Fails, TypeOK
    <3>3. QED
      BY <1>5, <2>1, <2>2, <3>2, PoisonTypes DEF Write, Fails, Goes, TypeOK
  <2>3. CASE Goes(t, "await") /\ UNCHANGED <<poison, lifecycle, failed, told, disturbed>>
    BY <1>5, <2>1, <2>3 DEF Write, Goes, TypeOK
  <2>4. QED
    BY <1>5, <2>2, <2>3 DEF Write
<1>6. CASE Receive(t)
  <2>1. responses' \in Seq(Items) /\ disturbed' \in BOOLEAN
    <3>1. responses \in Seq(Items) /\ disturbed \in BOOLEAN
      BY DEF TypeOK
    <3>2. disturbed' \in {disturbed, TRUE}
      BY <1>6 DEF Receive
    <3>3. responses' = responses \/ (responses # <<>> /\ responses' = Tail(responses))
      BY <1>6 DEF Receive
    <3>4. responses # <<>> => Tail(responses) \in Seq(Items)
      BY <3>1
    <3>5. QED
      BY <3>1, <3>2, <3>3, <3>4
  <2>2. CASE Fails(t)
    <3>1. ToldByPoison \in Told
      BY DEF ToldByPoison, Told
    <3>2. told' \in [Threads -> Told \cup {"none"}]
      BY <2>2, <3>1 DEF Fails, TypeOK
    <3>3. shutdownSent' \in BOOLEAN
      <4>1. \/ shutdownSent' = shutdownSent
            \/ shutdownSent' = (shutdownSent \/ (/\ op[t] = "shutdown"
                                                 /\ verdict[Head(responses).id] = "done"))
        BY <1>6 DEF Receive
      <4>2. QED
        BY <4>1 DEF TypeOK
    <3>4. QED
      BY <1>6, <2>1, <2>2, <3>2, <3>3, PoisonTypes DEF Receive, Fails, Goes, TypeOK, far
  <2>3. CASE ~Fails(t)
    <3>1. /\ Goes(t, "end") /\ Matches(t, Head(responses))
          /\ told' = [told EXCEPT ![t] = verdict[id[t]]]
      BY <1>6, <2>3 DEF Receive, Matches
    <3>2. id[t] \in Ids
      BY <1>2, <1>6 DEF Receive, SharedInv, Numbered, Working
    <3>3. told' \in [Threads -> Told \cup {"none"}]
      BY <3>1, <3>2 DEF TypeOK, Told
    <3>4. shutdownSent' \in BOOLEAN
      BY <1>6, <2>3 DEF Receive, TypeOK
    <3>5. /\ poison' \in {"none", "known", "unknown"}
          /\ lifecycle' \in {"OPEN", "CLOSING", "POISONED", "CLOSED"}
          /\ failed' \in BOOLEAN
      BY <1>6, <2>3, PoisonTypes DEF Receive, TypeOK
    <3>6. QED
      BY <1>6, <2>1, <3>1, <3>3, <3>4, <3>5 DEF Receive, Goes, TypeOK, far
  <2>4. QED
    BY <2>2, <2>3
<1>7. CASE End(t)
  <2>1. outcome' \in [Ids -> Told \cup {"none"}]
    BY <1>7 DEF End, TypeOK
  <2>2. QED
    BY <1>1, <1>7, <2>1 DEF End, TypeOK, far, Stages
<1>8. CASE AwaitExit(t)
  BY <1>8, PoisonTypes DEF AwaitExit, Goes, TypeOK, far
<1>9. CASE CloseLocked(t) \/ CloseReturns(t)
  BY <1>9 DEF CloseLocked, CloseReturns, Goes, TypeOK, far, channel
<1>10. CASE CloseEnds(t)
  <2>1. Eof \in Items
    BY Constants DEF Eof, Items
  <2>2. output \in Seq(Items) /\ output' \in {output, Append(output, Eof)}
    BY <1>10 DEF CloseEnds, TypeOK
  <2>3. output' \in Seq(Items)
    BY <2>1, <2>2
  <2>4. inbox' = inbox /\ responses' = responses
    BY <1>10 DEF CloseEnds
  <2>5. QED
    BY <1>10, <2>3, <2>4 DEF CloseEnds, Goes, TypeOK
<1>11. QED
  BY <1>3, <1>4, <1>5, <1>6, <1>7, <1>8, <1>9, <1>10 DEF ThreadStep

LEMMA TypesStep ==
    ASSUME TypeOK, SharedInv, [Next]_vars
    PROVE  TypeOK'
<1>1. Eof \in Items /\ \A r \in Ids \cup {0} : Reply(r) \in Items
  BY Constants DEF Eof, Reply, Items, Ids
<1>2. ASSUME NEW c \in Clients, Request(c) \/ WaitClosed(c) PROVE TypeOK'
  <2>1. CASE Request(c)
    <3>1. op' \in [Threads -> {"request", "stop", "shutdown", "wait"}]
      BY <2>1 DEF Request, TypeOK
    <3>2. QED
      BY ZenonT(60), <2>1, <3>1, PoisonTypes DEF Request, Goes, TypeOK, far
  <2>2. CASE WaitClosed(c)
    BY <2>2 DEF WaitClosed, Goes, TypeOK, far
  <2>3. QED
    BY <1>2, <2>1, <2>2
<1>3. ASSUME NEW k \in Closers, Close(k) PROVE TypeOK'
  BY <1>3 DEF Close, Goes, TypeOK, far
<1>4. CASE PumpReads
  <2>1. item' \in Items /\ output' \in Seq(Items)
    <3>1. output \in Seq(Items) /\ item \in Items
      BY DEF TypeOK
    <3>2. output # <<>> => Head(output) \in Items /\ Tail(output) \in Seq(Items)
      BY <3>1
    <3>3. QED
      BY <1>4, <3>1, <3>2 DEF PumpReads
  <2>2. QED
    BY <1>4, <2>1 DEF PumpReads, TypeOK, channel, threads, far
<1>5. CASE PumpMarks
  <2>1. lines' \in Nat
    BY <1>5 DEF PumpMarks, TypeOK
  <2>2. /\ poison' \in {"none", "known", "unknown"}
        /\ lifecycle' \in {"OPEN", "CLOSING", "POISONED", "CLOSED"}
        /\ failure' \in BOOLEAN /\ failed' \in BOOLEAN
    BY <1>5, PoisonTypes DEF PumpMarks, RecordFailure, TypeOK
  <2>3. QED
    BY <1>5, <2>1, <2>2 DEF PumpMarks, TypeOK, threads, far
<1>6. CASE PumpPuts
  <2>1. responses' \in Seq(Items)
    BY <1>6 DEF PumpPuts, TypeOK
  <2>2. QED
    BY <1>1, <1>6, <2>1 DEF PumpPuts, TypeOK, channel, threads, far
<1>7. CASE DaemonAnswers
  <2>1. Head(inbox) \in Ids /\ inbox' \in Seq(Ids)
    BY <1>7 DEF DaemonAnswers, TypeOK
  <2>2. verdict' \in [Ids -> Verdicts \cup {"none"}] /\ output' \in Seq(Items)
    BY <1>1, <1>7, <2>1 DEF DaemonAnswers, TypeOK
  <2>3. QED
    BY <1>7, <2>1, <2>2 DEF DaemonAnswers, TypeOK, channel, threads
<1>8. CASE DaemonExits
  <2>1. output' \in Seq(Items) /\ noise' \in 0..MaxNoise /\ disturbed' \in BOOLEAN
    <3>1. output \in Seq(Items) /\ output' = Append(output, Eof)
      BY <1>8 DEF DaemonExits, TypeOK
    <3>2. output' \in Seq(Items)
      BY <1>1, <3>1
    <3>3. noise \in 0..MaxNoise /\ disturbed \in BOOLEAN
      BY DEF TypeOK
    <3>4. QED
      <4>1. \/ UNCHANGED <<noise, disturbed>>
            \/ noise < MaxNoise /\ noise' = noise + 1 /\ disturbed' = TRUE
        BY <1>8 DEF DaemonExits
      <4>2. MaxNoise \in Nat
        BY TransportAssumption
      <4>3. CASE UNCHANGED <<noise, disturbed>>
        BY <3>2, <3>3, <4>3
      <4>4. CASE noise < MaxNoise /\ noise' = noise + 1 /\ disturbed' = TRUE
        <5>1. noise' \in 0..MaxNoise
          BY <3>3, <4>2, <4>4
        <5>2. QED
          BY <3>2, <4>4, <5>1
      <4>5. QED
        BY <4>1, <4>3, <4>4
  <2>2. QED
    BY <1>8, <2>1 DEF DaemonExits, TypeOK, channel, threads
<1>9. CASE Noise
  <2>1. PICK i \in {Reply(r) : r \in {s \in Ids : verdict[s] # "none"} \cup {0}}
                      \cup {[kind |-> "invalid", id |-> 0]} :
          output' = Append(output, i)
    BY <1>9 DEF Noise
  <2>2. i \in Items
    BY <1>1 DEF Items
  <2>3. output' \in Seq(Items) /\ noise' \in 0..MaxNoise
    BY <1>9, <2>1, <2>2, TransportAssumption DEF Noise, TypeOK
  <2>4. QED
    BY <1>9, <2>3 DEF Noise, TypeOK, channel, threads
<1>10. CASE CloseInput \/ UNCHANGED vars
  BY <1>10 DEF CloseInput, vars, TypeOK, channel, threads, far
<1>11. QED
  BY <1>2, <1>3, <1>4, <1>5, <1>6, <1>7, <1>8, <1>9, <1>10, ThreadTypes
     DEF Next, PumpStep

\* The session's state is well typed, for any clients, closers and bounds.
THEOREM TransportTypeCorrect == Spec => []TypeOK
<1>1. Init => TypeOK
  <2>1. Eof \in Items /\ <<>> \in Seq(Items) /\ <<>> \in Seq(Ids) /\ 0 \in 0..MaxNoise
    BY Constants, TransportAssumption DEF Eof, Items
  <2>2. Init => inbox \in Seq(Ids) /\ output \in Seq(Items) /\ responses \in Seq(Items)
    BY <2>1 DEF Init
  <2>3. Init => /\ lines \in Nat /\ inflight \in Ids \cup {0} /\ noise \in 0..MaxNoise
                /\ number \in 0..(MaxRequests + 2) /\ item \in Items
    BY <2>1, Constants DEF Init
  <2>4. Init => /\ at \in [Threads -> Stages] /\ id \in [Threads -> Ids \cup {0}]
                /\ op \in [Threads -> {"request", "stop", "shutdown", "wait"}]
                /\ told \in [Threads -> Told \cup {"none"}]
                /\ verdict \in [Ids -> Verdicts \cup {"none"}]
                /\ outcome \in [Ids -> Told \cup {"none"}]
    BY DEF Init, Stages
  <2>5. QED
    BY <2>2, <2>3, <2>4 DEF Init, TypeOK, Stages
<1>2. TypeOK /\ SharedInv /\ [Next]_vars => TypeOK' /\ SharedInv'
  BY TypesStep, SharedStep
<1>3. QED
  BY <1>1, <1>2, InitShared, PTL DEF Spec
=============================================================================
