-------------------------- MODULE SttRuntimeProofs --------------------------
(***************************************************************************)
(* A cancellation is kept, and the provider's work is accounted for, for   *)
(* any requests and capacities.                                            *)
(*                                                                         *)
(* CancelIsKept is not inductive: that submit() cannot revive a request    *)
(* that was cancelled before it arrived depends on every such request being*)
(* among the early cancellations, and that dropping the oldest of them, or *)
(* all, forgets no other promise depends on none of them having a job.     *)
(*                                                                         *)
(* The second part is about the stores (RoomInv): that one eviction makes  *)
(* room depends on what has ended being exactly what can be evicted, each  *)
(* once, and that nothing is lost on the queue holding exactly what waits. *)
(***************************************************************************)
EXTENDS SttRuntime, SequenceTheorems, FiniteSetTheorems, WellFoundedInduction, TLAPS

\* Every remembered cancellation without a job is among the early ones, and
\* an early one has no job.
EarlyOnes ==
    /\ \A r \in promised : job[r].status = "none" => r \in ToSet(early)
    /\ \A r \in ToSet(early) : r \in Requests /\ job[r].status = "none"

Statuses == {"none", "queued", "running", "completed", "failed", "cancelled",
             "expired"}
Jobs == [status : Statuses, inflight : BOOLEAN, serial : Int]

Shapes ==
    /\ job \in [Requests -> Jobs]
    /\ pending \in Seq(Requests)
    /\ early \in Seq(Requests)
    /\ promised \subseteq Requests
    /\ serial \in Int
    /\ worker = "busy" => held.request \in Requests

SttInv == Shapes /\ EarlyOnes /\ CancelIsKept /\ WorkIsAccountedFor

-----------------------------------------------------------------------------
(* Lemmas about sequences                                                  *)

Less == {p \in Nat \X Nat : p[1] < p[2]}

\* A non-empty set of natural numbers has a least element.
LEMMA LeastElement ==
    ASSUME NEW I, I \subseteq Nat, I # {}
    PROVE  \E k \in I : \A i \in I : k <= i
<1>1. IsWellFoundedOn(Less, Nat)
  BY NatLessThanWellFounded DEF OpToRel, Less
<1>2. PICK k \in I : \A i \in I : <<i, k>> \notin Less
  BY <1>1, WFMin
<1>3. ASSUME NEW i \in I PROVE k <= i
  <2>1. ~(i < k)
    BY <1>2, <1>3 DEF Less
  <2>2. QED
    BY <2>1, <1>3, <1>2
<1>4. QED
  BY <1>3, <1>2

LEMMA InToSet ==
    ASSUME NEW S, NEW s \in Seq(S), NEW x
    PROVE  x \in ToSet(s) <=> \E i \in 1..Len(s) : s[i] = x
  BY DEF ToSet

\* Where the element goes, and what becomes of the others
LEMMA CutAt ==
    ASSUME NEW S, NEW s \in Seq(S), NEW m \in 1..Len(s)
    PROVE  /\ RemoveAt(s, m) \in Seq(S) /\ Len(RemoveAt(s, m)) = Len(s) - 1
           /\ \A i \in 1..Len(RemoveAt(s, m)) :
                 RemoveAt(s, m)[i] = IF i < m THEN s[i] ELSE s[i + 1]
<1> DEFINE u == SubSeq(s, 1, m - 1)
           v == SubSeq(s, m + 1, Len(s))
<1>1. /\ u \in Seq(S) /\ Len(u) = m - 1
      /\ \A i \in 1..Len(u) : u[i] = s[i]
  OBVIOUS
<1>2. /\ v \in Seq(S) /\ Len(v) = Len(s) - m
      /\ \A i \in 1..Len(v) : v[i] = s[m + i]
  OBVIOUS
<1>3. RemoveAt(s, m) = u \o v
  BY DEF RemoveAt
<1> HIDE DEF u, v
<1>4. /\ u \o v \in Seq(S) /\ Len(u \o v) = Len(u) + Len(v)
      /\ \A i \in 1..Len(u \o v) :
            (u \o v)[i] = IF i <= Len(u) THEN u[i] ELSE v[i - Len(u)]
  <2>1. u \in Seq(S) /\ v \in Seq(S)
    BY <1>1, <1>2
  <2>2. QED
    BY <2>1
<1>5. ASSUME NEW i \in 1..Len(u \o v)
      PROVE  (u \o v)[i] = IF i < m THEN s[i] ELSE s[i + 1]
  <2>1. CASE i < m
    BY <2>1, <1>1, <1>2, <1>4
  <2>2. CASE ~(i < m)
    <3>1. (u \o v)[i] = v[i - Len(u)] /\ i - Len(u) \in 1..Len(v)
      BY SMTT(30), <2>2, <1>1, <1>2, <1>4
    <3>2. v[i - Len(u)] = s[m + (i - Len(u))] /\ m + (i - Len(u)) = i + 1
      BY <3>1, <1>1, <1>2
    <3>3. QED
      BY <2>2, <3>1, <3>2
  <2>3. QED
    BY <2>1, <2>2
<1>6. QED
  BY <1>1, <1>2, <1>3, <1>4, <1>5

LEMMA RemoveFirstCuts ==
    ASSUME NEW S, NEW s \in Seq(S), NEW e
    PROVE  \/ e \notin ToSet(s) /\ RemoveFirst(s, e) = s
           \/ \E m \in 1..Len(s) : s[m] = e /\ RemoveFirst(s, e) = RemoveAt(s, m)
<1> DEFINE I == {i \in 1..Len(s) : s[i] = e}
<1>1. CASE I = {}
  BY <1>1, InToSet DEF RemoveFirst
<1>2. CASE I # {}
  <2>1. PICK k \in I : \A i \in I : k <= i
    BY <1>2, LeastElement, I \subseteq Nat
  <2> DEFINE m == CHOOSE x \in I : \A y \in I : x <= y
  <2>2. m \in I
    BY <2>1
  <2>3. RemoveFirst(s, e) = RemoveAt(s, m)
    BY <1>2 DEF RemoveFirst, SelectInSeq, Min
  <2> HIDE DEF m
  <2>4. QED
    BY <2>2, <2>3
<1>3. QED
  BY <1>1, <1>2

\* Removing an element leaves a sequence of elements of the old one.
LEMMA RemoveFirstShrinks ==
    ASSUME NEW S, NEW s \in Seq(S), NEW e
    PROVE  /\ RemoveFirst(s, e) \in Seq(S)
           /\ ToSet(RemoveFirst(s, e)) \subseteq ToSet(s)
<1>1. CASE RemoveFirst(s, e) = s
  BY <1>1
<1>2. ASSUME NEW m \in 1..Len(s), RemoveFirst(s, e) = RemoveAt(s, m)
      PROVE  /\ RemoveFirst(s, e) \in Seq(S)
             /\ ToSet(RemoveFirst(s, e)) \subseteq ToSet(s)
  <2> DEFINE t == RemoveAt(s, m)
  <2>1. /\ t \in Seq(S) /\ Len(t) = Len(s) - 1 /\ Len(s) \in Nat
        /\ \A i \in 1..Len(t) : t[i] = IF i < m THEN s[i] ELSE s[i + 1]
    BY CutAt
  <2> HIDE DEF t
  <2>2. \A i \in 1..Len(t) : \E j \in 1..Len(s) : t[i] = s[j]
    BY <2>1
  <2>3. \A x \in ToSet(t) : x \in ToSet(s)
    BY SMTT(30), <2>1, <2>2, InToSet
  <2>4. QED
    BY <1>2, <2>1, <2>3 DEF t
<1>3. QED
  BY <1>1, <1>2, RemoveFirstCuts

LEMMA TailShrinks ==
    ASSUME NEW S, NEW s \in Seq(S), s # <<>>
    PROVE  /\ Tail(s) \in Seq(S) /\ Head(s) \in S
           /\ ToSet(Tail(s)) \subseteq ToSet(s)
           /\ ToSet(s) \subseteq ToSet(Tail(s)) \cup {Head(s)}
<1>1. Tail(s) \in Seq(S) /\ Head(s) \in S
  OBVIOUS
<1>2. ASSUME NEW x PROVE x \in ToSet(s) <=> x = Head(s) \/ x \in ToSet(Tail(s))
  <2>1. x \in ToSet(s) <=> \E i \in 1..Len(s) : s[i] = x
    BY InToSet
  <2>2. x \in ToSet(Tail(s)) <=> \E i \in 1..Len(Tail(s)) : Tail(s)[i] = x
    BY <1>1, InToSet
  <2>3. \A i \in 1..Len(Tail(s)) : Tail(s)[i] = s[i + 1] /\ i + 1 \in 1..Len(s)
    OBVIOUS
  <2>4. \A i \in 1..Len(s) : i = 1 \/ i - 1 \in 1..Len(Tail(s))
    OBVIOUS
  <2>5. Head(s) = s[1] /\ 1 \in 1..Len(s)
    OBVIOUS
  <2>6. x \in ToSet(s) => x = Head(s) \/ x \in ToSet(Tail(s))
    BY <2>1, <2>2, <2>3, <2>4, <2>5
  <2>7. QED
    BY <2>1, <2>2, <2>3, <2>5, <2>6
<1>3. QED
  BY <1>1, <1>2

LEMMA AppendGrows ==
    ASSUME NEW S, NEW s \in Seq(S), NEW e \in S
    PROVE  /\ Append(s, e) \in Seq(S)
           /\ ToSet(Append(s, e)) = ToSet(s) \cup {e}
<1>1. Append(s, e) \in Seq(S) /\ Len(Append(s, e)) = Len(s) + 1 /\ Len(s) \in Nat
  OBVIOUS
<1>2. \A i \in 1..Len(s) : Append(s, e)[i] = s[i]
  OBVIOUS
<1>3. Append(s, e)[Len(s) + 1] = e
  OBVIOUS
<1>4. ASSUME NEW x PROVE x \in ToSet(Append(s, e)) <=> x \in ToSet(s) \/ x = e
  <2>1. x \in ToSet(s) <=> \E i \in 1..Len(s) : s[i] = x
    BY InToSet
  <2>2. x \in ToSet(Append(s, e)) <=> \E i \in 1..Len(Append(s, e)) : Append(s, e)[i] = x
    BY <1>1, InToSet
  <2>3. QED
    BY <1>1, <1>2, <1>3, <2>1, <2>2
<1>5. QED
  BY <1>1, <1>4

-----------------------------------------------------------------------------
(* The steps                                                               *)

\* What may be evicted is not with the provider.
LEMMA FirstPasses ==
    ASSUME NEW r, r \in First(ended, {q \in Requests : MayEvict(q)})
    PROVE  ~job[r].inflight
  BY DEF First, MayEvict

LEMMA EvictedIsIdle ==
    ASSUME NEW r \in Evicted
    PROVE  ~job[r].inflight
  BY FirstPasses DEF Evicted

LEMMA SubmitKeeps ==
    ASSUME SttInv, NEW r \in Requests, Submit(r)
    PROVE  SttInv'
<1> DEFINE kept == [q \in Requests |-> IF q \in Evicted THEN NoJob ELSE job[q]]
           new == [status |-> "queued", inflight |-> FALSE, serial |-> serial + 1]
<1>0. r \notin ToSet(early) /\ r \notin promised
  BY DEF SttInv, Shapes, EarlyOnes, Submit, Contains, ToSet, NoJob
<1>1. \/ /\ job' = [kept EXCEPT ![r] = new]
         /\ pending' = Append(pending, r)
         /\ serial' = serial + 1
      \/ job' = kept /\ UNCHANGED <<pending, serial>>
  BY DEF Submit
<1>2. job[r] = NoJob /\ promised' = promised \ Evicted
      /\ UNCHANGED <<early, accepting, worker, held>>
  BY DEF Submit
<1>3. /\ serial \in Int /\ job \in [Requests -> Jobs]
      /\ new \in Jobs /\ NoJob \in Jobs
  BY DEF SttInv, Shapes, Jobs, Statuses, NoJob
<1> HIDE DEF new
<1>4. /\ job' \in [Requests -> Jobs]
      /\ \A q \in Requests \ {r} : job'[q] = IF q \in Evicted THEN NoJob ELSE job[q]
      /\ job'[r] \in {NoJob, job[r], new}
  BY <1>1, <1>3 DEF Jobs
<1>5. Shapes'
  <2>1. pending' \in Seq(Requests) /\ serial' \in Int
    <3>1. pending \in Seq(Requests) /\ Append(pending, r) \in Seq(Requests)
      BY AppendGrows DEF SttInv, Shapes
    <3>2. pending' \in {pending, Append(pending, r)} /\ serial' \in {serial, serial + 1}
      BY <1>1
    <3>3. QED
      BY <1>3, <3>1, <3>2
  <2>2. QED
    BY <1>2, <1>4, <2>1 DEF SttInv, Shapes
<1>6. EarlyOnes'
  BY <1>0, <1>2, <1>4 DEF SttInv, Shapes, EarlyOnes, NoJob
<1>7. CancelIsKept'
  BY <1>0, <1>2, <1>4 DEF SttInv, Shapes, CancelIsKept
<1>8. ~job'[r].inflight /\ ~job[r].inflight
  BY <1>2, <1>4 DEF new, NoJob
<1>9. \A q \in Requests \ {r} : /\ job'[q].inflight = job[q].inflight
                                /\ job[q].inflight => job'[q].serial = job[q].serial
  BY <1>4, EvictedIsIdle DEF NoJob, SttInv, Shapes, Jobs
<1>10. held' = held /\ worker' = worker
  BY <1>2
<1>11. WorkIsAccountedFor'
  <2>1. \A q \in Requests : job'[q].inflight <=> worker' = "busy" /\ held'.request = q
    BY <1>8, <1>9, <1>10 DEF SttInv, WorkIsAccountedFor
  <2>2. ASSUME worker' = "busy" PROVE job'[held'.request].serial = held'.serial
    <3>1. held.request \in Requests \ {r} /\ job[held.request].inflight
      BY <2>2, <1>8, <1>10 DEF SttInv, WorkIsAccountedFor, Shapes
    <3>2. QED
      BY <3>1, <2>2, <1>9, <1>10 DEF SttInv, WorkIsAccountedFor
  <2>3. QED
    BY <2>1, <2>2 DEF WorkIsAccountedFor
<1>12. QED
  BY <1>5, <1>6, <1>7, <1>11 DEF SttInv

\* What leaves the jobs with the provider alone keeps the accounts.
LEMMA SameWork ==
    ASSUME SttInv, UNCHANGED <<held, worker>>,
           \A r \in Requests : /\ job'[r].inflight = job[r].inflight
                               /\ job'[r].serial = job[r].serial
    PROVE  WorkIsAccountedFor'
<1>1. held' = held /\ worker' = worker
  OBVIOUS
<1>2. worker = "busy" => held.request \in Requests
  BY DEF SttInv, Shapes
<1>3. QED
  BY <1>1, <1>2 DEF SttInv, WorkIsAccountedFor

LEMMA StatusOf ==
    ASSUME NEW j \in [Requests -> Jobs], NEW r \in Requests, NEW status \in Statuses,
           NEW k, k = [j EXCEPT ![r].status = status]
    PROVE  /\ k \in [Requests -> Jobs]
           /\ k[r].status = status
           /\ \A q \in Requests : /\ k[q].inflight = j[q].inflight
                                  /\ k[q].serial = j[q].serial
                                  /\ q # r => k[q] = j[q]
  BY DEF Jobs

LEMMA CancelKeeps ==
    ASSUME SttInv, NEW r \in Requests, Cancel(r) \/ CancelEarly(r)
    PROVE  SttInv'
<1>1. CASE Cancel(r)
  <2>1. pending' \in Seq(Requests)
    BY <1>1, RemoveFirstShrinks DEF SttInv, Shapes, Cancel
  <2>2. /\ job' \in [Requests -> Jobs]
        /\ job'[r].status = "cancelled"
        /\ \A q \in Requests : /\ job'[q].inflight = job[q].inflight
                               /\ job'[q].serial = job[q].serial
                               /\ q # r => job'[q] = job[q]
    BY SMTT(30), <1>1, StatusOf DEF Statuses, SttInv, Shapes, Cancel, Ends
  <2>3. /\ promised' = promised \cup {r}
        /\ UNCHANGED <<early, accepting, worker, held, serial>>
        /\ job[r].status # "none"
    BY <1>1 DEF Cancel
  <2>4. Shapes' /\ CancelIsKept'
    BY <2>1, <2>2, <2>3 DEF SttInv, Shapes, CancelIsKept
  <2>5. EarlyOnes'
    BY <2>2, <2>3 DEF SttInv, Shapes, EarlyOnes
  <2>6. QED
    BY <2>2, <2>3, <2>4, <2>5, SameWork DEF SttInv
<1>2. CASE CancelEarly(r)
  <2> DEFINE kept == IF Len(early) >= JobCapacity THEN Tail(early) ELSE early
  <2>1. JobCapacity > 0 /\ early \in Seq(Requests)
    BY SttAssumption DEF SttInv, Shapes
  <2>2. kept \in Seq(Requests) /\ ToSet(kept) \subseteq ToSet(early)
    BY <2>1, TailShrinks, SttAssumption
  <2> HIDE DEF kept
  <2>3. early' = Append(RemoveFirst(kept, r), r)
    BY <1>2 DEF CancelEarly, Remembered, kept
  <2>4. early' \in Seq(Requests) /\ ToSet(early') \subseteq ToSet(early) \cup {r}
    BY <2>2, <2>3, RemoveFirstShrinks, AppendGrows
  <2>5. ToSet(early') \subseteq Requests
    BY <2>4, InToSet
  <2>6. QED
    BY <1>2, <2>4, <2>5 DEF SttInv, Shapes, EarlyOnes, CancelIsKept,
       WorkIsAccountedFor, CancelEarly, NoJob
<1>3. QED
  BY <1>1, <1>2

LEMMA ShutdownKeeps ==
    ASSUME SttInv, Shutdown
    PROVE  SttInv'
<1>1. early' = <<>> /\ pending' = <<>> /\ ToSet(<<>>) = {}
  BY DEF Shutdown, ToSet
<1>2. \A r \in Requests :
        /\ job'[r] \in Jobs
        /\ job'[r].inflight = job[r].inflight
        /\ job'[r].serial = job[r].serial
        /\ job'[r].status = IF r \in Open THEN "cancelled" ELSE job[r].status
  BY DEF Shutdown, SttInv, Shapes, Jobs, Statuses
<1>3. job' \in [Requests -> Jobs]
  BY <1>2 DEF Shutdown
<1>4. /\ promised' = (promised \cup Open) \ ToSet(early)
      /\ UNCHANGED <<worker, held, serial>>
  BY DEF Shutdown
<1>5. Shapes' /\ EarlyOnes' /\ CancelIsKept'
  BY <1>1, <1>2, <1>3, <1>4
     DEF SttInv, Shapes, EarlyOnes, CancelIsKept, Open
<1>6. QED
  BY <1>2, <1>4, <1>5, SameWork DEF SttInv

LEMMA TimeKeeps ==
    ASSUME SttInv, Expire \/ Prune
    PROVE  SttInv'
<1>1. CASE Expire
  <2>1. PICK r : /\ job[r].status \in Terminal
                 /\ job' = [job EXCEPT ![r].status = "expired"]
    BY <1>1 DEF Expire, First
  <2>2. /\ job' \in [Requests -> Jobs]
        /\ r \in Requests => job'[r].status = "expired"
        /\ \A q \in Requests : /\ job'[q].inflight = job[q].inflight
                               /\ job'[q].serial = job[q].serial
                               /\ q # r => job'[q] = job[q]
    <3>1. CASE r \in Requests
      <4>1. job \in [Requests -> Jobs] /\ "expired" \in Statuses
        BY DEF Statuses, SttInv, Shapes
      <4>2. QED
        BY <4>1, <3>1, <2>1, StatusOf
    <3>2. CASE r \notin Requests
      BY <3>2, <2>1 DEF SttInv, Shapes
    <3>3. QED
      BY <3>1, <3>2
  <2>3. UNCHANGED <<pending, early, accepting, worker, held, serial, promised>>
    BY <1>1 DEF Expire
  <2>4. Shapes' /\ CancelIsKept'
    BY <2>2, <2>3 DEF SttInv, Shapes, CancelIsKept
  <2>5. EarlyOnes'
    BY <2>1, <2>2, <2>3 DEF SttInv, Shapes, EarlyOnes, Terminal
  <2>6. QED
    BY <2>2, <2>3, <2>4, <2>5, SameWork DEF SttInv
<1>2. CASE Prune
  <2>1. /\ early' \in Seq(Requests)
        /\ ToSet(early') \subseteq ToSet(early)
        /\ ToSet(early) \subseteq ToSet(early') \cup {Head(early)}
    BY <1>2, TailShrinks DEF Prune, SttInv, Shapes
  <2>2. QED
    BY <1>2, <2>1 DEF SttInv, Shapes, EarlyOnes, CancelIsKept, WorkIsAccountedFor,
       Prune
<1>3. QED
  BY <1>1, <1>2

LEMMA WorkerKeeps ==
    ASSUME SttInv, WorkerTakes \/ ProviderReturns \/ WorkerEnds
    PROVE  SttInv'
<1>1. CASE WorkerTakes
  <2> DEFINE r == Head(pending)
  <2>1. r \in Requests /\ pending' \in Seq(Requests)
    BY <1>1 DEF WorkerTakes, SttInv, Shapes
  <2>2. UNCHANGED <<early, serial, promised>> /\ worker = "idle"
    BY <1>1 DEF WorkerTakes
  <2>3. CASE job[r].status = "queued"
    <3>1. /\ job' = [job EXCEPT ![r].status = "running", ![r].inflight = TRUE]
          /\ held' = [request |-> r, serial |-> job[r].serial]
          /\ worker' = "busy"
      BY <1>1, <2>3 DEF WorkerTakes
    <3>2. /\ job' \in [Requests -> Jobs]
          /\ job'[r].status = "running" /\ job'[r].inflight
          /\ job'[r].serial = job[r].serial
          /\ \A q \in Requests : q # r => job'[q] = job[q]
      BY <2>1, <3>1 DEF SttInv, Shapes, Jobs, Statuses
    <3> HIDE DEF r
    <3>3. Shapes' /\ EarlyOnes' /\ CancelIsKept'
      BY <2>1, <2>2, <2>3, <3>1, <3>2 DEF SttInv, Shapes, EarlyOnes, CancelIsKept
    <3>4. WorkIsAccountedFor'
      BY <2>1, <2>2, <3>1, <3>2 DEF SttInv, WorkIsAccountedFor
    <3>5. QED
      BY <3>3, <3>4 DEF SttInv
  <2>4. CASE job[r].status # "queued"
    BY <1>1, <2>1, <2>4 DEF SttInv, Shapes, EarlyOnes, CancelIsKept,
       WorkIsAccountedFor, WorkerTakes
  <2>5. QED
    BY <2>3, <2>4
<1>2. CASE ProviderReturns
  <2> DEFINE r == held.request
  <2>1. r \in Requests /\ job[r].serial = held.serial /\ worker = "busy"
    BY <1>2 DEF ProviderReturns, SttInv, Shapes, WorkIsAccountedFor
  <2>2. UNCHANGED <<pending, early, held, serial, promised>> /\ worker' = "idle"
    BY <1>2 DEF ProviderReturns
  <2>3. Settled(r) \in [Requests -> Jobs] /\ ~Settled(r)[r].inflight
        /\ Settled(r)[r].status = job[r].status
        /\ \A q \in Requests : q # r => Settled(r)[q] = job[q]
    BY <2>1 DEF Settled, SttInv, Shapes, Jobs
  <2>4. \/ job' = Settled(r)
        \/ /\ job[r].status = "running"
           /\ \E status \in {"completed", "failed"} :
                 job' = [Settled(r) EXCEPT ![r].status = status]
    BY <1>2, <2>1 DEF ProviderReturns, MayStore
  <2> HIDE DEF r
  <2>5. /\ job' \in [Requests -> Jobs] /\ ~job'[r].inflight
        /\ \A q \in Requests : q # r => job'[q] = job[q]
        /\ \/ job'[r].status = job[r].status
           \/ job[r].status = "running" /\ job'[r].status \in {"completed", "failed"}
    <3>1. CASE job' = Settled(r)
      BY <3>1, <2>3
    <3>2. ASSUME NEW status \in {"completed", "failed"}, job[r].status = "running",
                 job' = [Settled(r) EXCEPT ![r].status = status]
          PROVE  /\ job' \in [Requests -> Jobs] /\ ~job'[r].inflight
                 /\ \A q \in Requests : q # r => job'[q] = job[q]
                 /\ job'[r].status \in {"completed", "failed"}
      BY <2>1, <2>3, <3>2, StatusOf DEF Statuses
    <3>3. QED
      BY <2>4, <3>1, <3>2
  <2>6. Shapes' /\ EarlyOnes' /\ CancelIsKept'
    BY <2>1, <2>2, <2>5 DEF SttInv, Shapes, EarlyOnes, CancelIsKept
  <2>7. WorkIsAccountedFor'
    BY <2>1, <2>2, <2>5 DEF SttInv, WorkIsAccountedFor, r
  <2>8. QED
    BY <2>6, <2>7 DEF SttInv
<1>3. CASE WorkerEnds
  BY <1>3 DEF SttInv, Shapes, EarlyOnes, CancelIsKept, WorkIsAccountedFor,
     WorkerEnds
<1>4. QED
  BY <1>1, <1>2, <1>3

-----------------------------------------------------------------------------
(* The theorems                                                            *)

THEOREM SttInvariance == Spec => []SttInv
<1>1. Init => SttInv
  BY DEF Init, SttInv, Shapes, EarlyOnes, CancelIsKept, WorkIsAccountedFor,
     NoJob, Jobs, Statuses, ToSet
<1>2. SttInv /\ [Next]_vars => SttInv'
  <2>1. ASSUME SttInv, Next PROVE SttInv'
    BY <2>1, SubmitKeeps, CancelKeeps, ShutdownKeeps, TimeKeeps, WorkerKeeps
       DEF Next
  <2>2. ASSUME SttInv, UNCHANGED vars PROVE SttInv'
    BY <2>2 DEF SttInv, Shapes, EarlyOnes, CancelIsKept, WorkIsAccountedFor, vars
  <2>3. QED
    BY <2>1, <2>2
<1>3. QED
  BY <1>1, <1>2, PTL DEF Spec

\* cancel(), cancel_request() and _work: no job of a request whose cancellation
\* is remembered waits, runs or has a result.
THEOREM CancellationsAreKept == Spec => []CancelIsKept
<1>1. SttInv => CancelIsKept
  BY DEF SttInv
<1>2. QED
  BY <1>1, SttInvariance, PTL

\* _evict_one_locked and _work: a job is marked as being with the provider
\* exactly while the worker has it in hand, and it is not evicted meanwhile.
THEOREM WorkStaysAccountedFor == Spec => []WorkIsAccountedFor
<1>1. SttInv => WorkIsAccountedFor
  BY DEF SttInv
<1>2. QED
  BY <1>1, SttInvariance, PTL

-----------------------------------------------------------------------------
(* Room: the stores hold what they should, and never more than they may    *)

NoDups(s) == \A i, j \in 1..Len(s) : s[i] = s[j] => i = j

\* Without duplicates, exactly the element goes.
LEMMA RemoveFirstDrops ==
    ASSUME NEW S, NEW s \in Seq(S), NEW e
    PROVE  /\ RemoveFirst(s, e) \in Seq(S) /\ Len(RemoveFirst(s, e)) <= Len(s)
           /\ NoDups(s) => /\ NoDups(RemoveFirst(s, e))
                           /\ ToSet(RemoveFirst(s, e)) = ToSet(s) \ {e}
<1>1. CASE e \notin ToSet(s) /\ RemoveFirst(s, e) = s
  BY <1>1
<1>2. ASSUME NEW m \in 1..Len(s), s[m] = e, RemoveFirst(s, e) = RemoveAt(s, m)
      PROVE  /\ RemoveFirst(s, e) \in Seq(S) /\ Len(RemoveFirst(s, e)) <= Len(s)
             /\ NoDups(s) => /\ NoDups(RemoveFirst(s, e))
                             /\ ToSet(RemoveFirst(s, e)) = ToSet(s) \ {e}
  <2> DEFINE t == RemoveAt(s, m)
  <2>1. /\ t \in Seq(S) /\ Len(t) = Len(s) - 1 /\ Len(s) \in Nat
        /\ \A i \in 1..Len(t) : t[i] = IF i < m THEN s[i] ELSE s[i + 1]
    BY CutAt
  <2> HIDE DEF t
  <2>2. ASSUME NoDups(s), NEW i \in 1..Len(t), NEW j \in 1..Len(t), t[i] = t[j]
        PROVE  i = j
    <3> DEFINE k == IF i < m THEN i ELSE i + 1
               l == IF j < m THEN j ELSE j + 1
    <3>1. k \in 1..Len(s) /\ l \in 1..Len(s) /\ t[i] = s[k] /\ t[j] = s[l]
      BY <2>1
    <3>2. k = l
      BY <2>2, <3>1 DEF NoDups
    <3>3. QED
      BY <3>2
  <2>3. ASSUME NoDups(s), NEW x PROVE x \in ToSet(t) <=> x \in ToSet(s) /\ x # e
    <3>1. /\ x \in ToSet(s) <=> \E i \in 1..Len(s) : s[i] = x
          /\ x \in ToSet(t) <=> \E i \in 1..Len(t) : t[i] = x
      BY <2>1, InToSet
    <3>2. ASSUME NEW i \in 1..Len(t), t[i] = x PROVE x \in ToSet(s) /\ x # e
      BY <1>2, <2>1, <2>3, <3>1, <3>2 DEF NoDups
    <3>3. ASSUME NEW i \in 1..Len(s), s[i] = x, x # e PROVE x \in ToSet(t)
      <4>1. CASE i < m
        BY <2>1, <3>1, <3>3, <4>1
      <4>2. CASE i > m
        <5>1. i - 1 \in 1..Len(t) /\ t[i - 1] = s[i]
          BY <2>1, <4>2
        <5>2. QED
          BY <3>1, <3>3, <5>1
      <4>3. QED
        BY <1>2, <3>3, <4>1, <4>2
    <3>4. QED
      BY <3>1, <3>2, <3>3
  <2>4. QED
    BY <1>2, <2>1, <2>2, <2>3 DEF NoDups, t
<1>3. QED
  BY <1>1, <1>2, RemoveFirstCuts, LenProperties

LEMMA AppendFresh ==
    ASSUME NEW S, NEW s \in Seq(S), NEW e \in S, NoDups(s), e \notin ToSet(s)
    PROVE  NoDups(Append(s, e))
<1>1. /\ Len(Append(s, e)) = Len(s) + 1 /\ Len(s) \in Nat
      /\ \A i \in 1..Len(s) : Append(s, e)[i] = s[i] /\ s[i] # e
      /\ Append(s, e)[Len(s) + 1] = e
  BY InToSet
<1>2. QED
  BY <1>1 DEF NoDups

LEMMA TailOfDistinct ==
    ASSUME NEW S, NEW s \in Seq(S), s # <<>>, NoDups(s)
    PROVE  NoDups(Tail(s)) /\ ToSet(Tail(s)) = ToSet(s) \ {Head(s)}
<1>1. /\ Len(Tail(s)) = Len(s) - 1 /\ Len(s) \in Nat
      /\ \A i \in 1..Len(Tail(s)) : Tail(s)[i] = s[i + 1] /\ i + 1 \in 1..Len(s)
      /\ Head(s) = s[1] /\ 1 \in 1..Len(s) /\ Tail(s) \in Seq(S)
  OBVIOUS
<1>2. NoDups(Tail(s)) /\ \A i \in 1..Len(Tail(s)) : Tail(s)[i] # Head(s)
  BY <1>1 DEF NoDups
<1>3. Head(s) \notin ToSet(Tail(s))
  BY ZenonT(60), <1>1, <1>2, InToSet
<1>4. QED
  BY <1>2, <1>3, TailShrinks

\* The elements of a finite set in a sequence, each once
LEMMA InSomeOrder ==
    ASSUME NEW T, IsFiniteSet(T)
    PROVE  /\ SetToSeq(T) \in Seq(T) /\ NoDups(SetToSeq(T))
           /\ ToSet(SetToSeq(T)) = T
<1> DEFINE n == Cardinality(T)
           f == SetToSeq(T)
<1>1. n \in Nat /\ ExistsBijection(1..n, T)
  BY FS_CardinalityType
<1>2. \E b \in [1..n -> T] : IsInjective(b)
  BY <1>1 DEF ExistsBijection, Bijection, Injection
<1>3. f \in [1..n -> T] /\ IsInjective(f)
  BY <1>2 DEF SetToSeq
<1> HIDE DEF f
<1>4. f \in Injection(1..n, T)
  BY <1>3 DEF Injection
<1>5. Cardinality(1..n) = n
  BY <1>1, FS_Interval
<1>6. f \in Surjection(1..n, T)
  BY <1>4, <1>5, FS_Injection
<1>7. \A x \in T : \E i \in 1..n : f[i] = x
  BY <1>6 DEF Surjection
<1>8. f \in Seq(T) /\ Len(f) = n /\ DOMAIN f = 1..n
  BY <1>1, <1>3
<1>9. QED
  BY <1>3, <1>7, <1>8 DEF NoDups, IsInjective, ToSet, f

LEMMA ConcatDistinct ==
    ASSUME NEW S, NEW s \in Seq(S), NEW t \in Seq(S), NoDups(s), NoDups(t),
           ToSet(s) \cap ToSet(t) = {}
    PROVE  /\ s \o t \in Seq(S) /\ NoDups(s \o t)
           /\ ToSet(s \o t) = ToSet(s) \cup ToSet(t)
<1>1. /\ s \o t \in Seq(S) /\ Len(s \o t) = Len(s) + Len(t)
      /\ Len(s) \in Nat /\ Len(t) \in Nat
      /\ \A i \in 1..Len(s \o t) :
            (s \o t)[i] = IF i <= Len(s) THEN s[i] ELSE t[i - Len(s)]
  OBVIOUS
<1>2. \A i \in 1..Len(s), j \in 1..Len(t) : s[i] # t[j]
  BY InToSet
<1>3. NoDups(s \o t)
  <2>1. ASSUME NEW i \in 1..Len(s \o t), NEW j \in 1..Len(s \o t), (s \o t)[i] = (s \o t)[j]
        PROVE  i = j
    <3>1. CASE i <= Len(s) /\ j <= Len(s)
      BY <1>1, <2>1, <3>1 DEF NoDups
    <3>2. CASE i > Len(s) /\ j > Len(s)
      <4>1. i - Len(s) \in 1..Len(t) /\ j - Len(s) \in 1..Len(t)
        BY <1>1, <3>2
      <4>2. t[i - Len(s)] = t[j - Len(s)]
        BY <1>1, <2>1, <3>2
      <4>3. i - Len(s) = j - Len(s)
        BY <4>1, <4>2 DEF NoDups
      <4>4. QED
        BY <1>1, <4>3
    <3>3. CASE i <= Len(s) /\ j > Len(s)
      <4>1. j - Len(s) \in 1..Len(t) /\ i \in 1..Len(s)
        BY <1>1, <3>3
      <4>2. s[i] = t[j - Len(s)]
        BY <1>1, <2>1, <3>3
      <4>3. QED
        BY <1>2, <4>1, <4>2
    <3>4. CASE i > Len(s) /\ j <= Len(s)
      <4>1. i - Len(s) \in 1..Len(t) /\ j \in 1..Len(s)
        BY <1>1, <3>4
      <4>2. s[j] = t[i - Len(s)]
        BY <1>1, <2>1, <3>4
      <4>3. QED
        BY <1>2, <4>1, <4>2
    <3>5. QED
      BY <1>1, <3>1, <3>2, <3>3, <3>4
  <2>2. QED
    BY <2>1 DEF NoDups
<1>4. ASSUME NEW x PROVE x \in ToSet(s \o t) <=> x \in ToSet(s) \/ x \in ToSet(t)
  <2>1. /\ x \in ToSet(s) <=> \E i \in 1..Len(s) : s[i] = x
        /\ x \in ToSet(t) <=> \E i \in 1..Len(t) : t[i] = x
        /\ x \in ToSet(s \o t) <=> \E i \in 1..Len(s \o t) : (s \o t)[i] = x
    BY ZenonT(60), <1>1, InToSet
  <2>2. ASSUME NEW i \in 1..Len(s \o t), (s \o t)[i] = x
        PROVE  x \in ToSet(s) \/ x \in ToSet(t)
    <3>1. i \in 1..Len(s) \/ i - Len(s) \in 1..Len(t)
      BY <1>1
    <3>2. QED
      BY <1>1, <2>1, <2>2, <3>1
  <2>3. ASSUME NEW i \in 1..Len(s), s[i] = x PROVE x \in ToSet(s \o t)
    BY <1>1, <2>1, <2>3
  <2>4. ASSUME NEW i \in 1..Len(t), t[i] = x PROVE x \in ToSet(s \o t)
    <3>1. i + Len(s) \in 1..Len(s \o t) /\ (s \o t)[i + Len(s)] = x
      <4>1. i + Len(s) \in 1..Len(s \o t) /\ ~(i + Len(s) <= Len(s)) /\ (i + Len(s)) - Len(s) = i
        BY <1>1
      <4>2. QED
        BY <1>1, <2>4, <4>1
    <3>2. QED
      BY <2>1, <3>1
  <2>5. QED
    BY <2>1, <2>2, <2>3, <2>4
<1>5. QED
  BY <1>1, <1>3, <1>4

Waiting == {r \in Requests : job[r].status = "queued"}
Done == {r \in Requests : job[r].status \in Terminal \cup {"expired"}}

\* submit(), _work and _terminalize_locked: the queue holds each request that
\* waits once, and nothing else, so none is forgotten and none is run twice.
QueueIsExact == NoDups(pending) /\ ToSet(pending) = Waiting

\* submit() and cancel_request(): one eviction makes the room that is needed, and
\* no store ever exceeds its capacity.
WithinCapacity ==
    /\ IsFiniteSet(Stored) /\ Cardinality(Stored) <= JobCapacity
    /\ Len(pending) <= QueueCapacity
    /\ Len(early) <= JobCapacity

\* What has ended can be found again, once, to expire and be evicted.
EndedIsExact == ended \in Seq(Requests) /\ NoDups(ended) /\ ToSet(ended) = Done

RoomInv == QueueIsExact /\ EndedIsExact /\ WithinCapacity

LEMMA Capacities ==
    QueueCapacity \in Nat \ {0} /\ JobCapacity \in Nat \ {0} /\ QueueCapacity <= JobCapacity
  BY SttAssumption

LEMMA FirstIsOne ==
    ASSUME NEW s \in Seq(Requests), NEW S,
           NEW x \in First(s, S), NEW y \in First(s, S)
    PROVE  x = y /\ x \in S /\ x \in ToSet(s)
<1>1. PICK i \in 1..Len(s) : x = s[i] /\ s[i] \in S /\ \A k \in 1..(i - 1) : s[k] \notin S
  BY DEF First
<1>2. PICK j \in 1..Len(s) : y = s[j] /\ s[j] \in S /\ \A k \in 1..(j - 1) : s[k] \notin S
  BY DEF First
<1>3. ~(i < j) /\ ~(j < i)
  BY <1>1, <1>2
<1>4. QED
  BY <1>1, <1>2, <1>3, InToSet

\* The job evicted has ended, and it is the only one.
LEMMA EvictionMakesRoom ==
    ASSUME SttInv, RoomInv, Cardinality(Stored) < JobCapacity \/ Evicted # {},
           NEW e, e = IF Evicted = {} THEN ended
                      ELSE RemoveFirst(ended, CHOOSE q \in Evicted : TRUE)
    PROVE  /\ Evicted \subseteq Done
           /\ IsFiniteSet(Stored \ Evicted) /\ Cardinality(Stored \ Evicted) < JobCapacity
           /\ Cardinality(Stored \ Evicted) \in Nat
           /\ e \in Seq(Requests) /\ NoDups(e) /\ ToSet(e) = Done \ Evicted
<1>1. /\ IsFiniteSet(Stored) /\ Cardinality(Stored) <= JobCapacity
      /\ Cardinality(Stored) \in Nat /\ JobCapacity \in Nat
      /\ ended \in Seq(Requests) /\ NoDups(ended) /\ ToSet(ended) = Done
  BY FS_CardinalityType, Capacities DEF RoomInv, WithinCapacity, EndedIsExact
<1>2. CASE Evicted = {}
  <2>1. Stored \ Evicted = Stored /\ Done \ Evicted = Done
    BY <1>2
  <2>2. QED
    BY <1>1, <1>2, <2>1
<1>3. CASE Evicted # {}
  <2> DEFINE v == CHOOSE q \in Evicted : TRUE
  <2>1. v \in Evicted
    BY <1>3
  <2> HIDE DEF v
  <2>2. Evicted = First(ended, {q \in Requests : MayEvict(q)})
    BY <1>3 DEF Evicted
  <2>3. \A q \in Evicted : q = v /\ q \in Done
    BY <1>1, <2>1, <2>2, FirstIsOne
  <2>4. Evicted = {v} /\ v \in Stored
    BY <2>1, <2>3 DEF Done, Stored, Terminal
  <2>5. IsFiniteSet(Stored \ {v}) /\ Cardinality(Stored \ {v}) = Cardinality(Stored) - 1
    BY <1>1, <2>4, FS_RemoveElement
  <2>6. e = RemoveFirst(ended, v)
    BY <1>3 DEF v
  <2>7. e \in Seq(Requests) /\ NoDups(e) /\ ToSet(e) = Done \ {v}
    <3>1. /\ RemoveFirst(ended, v) \in Seq(Requests) /\ NoDups(RemoveFirst(ended, v))
          /\ ToSet(RemoveFirst(ended, v)) = ToSet(ended) \ {v}
      BY <1>1, RemoveFirstDrops
    <3>2. QED
      BY <1>1, <2>6, <3>1
  <2>8. Cardinality(Stored) - 1 < JobCapacity
    BY <1>1
  <2>9. Cardinality(Stored \ {v}) \in Nat
    BY <2>5, FS_CardinalityType
  <2>10. QED
    BY <2>3, <2>4, <2>5, <2>7, <2>8, <2>9
<1>4. QED
  BY <1>2, <1>3

LEMMA SubmitRoom ==
    ASSUME SttInv, RoomInv, NEW r \in Requests, Submit(r)
    PROVE  RoomInv'
<1> DEFINE kept == [q \in Requests |-> IF q \in Evicted THEN NoJob ELSE job[q]]
           new == [status |-> "queued", inflight |-> FALSE, serial |-> serial + 1]
<1>1. /\ Evicted \subseteq Done
      /\ IsFiniteSet(Stored \ Evicted) /\ Cardinality(Stored \ Evicted) < JobCapacity
      /\ Cardinality(Stored \ Evicted) \in Nat
      /\ ended' \in Seq(Requests) /\ NoDups(ended') /\ ToSet(ended') = Done \ Evicted
  BY EvictionMakesRoom DEF Submit
<1>2. job[r] = NoJob /\ NoJob.status = "none" /\ early' = early
  BY DEF Submit, NoJob
<1>3. r \notin Stored /\ r \notin Done /\ r \notin Waiting
  BY <1>2 DEF Stored, Done, Waiting, Terminal
<1>4. pending \in Seq(Requests) /\ NoDups(pending) /\ ToSet(pending) = Waiting
      /\ Len(pending) \in Nat /\ Len(pending) <= QueueCapacity /\ Len(early) <= JobCapacity
  BY LenProperties DEF SttInv, Shapes, RoomInv, QueueIsExact, WithinCapacity
<1>5. CASE Len(pending) < QueueCapacity
  <2>1. job' = [kept EXCEPT ![r] = new] /\ pending' = Append(pending, r)
    BY <1>5 DEF Submit
  <2>2. /\ job'[r].status = "queued"
        /\ \A q \in Requests \ {r} :
              job'[q].status = IF q \in Evicted THEN "none" ELSE job[q].status
    BY <1>2, <2>1
  <2>3. Stored' = (Stored \ Evicted) \cup {r}
    BY <1>3, <2>2 DEF Stored
  <2>4. Done' = Done \ Evicted
    BY <1>3, <2>2 DEF Done, Terminal
  <2>5. Waiting' = Waiting \cup {r}
    BY <1>1, <1>3, <2>2 DEF Waiting, Done, Terminal
  <2>6. IsFiniteSet(Stored') /\ Cardinality(Stored') <= JobCapacity
    <3>1. r \notin Stored \ Evicted
      BY <1>3
    <3>2. Cardinality((Stored \ Evicted) \cup {r}) = Cardinality(Stored \ Evicted) + 1
          /\ IsFiniteSet((Stored \ Evicted) \cup {r})
      BY <1>1, <3>1, FS_AddElement
    <3>3. QED
      BY <1>1, <2>3, <3>2, Capacities
  <2>7. /\ pending' \in Seq(Requests) /\ NoDups(pending') /\ ToSet(pending') = Waiting'
        /\ Len(pending') <= QueueCapacity
    <3>1. NoDups(Append(pending, r)) /\ ToSet(Append(pending, r)) = Waiting \cup {r}
      BY <1>3, <1>4, AppendFresh, AppendGrows
    <3>2. Len(Append(pending, r)) = Len(pending) + 1 /\ Append(pending, r) \in Seq(Requests)
      BY <1>4
    <3>3. QED
      BY <1>4, <1>5, <2>1, <2>5, <3>1, <3>2, Capacities
  <2>8. QED
    BY <1>1, <1>2, <1>4, <2>4, <2>6, <2>7
       DEF RoomInv, QueueIsExact, EndedIsExact, WithinCapacity
<1>6. CASE ~(Len(pending) < QueueCapacity)
  <2>1. job' = kept /\ pending' = pending
    BY <1>6 DEF Submit
  <2>2. \A q \in Requests : job'[q].status = IF q \in Evicted THEN "none" ELSE job[q].status
    BY <1>2, <2>1
  <2>3. Stored' = Stored \ Evicted /\ Done' = Done \ Evicted
    BY <2>2 DEF Stored, Done, Terminal
  <2>4. Waiting' = Waiting
    BY <1>1, <2>2 DEF Waiting, Done, Terminal
  <2>5. QED
    BY <1>1, <1>2, <1>4, <2>1, <2>3, <2>4, Capacities
       DEF RoomInv, QueueIsExact, EndedIsExact, WithinCapacity
<1>7. QED
  BY <1>5, <1>6

\* Where a job has ended, and nothing else has changed its status
LEMMA EndsRoom ==
    ASSUME SttInv, RoomInv, NEW r \in Requests, NEW status \in Terminal,
           job[r].status # "none",
           \A q \in Requests : job'[q].status = IF q = r THEN status ELSE job[q].status,
           ended' = Append(RemoveFirst(ended, r), r)
    PROVE  EndedIsExact' /\ Stored' = Stored /\ Waiting' = Waiting \ {r}
<1>1. Done' = Done \cup {r}
  BY DEF Done, Terminal
<1>2. ended \in Seq(Requests) /\ NoDups(ended) /\ ToSet(ended) = Done
  BY DEF RoomInv, EndedIsExact
<1>3. /\ RemoveFirst(ended, r) \in Seq(Requests) /\ NoDups(RemoveFirst(ended, r))
      /\ ToSet(RemoveFirst(ended, r)) = Done \ {r}
  BY <1>2, RemoveFirstDrops
<1>4. /\ ended' \in Seq(Requests) /\ NoDups(ended')
      /\ ToSet(ended') = (Done \ {r}) \cup {r}
  BY <1>3, AppendFresh, AppendGrows
<1>5. EndedIsExact'
  BY <1>1, <1>4 DEF EndedIsExact
<1>6. Stored' = Stored /\ Waiting' = Waiting \ {r}
  BY DEF Stored, Waiting, Terminal
<1>7. QED
  BY <1>5, <1>6

LEMMA CancelRoom ==
    ASSUME SttInv, RoomInv, NEW r \in Requests, Cancel(r) \/ CancelEarly(r)
    PROVE  RoomInv'
<1>1. /\ pending \in Seq(Requests) /\ NoDups(pending) /\ ToSet(pending) = Waiting
      /\ Len(pending) \in Nat /\ early \in Seq(Requests) /\ Len(early) \in Nat
      /\ Len(pending) <= QueueCapacity /\ Len(early) <= JobCapacity
  BY LenProperties DEF SttInv, Shapes, RoomInv, QueueIsExact, WithinCapacity
<1>2. CASE Cancel(r)
  <2>1. \A q \in Requests : job'[q].status = IF q = r THEN "cancelled" ELSE job[q].status
    BY <1>2, StatusOf DEF Statuses, SttInv, Shapes, Cancel, Ends
  <2>2. EndedIsExact' /\ Stored' = Stored /\ Waiting' = Waiting \ {r}
    <3>1. job[r].status # "none" /\ ended' = Append(RemoveFirst(ended, r), r)
      BY <1>2 DEF Cancel, Ends
    <3>2. QED
      BY <2>1, <3>1, EndsRoom DEF Terminal
  <2>3. pending' = RemoveFirst(pending, r) /\ early' = early
    BY <1>2 DEF Cancel
  <2>4. /\ NoDups(pending') /\ ToSet(pending') = Waiting \ {r} /\ Len(pending') <= Len(pending)
        /\ Len(pending') \in Nat
    BY <1>1, <2>3, RemoveFirstDrops, LenProperties
  <2>5. QED
    BY <1>1, <2>2, <2>3, <2>4, Capacities DEF RoomInv, QueueIsExact, WithinCapacity
<1>3. CASE CancelEarly(r)
  <2> DEFINE kept == IF Len(early) >= JobCapacity THEN Tail(early) ELSE early
  <2>1. kept \in Seq(Requests) /\ Len(kept) \in Nat /\ Len(kept) < JobCapacity
    <3>1. CASE Len(early) >= JobCapacity
      <4>1. early # <<>> /\ Len(early) = JobCapacity
        BY <1>1, <3>1, Capacities
      <4>2. Tail(early) \in Seq(Requests) /\ Len(Tail(early)) = Len(early) - 1
        BY <1>1, <4>1
      <4>3. QED
        BY <3>1, <4>1, <4>2, Capacities
    <3>2. CASE ~(Len(early) >= JobCapacity)
      BY <1>1, <3>2, Capacities
    <3>3. QED
      BY <3>1, <3>2
  <2> HIDE DEF kept
  <2>2. early' = Append(RemoveFirst(kept, r), r)
    BY <1>3 DEF CancelEarly, Remembered, kept
  <2>3. Len(early') <= JobCapacity
    <3>1. /\ RemoveFirst(kept, r) \in Seq(Requests)
          /\ Len(RemoveFirst(kept, r)) <= Len(kept) /\ Len(RemoveFirst(kept, r)) \in Nat
      BY <2>1, RemoveFirstDrops, LenProperties
    <3>2. Len(early') = Len(RemoveFirst(kept, r)) + 1
      BY <2>2, <3>1
    <3>3. QED
      BY <2>1, <3>1, <3>2, Capacities
  <2>4. UNCHANGED <<job, pending, ended>>
    BY <1>3 DEF CancelEarly
  <2>5. QED
    BY <2>3, <2>4 DEF RoomInv, QueueIsExact, EndedIsExact, WithinCapacity, Waiting, Done, Stored
<1>4. QED
  BY <1>2, <1>3

LEMMA ShutdownRoom ==
    ASSUME SttInv, RoomInv, Shutdown
    PROVE  RoomInv'
<1>1. /\ early' = <<>> /\ pending' = <<>> /\ ToSet(<<>>) = {} /\ NoDups(<<>>)
      /\ Len(<<>>) = 0 /\ <<>> \in Seq(Requests)
      /\ ended' = ended \o SetToSeq(Open)
  BY DEF Shutdown, ToSet, NoDups
<1>2. \A r \in Requests :
        job'[r].status = IF r \in Open THEN "cancelled" ELSE job[r].status
  BY DEF Shutdown, SttInv, Shapes, Jobs
<1>3. Stored' = Stored /\ Waiting' = {} /\ Done' = Done \cup Open /\ Open \cap Done = {}
      /\ Open \subseteq Stored /\ Open \subseteq Requests
  BY <1>2 DEF Stored, Waiting, Done, Open, Terminal
<1>4. /\ SetToSeq(Open) \in Seq(Open) /\ NoDups(SetToSeq(Open))
      /\ ToSet(SetToSeq(Open)) = Open
  BY <1>3, FS_Subset, InSomeOrder DEF RoomInv, WithinCapacity
<1>5. ended \in Seq(Requests) /\ NoDups(ended) /\ ToSet(ended) = Done
  BY DEF RoomInv, EndedIsExact
<1>6. EndedIsExact'
  <2> DEFINE u == SetToSeq(Open)
             t == ended \o u
  <2>1. u \in Seq(Requests) /\ NoDups(u) /\ ToSet(u) = Open
    BY <1>3, <1>4
  <2> HIDE DEF u
  <2>2. t \in Seq(Requests) /\ NoDups(t) /\ ToSet(t) = Done \cup Open
    BY <1>3, <1>5, <2>1, ConcatDistinct
  <2>3. QED
    BY <1>1, <1>3, <2>2 DEF EndedIsExact, u
<1>7. QED
  BY <1>1, <1>3, <1>6, Capacities DEF RoomInv, QueueIsExact, WithinCapacity

LEMMA TimeRoom ==
    ASSUME SttInv, RoomInv, Expire \/ Prune
    PROVE  RoomInv'
<1>1. CASE Expire
  <2>1. PICK r \in First(ended, {q \in Requests : job[q].status \in Terminal}) :
           job' = [job EXCEPT ![r].status = "expired"]
    BY <1>1 DEF Expire
  <2>2. r \in Requests /\ job[r].status \in Terminal
    BY <2>1 DEF First
  <2>3. \A q \in Requests : job'[q].status = IF q = r THEN "expired" ELSE job[q].status
    BY <2>1, <2>2, StatusOf DEF Statuses, SttInv, Shapes
  <2>4. Stored' = Stored /\ Waiting' = Waiting /\ Done' = Done
    BY <2>2, <2>3 DEF Stored, Waiting, Done, Terminal
  <2>5. UNCHANGED <<pending, ended, early>>
    BY <1>1 DEF Expire
  <2>6. QED
    BY <2>4, <2>5 DEF RoomInv, QueueIsExact, EndedIsExact, WithinCapacity
<1>2. CASE Prune
  <2>1. early \in Seq(Requests) /\ early # <<>> /\ early' = Tail(early)
        /\ UNCHANGED <<job, pending, ended>>
    BY <1>2 DEF Prune, SttInv, Shapes
  <2>2. Len(early') = Len(early) - 1 /\ Len(early) \in Nat
    BY <2>1
  <2>3. Len(early') <= JobCapacity
    BY <2>2, Capacities DEF RoomInv, WithinCapacity
  <2>4. QED
    BY <2>1, <2>3 DEF RoomInv, QueueIsExact, EndedIsExact, WithinCapacity, Waiting, Done, Stored
<1>3. QED
  BY <1>1, <1>2

LEMMA WorkerRoom ==
    ASSUME SttInv, RoomInv, WorkerTakes \/ ProviderReturns \/ WorkerEnds
    PROVE  RoomInv'
<1>1. CASE WorkerTakes
  <2> DEFINE r == Head(pending)
  <2>1. /\ pending \in Seq(Requests) /\ pending # <<>> /\ pending' = Tail(pending)
        /\ NoDups(pending) /\ ToSet(pending) = Waiting /\ UNCHANGED <<ended, early>>
    BY <1>1 DEF WorkerTakes, SttInv, Shapes, RoomInv, QueueIsExact
  <2>2. r \in Requests /\ r \in ToSet(pending)
    <3>1. Head(pending) = pending[1] /\ 1 \in 1..Len(pending) /\ r \in Requests
      BY <2>1
    <3>2. QED
      BY <2>1, <3>1, InToSet
  <2>3. job[r].status = "queued"
    BY <2>1, <2>2 DEF Waiting
  <2>4. job' = [job EXCEPT ![r].status = "running", ![r].inflight = TRUE]
    BY <1>1, <2>3 DEF WorkerTakes
  <2>5. NoDups(Tail(pending)) /\ ToSet(Tail(pending)) = ToSet(pending) \ {r}
        /\ Len(Tail(pending)) = Len(pending) - 1 /\ Len(pending) \in Nat
    BY <2>1, TailOfDistinct
  <2> HIDE DEF r
  <2>6. \A q \in Requests : job'[q].status = IF q = r THEN "running" ELSE job[q].status
    BY <2>2, <2>4 DEF SttInv, Shapes, Jobs
  <2>7. Stored' = Stored /\ Waiting' = Waiting \ {r} /\ Done' = Done
    BY <2>3, <2>6 DEF Stored, Waiting, Done, Terminal
  <2>8. QED
    BY <2>1, <2>5, <2>7, Capacities DEF RoomInv, QueueIsExact, EndedIsExact, WithinCapacity
<1>2. CASE ProviderReturns
  <2> DEFINE r == held.request
  <2>1. r \in Requests /\ job[r].serial = held.serial /\ UNCHANGED <<pending, early>>
    BY <1>2 DEF ProviderReturns, SttInv, Shapes, WorkIsAccountedFor
  <2>2. \A q \in Requests : Settled(r)[q].status = job[q].status
        /\ Settled(r) \in [Requests -> Jobs]
    BY <2>1 DEF Settled, SttInv, Shapes, Jobs
  <2>3. CASE MayStore(r)
    <3>1. PICK status \in {"completed", "failed"} :
             /\ job' = [Settled(r) EXCEPT ![r].status = status]
             /\ ended' = Append(RemoveFirst(ended, r), r)
      BY <1>2, <2>1, <2>3 DEF ProviderReturns
    <3>2. job[r].status = "running"
      BY <2>3 DEF MayStore
    <3> HIDE DEF r
    <3>3. \A q \in Requests : job'[q].status = IF q = r THEN status ELSE job[q].status
      BY <2>1, <2>2, <3>1, StatusOf DEF Statuses
    <3>4. EndedIsExact' /\ Stored' = Stored /\ Waiting' = Waiting \ {r}
      BY <2>1, <3>1, <3>2, <3>3, EndsRoom DEF Terminal
    <3>5. Waiting \ {r} = Waiting
      BY <3>2 DEF Waiting
    <3>6. QED
      BY <2>1, <3>4, <3>5 DEF RoomInv, QueueIsExact, WithinCapacity
  <2>4. CASE ~MayStore(r)
    <3>1. job' = Settled(r) /\ ended' = ended
      BY <1>2, <2>1, <2>4 DEF ProviderReturns
    <3>2. Stored' = Stored /\ Waiting' = Waiting /\ Done' = Done
      BY <2>2, <3>1 DEF Stored, Waiting, Done
    <3>3. QED
      BY <2>1, <3>1, <3>2 DEF RoomInv, QueueIsExact, EndedIsExact, WithinCapacity
  <2>5. QED
    BY <2>3, <2>4
<1>3. CASE WorkerEnds
  BY <1>3 DEF RoomInv, QueueIsExact, EndedIsExact, WithinCapacity, Waiting, Done, Stored,
     WorkerEnds
<1>4. QED
  BY <1>1, <1>2, <1>3

THEOREM RoomInvariance == Spec => [](SttInv /\ RoomInv)
<1>1. Init => RoomInv
  <2>1. ToSet(<<>>) = {} /\ NoDups(<<>>) /\ Len(<<>>) = 0 /\ <<>> \in Seq(Requests)
    BY DEF ToSet, NoDups
  <2>2. Init => Stored = {} /\ Waiting = {} /\ Done = {}
    BY DEF Init, Stored, Waiting, Done, NoJob, Terminal
  <2>3. IsFiniteSet({}) /\ Cardinality({}) = 0
    BY FS_EmptySet
  <2>4. Init => pending = <<>> /\ ended = <<>> /\ early = <<>>
    BY DEF Init
  <2>5. 0 <= QueueCapacity /\ 0 <= JobCapacity
    BY Capacities
  <2>6. Init => QueueIsExact /\ EndedIsExact
    BY <2>1, <2>2, <2>4 DEF QueueIsExact, EndedIsExact
  <2>7. Init => WithinCapacity
    <3>1. SUFFICES ASSUME Init PROVE WithinCapacity
      OBVIOUS
    <3>2. IsFiniteSet(Stored) /\ Cardinality(Stored) = 0
      BY <2>2, <2>3, <3>1
    <3>3. Len(pending) = 0 /\ Len(early) = 0
      BY <2>1, <2>4, <3>1
    <3>4. QED
      BY <2>5, <3>2, <3>3 DEF WithinCapacity
  <2>8. QED
    BY <2>6, <2>7 DEF RoomInv
<1>2. SttInv /\ RoomInv /\ [Next]_vars => RoomInv'
  <2>1. ASSUME SttInv, RoomInv, Next PROVE RoomInv'
    BY <2>1, SubmitRoom, CancelRoom, ShutdownRoom, TimeRoom, WorkerRoom DEF Next
  <2>2. ASSUME RoomInv, UNCHANGED vars PROVE RoomInv'
    BY <2>2 DEF RoomInv, QueueIsExact, EndedIsExact, WithinCapacity, Waiting, Done, Stored, vars
  <2>3. QED
    BY <2>1, <2>2
<1>3. QED
  BY <1>1, <1>2, SttInvariance, PTL DEF Spec

\* submit(), cancel_request() and _evict_one_locked: no store of the runtime ever
\* exceeds its capacity, whatever is submitted, cancelled and evicted.
THEOREM CapacitiesHold == Spec => []WithinCapacity
<1>1. RoomInv => WithinCapacity
  BY DEF RoomInv
<1>2. QED
  BY <1>1, RoomInvariance, PTL

\* submit(), cancel(), shutdown() and _work: what waits is in the queue, once.
THEOREM NoJobIsLost == Spec => []QueueIsExact
<1>1. RoomInv => QueueIsExact
  BY DEF RoomInv
<1>2. QED
  BY <1>1, RoomInvariance, PTL

\* The serial numbers stay below the bound of the model, and what is held is a job.
Serials ==
    /\ serial \in 0..MaxJobs /\ \A r \in Requests : job[r].serial \in 0..MaxJobs
    /\ held \in [request : Requests, serial : 0..MaxJobs]
    /\ accepting \in BOOLEAN /\ worker \in {"idle", "busy", "ended"}

LEMMA SerialsStep ==
    ASSUME SttInv, RoomInv, Serials, [Next]_vars
    PROVE  Serials'
<1>1. 0 \in 0..MaxJobs /\ NoJob.serial = 0 /\ MaxJobs \in Nat
  BY SttAssumption DEF NoJob
<1>2. ASSUME NEW r \in Requests, Submit(r) PROVE Serials'
  <2> DEFINE kept == [q \in Requests |-> IF q \in Evicted THEN NoJob ELSE job[q]]
             new == [status |-> "queued", inflight |-> FALSE, serial |-> serial + 1]
  <2>1. /\ serial < MaxJobs /\ UNCHANGED <<accepting, worker, held>>
        /\ \/ job' = [kept EXCEPT ![r] = new] /\ serial' = serial + 1
           \/ job' = kept /\ serial' = serial
    BY <1>2 DEF Submit
  <2>2. serial' \in 0..MaxJobs /\ serial + 1 \in 0..MaxJobs
    BY <1>1, <2>1 DEF Serials
  <2>3. \A q \in Requests : job'[q].serial \in {0, job[q].serial, serial + 1}
    <3>1. \A q \in Requests : kept[q].serial \in {0, job[q].serial}
      BY <1>1
    <3>2. kept \in [Requests -> {kept[q] : q \in Requests}] /\ new.serial = serial + 1
      OBVIOUS
    <3> HIDE DEF kept, new
    <3>3. \A q \in Requests : job'[q] = kept[q] \/ job'[q] = new
      BY <2>1, <3>2
    <3>4. QED
      BY <3>1, <3>2, <3>3
  <2>4. \A q \in Requests : job'[q].serial \in 0..MaxJobs
    BY <1>1, <2>2, <2>3 DEF Serials
  <2>5. QED
    BY <2>1, <2>2, <2>4 DEF Serials
<1>3. CASE Expire \/ \E r \in Requests : Cancel(r)
  <2>1. PICK r \in Requests, status \in Statuses : job' = [job EXCEPT ![r].status = status]
    BY <1>3 DEF Expire, First, Cancel, Ends, Statuses
  <2>2. \A q \in Requests : job'[q].serial = job[q].serial
    BY <2>1, StatusOf DEF SttInv, Shapes
  <2>3. QED
    BY <1>3, <2>2 DEF Serials, Expire, Cancel
<1>4. CASE Shutdown
  <2>1. \A r \in Requests : job'[r].serial = job[r].serial
    BY <1>4 DEF Shutdown, SttInv, Shapes, Jobs
  <2>2. QED
    BY <1>4, <2>1 DEF Serials, Shutdown
<1>5. CASE WorkerTakes
  <2>1. Head(pending) \in Requests
    BY <1>5 DEF WorkerTakes, SttInv, Shapes
  <2>2. \A q \in Requests : job'[q].serial = job[q].serial
    <3>1. job \in [Requests -> Jobs]
      BY DEF SttInv, Shapes
    <3>2. CASE job' = job
      BY <3>2
    <3>3. CASE job' = [job EXCEPT ![Head(pending)].status = "running",
                                  ![Head(pending)].inflight = TRUE]
      BY <2>1, <3>1, <3>3 DEF Jobs
    <3>4. QED
      BY <1>5, <3>2, <3>3 DEF WorkerTakes
  <2>3. QED
    BY <1>5, <2>1, <2>2 DEF Serials, WorkerTakes
<1>6. CASE ProviderReturns
  <2> DEFINE r == held.request
  <2>1. r \in Requests
    BY <1>6 DEF ProviderReturns, SttInv, Shapes
  <2>2. Settled(r) \in [Requests -> Jobs]
        /\ \A q \in Requests : Settled(r)[q].serial = job[q].serial
    BY <2>1 DEF Settled, SttInv, Shapes, Jobs
  <2>3. \/ job' = job
        \/ \E status \in Statuses : job' = [Settled(r) EXCEPT ![r].status = status]
        \/ job' = Settled(r)
    BY <1>6 DEF ProviderReturns, Statuses
  <2> HIDE DEF r
  <2>4. \A q \in Requests : job'[q].serial = job[q].serial
    BY <2>1, <2>2, <2>3, StatusOf
  <2>5. QED
    BY <1>6, <2>4 DEF Serials, ProviderReturns
<1>7. CASE Prune \/ WorkerEnds \/ UNCHANGED vars \/ \E r \in Requests : CancelEarly(r)
  BY <1>7 DEF Prune, WorkerEnds, vars, CancelEarly, Serials
<1>8. QED
  BY <1>2, <1>3, <1>4, <1>5, <1>6, <1>7 DEF Next

\* The runtime's state is well typed, for any requests and capacities.
THEOREM SttTypeCorrect == Requests # {} => (Spec => []TypeOK)
<1>1. SUFFICES ASSUME Requests # {} PROVE Spec => []TypeOK
  OBVIOUS
<1>2. Init => Serials
  <2>1. 0 \in 0..MaxJobs /\ (CHOOSE r \in Requests : TRUE) \in Requests
    BY <1>1, SttAssumption
  <2>2. QED
    BY <2>1 DEF Init, Serials, NoJob
<1>3. SttInv /\ RoomInv /\ Serials /\ [Next]_vars => Serials'
  BY SerialsStep
<1>4. SttInv /\ RoomInv /\ Serials => TypeOK
  BY DEF SttInv, Shapes, RoomInv, EndedIsExact, Serials, TypeOK, Jobs, Statuses, Terminal
<1>5. QED
  BY <1>2, <1>3, <1>4, RoomInvariance, PTL DEF Spec
=============================================================================
