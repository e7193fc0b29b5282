--------------------------- MODULE PrintQueueProofs ---------------------------
(***************************************************************************)
(* Theorems about PrintQueue, for every number of overlapping calls, of    *)
(* jobs, of printers and of ends of the process.                           *)
(***************************************************************************)
EXTENDS PrintQueue, DataTheorems

-----------------------------------------------------------------------------
(***************************************************************************)
(* Least elements and ranks.                                               *)
(***************************************************************************)

\* Counted from above, each element of a finite set of natural numbers has a rank of its
\* own, and each rank up to the size of the set is taken.
LEMMA Ranked ==
  ASSUME NEW S, S \subseteq Nat, IsFiniteSet(S), NEW i \in 1 .. Cardinality(S)
  PROVE  \E j \in S : Cardinality({k \in S : k >= j}) = i
<1> DEFINE above(j) == {k \in S : k >= j}
           rank == [j \in S |-> Cardinality(above(j))]
           n == Cardinality(S)
<1>1. n \in Nat /\ IsFiniteSet(1 .. n) /\ Cardinality(1 .. n) = n
  BY FS_CardinalityType, FS_Interval
<1>2. ASSUME NEW j \in S
      PROVE  IsFiniteSet(above(j)) /\ rank[j] \in 1 .. n
  <2>1. above(j) \in SUBSET S /\ j \in above(j) /\ rank[j] = Cardinality(above(j))
    OBVIOUS
  <2> HIDE DEF above, rank
  <2>2. IsFiniteSet(above(j)) /\ rank[j] <= n
    BY <2>1, FS_Subset
  <2>3. rank[j] \in Nat /\ rank[j] # 0
    BY <2>1, <2>2, FS_CardinalityType, FS_EmptySet
  <2>4. QED
    BY <1>1, <2>2, <2>3
<1>3. ASSUME NEW j \in S, NEW k \in S, j < k
      PROVE  rank[j] # rank[k]
  <2>1. above(k) \in SUBSET above(j) /\ j \in above(j) /\ j \notin above(k)
    <3>1. j \in Nat /\ k \in Nat /\ \A m \in S : m \in Nat
      OBVIOUS
    <3>2. \A m \in S : m >= k => m >= j
      BY <1>3, <3>1
    <3>3. j >= j /\ ~(j >= k)
      BY <1>3, <3>1
    <3>4. QED
      BY <3>2, <3>3
  <2>2. rank[j] = Cardinality(above(j)) /\ rank[k] = Cardinality(above(k))
    OBVIOUS
  <2> HIDE DEF above, rank
  <2>3. QED
    BY <1>2, <2>1, <2>2, FS_Subset
<1>4. rank \in Injection(S, 1 .. n)
  <2>1. rank \in [S -> 1 .. n]
    BY <1>2
  <2>2. \A j, k \in S : rank[j] = rank[k] => j = k
    <3> HIDE DEF rank
    <3>1. QED
      BY <1>3
  <2> HIDE DEF rank, n
  <2>3. QED
    BY <2>1, <2>2 DEF Injection, IsInjective
<1>5. rank \in Surjection(S, 1 .. n)
  <2> HIDE DEF rank
  <2>1. QED
    BY <1>1, <1>4, FS_Injection
<1>6. PICK j \in S : rank[j] = i
  BY <1>5 DEF Surjection
<1>7. QED
  BY <1>6

-----------------------------------------------------------------------------
(***************************************************************************)
(* What the operators of the model return.                                 *)
(***************************************************************************)

LEMMA DefaultPrinterType ==
  ASSUME TypeOK, NEW role
  PROVE  DefaultPrinter(role) \in Printers \cup {Null}
<1> DEFINE fit == {p \in DOMAIN printers : printers[p].role = role /\ printers[p].active}
           best == IF \E p \in fit : printers[p].default
                   THEN {p \in fit : printers[p].default} ELSE fit
<1>1. DOMAIN printers = 1 .. Len(printers) /\ Len(printers) \in Nat /\ Len(printers) <= MaxSaves
  BY PrintAssumption DEF TypeOK
<1>2. best \subseteq fit /\ fit \subseteq DOMAIN printers
  OBVIOUS
<1> HIDE DEF best, fit
<1>3. best \subseteq Printers /\ best \subseteq Nat
  BY <1>1, <1>2, PrintAssumption DEF Printers
<1>4. CASE best = {}
  BY <1>4 DEF DefaultPrinter, best, fit
<1>5. CASE best # {}
  <2>1. \E p \in best : \A q \in best : p <= q
    BY <1>3, <1>5, LeastElement
  <2>2. (CHOOSE p \in best : \A q \in best : p <= q) \in best
    BY <2>1
  <2>3. DefaultPrinter(role) = CHOOSE p \in best : \A q \in best : p <= q
    BY <1>5 DEF DefaultPrinter, best, fit
  <2>4. QED
    BY <1>3, <2>2, <2>3
<1>6. QED
  BY <1>4, <1>5

\* The list a call reads names jobs that exist, each with the printer it has.
LEMMA DueEntriesType ==
  ASSUME NEW js \in Seq(Job), Len(js) <= MaxJobs
  PROVE  /\ DueEntries(js) \in Seq(Entry)
         /\ \A i \in DOMAIN DueEntries(js) :
              LET entry == DueEntries(js)[i]
              IN  entry.job \in DOMAIN js /\ entry.printer = js[entry.job].printer
<1> DEFINE due == {j \in DOMAIN js : js[j].status \in {"pending", "failed"} /\ js[j].due}
           Newest(i) == CHOOSE j \in due : Cardinality({k \in due : k >= j}) = i
           count == IF Cardinality(due) < Limit THEN Cardinality(due) ELSE Limit
           entries == [i \in 1 .. count |-> [job |-> Newest(i), printer |-> js[Newest(i)].printer]]
<1>1. Len(js) \in Nat /\ DOMAIN js = 1 .. Len(js) /\ \A j \in DOMAIN js : js[j] \in Job
  OBVIOUS
<1>2. due \subseteq DOMAIN js /\ due \subseteq Nat
  BY <1>1
<1> HIDE DEF due
<1>3. IsFiniteSet(due) /\ Cardinality(due) \in Nat
  <2>1. IsFiniteSet(1 .. Len(js)) /\ due \in SUBSET (1 .. Len(js))
    BY <1>1, <1>2, FS_Interval
  <2>2. IsFiniteSet(due)
    BY <2>1, FS_Subset
  <2>3. QED
    BY <2>2, FS_CardinalityType
<1>4. count \in Nat /\ 1 .. count \subseteq 1 .. Cardinality(due)
  BY <1>3, PrintAssumption
<1> HIDE DEF count
<1>5. ASSUME NEW i \in 1 .. count
      PROVE  Newest(i) \in due
  <2>1. \E j \in due : Cardinality({k \in due : k >= j}) = i
    BY <1>2, <1>3, <1>4, Ranked
  <2>2. QED
    BY <2>1
<1> HIDE DEF Newest
<1>6. ASSUME NEW i \in 1 .. count
      PROVE  [job |-> Newest(i), printer |-> js[Newest(i)].printer] \in Entry
  <2>1. Newest(i) \in DOMAIN js /\ Newest(i) \in 1 .. MaxJobs
    BY <1>1, <1>2, <1>5, PrintAssumption
  <2>2. js[Newest(i)].printer \in Printers \cup {Null}
    BY <1>1, <2>1 DEF Job
  <2>3. QED
    BY <2>1, <2>2 DEF Entry
<1>7. entries \in Seq(Entry) /\ DOMAIN entries = 1 .. count
  BY <1>4, <1>6
<1>8. ASSUME NEW i \in DOMAIN entries
      PROVE  entries[i].job \in DOMAIN js /\ entries[i].printer = js[entries[i].job].printer
  BY <1>2, <1>5, <1>7
<1>9. DueEntries(js) = entries
  BY DEF DueEntries, entries, count, Newest, due
<1> HIDE DEF entries
<1>10. QED
  BY <1>7, <1>8, <1>9

LEMMA MarkedJobs ==
  ASSUME NEW job \in Job
  PROVE  /\ MarkedFailed(job) \in Job /\ MarkedPrinted(job) \in Job /\ Retried(job) \in Job
         /\ MarkedFailed(job).attempts = job.attempts + 1
         /\ MarkedPrinted(job).attempts = job.attempts + 1
<1>1. job.attempts \in Nat /\ job.attempts + 1 \in Nat
  BY DEF Job
<1>2. MarkedFailed(job) \in Job /\ MarkedFailed(job).attempts = job.attempts + 1
  BY <1>1 DEF MarkedFailed, Job
<1>3. MarkedPrinted(job) \in Job /\ MarkedPrinted(job).attempts = job.attempts + 1
  BY <1>1 DEF MarkedPrinted, Job
<1>4. Retried(job) \in Job
  BY DEF Retried, Job
<1>5. QED
  BY <1>2, <1>3, <1>4

\* A call that goes on marks some jobs failed and keeps some entries of its list.
LEMMA Advanced ==
  ASSUME NEW c \in Calls, runs \in [Calls -> Run], NEW js \in Seq(Job), NEW rest \in Seq(Entry),
         Advance(c, js, rest)
  PROVE  /\ jobs' \in Seq(Job) /\ Len(jobs') = Len(js)
         /\ \A j \in DOMAIN js : jobs'[j] \in {js[j], MarkedFailed(js[j])}
         /\ \E run \in Run :
              /\ runs' = [runs EXCEPT ![c] = run] /\ ~run.out
              /\ \A i \in DOMAIN run.rest : \E k \in DOMAIN rest : run.rest[i] = rest[k]
<1> DEFINE sendable == {i \in DOMAIN rest : Active(rest[i].printer)}
           next == IF sendable = {} THEN Len(rest) + 1
                   ELSE CHOOSE i \in sendable : \A k \in sendable : i <= k
           failed == {rest[i].job : i \in 1 .. next - 1}
           run == [rest |-> SubSeq(rest, next, Len(rest)), out |-> FALSE]
<1>1. /\ jobs' = [j \in DOMAIN js |-> IF j \in failed THEN MarkedFailed(js[j]) ELSE js[j]]
      /\ runs' = [runs EXCEPT ![c] = run]
  BY DEF Advance
<1>2. Len(rest) \in Nat /\ DOMAIN rest = 1 .. Len(rest) /\ sendable \subseteq 1 .. Len(rest)
  OBVIOUS
<1>3. next \in 1 .. Len(rest) + 1
  <2> HIDE DEF sendable
  <2>1. CASE sendable = {}
    BY <1>2, <2>1
  <2>2. CASE sendable # {}
    <3>1. sendable \subseteq Nat
      BY <1>2
    <3>2. \E i \in sendable : \A k \in sendable : i <= k
      BY <2>2, <3>1, LeastElement
    <3>3. next \in sendable
      BY <2>2, <3>2
    <3> HIDE DEF next
    <3>4. QED
      BY <1>2, <3>3
  <2>3. QED
    BY <2>1, <2>2
<1> HIDE DEF next, failed
<1>4. /\ run.rest \in Seq(Entry)
      /\ \A i \in DOMAIN run.rest : \E k \in DOMAIN rest : run.rest[i] = rest[k]
  <2> DEFINE sub == SubSeq(rest, next, Len(rest))
  <2>1. /\ sub \in Seq(Entry) /\ Len(sub) = Len(rest) - next + 1
        /\ \A i \in 1 .. Len(rest) - next + 1 : sub[i] = rest[next + i - 1]
    BY <1>2, <1>3
  <2>2. ASSUME NEW i \in DOMAIN sub
        PROVE  \E k \in DOMAIN rest : sub[i] = rest[k]
    <3>1. i \in 1 .. Len(rest) - next + 1
      BY <2>1
    <3>2. next + i - 1 \in DOMAIN rest /\ sub[i] = rest[next + i - 1]
      BY <1>2, <1>3, <2>1, <3>1
    <3>3. QED
      BY <3>2
  <2>3. run.rest = sub
    OBVIOUS
  <2> HIDE DEF sub, run
  <2>4. QED
    BY <2>1, <2>2, <2>3
<1>5. run \in Run /\ ~run.out
  <2>1. run.rest \in Seq(Entry)
    BY <1>4
  <2>2. QED
    BY <2>1 DEF Run
<1>6. \A j \in DOMAIN js : MarkedFailed(js[j]) \in Job
  BY MarkedJobs
<1>7. jobs' \in Seq(Job) /\ Len(jobs') = Len(js)
  <2> DEFINE marked == [j \in DOMAIN js |-> IF j \in failed THEN MarkedFailed(js[j]) ELSE js[j]]
  <2>1. marked \in [1 .. Len(js) -> Job] /\ Len(js) \in Nat
    BY <1>6
  <2>2. QED
    BY <1>1, <2>1
<1>8. \A j \in DOMAIN js : jobs'[j] \in {js[j], MarkedFailed(js[j])}
  BY <1>1
<1> HIDE DEF run
<1>9. QED
  BY <1>1, <1>4, <1>5, <1>7, <1>8

-----------------------------------------------------------------------------
(***************************************************************************)
(* The inductive invariant.  A document that is out was handed out, so a   *)
(* job that is marked printed was: calls overlap, but none takes a sheet   *)
(* back.                                                                   *)
(***************************************************************************)

OutOnPaper == \A c \in Calls : runs[c].out => jobs[Current(c)].sheets > 0

Inv ==
  TypeOK /\ PrintedOnPaper /\ OutOnPaper /\ EverySheetCounted /\ SentWhereRouted

\* What the type invariant says of the jobs and of what is being sent.
LEMMA JobTypes ==
  ASSUME TypeOK
  PROVE  /\ Len(jobs) \in Nat /\ DOMAIN jobs = 1 .. Len(jobs)
         /\ \A j \in DOMAIN jobs :
              /\ jobs[j] \in Job
              /\ jobs[j].sheets \in Nat /\ jobs[j].attempts \in Nat /\ jobs[j].cut \in Nat
         /\ \A c \in Calls :
              /\ runs[c] \in Run /\ runs[c].rest \in Seq(Entry) /\ runs[c].out \in BOOLEAN
              /\ Sending(c) => Current(c) \in DOMAIN jobs
         /\ \A c \in Calls : runs[c].out => Current(c) \in DOMAIN jobs
<1>1. jobs \in Seq(Job)
  BY DEF TypeOK
<1>2. Len(jobs) \in Nat /\ DOMAIN jobs = 1 .. Len(jobs) /\ \A j \in DOMAIN jobs : jobs[j] \in Job
  BY <1>1
<1>3. \A job \in Job : job.sheets \in Nat /\ job.attempts \in Nat /\ job.cut \in Nat
  BY DEF Job
<1>4. ASSUME NEW c \in Calls
      PROVE  /\ runs[c] \in Run /\ runs[c].rest \in Seq(Entry) /\ runs[c].out \in BOOLEAN
             /\ Sending(c) => Current(c) \in DOMAIN jobs
  <2>1. runs[c] \in Run
    BY DEF TypeOK
  <2>2. runs[c].rest \in Seq(Entry) /\ runs[c].out \in BOOLEAN
    BY <2>1 DEF Run
  <2>3. ASSUME Sending(c)
        PROVE  Current(c) \in DOMAIN jobs
    <3>1. 1 \in DOMAIN runs[c].rest /\ Head(runs[c].rest) = runs[c].rest[1]
      BY <2>2, <2>3 DEF Sending
    <3>2. QED
      BY <3>1 DEF TypeOK, Current
  <2>4. QED
    BY <2>1, <2>2, <2>3
<1>5. QED
  BY <1>2, <1>3, <1>4 DEF TypeOK

\* The calls that have the document of a job out are finitely many.
LEMMA HandedOutFinite ==
  \A j : IsFiniteSet(HandedOut(j)) /\ Cardinality(HandedOut(j)) \in Nat
<1> SUFFICES ASSUME NEW j
             PROVE  IsFiniteSet(HandedOut(j)) /\ Cardinality(HandedOut(j)) \in Nat
  OBVIOUS
<1>1. HandedOut(j) \in SUBSET Calls
  BY DEF HandedOut
<1>2. IsFiniteSet(HandedOut(j))
  BY <1>1, FS_Subset, PrintAssumption
<1>3. QED
  BY <1>2, FS_CardinalityType

LEMMA InvInitially == Init => Inv
<1> SUFFICES ASSUME Init PROVE Inv
  OBVIOUS
<1>1. Idle \in Run /\ ~Idle.out /\ Idle.rest = <<>>
  BY DEF Idle, Run
<1>2. \A c \in Calls : runs[c] = Idle
  BY DEF Init
<1>3. jobs = <<>> /\ DOMAIN jobs = {} /\ jobs \in Seq(Job) /\ Len(jobs) = 0
  BY DEF Init
<1>4. TypeOK
  <2>1. printers \in Seq(Profile) /\ Len(printers) <= saves /\ sent \subseteq Tickets
        /\ listed \subseteq DOMAIN jobs
    BY <1>3 DEF Init
  <2>2. Len(jobs) <= MaxJobs /\ saves \in 0 .. MaxSaves /\ starts \in 0 .. MaxStarts
        /\ crashes \in 0 .. MaxCrashes
    BY <1>3, PrintAssumption DEF Init
  <2>3. runs \in [Calls -> Run]
    BY <1>1 DEF Init
  <2>4. \A c \in Calls : ~runs[c].out /\ DOMAIN runs[c].rest = {}
    BY <1>1, <1>2
  <2>5. QED
    BY <1>3, <2>1, <2>2, <2>3, <2>4 DEF TypeOK
<1>5. QED
  BY <1>1, <1>2, <1>3, <1>4 DEF Inv, PrintedOnPaper, OutOnPaper, EverySheetCounted, SentWhereRouted

-----------------------------------------------------------------------------
(***************************************************************************)
(* The steps of a call.                                                    *)
(***************************************************************************)

\* A step of call c that puts no paper out: jobs keep what they are and lose no attempt,
\* and the one whose document is out gets one.
LEMMA CallGoesOn ==
  ASSUME Inv, NEW c \in Calls, NEW run \in Run,
         jobs' \in Seq(Job), Len(jobs') = Len(jobs),
         \A j \in DOMAIN jobs :
           /\ jobs'[j].sheets = jobs[j].sheets /\ jobs'[j].cut = jobs[j].cut
           /\ jobs'[j].printer = jobs[j].printer \/ jobs[j].printer = Null
           /\ jobs'[j].attempts >= jobs[j].attempts
           /\ jobs'[j].status = "printed" => jobs[j].status = "printed" \/ jobs[j].sheets > 0,
         runs' = [runs EXCEPT ![c] = run], ~run.out,
         \A i \in DOMAIN run.rest :
           /\ run.rest[i].job \in DOMAIN jobs
           /\ run.rest[i].printer \in {Null, jobs'[run.rest[i].job].printer},
         runs[c].out => jobs'[Current(c)].attempts > jobs[Current(c)].attempts,
         starts' \in 0 .. MaxStarts, UNCHANGED <<printers, sent, listed, saves, crashes>>
  PROVE  Inv'
<1>1. /\ Len(jobs) \in Nat /\ DOMAIN jobs = 1 .. Len(jobs) /\ DOMAIN jobs' = DOMAIN jobs
      /\ \A j \in DOMAIN jobs :
            /\ jobs[j].sheets \in Nat /\ jobs[j].attempts \in Nat /\ jobs[j].cut \in Nat
            /\ jobs'[j] \in Job /\ jobs'[j].attempts \in Nat
  <2>1. \A job \in Job : job.attempts \in Nat
    BY DEF Job
  <2>2. QED
    BY <2>1, JobTypes DEF Inv
<1>2. /\ runs \in [Calls -> Run] /\ runs' \in [Calls -> Run] /\ runs'[c] = run
      /\ \A d \in Calls \ {c} : runs'[d] = runs[d]
  BY DEF Inv, TypeOK
<1>3. \A d \in Calls : runs'[d].out => d # c /\ runs[d].out /\ Current(d)' = Current(d)
  BY <1>2 DEF Current
<1>4. TypeOK'
  <2>1. \A d \in Calls : runs'[d].out => Sending(d)'
    BY <1>2, <1>3 DEF Inv, TypeOK, Sending
  <2>2. \A d \in Calls : \A i \in DOMAIN runs'[d].rest : runs'[d].rest[i].job \in DOMAIN jobs'
    BY <1>1, <1>2 DEF Inv, TypeOK
  <2>3. QED
    BY <1>1, <1>2, <2>1, <2>2 DEF Inv, TypeOK
<1>5. PrintedOnPaper'
  BY <1>1 DEF Inv, PrintedOnPaper
<1>6. OutOnPaper'
  BY <1>1, <1>3, JobTypes DEF Inv, OutOnPaper
<1>7. EverySheetCounted'
  <2> SUFFICES ASSUME NEW j \in DOMAIN jobs
               PROVE  jobs'[j].sheets <= jobs'[j].attempts + Cardinality(HandedOut(j)') + jobs'[j].cut
    BY <1>1 DEF EverySheetCounted
  <2>1. jobs[j].sheets <= jobs[j].attempts + Cardinality(HandedOut(j)) + jobs[j].cut
    BY DEF Inv, EverySheetCounted
  <2>2. IsFiniteSet(HandedOut(j)) /\ Cardinality(HandedOut(j)) \in Nat
        /\ Cardinality(HandedOut(j)') \in Nat
    <3>1. HandedOut(j)' \in SUBSET Calls
      BY DEF HandedOut
    <3>2. IsFiniteSet(HandedOut(j)')
      BY <3>1, FS_Subset, PrintAssumption
    <3>3. QED
      BY <3>2, HandedOutFinite, FS_CardinalityType
  <2>3. HandedOut(j)' = HandedOut(j) \ {c}
    BY <1>2, <1>3 DEF HandedOut, Current
  <2>4. CASE c \in HandedOut(j)
    <3>1. Cardinality(HandedOut(j)') = Cardinality(HandedOut(j)) - 1
      BY <2>2, <2>3, <2>4, FS_RemoveElement
    <3>2. runs[c].out /\ Current(c) = j
      BY <2>4 DEF HandedOut
    <3>3. jobs'[j].attempts > jobs[j].attempts
      <4>1. jobs'[Current(c)].attempts > jobs[Current(c)].attempts
        BY <3>2, Zenon
      <4>2. PICK k : k = Current(c)
        OBVIOUS
      <4>3. k = j
        BY <3>2, <4>2
      <4>4. QED
        BY <4>1, <4>2, <4>3, Zenon
    <3>4. jobs'[j].sheets = jobs[j].sheets /\ jobs'[j].cut = jobs[j].cut
      OBVIOUS
    <3>5. /\ jobs[j].sheets \in Nat /\ jobs[j].attempts \in Nat /\ jobs[j].cut \in Nat
          /\ jobs'[j].attempts \in Nat
      BY <1>1
    <3>6. \A s, k, a, b, n \in Nat : s <= a + n + k /\ b > a => s <= b + (n - 1) + k
      OBVIOUS
    <3>7. jobs[j].sheets <= jobs'[j].attempts + (Cardinality(HandedOut(j)) - 1) + jobs[j].cut
      BY <2>1, <2>2, <3>3, <3>5, <3>6, Zenon
    <3>8. QED
      BY <3>1, <3>4, <3>7, Zenon
  <2>5. CASE c \notin HandedOut(j)
    <3>1. HandedOut(j)' = HandedOut(j)
      BY <2>3, <2>5
    <3>2. jobs'[j].sheets = jobs[j].sheets /\ jobs'[j].cut = jobs[j].cut
          /\ jobs'[j].attempts >= jobs[j].attempts
      OBVIOUS
    <3>3. /\ jobs[j].sheets \in Nat /\ jobs[j].attempts \in Nat /\ jobs[j].cut \in Nat
          /\ jobs'[j].attempts \in Nat
      BY <1>1
    <3>4. \A m, k, a, b, n \in Nat : m <= a + n + k /\ b >= a => m <= b + n + k
      OBVIOUS
    <3>5. jobs[j].sheets <= jobs'[j].attempts + Cardinality(HandedOut(j)) + jobs[j].cut
      BY <2>1, <2>2, <3>2, <3>3, <3>4, Zenon
    <3>6. QED
      BY <3>1, <3>2, <3>5, Zenon
  <2>6. QED
    BY <2>4, <2>5
<1>8. SentWhereRouted'
  <2> SUFFICES ASSUME NEW d \in Calls, NEW i \in DOMAIN runs'[d].rest
               PROVE  LET entry == runs'[d].rest[i]
                      IN  entry.printer \in {Null, jobs'[entry.job].printer}
    BY DEF SentWhereRouted
  <2>1. CASE d = c
    BY <1>2, <2>1
  <2>2. CASE d # c
    <3>1. runs'[d] = runs[d] /\ runs[d].rest[i].job \in DOMAIN jobs
      BY <1>2, <2>2 DEF Inv, TypeOK
    <3>2. QED
      BY <3>1 DEF Inv, SentWhereRouted
  <2>3. QED
    BY <2>1, <2>2
<1>9. QED
  BY <1>4, <1>5, <1>6, <1>7, <1>8 DEF Inv

\* What jobs marked failed keep.
LEMMA MarkedFailedKeeps ==
  ASSUME NEW job \in Job, NEW new \in {job, MarkedFailed(job)}
  PROVE  /\ new.printer = job.printer /\ new.sheets = job.sheets /\ new.cut = job.cut
         /\ new.attempts >= job.attempts
         /\ new.status = "printed" => job.status = "printed"
<1>1. job.attempts \in Nat
  BY DEF Job
<1>2. CASE new = job
  BY <1>1, <1>2
<1>3. CASE new = MarkedFailed(job)
  BY <1>1, <1>3 DEF MarkedFailed, Job
<1>4. QED
  BY <1>2, <1>3

\* A call starts: pending receipts get a printer, the due jobs are read.
LEMMA StartInv == ASSUME Inv, NEW c \in Calls, Start(c) PROVE Inv'
<1> DEFINE p == DefaultPrinter("receipt")
           js == Assigned
           rest == DueEntries(js)
<1>1. /\ jobs \in Seq(Job) /\ Len(jobs) \in Nat /\ DOMAIN jobs = 1 .. Len(jobs)
      /\ Len(jobs) <= MaxJobs /\ runs \in [Calls -> Run] /\ ~runs[c].out
      /\ \A j \in DOMAIN jobs : jobs[j] \in Job
  BY JobTypes DEF Inv, TypeOK, Start, Idle
<1>2. p \in Printers \cup {Null}
  BY DefaultPrinterType DEF Inv
<1> HIDE DEF p
<1>3. ASSUME NEW j \in DOMAIN jobs
      PROVE  /\ js[j] \in Job /\ js[j].sheets = jobs[j].sheets /\ js[j].cut = jobs[j].cut
             /\ js[j].printer = jobs[j].printer \/ jobs[j].printer = Null
             /\ js[j].attempts = jobs[j].attempts /\ js[j].status = jobs[j].status
  <2>1. js[j] = jobs[j] \/ (jobs[j].printer = Null /\ js[j] = [jobs[j] EXCEPT !.printer = p])
    BY DEF Assigned, p
  <2>2. jobs[j] \in Job
    BY <1>1
  <2> HIDE DEF js
  <2>3. CASE js[j] = jobs[j]
    BY <2>2, <2>3
  <2>4. CASE jobs[j].printer = Null /\ js[j] = [jobs[j] EXCEPT !.printer = p]
    BY <1>2, <2>2, <2>4 DEF Job
  <2>5. QED
    BY <2>1, <2>3, <2>4
<1>4. js \in Seq(Job) /\ Len(js) = Len(jobs) /\ DOMAIN js = DOMAIN jobs
  <2>1. js \in [1 .. Len(jobs) -> Job]
    BY <1>1, <1>3 DEF Assigned
  <2> HIDE DEF js
  <2>2. QED
    BY <1>1, <2>1
<1>5. Advance(c, js, rest) /\ starts' \in 0 .. MaxStarts
      /\ UNCHANGED <<printers, sent, listed, saves, crashes>>
  BY PrintAssumption DEF Start, Inv, TypeOK
<1> HIDE DEF js
<1>6. /\ rest \in Seq(Entry)
      /\ \A i \in DOMAIN rest : rest[i].job \in DOMAIN js /\ rest[i].printer = js[rest[i].job].printer
  BY <1>1, <1>4, DueEntriesType
<1> HIDE DEF rest
<1>7. PICK run \in Run :
        /\ jobs' \in Seq(Job) /\ Len(jobs') = Len(js)
        /\ \A j \in DOMAIN js : jobs'[j] \in {js[j], MarkedFailed(js[j])}
        /\ runs' = [runs EXCEPT ![c] = run] /\ ~run.out
        /\ \A i \in DOMAIN run.rest : \E k \in DOMAIN rest : run.rest[i] = rest[k]
  BY <1>1, <1>4, <1>5, <1>6, Advanced
<1>8. ASSUME NEW j \in DOMAIN jobs
      PROVE  /\ jobs'[j].sheets = jobs[j].sheets /\ jobs'[j].cut = jobs[j].cut
             /\ jobs'[j].printer = jobs[j].printer \/ jobs[j].printer = Null
             /\ jobs'[j].printer = js[j].printer
             /\ jobs'[j].attempts >= jobs[j].attempts
             /\ jobs'[j].status = "printed" => jobs[j].status = "printed"
  <2>1. jobs'[j] \in {js[j], MarkedFailed(js[j])} /\ js[j] \in Job
    BY <1>3, <1>4, <1>7
  <2>2. QED
    BY <1>3, <2>1, MarkedFailedKeeps
<1>9. ASSUME NEW i \in DOMAIN run.rest
      PROVE  /\ run.rest[i].job \in DOMAIN jobs
             /\ run.rest[i].printer \in {Null, jobs'[run.rest[i].job].printer}
  <2>1. PICK k \in DOMAIN rest : run.rest[i] = rest[k]
    BY <1>7
  <2>2. QED
    BY <1>4, <1>6, <1>8, <2>1
<1>10. QED
  BY <1>1, <1>4, <1>5, <1>7, <1>8, <1>9, CallGoesOn

\* A job is settled: it is marked, and the call goes on with the rest of its list.
LEMMA SettleInv ==
  ASSUME Inv, NEW c \in Calls, Sending(c), NEW marked \in Job, Settle(c, marked),
         LET job == jobs[Current(c)]
         IN  /\ marked.printer = job.printer
             /\ marked.sheets = job.sheets /\ marked.cut = job.cut
             /\ marked.attempts = job.attempts + 1
             /\ marked.status = "printed" => job.sheets > 0
  PROVE  Inv'
<1> DEFINE n == Current(c)
           js == [jobs EXCEPT ![n] = marked]
           rest == Tail(runs[c].rest)
<1>1. /\ jobs \in Seq(Job) /\ Len(jobs) \in Nat /\ DOMAIN jobs = 1 .. Len(jobs)
      /\ runs \in [Calls -> Run] /\ runs[c].rest \in Seq(Entry) /\ n \in DOMAIN jobs
      /\ \A j \in DOMAIN jobs : jobs[j] \in Job /\ jobs[j].attempts \in Nat
      /\ runs[c].rest # <<>>
  BY JobTypes DEF Inv, TypeOK, Sending
<1>2. /\ js \in Seq(Job) /\ Len(js) = Len(jobs) /\ DOMAIN js = DOMAIN jobs /\ js[n] = marked
      /\ \A j \in DOMAIN jobs \ {n} : js[j] = jobs[j]
  BY <1>1
<1>3. /\ rest \in Seq(Entry)
      /\ \A i \in DOMAIN rest : i + 1 \in DOMAIN runs[c].rest /\ rest[i] = runs[c].rest[i + 1]
  BY <1>1
<1>4. \A i \in DOMAIN runs[c].rest :
        /\ runs[c].rest[i].job \in DOMAIN jobs
        /\ runs[c].rest[i].printer \in {Null, jobs[runs[c].rest[i].job].printer}
  BY DEF Inv, TypeOK, SentWhereRouted
<1>5. Advance(c, js, rest) /\ UNCHANGED <<printers, sent, listed, saves, starts, crashes>>
  BY DEF Settle, counters
<1> HIDE DEF js, rest, n
<1>6. PICK run \in Run :
        /\ jobs' \in Seq(Job) /\ Len(jobs') = Len(js)
        /\ \A j \in DOMAIN js : jobs'[j] \in {js[j], MarkedFailed(js[j])}
        /\ runs' = [runs EXCEPT ![c] = run] /\ ~run.out
        /\ \A i \in DOMAIN run.rest : \E k \in DOMAIN rest : run.rest[i] = rest[k]
  BY <1>1, <1>2, <1>3, <1>5, Advanced
<1>7. ASSUME NEW j \in DOMAIN jobs
      PROVE  /\ js[j] \in Job /\ js[j].sheets = jobs[j].sheets /\ js[j].cut = jobs[j].cut
             /\ js[j].printer = jobs[j].printer
             /\ js[j].attempts \in Nat /\ js[j].attempts >= jobs[j].attempts
             /\ j = n => js[j].attempts > jobs[j].attempts
             /\ js[j].status = "printed" => jobs[j].status = "printed" \/ jobs[j].sheets > 0
  <2>1. CASE j = n
    BY <1>1, <1>2, <2>1 DEF n
  <2>2. CASE j # n
    BY <1>1, <1>2, <2>2
  <2>3. QED
    BY <2>1, <2>2
<1>8. ASSUME NEW j \in DOMAIN jobs
      PROVE  /\ jobs'[j].sheets = jobs[j].sheets /\ jobs'[j].cut = jobs[j].cut
             /\ jobs'[j].printer = jobs[j].printer
             /\ jobs'[j].attempts >= jobs[j].attempts
             /\ j = n => jobs'[j].attempts > jobs[j].attempts
             /\ jobs'[j].status = "printed" => jobs[j].status = "printed" \/ jobs[j].sheets > 0
  <2>1. jobs'[j] \in {js[j], MarkedFailed(js[j])} /\ js[j] \in Job
    BY <1>2, <1>6, <1>7
  <2>2. jobs'[j].attempts \in Nat /\ jobs'[j].attempts >= js[j].attempts
    <3>1. jobs'[j] \in Job
      BY <2>1, MarkedJobs
    <3>2. jobs'[j].attempts \in Nat
      BY <3>1 DEF Job
    <3>3. QED
      BY <2>1, <3>2, MarkedFailedKeeps
  <2>3. jobs[j].attempts \in Nat
    BY <1>1
  <2>4. /\ jobs'[j].attempts >= jobs[j].attempts
        /\ j = n => jobs'[j].attempts > jobs[j].attempts
    BY <1>7, <2>2, <2>3
  <2>5. QED
    BY <1>7, <2>1, <2>4, MarkedFailedKeeps
<1>9. ASSUME NEW i \in DOMAIN run.rest
      PROVE  /\ run.rest[i].job \in DOMAIN jobs
             /\ run.rest[i].printer \in {Null, jobs'[run.rest[i].job].printer}
  <2>1. PICK k \in DOMAIN rest : run.rest[i] = rest[k]
    BY <1>6
  <2>2. k + 1 \in DOMAIN runs[c].rest /\ run.rest[i] = runs[c].rest[k + 1]
    BY <1>3, <2>1
  <2>3. QED
    BY <1>4, <1>8, <2>2
<1>10. Len(jobs') = Len(jobs) /\ starts' \in 0 .. MaxStarts
  BY <1>2, <1>5, <1>6 DEF Inv, TypeOK
<1>11. jobs'[Current(c)].attempts > jobs[Current(c)].attempts
  BY <1>1, <1>8 DEF n
<1>12. QED
  BY <1>1, <1>5, <1>6, <1>8, <1>9, <1>10, <1>11, CallGoesOn

LEMMA SendSucceedsInv == ASSUME Inv, NEW c \in Calls, SendSucceeds(c) PROVE Inv'
<1> DEFINE job == jobs[Current(c)]
<1>1. Sending(c) /\ runs[c].out /\ Settle(c, MarkedPrinted(job))
  BY DEF SendSucceeds
<1>2. job \in Job /\ job.sheets > 0
  BY <1>1, JobTypes DEF Inv, OutOnPaper
<1> HIDE DEF job
<1>3. /\ MarkedPrinted(job).printer = job.printer
      /\ MarkedPrinted(job).sheets = job.sheets /\ MarkedPrinted(job).cut = job.cut
  BY <1>2 DEF MarkedPrinted, Job
<1>4. MarkedPrinted(job) \in Job /\ MarkedPrinted(job).attempts = job.attempts + 1
  BY <1>2, MarkedJobs
<1>5. QED
  BY <1>1, <1>2, <1>3, <1>4, SettleInv DEF job

LEMMA SendFailsInv == ASSUME Inv, NEW c \in Calls, SendFails(c) PROVE Inv'
<1> DEFINE job == jobs[Current(c)]
<1>1. Sending(c) /\ Settle(c, MarkedFailed(job))
  BY DEF SendFails
<1>2. job \in Job
  BY <1>1, JobTypes DEF Inv
<1> HIDE DEF job
<1>3. /\ MarkedFailed(job).printer = job.printer
      /\ MarkedFailed(job).sheets = job.sheets /\ MarkedFailed(job).cut = job.cut
      /\ MarkedFailed(job).status = "failed"
  BY <1>2 DEF MarkedFailed, Job
<1>4. MarkedFailed(job) \in Job /\ MarkedFailed(job).attempts = job.attempts + 1
  BY <1>2, MarkedJobs
<1>5. QED
  BY <1>1, <1>2, <1>3, <1>4, SettleInv DEF job

\* The printer gets the document: one sheet more, and one more call that has it out.
LEMMA HandOutInv == ASSUME Inv, NEW c \in Calls, HandOut(c) PROVE Inv'
<1> DEFINE n == Current(c)
<1>1. /\ Sending(c) /\ ~runs[c].out /\ n \in DOMAIN jobs
      /\ jobs \in Seq(Job) /\ Len(jobs) \in Nat /\ DOMAIN jobs = 1 .. Len(jobs)
      /\ runs \in [Calls -> Run] /\ runs[c] \in Run
      /\ \A j \in DOMAIN jobs :
           /\ jobs[j] \in Job /\ jobs[j].sheets \in Nat
           /\ jobs[j].attempts \in Nat /\ jobs[j].cut \in Nat
  BY JobTypes DEF HandOut, Inv, TypeOK
<1>2. /\ jobs' = [jobs EXCEPT ![n] = [jobs[n] EXCEPT !.sheets = jobs[n].sheets + 1]]
      /\ runs' = [runs EXCEPT ![c] = [runs[c] EXCEPT !.out = TRUE]]
      /\ UNCHANGED <<printers, sent, listed, counters>>
  BY <1>1 DEF HandOut
<1> HIDE DEF n
<1>3. ASSUME NEW j \in DOMAIN jobs
      PROVE  /\ jobs'[j] \in Job /\ jobs'[j].cut = jobs[j].cut /\ jobs'[j].printer = jobs[j].printer
             /\ jobs'[j].attempts = jobs[j].attempts /\ jobs'[j].status = jobs[j].status
             /\ jobs'[j].sheets \in Nat
             /\ jobs'[j].sheets = IF j = n THEN jobs[j].sheets + 1 ELSE jobs[j].sheets
  <2>1. CASE j # n
    BY <1>1, <1>2, <2>1
  <2>2. CASE j = n
    <3>1. jobs[n] \in Job /\ jobs[n].sheets + 1 \in Nat
      BY <1>1
    <3>2. jobs'[n] = [jobs[n] EXCEPT !.sheets = jobs[n].sheets + 1]
      BY <1>1, <1>2
    <3> QED
      BY <2>2, <3>1, <3>2 DEF Job
  <2>3. QED
    BY <2>1, <2>2
<1>4. jobs' \in Seq(Job) /\ Len(jobs') = Len(jobs) /\ DOMAIN jobs' = DOMAIN jobs
  <2>1. DOMAIN jobs' = 1 .. Len(jobs) /\ jobs' = [j \in 1 .. Len(jobs) |-> jobs'[j]]
    BY <1>1, <1>2
  <2>2. jobs' \in [1 .. Len(jobs) -> Job]
    BY <1>1, <1>3, <2>1
  <2>3. QED
    BY <1>1, <2>2
<1>5. /\ runs'[c].rest = runs[c].rest /\ runs'[c].out /\ runs'[c] \in Run
      /\ \A d \in Calls \ {c} : runs'[d] = runs[d]
  <2>1. runs'[c] = [runs[c] EXCEPT !.out = TRUE] /\ \A d \in Calls \ {c} : runs'[d] = runs[d]
    BY <1>1, <1>2
  <2>2. QED
    BY <1>1, <2>1 DEF Run
<1>6. \A d \in Calls :
        /\ runs'[d].rest = runs[d].rest /\ (Sending(d)' <=> Sending(d))
        /\ Current(d)' = Current(d)
        /\ runs'[d].out <=> d = c \/ runs[d].out
  BY <1>5 DEF Sending, Current
<1>7. runs' \in [Calls -> Run]
  BY <1>1, <1>2, <1>5
<1>8. TypeOK'
  <2>1. \A d \in Calls : runs'[d].out => Sending(d)'
    BY <1>1, <1>6 DEF Inv, TypeOK
  <2>2. \A d \in Calls : \A i \in DOMAIN runs'[d].rest : runs'[d].rest[i].job \in DOMAIN jobs'
    BY <1>4, <1>6 DEF Inv, TypeOK
  <2>3. QED
    BY <1>2, <1>4, <1>7, <2>1, <2>2 DEF Inv, TypeOK, counters
<1>9. PrintedOnPaper'
  <2>1. \A j \in DOMAIN jobs : jobs[j].sheets > 0 => jobs'[j].sheets > 0
    BY <1>1, <1>3
  <2>2. QED
    BY <1>3, <1>4, <2>1 DEF Inv, PrintedOnPaper
<1>10. OutOnPaper'
  <2> SUFFICES ASSUME NEW d \in Calls, runs'[d].out
               PROVE  jobs'[Current(d)].sheets > 0
    BY <1>6 DEF OutOnPaper
  <2>1. CASE d = c
    BY <1>1, <1>3, <2>1 DEF n
  <2>2. CASE d # c
    <3>1. runs[d].out /\ Current(d) \in DOMAIN jobs /\ jobs[Current(d)].sheets > 0
      BY <1>6, <2>2, JobTypes DEF Inv, OutOnPaper
    <3>2. QED
      BY <1>1, <1>3, <3>1
  <2>3. QED
    BY <2>1, <2>2
<1>11. EverySheetCounted'
  <2> SUFFICES ASSUME NEW j \in DOMAIN jobs
               PROVE  jobs'[j].sheets <= jobs'[j].attempts + Cardinality(HandedOut(j)') + jobs'[j].cut
    BY <1>4 DEF EverySheetCounted
  <2>1. jobs[j].sheets <= jobs[j].attempts + Cardinality(HandedOut(j)) + jobs[j].cut
    BY DEF Inv, EverySheetCounted
  <2>2. IsFiniteSet(HandedOut(j)) /\ Cardinality(HandedOut(j)) \in Nat
    BY HandedOutFinite
  <2>3. CASE j = n
    <3>1. HandedOut(j)' = HandedOut(j) \cup {c} /\ c \notin HandedOut(j)
      BY <1>1, <1>6, <2>3 DEF HandedOut, n
    <3>2. Cardinality(HandedOut(j)') = Cardinality(HandedOut(j)) + 1
      BY <2>2, <3>1, FS_AddElement
    <3>3. /\ jobs'[j].sheets = jobs[j].sheets + 1 /\ jobs'[j].attempts = jobs[j].attempts
          /\ jobs'[j].cut = jobs[j].cut
      BY <1>3, <2>3
    <3>4. jobs[j].sheets \in Nat /\ jobs[j].attempts \in Nat /\ jobs[j].cut \in Nat
      BY <1>1
    <3>5. jobs[j].sheets + 1 <= jobs[j].attempts + (Cardinality(HandedOut(j)) + 1) + jobs[j].cut
      BY <2>1, <2>2, <3>4
    <3>6. QED
      BY <3>2, <3>3, <3>5
  <2>4. CASE j # n
    <3>1. HandedOut(j)' = HandedOut(j)
      BY <1>6, <2>4 DEF HandedOut, n
    <3>2. QED
      BY <1>3, <2>1, <2>4, <3>1
  <2>5. QED
    BY <2>3, <2>4
<1>12. SentWhereRouted'
  <2> SUFFICES ASSUME NEW d \in Calls, NEW i \in DOMAIN runs[d].rest
               PROVE  runs[d].rest[i].printer \in {Null, jobs'[runs[d].rest[i].job].printer}
    BY <1>6 DEF SentWhereRouted
  <2>1. runs[d].rest[i].job \in DOMAIN jobs
    BY DEF Inv, TypeOK
  <2>2. QED
    BY <1>3, <2>1 DEF Inv, SentWhereRouted
<1>13. QED
  BY <1>8, <1>9, <1>10, <1>11, <1>12 DEF Inv

-----------------------------------------------------------------------------
(***************************************************************************)
(* The steps that leave the calls alone.                                   *)
(***************************************************************************)

\* A job is added at the end; a ticket may be on record from now on.
LEMMA AddJobInv ==
  ASSUME Inv, NEW d \in Documents, NEW p \in Printers \cup {Null}, AddJob(d, p),
         sent' \subseteq Tickets, UNCHANGED <<printers, runs, listed, counters>>
  PROVE  Inv'
<1> DEFINE job == NewJob(d, p)
           m == Len(jobs) + 1
<1>1. /\ jobs \in Seq(Job) /\ Len(jobs) \in Nat /\ DOMAIN jobs = 1 .. Len(jobs)
      /\ Len(jobs) < MaxJobs /\ MaxJobs \in Nat /\ jobs' = Append(jobs, job)
  BY JobTypes, PrintAssumption DEF AddJob, Inv, TypeOK
<1>2. /\ job \in Job /\ job.status = "pending"
      /\ job.attempts = 0 /\ job.sheets = 0 /\ job.cut = 0
  BY DEF NewJob, Job
<1> HIDE DEF job
<1>3. /\ jobs' \in Seq(Job) /\ Len(jobs') = m /\ Len(jobs') <= MaxJobs
      /\ DOMAIN jobs' = DOMAIN jobs \cup {m} /\ m \notin DOMAIN jobs /\ jobs'[m] = job
      /\ \A j \in DOMAIN jobs : jobs'[j] = jobs[j]
  BY <1>1, <1>2
<1>4. TypeOK'
  <2>1. \A c \in Calls : runs'[c].out => Sending(c)'
    BY <1>1 DEF Inv, TypeOK, Sending
  <2>2. \A c \in Calls : \A i \in DOMAIN runs'[c].rest : runs'[c].rest[i].job \in DOMAIN jobs'
    BY <1>1, <1>3 DEF Inv, TypeOK
  <2>3. listed' \subseteq DOMAIN jobs' /\ runs' \in [Calls -> Run]
    BY <1>1, <1>3 DEF Inv, TypeOK
  <2>4. QED
    BY <1>1, <1>3, <2>1, <2>2, <2>3 DEF Inv, TypeOK, counters
<1>5. PrintedOnPaper'
  BY <1>2, <1>3 DEF Inv, PrintedOnPaper
<1>6. \A c \in Calls : Current(c)' = Current(c) /\ runs'[c] = runs[c]
  BY <1>1 DEF Current
<1>7. OutOnPaper'
  BY <1>3, <1>6, JobTypes DEF Inv, OutOnPaper
<1>8. EverySheetCounted'
  <2> SUFFICES ASSUME NEW j \in DOMAIN jobs'
               PROVE  jobs'[j].sheets <= jobs'[j].attempts + Cardinality(HandedOut(j)') + jobs'[j].cut
    BY DEF EverySheetCounted
  <2>1. HandedOut(j)' = HandedOut(j)
    BY <1>6 DEF HandedOut
  <2>2. CASE j \in DOMAIN jobs
    BY <1>3, <2>1, <2>2 DEF Inv, EverySheetCounted
  <2>3. CASE j = m
    <3>1. Cardinality(HandedOut(j)) \in Nat
      BY HandedOutFinite
    <3>2. QED
      BY <1>2, <1>3, <2>1, <2>3, <3>1
  <2>4. QED
    BY <1>3, <2>2, <2>3
<1>9. SentWhereRouted'
  <2> SUFFICES ASSUME NEW c \in Calls, NEW i \in DOMAIN runs[c].rest
               PROVE  runs[c].rest[i].printer \in {Null, jobs'[runs[c].rest[i].job].printer}
    BY <1>6 DEF SentWhereRouted
  <2>1. runs[c].rest[i].job \in DOMAIN jobs
    BY DEF Inv, TypeOK
  <2>2. QED
    BY <1>3, <2>1 DEF Inv, SentWhereRouted
<1>10. QED
  BY <1>4, <1>5, <1>7, <1>8, <1>9 DEF Inv

\* A step that leaves the calls alone and changes at most the state and the time of jobs.
LEMMA QuietStep ==
  ASSUME Inv, jobs' \in Seq(Job), Len(jobs') = Len(jobs),
         \A j \in DOMAIN jobs :
           /\ jobs'[j].printer = jobs[j].printer
           /\ jobs'[j].sheets = jobs[j].sheets /\ jobs'[j].cut = jobs[j].cut
           /\ jobs'[j].attempts = jobs[j].attempts
           /\ jobs'[j].status = "printed" => jobs[j].status = "printed",
         runs' = runs, listed' \subseteq DOMAIN jobs,
         printers' \in Seq(Profile), Len(printers') <= saves', saves' \in 0 .. MaxSaves,
         sent' \subseteq Tickets,
         UNCHANGED <<starts, crashes>>
  PROVE  Inv'
<1>1. Len(jobs) \in Nat /\ DOMAIN jobs = 1 .. Len(jobs) /\ DOMAIN jobs' = DOMAIN jobs
  BY JobTypes DEF Inv
<1>2. \A c \in Calls : Current(c)' = Current(c) /\ (Sending(c)' <=> Sending(c))
  BY DEF Current, Sending
<1>3. TypeOK'
  BY <1>1, <1>2 DEF Inv, TypeOK
<1>4. PrintedOnPaper'
  BY <1>1 DEF Inv, PrintedOnPaper
<1>5. OutOnPaper'
  BY <1>2, JobTypes DEF Inv, OutOnPaper
<1>6. EverySheetCounted'
  <2>1. \A j : HandedOut(j)' = HandedOut(j)
    BY <1>2 DEF HandedOut
  <2>2. QED
    BY <1>1, <2>1 DEF Inv, EverySheetCounted
<1>7. SentWhereRouted'
  <2> SUFFICES ASSUME NEW c \in Calls, NEW i \in DOMAIN runs[c].rest
               PROVE  runs[c].rest[i].printer \in {Null, jobs'[runs[c].rest[i].job].printer}
    BY DEF SentWhereRouted
  <2>1. runs[c].rest[i].job \in DOMAIN jobs
    BY DEF Inv, TypeOK
  <2>2. QED
    BY <2>1 DEF Inv, SentWhereRouted
<1>8. QED
  BY <1>3, <1>4, <1>5, <1>6, <1>7 DEF Inv

\* Receipts, tickets and service jobs; a ticket may be made without a job.
LEMMA QueueInv == ASSUME Inv, Queue PROVE Inv'
<1>1. UNCHANGED <<printers, runs, listed, counters>> /\ sent \subseteq Tickets
  BY DEF Queue, Inv, TypeOK
<1>2. Bills \subseteq Documents /\ Tickets \subseteq Documents /\ Printers \subseteq Documents
      /\ Null \in Printers \cup {Null}
  BY DEF Documents
<1>3. \A p \in DOMAIN printers : p \in Printers
  <2>1. DOMAIN printers = 1 .. Len(printers) /\ Len(printers) \in Nat /\ Len(printers) <= MaxSaves
    BY PrintAssumption DEF Inv, TypeOK
  <2>2. QED
    BY <2>1, PrintAssumption DEF Printers
<1>4. DefaultPrinter("kitchen") \in Printers \cup {Null}
  BY DefaultPrinterType DEF Inv
<1>5. CASE QueueReceipt
  BY <1>1, <1>2, <1>5, AddJobInv DEF QueueReceipt
<1>6. CASE SendTicket
  <2>1. PICK k \in Tickets \ sent :
          /\ sent' = sent \cup {k}
          /\ IF DefaultPrinter("kitchen") = Null
             THEN jobs' = jobs ELSE AddJob(k, DefaultPrinter("kitchen"))
    BY <1>6 DEF SendTicket
  <2>2. sent' \subseteq Tickets
    BY <1>1, <2>1
  <2>3. CASE DefaultPrinter("kitchen") = Null
    <3>1. /\ jobs' = jobs /\ runs' = runs /\ listed' = listed /\ printers' = printers
          /\ saves' = saves /\ UNCHANGED <<starts, crashes>>
      BY <1>1, <2>1, <2>3 DEF counters
    <3>2. jobs \in Seq(Job) /\ printers \in Seq(Profile) /\ Len(printers) <= saves
          /\ saves \in 0 .. MaxSaves /\ listed \subseteq DOMAIN jobs
      BY DEF Inv, TypeOK
    <3>3. QED
      BY <2>2, <3>1, <3>2, QuietStep
  <2>4. CASE DefaultPrinter("kitchen") # Null
    BY <1>1, <1>2, <1>4, <2>1, <2>2, <2>4, AddJobInv
  <2>5. QED
    BY <2>3, <2>4
<1>7. CASE QueueKot
  <2>1. PICK k \in sent, p \in {DefaultPrinter("kitchen")} \cup DOMAIN printers :
          AddJob(k, p) /\ UNCHANGED sent
    BY <1>7 DEF QueueKot
  <2>2. p \in Printers \cup {Null} /\ k \in Documents
    BY <1>1, <1>2, <1>3, <1>4
  <2>3. QED
    BY <1>1, <2>1, <2>2, AddJobInv
<1>8. CASE QueueService
  <2>1. PICK p \in DOMAIN printers : AddJob(p, p) /\ UNCHANGED sent
    BY <1>8 DEF QueueService
  <2>2. QED
    BY <1>1, <1>2, <1>3, <2>1, AddJobInv
<1>9. QED
  BY <1>5, <1>6, <1>7, <1>8 DEF Queue

\* A profile is saved: one more at most, and one save more.
LEMMA SavePrinterInv == ASSUME Inv, SavePrinter PROVE Inv'
<1>1. /\ saves < MaxSaves /\ saves' = saves + 1 /\ saves \in Nat /\ saves' \in 0 .. MaxSaves
      /\ UNCHANGED <<sent, jobs, runs, listed, starts, crashes>>
      /\ printers \in Seq(Profile) /\ Len(printers) <= saves /\ sent \subseteq Tickets
  <2>1. /\ saves \in 0 .. MaxSaves /\ printers \in Seq(Profile)
        /\ Len(printers) <= saves /\ sent \subseteq Tickets
    BY DEF Inv, TypeOK
  <2>2. /\ saves < MaxSaves /\ saves' = saves + 1
        /\ UNCHANGED <<sent, jobs, runs, listed, starts, crashes>>
    BY DEF SavePrinter
  <2>3. QED
    BY <2>1, <2>2, PrintAssumption
<1>2. PICK p \in 1 .. Len(printers) + 1, profile \in {f \in Profile : f.default \in Defaults} :
        LET others == IF profile.default
                      THEN [q \in DOMAIN printers |->
                              IF printers[q].role = profile.role
                              THEN [printers[q] EXCEPT !.default = FALSE] ELSE printers[q]]
                      ELSE printers
            saved == IF p = Len(printers) + 1
                     THEN Append(others, profile) ELSE [others EXCEPT ![p] = profile]
        IN  printers' \in {others, saved}
  BY DEF SavePrinter
<1> DEFINE others == IF profile.default
                     THEN [q \in DOMAIN printers |->
                             IF printers[q].role = profile.role
                             THEN [printers[q] EXCEPT !.default = FALSE] ELSE printers[q]]
                     ELSE printers
<1>3. Len(printers) \in Nat /\ DOMAIN printers = 1 .. Len(printers)
      /\ \A q \in DOMAIN printers : printers[q] \in Profile
  BY <1>1
<1>4. \A q \in DOMAIN printers : [printers[q] EXCEPT !.default = FALSE] \in Profile
  BY <1>3 DEF Profile
<1>5. others \in Seq(Profile) /\ Len(others) = Len(printers)
  <2>1. CASE profile.default
    <3>1. others \in [1 .. Len(printers) -> Profile]
      BY <1>3, <1>4, <2>1
    <3> HIDE DEF others
    <3>2. QED
      BY <1>3, <3>1
  <2>2. CASE ~profile.default
    BY <1>1, <2>2
  <2>3. QED
    BY <2>1, <2>2
<1>6. printers' \in {others, IF p = Len(printers) + 1 THEN Append(others, profile)
                             ELSE [others EXCEPT ![p] = profile]}
  BY <1>2
<1> HIDE DEF others
<1>7. printers' \in Seq(Profile) /\ Len(printers') <= Len(printers) + 1
  <2>1. CASE printers' = others
    BY <1>3, <1>5, <2>1
  <2>2. CASE printers' # others /\ p = Len(printers) + 1
    BY <1>3, <1>5, <1>6, <2>2
  <2>3. CASE printers' # others /\ p # Len(printers) + 1
    <3>1. printers' = [others EXCEPT ![p] = profile] /\ profile \in Profile
      BY <1>6, <2>3
    <3>2. others \in [1 .. Len(printers) -> Profile]
      BY <1>5
    <3>3. printers' \in [1 .. Len(printers) -> Profile]
      BY <3>1, <3>2
    <3>4. printers' \in Seq(Profile) /\ Len(printers') = Len(printers)
      BY <1>3, <3>3
    <3>5. QED
      BY <1>3, <3>4
  <2>4. QED
    BY <2>1, <2>2, <2>3
<1>8. Len(printers') \in Nat /\ Len(printers') <= saves'
  BY <1>1, <1>3, <1>7
<1>9. jobs' \in Seq(Job) /\ Len(jobs') = Len(jobs) /\ listed' \subseteq DOMAIN jobs
      /\ jobs' = jobs /\ runs' = runs
  BY <1>1 DEF Inv, TypeOK
<1>10. QED
  BY <1>1, <1>7, <1>8, <1>9, QuietStep

\* One job changes its state or its time: it keeps the rest, and is not printed by that.
LEMMA OneJobInv ==
  ASSUME Inv, NEW j \in DOMAIN jobs, NEW new \in Job, jobs' = [jobs EXCEPT ![j] = new],
         new.printer = jobs[j].printer, new.sheets = jobs[j].sheets, new.cut = jobs[j].cut,
         new.attempts = jobs[j].attempts,
         new.status = "printed" => jobs[j].status = "printed",
         UNCHANGED <<printers, sent, runs, listed, counters>>
  PROVE  Inv'
<1>1. jobs \in Seq(Job) /\ sent \subseteq Tickets /\ listed \subseteq DOMAIN jobs
      /\ printers \in Seq(Profile) /\ Len(printers) <= saves /\ saves \in 0 .. MaxSaves
  BY DEF Inv, TypeOK
<1>2. jobs' \in Seq(Job) /\ Len(jobs') = Len(jobs) /\ jobs'[j] = new
      /\ \A k \in DOMAIN jobs \ {j} : jobs'[k] = jobs[k]
  BY <1>1
<1>3. \A k \in DOMAIN jobs :
        /\ jobs'[k].printer = jobs[k].printer
        /\ jobs'[k].sheets = jobs[k].sheets /\ jobs'[k].cut = jobs[k].cut
        /\ jobs'[k].attempts = jobs[k].attempts
        /\ jobs'[k].status = "printed" => jobs[k].status = "printed"
  BY <1>2
<1>4. runs' = runs /\ listed' = listed /\ printers' = printers /\ saves' = saves
      /\ sent' = sent /\ UNCHANGED <<starts, crashes>>
  BY DEF counters
<1>5. QED
  BY <1>1, <1>2, <1>3, <1>4, QuietStep

LEMMA BackoffEndsInv == ASSUME Inv, BackoffEnds PROVE Inv'
<1>1. PICK j \in DOMAIN jobs : jobs' = [jobs EXCEPT ![j] = [jobs[j] EXCEPT !.due = TRUE]]
  BY DEF BackoffEnds
<1>2. jobs[j] \in Job
  BY JobTypes DEF Inv
<1> DEFINE new == [jobs[j] EXCEPT !.due = TRUE]
<1>3. /\ new \in Job /\ new.printer = jobs[j].printer
      /\ new.sheets = jobs[j].sheets /\ new.cut = jobs[j].cut
      /\ new.attempts = jobs[j].attempts /\ new.status = jobs[j].status
  BY <1>2 DEF Job
<1>4. jobs' = [jobs EXCEPT ![j] = new] /\ UNCHANGED <<printers, sent, runs, listed, counters>>
  BY <1>1 DEF BackoffEnds
<1> HIDE DEF new
<1>5. QED
  BY <1>3, <1>4, OneJobInv

LEMMA RetryInv == ASSUME Inv, Retry PROVE Inv'
<1>1. PICK j \in listed : jobs' = [jobs EXCEPT ![j] = Retried(jobs[j])]
  BY DEF Retry
<1>2. j \in DOMAIN jobs /\ jobs[j] \in Job
  BY JobTypes DEF Inv, TypeOK
<1>3. /\ Retried(jobs[j]) \in Job /\ Retried(jobs[j]).status = "pending"
      /\ Retried(jobs[j]).printer = jobs[j].printer
      /\ Retried(jobs[j]).sheets = jobs[j].sheets /\ Retried(jobs[j]).cut = jobs[j].cut
      /\ Retried(jobs[j]).attempts = jobs[j].attempts
  BY <1>2 DEF Retried, Job
<1>4. QED
  BY <1>1, <1>2, <1>3, OneJobInv DEF Retry

LEMMA LoadJobsInv == ASSUME Inv, LoadJobs PROVE Inv'
<1>1. jobs' = jobs /\ runs' = runs /\ printers' = printers /\ saves' = saves
      /\ sent' = sent /\ UNCHANGED <<starts, crashes>> /\ listed' \subseteq DOMAIN jobs
  BY DEF LoadJobs, counters
<1>2. jobs \in Seq(Job) /\ printers \in Seq(Profile) /\ Len(printers) <= saves
      /\ saves \in 0 .. MaxSaves /\ sent \subseteq Tickets
  BY DEF Inv, TypeOK
<1>3. QED
  BY <1>1, <1>2, QuietStep

LEMMA IdleInv == ASSUME Inv, UNCHANGED vars PROVE Inv'
<1>1. jobs' = jobs /\ runs' = runs /\ printers' = printers /\ saves' = saves
      /\ sent' = sent /\ UNCHANGED <<starts, crashes>> /\ listed' = listed
  BY DEF vars
<1>2. jobs \in Seq(Job) /\ printers \in Seq(Profile) /\ Len(printers) <= saves
      /\ saves \in 0 .. MaxSaves /\ sent \subseteq Tickets /\ listed \subseteq DOMAIN jobs
  BY DEF Inv, TypeOK
<1>3. QED
  BY <1>1, <1>2, QuietStep

\* The process ends: what was out is cut off, and every job keeps its account.
LEMMA CrashInv == ASSUME Inv, Crash PROVE Inv'
<1>1. /\ jobs \in Seq(Job) /\ Len(jobs) \in Nat /\ DOMAIN jobs = 1 .. Len(jobs)
      /\ \A j \in DOMAIN jobs :
           /\ jobs[j] \in Job /\ jobs[j].sheets \in Nat
           /\ jobs[j].attempts \in Nat /\ jobs[j].cut \in Nat
  BY JobTypes DEF Inv, TypeOK
<1>2. /\ jobs' = [j \in DOMAIN jobs |->
                    [jobs[j] EXCEPT !.cut = jobs[j].cut + Cardinality(HandedOut(j))]]
      /\ runs' = [c \in Calls |-> Idle] /\ listed' = {} /\ crashes' \in 0 .. MaxCrashes
      /\ sent' \subseteq Tickets /\ UNCHANGED <<printers, saves, starts>>
  BY PrintAssumption DEF Crash, HandedOut, Inv, TypeOK
<1>3. ASSUME NEW j \in DOMAIN jobs
      PROVE  /\ jobs'[j] \in Job /\ jobs'[j].sheets = jobs[j].sheets /\ jobs'[j].attempts = jobs[j].attempts
             /\ jobs'[j].status = jobs[j].status
             /\ jobs'[j].cut = jobs[j].cut + Cardinality(HandedOut(j))
  <2>1. jobs[j].cut + Cardinality(HandedOut(j)) \in Nat
    <3>1. jobs[j].cut \in Nat /\ Cardinality(HandedOut(j)) \in Nat
      BY <1>1, HandedOutFinite
    <3>2. QED
      BY <3>1
  <2>2. jobs'[j] = [jobs[j] EXCEPT !.cut = jobs[j].cut + Cardinality(HandedOut(j))]
    BY <1>2
  <2>3. jobs[j] \in Job
    BY <1>1
  <2>4. QED
    BY <2>1, <2>2, <2>3 DEF Job
<1>4. jobs' \in Seq(Job) /\ Len(jobs') = Len(jobs) /\ DOMAIN jobs' = DOMAIN jobs
  <2>1. DOMAIN jobs' = 1 .. Len(jobs) /\ jobs' = [j \in 1 .. Len(jobs) |-> jobs'[j]]
    BY <1>1, <1>2
  <2>2. jobs' \in [1 .. Len(jobs) -> Job]
    BY <1>1, <1>3, <2>1
  <2>3. QED
    BY <1>1, <2>2
<1>5. \A c \in Calls : runs'[c] \in Run /\ ~runs'[c].out /\ DOMAIN runs'[c].rest = {}
  <2>1. Idle \in Run /\ ~Idle.out /\ DOMAIN Idle.rest = {}
    BY DEF Idle, Run
  <2>2. QED
    BY <1>2, <2>1
<1>6. TypeOK'
  <2>1. runs' \in [Calls -> Run]
    BY <1>2, <1>5
  <2>2. QED
    BY <1>2, <1>4, <1>5, <2>1 DEF Inv, TypeOK
<1>7. PrintedOnPaper' /\ OutOnPaper' /\ SentWhereRouted'
  BY <1>3, <1>4, <1>5 DEF Inv, PrintedOnPaper, OutOnPaper, SentWhereRouted
<1>8. EverySheetCounted'
  <2> SUFFICES ASSUME NEW j \in DOMAIN jobs
               PROVE  jobs'[j].sheets <= jobs'[j].attempts + Cardinality(HandedOut(j)') + jobs'[j].cut
    BY <1>4 DEF EverySheetCounted
  <2>1. HandedOut(j)' = {}
    BY <1>5 DEF HandedOut
  <2>2. Cardinality(HandedOut(j)') = 0
    BY <2>1, FS_EmptySet
  <2>3. jobs[j].sheets <= jobs[j].attempts + Cardinality(HandedOut(j)) + jobs[j].cut
    BY DEF Inv, EverySheetCounted
  <2>4. /\ jobs[j].sheets \in Nat /\ jobs[j].attempts \in Nat /\ jobs[j].cut \in Nat
        /\ Cardinality(HandedOut(j)) \in Nat
    BY <1>1, HandedOutFinite
  <2>5. jobs[j].sheets <= jobs[j].attempts + 0 + (jobs[j].cut + Cardinality(HandedOut(j)))
    BY <2>3, <2>4
  <2>6. QED
    BY <1>3, <2>2, <2>5
<1>9. QED
  BY <1>6, <1>7, <1>8 DEF Inv

-----------------------------------------------------------------------------
LEMMA InvPreserved == Inv /\ [Next]_vars => Inv'
<1> SUFFICES ASSUME Inv, [Next]_vars PROVE Inv'
  OBVIOUS
<1>1. CASE SavePrinter
  BY <1>1, SavePrinterInv
<1>2. CASE Queue
  BY <1>2, QueueInv
<1>3. CASE \E c \in Calls : Process(c)
  BY <1>3, StartInv, HandOutInv, SendSucceedsInv, SendFailsInv DEF Process
<1>4. CASE BackoffEnds \/ LoadJobs \/ Retry
  BY <1>4, BackoffEndsInv, LoadJobsInv, RetryInv
<1>5. CASE Crash
  BY <1>5, CrashInv
<1>6. CASE UNCHANGED vars
  BY <1>6, IdleInv
<1>7. QED
  BY <1>1, <1>2, <1>3, <1>4, <1>5, <1>6 DEF Next

\* The inductive invariant holds of every state, whatever calls overlap and whenever the
\* process ends.
THEOREM PrintInvariant == Spec => []Inv
<1>1. QED
  BY InvInitially, InvPreserved, PTL DEF Spec

\* Every state of the print queue has its type: the lists the calls still send name jobs
\* that exist.
THEOREM PrintQueueTyped == Spec => []TypeOK
<1>1. Inv => TypeOK
  BY DEF Inv
<1>2. QED
  BY <1>1, PrintInvariant, PTL

\* "Cashier cannot hide failed print jobs": what counts as printed was handed to a printer.
THEOREM PrintedOnPaperAlways == Spec => []PrintedOnPaper
<1>1. Inv => PrintedOnPaper
  BY DEF Inv
<1>2. QED
  BY <1>1, PrintInvariant, PTL

\* No paper without an attempt on record, one under way, or one that the end of the process
\* cut off.
THEOREM EverySheetCountedAlways == Spec => []EverySheetCounted
<1>1. Inv => EverySheetCounted
  BY DEF Inv
<1>2. QED
  BY <1>1, PrintInvariant, PTL

\* What a call read before it waited still holds when it sends: the printer of its entry is
\* the one the job has on record, unless the job had none then.
THEOREM SentWhereRoutedAlways == Spec => []SentWhereRouted
<1>1. Inv => SentWhereRouted
  BY DEF Inv
<1>2. QED
  BY <1>1, PrintInvariant, PTL
=============================================================================
