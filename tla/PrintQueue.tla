------------------------------- MODULE PrintQueue -------------------------------
(***************************************************************************)
(* The print queue (services/printer-service.ts, printer-repository.ts,    *)
(* billing-service.ts queueReceipt, ipc/printer-ipc.ts and the print jobs  *)
(* that ipc/kot-ipc.ts makes of tickets).                                  *)
(*                                                                         *)
(* A call of processQueue reads the jobs that are due once, and sends them *)
(* one after the other, waiting for the printer at each; calls overlap,    *)
(* nothing claims a job, and the answers of the printers (a closed socket, *)
(* an error, 5 seconds without either) come late or not at all.  Between   *)
(* two waits a call runs without interruption.  A printer that fails may   *)
(* have printed before it did.  Jobs are told apart by their place in      *)
(* print_jobs; what is on the paper is left out, with the copy type a job  *)
(* keeps, and so are the routes, which nothing reads.                      *)
(***************************************************************************)
EXTENDS Naturals, FiniteSets, Sequences

CONSTANTS
  Calls,        \* calls of processQueue that may be under way at once
  Bills,        \* settled bills
  Tickets,      \* kot_tickets
  Null,         \* no printer
  Defaults,     \* what isDefault may be of a profile that is saved
  Limit,        \* jobs that one call takes
  MaxSaves,     \* bound on the saved profiles, new or changed
  MaxJobs,      \* bound on the jobs
  MaxStarts,    \* bound on the calls ever made
  MaxCrashes    \* bound on the ends of the process

ASSUME PrintAssumption ==
  /\ Limit \in Nat \ {0} /\ Defaults \subseteq BOOLEAN
  /\ MaxSaves \in Nat /\ MaxJobs \in Nat /\ MaxStarts \in Nat /\ MaxCrashes \in Nat
  /\ IsFiniteSet(Calls) /\ Null \notin Nat /\ Bills \cap Tickets = {}

VARIABLES
  printers,  \* printer_profiles, by id
  sent,      \* the tickets that are on record
  jobs,      \* print_jobs, by id, with what each has cost in paper
  runs,      \* runs[c]: what is left of the list call c read, its head being sent
  listed,    \* the failed jobs the Printers screen shows a Retry button for
  saves, starts, crashes

vars == <<printers, sent, jobs, runs, listed, saves, starts, crashes>>
counters == <<saves, starts, crashes>>

Printers == 1 .. MaxSaves
Documents == Bills \cup Tickets \cup Printers

\* Of the roles only these two are ever asked for.
Profile == [role : {"receipt", "kitchen"}, default : BOOLEAN, active : BOOLEAN]

\* A test page or the opening of the drawer has the printer for its document.
\* sheets counts the times the document was handed to a printer, cut those of them
\* whose outcome the process did not live to store.
Job == [document : Documents, printer : Printers \cup {Null},
        status : {"pending", "failed", "printed"}, due : BOOLEAN,
        attempts : Nat, sheets : Nat, cut : Nat]

\* printer is the one read with the list.
Entry == [job : 1 .. MaxJobs, printer : Printers \cup {Null}]
Run == [rest : Seq(Entry), out : BOOLEAN]
Idle == [rest |-> <<>>, out |-> FALSE]

-----------------------------------------------------------------------------
Active(p) == p # Null /\ printers[p].active

\* The active printer of the role, a default one first, then the oldest.
DefaultPrinter(role) ==
  LET fit == {p \in DOMAIN printers : printers[p].role = role /\ printers[p].active}
      best == IF \E p \in fit : printers[p].default
              THEN {p \in fit : printers[p].default} ELSE fit
  IN  IF best = {} THEN Null ELSE CHOOSE p \in best : \A q \in best : p <= q

\* savePrinter, for a new profile or an old one.  The other printers of the role stop
\* being the default first; the profile may then fail to be written, or the process end.
SavePrinter ==
  /\ saves < MaxSaves /\ saves' = saves + 1
  /\ \E p \in 1 .. Len(printers) + 1, profile \in {f \in Profile : f.default \in Defaults} :
       LET others == IF profile.default
                     THEN [q \in DOMAIN printers |->
                             IF printers[q].role = profile.role
                             THEN [printers[q] EXCEPT !.default = FALSE] ELSE printers[q]]
                     ELSE printers
           saved == IF p = Len(printers) + 1
                    THEN Append(others, profile) ELSE [others EXCEPT ![p] = profile]
       IN  printers' \in {others, saved}
  /\ UNCHANGED <<sent, jobs, runs, listed, starts, crashes>>

-----------------------------------------------------------------------------
\* Making jobs.
NewJob(d, p) ==
  [document |-> d, printer |-> p, status |-> "pending", due |-> TRUE,
   attempts |-> 0, sheets |-> 0, cut |-> 0]

AddJob(d, p) == Len(jobs) < MaxJobs /\ jobs' = Append(jobs, NewJob(d, p))

\* No printer yet, whether there is one or not.
QueueReceipt == \E b \in Bills : AddJob(b, Null) /\ UNCHANGED sent

\* A ticket is made, reprinted or cancelled, and its job with it.  While no kitchen printer
\* is active queueKot throws, which nobody sees: the ticket has no job.
SendTicket ==
  \E k \in Tickets \ sent :
    LET p == DefaultPrinter("kitchen")
    IN  /\ sent' = sent \cup {k}
        /\ IF p = Null THEN jobs' = jobs ELSE AddJob(k, p)

\* printJobs:queueKot, of a ticket on record, may name the printer.
QueueKot ==
  \E k \in sent, p \in {DefaultPrinter("kitchen")} \cup DOMAIN printers :
    Active(p) /\ AddJob(k, p) /\ UNCHANGED sent

\* queueTest and queueDrawer differ in what is sent.
QueueService == \E p \in DOMAIN printers : Active(p) /\ AddJob(p, p) /\ UNCHANGED sent

-----------------------------------------------------------------------------
\* Processing.

\* A mutant: receipts that have a printer are sent to the one of today.
AssignedAnew ==
  LET p == DefaultPrinter("receipt")
  IN  [j \in DOMAIN jobs |->
         IF p # Null /\ jobs[j].document \in Bills /\ jobs[j].status = "pending"
         THEN [jobs[j] EXCEPT !.printer = p] ELSE jobs[j]]

\* assignUnroutedReceiptJobs: of the pending receipts only.
Assigned ==
  LET p == DefaultPrinter("receipt")
  IN  [j \in DOMAIN jobs |->
         IF /\ p # Null /\ jobs[j].document \in Bills
            /\ jobs[j].printer = Null /\ jobs[j].status = "pending"
         THEN [jobs[j] EXCEPT !.printer = p] ELSE jobs[j]]

\* pending: the newest jobs that are due come first, up to Limit of them.
DueEntries(js) ==
  LET due == {j \in DOMAIN js : js[j].status \in {"pending", "failed"} /\ js[j].due}
      Newest(i) == CHOOSE j \in due : Cardinality({k \in due : k >= j}) = i
      count == IF Cardinality(due) < Limit THEN Cardinality(due) ELSE Limit
  IN  [i \in 1 .. count |-> [job |-> Newest(i), printer |-> js[Newest(i)].printer]]

MarkedPrinted(job) == [job EXCEPT !.status = "printed", !.attempts = @ + 1]
MarkedFailed(job) == [job EXCEPT !.status = "failed", !.attempts = @ + 1, !.due = FALSE]

\* A mutant: a job is taken for printed when it cannot be sent.
AdvancePrinted(c, js, rest) ==
  LET sendable == {i \in DOMAIN rest : Active(rest[i].printer)}
      next == IF sendable = {} THEN Len(rest) + 1
              ELSE CHOOSE i \in sendable : \A k \in sendable : i <= k
      failed == {rest[i].job : i \in 1 .. next - 1}
  IN  /\ jobs' = [j \in DOMAIN js |-> IF j \in failed THEN MarkedPrinted(js[j]) ELSE js[j]]
      /\ runs' = [runs EXCEPT ![c] = [rest |-> SubSeq(rest, next, Len(rest)), out |-> FALSE]]

\* A mutant: that the last document is out is kept in mind.
AdvanceStillOut(c, js, rest) ==
  /\ jobs' = js
  /\ runs' = [runs EXCEPT ![c].rest = rest]

\* Call c goes on with the rest of its list: jobs without an active printer fail at once,
\* the first other one is being sent.
Advance(c, js, rest) ==
  LET sendable == {i \in DOMAIN rest : Active(rest[i].printer)}
      next == IF sendable = {} THEN Len(rest) + 1
              ELSE CHOOSE i \in sendable : \A k \in sendable : i <= k
      failed == {rest[i].job : i \in 1 .. next - 1}
  IN  /\ jobs' = [j \in DOMAIN js |-> IF j \in failed THEN MarkedFailed(js[j]) ELSE js[j]]
      /\ runs' = [runs EXCEPT ![c] = [rest |-> SubSeq(rest, next, Len(rest)), out |-> FALSE]]

Start(c) ==
  /\ runs[c] = Idle /\ starts < MaxStarts
  /\ starts' = starts + 1
  /\ Advance(c, Assigned, DueEntries(Assigned))
  /\ UNCHANGED <<printers, sent, listed, saves, crashes>>

Sending(c) == runs[c].rest # <<>>
Current(c) == Head(runs[c].rest).job

\* The printer has the document.  A mock printer takes it at once, and counts as one.
HandOut(c) ==
  /\ Sending(c) /\ ~runs[c].out
  /\ jobs' = [jobs EXCEPT ![Current(c)].sheets = @ + 1]
  /\ runs' = [runs EXCEPT ![c].out = TRUE]
  /\ UNCHANGED <<printers, sent, listed, counters>>

Settle(c, marked) ==
  /\ Advance(c, [jobs EXCEPT ![Current(c)] = marked], Tail(runs[c].rest))
  /\ UNCHANGED <<printers, sent, listed, counters>>

SendSucceeds(c) == Sending(c) /\ runs[c].out /\ Settle(c, MarkedPrinted(jobs[Current(c)]))

\* An error or the timeout, before or after the paper came out.
SendFails(c) == Sending(c) /\ Settle(c, MarkedFailed(jobs[Current(c)]))

BackoffEnds ==
  /\ \E j \in DOMAIN jobs : ~jobs[j].due /\ jobs' = [jobs EXCEPT ![j].due = TRUE]
  /\ UNCHANGED <<printers, sent, runs, listed, counters>>

-----------------------------------------------------------------------------
\* The Printers screen.
LoadJobs ==
  /\ listed' = {j \in DOMAIN jobs : jobs[j].status = "failed"}
  /\ UNCHANGED <<printers, sent, jobs, runs, counters>>

\* A mutant: a retried job starts anew.
RetriedAnew(job) == [job EXCEPT !.status = "pending", !.due = TRUE, !.attempts = 0]

\* Whatever the job is by now.
Retried(job) == [job EXCEPT !.status = "pending", !.due = TRUE]

Retry ==
  /\ \E j \in listed : jobs' = [jobs EXCEPT ![j] = Retried(@)]
  /\ UNCHANGED <<printers, sent, runs, listed, counters>>

\* The process ends: what was handed out and not marked is forgotten, and a ticket just
\* made gets no job.
Crash ==
  /\ crashes < MaxCrashes
  /\ crashes' = crashes + 1
  /\ jobs' = [j \in DOMAIN jobs |->
                [jobs[j] EXCEPT !.cut =
                   @ + Cardinality({c \in Calls : runs[c].out /\ Current(c) = j})]]
  /\ runs' = [c \in Calls |-> Idle]
  /\ listed' = {}
  /\ sent' \in {sent} \cup {sent \cup {k} : k \in Tickets}
  /\ UNCHANGED <<printers, saves, starts>>

Init ==
  /\ printers = <<>> /\ sent = {} /\ jobs = <<>> /\ listed = {}
  /\ runs = [c \in Calls |-> Idle]
  /\ saves = 0 /\ starts = 0 /\ crashes = 0

Queue ==
  /\ QueueReceipt \/ SendTicket \/ QueueKot \/ QueueService
  /\ UNCHANGED <<printers, runs, listed, counters>>
Process(c) == Start(c) \/ HandOut(c) \/ SendSucceeds(c) \/ SendFails(c)

Next ==
  \/ SavePrinter \/ Queue \/ (\E c \in Calls : Process(c))
  \/ BackoffEnds \/ LoadJobs \/ Retry \/ Crash

Spec == Init /\ [][Next]_vars

-----------------------------------------------------------------------------
TypeOK ==
  /\ printers \in Seq(Profile) /\ Len(printers) <= saves /\ sent \subseteq Tickets
  /\ jobs \in Seq(Job) /\ Len(jobs) <= MaxJobs
  /\ runs \in [Calls -> Run]
  /\ \A c \in Calls : runs[c].out => Sending(c)
  /\ \A c \in Calls : \A i \in DOMAIN runs[c].rest : runs[c].rest[i].job \in DOMAIN jobs
  /\ listed \subseteq DOMAIN jobs
  /\ saves \in 0 .. MaxSaves /\ starts \in 0 .. MaxStarts /\ crashes \in 0 .. MaxCrashes

\* "Cashier cannot hide failed print jobs": a job that counts as printed was handed to a
\* printer, though calls overlap and a job may lack a printer, or have one that was
\* switched off after the job was made.  Paper is what a transport took: whether it came
\* out is not known to the process, and a mock printer has none.
PrintedOnPaper == \A j \in DOMAIN jobs : jobs[j].status = "printed" => jobs[j].sheets > 0

HandedOut(j) == {c \in Calls : runs[c].out /\ Current(c) = j}

\* No paper without an attempt on record: each time a document was handed to a printer is
\* counted, is about to be, or was cut off by the end of the process, though overlapping
\* calls send the same job and a retry may hit a job that was printed meanwhile.
EverySheetCounted ==
  \A j \in DOMAIN jobs :
    jobs[j].sheets <= jobs[j].attempts + Cardinality(HandedOut(j)) + jobs[j].cut

\* A document goes to the printer its job has on record: what a call read before it
\* waited still holds when it sends, unless the job had no printer then.
SentWhereRouted ==
  \A c \in Calls : \A i \in DOMAIN runs[c].rest :
    LET entry == runs[c].rest[i] IN entry.printer \in {Null, jobs[entry.job].printer}
=============================================================================
