-------------------------- MODULE QueueConsumerProofs --------------------------
(***************************************************************************)
(* The consumers of a topic, for every number of jobs, keys and processes. *)
(* Nothing in the table stops two processes from working on one row, or    *)
(* from delivering it once too often: complete, reschedule and dead-letter *)
(* go by the id alone.  That neither happens rests on an agreement of the  *)
(* table with the memory of the processes, which is what is proved here    *)
(* and what the other results follow from.                                 *)
(***************************************************************************)
EXTENDS QueueConsumer, FiniteSetTheorems, TLAPS

Proved == INSTANCE JobQueueProofs WITH Limit <- {BatchSize}

-----------------------------------------------------------------------------
(* The invariant.                                                           *)

Verdicts == {"rescheduling", "burying"}

\* What a process remembers is consistent: only a claim under way holds locks,
\* a batch is there only while it is being yielded, and each job is in one place.
WellFormed(c) ==
    LET p == proc[c]
    IN /\ locks[c] # {} => p.gen = "claiming"
       /\ p.gen = "claiming" => p.producer = "pulling"
       /\ p.batch # {} => p.gen = "yielding" /\ p.producer \in {"pulling", "gated"}
       /\ p.producer = "gated" <=> p.held # NoJob
       /\ p.producer = "done" => InFlight(c) = {}
       /\ p.producer = "threw" => p.failed
       /\ p.left => p.failed
       /\ p.held \notin p.batch \cup InFlight(c)
       /\ p.batch \cap InFlight(c) = {}
       /\ \A j \in Job : p.work[j] = "rescheduling" => p.attempts[j] < MaxAttempts

\* The rows of the jobs a process holds: they are processing, with the attempts
\* they were claimed with, unless the reply to complete() was lost.
HeldRows(c) ==
    \A j \in Holds(c) :
        /\ row[j].attempts = proc[c].attempts[j]
        /\ \/ row[j].status = "processing"
           \/ /\ row[j].status \in {"completed", "gone"}
              /\ proc[c].work[j] \in Verdicts /\ faults > 0

Exclusive == \A c, d \in Consumer : c # d => Holds(c) \cap Holds(d) = {}

AttemptsLeft ==
    \A j \in Job :
        /\ row[j].attempts <= MaxAttempts
        /\ row[j].status = "pending" => row[j].attempts < MaxAttempts

Unfailed ==
    faults = 0 =>
        /\ \A c \in Consumer : ~proc[c].failed
        /\ \A j \in Job : row[j].status = "processing" => \E c \in Consumer : j \in Holds(c)

ProcTypes ==
    /\ proc \in [Consumer -> Process]
    /\ faults \in 0..MaxFaults
    /\ starts \in 0..MaxStarts

IInv ==
    /\ Proved!IInv
    /\ ProcTypes
    /\ \A c \in Consumer : WellFormed(c) /\ HeldRows(c)
    /\ Exclusive
    /\ AttemptsLeft
    /\ Unfailed

-----------------------------------------------------------------------------
(* What a statement does to the rows.                                       *)

\* The assumptions under which the table was proved hold of the consumers' table.
LEMMA TableAssumptions == Proved!NullAssumption /\ Proved!LimitAssumption
  BY ConfigAssumption DEF Proved!NullAssumption, Proved!LimitAssumption

\* The invariant of the table, in the terms of this module.
LEMMA TableFacts ==
    ASSUME Proved!IInv
    PROVE  /\ Q!TypeOK /\ Q!DedupUnique /\ Q!LocksDisjoint /\ Q!PollOrder
           /\ \A j \in Job : row[j].status = "absent" => row[j].attempts = 0
  BY DEF Proved!IInv, Proved!TypeOK, Proved!Row, Proved!Status, Q!TypeOK, Q!Row, Q!Status,
         Proved!DedupUnique, Proved!Live, Q!DedupUnique, Q!Live,
         Proved!LocksDisjoint, Proved!Locked, Q!LocksDisjoint, Q!Locked,
         Proved!PollOrder, Q!PollOrder, Proved!AbsentUndelivered

\* The rows a claim has locked are pending.
LEMMA LockedPending ==
    ASSUME Proved!IInv, NEW j \in Q!Locked
    PROVE  j \in Job /\ row[j].status = "pending"
  BY TableFacts DEF Q!TypeOK, Q!LocksDisjoint, Q!PollOrder

\* The table that was proved is the table that is used.
LEMMA SameTable == (Q!Init => Proved!Init) /\ (Q!Next => Proved!Next)
<1>1. Q!Init => Proved!Init
  BY DEF Q!Init, Proved!Init, Q!Absent, Proved!Absent
<1>2. Q!Locked = Proved!Locked
  BY DEF Q!Locked, Proved!Locked
<1>3. ASSUME NEW j \in Job, NEW k \in Key \cup {NoKey}, Q!Enqueue(j, k)
      PROVE  Proved!Enqueue(j, k)
  BY <1>3 DEF Q!Enqueue, Proved!Enqueue, Q!KeyTaken, Proved!KeyTaken, Q!Live, Proved!Live,
              Q!EnterPoll, Proved!EnterPoll
<1>4. ASSUME NEW j \in Job, Q!BecomesDue(j)
      PROVE  Proved!BecomesDue(j)
  BY <1>4 DEF Q!BecomesDue, Proved!BecomesDue, Q!EnterPoll, Proved!EnterPoll
<1>5. ASSUME NEW c \in Consumer, NEW n \in {BatchSize}, Q!ClaimSelect(c, n)
      PROVE  Proved!ClaimSelect(c, n)
  <2>1. Q!FirstDue(n) = Proved!FirstDue(n)
    BY <1>2 DEF Q!FirstDue, Proved!FirstDue, Q!Cardinality, Proved!Cardinality
  <2>2. QED
    BY <1>5, <2>1 DEF Q!ClaimSelect, Proved!ClaimSelect
<1>6. ASSUME NEW c \in Consumer, Q!ClaimCommit(c) \/ Q!ClaimRollback(c)
      PROVE  Proved!ClaimCommit(c) \/ Proved!ClaimRollback(c)
  BY <1>6 DEF Q!ClaimCommit, Proved!ClaimCommit, Q!ClaimRollback, Proved!ClaimRollback,
              Q!LeavePoll, Proved!LeavePoll
<1>7. ASSUME NEW j \in Job, Q!Complete(j) \/ Q!DeadLetter(j) \/ Q!Reschedule(j)
      PROVE  Proved!Complete(j) \/ Proved!DeadLetter(j) \/ Proved!Reschedule(j)
  BY <1>7 DEF Q!Complete, Proved!Complete, Q!DeadLetter, Proved!DeadLetter, Q!Reschedule,
              Proved!Reschedule, Q!SetStatus, Proved!SetStatus, Q!Exists, Proved!Exists,
              Q!LeavePoll, Proved!LeavePoll, Q!KeyTaken, Proved!KeyTaken, Q!Live, Proved!Live
<1>8. ASSUME NEW S \in SUBSET Job, Q!Reap(S)
      PROVE  Proved!Reap(S)
  BY <1>8 DEF Q!Reap, Proved!Reap
<1>9. QED
  BY <1>1, <1>2, <1>3, <1>4, <1>5, <1>6, <1>7, <1>8 DEF Q!Next, Proved!Next

\* What a step of the consumers does to the table: one statement, or nothing.
TableStep == [Q!Next]_queueVars /\ Proved!IInv'

\* A statement of the consumers is one that the table allows its callers, if it
\* updates no row that a claim has locked.  Reaped rows never are.
LEMMA StatementKeeps ==
    ASSUME Proved!IInv,
           \/ \E j \in Job : Q!Enqueue(j, KeyOf[j]) \/ Q!BecomesDue(j)
           \/ \E c \in Consumer : \/ Q!ClaimSelect(c, BatchSize)
                                  \/ Q!ClaimCommit(c) \/ Q!ClaimRollback(c)
           \/ \E j \in Job \ Q!Locked : Q!Complete(j) \/ Q!DeadLetter(j) \/ Q!Reschedule(j)
           \/ \E S \in SUBSET Job : Q!Reap(S)
           \/ UNCHANGED queueVars
    PROVE  TableStep
<1>1. ASSUME NEW j \in Job, Q!Enqueue(j, KeyOf[j]) \/ Q!BecomesDue(j) PROVE Q!Next
  <2>1. KeyOf[j] \in Key \cup {NoKey}
    BY ConfigAssumption
  <2>2. QED
    BY <1>1, <2>1 DEF Q!Next
<1>2. ASSUME NEW c \in Consumer,
             Q!ClaimSelect(c, BatchSize) \/ Q!ClaimCommit(c) \/ Q!ClaimRollback(c)
      PROVE  Q!Next
  BY <1>2 DEF Q!Next
<1>3. ASSUME NEW S \in SUBSET Job, Q!Reap(S) PROVE Q!Next
  <2>1. \A j \in S : j \notin Q!Locked
    BY <1>3, LockedPending DEF Q!Reap
  <2>2. S \in SUBSET (Job \ Q!Locked)
    BY <2>1
  <2>3. QED
    BY <1>3, <2>2 DEF Q!Next
<1>4. [Q!Next]_queueVars
  BY <1>1, <1>2, <1>3 DEF Q!Next
<1>5. [Proved!Next]_(Proved!vars)
  BY <1>4, SameTable DEF queueVars, Proved!vars
<1>6. Proved!IInv /\ [Proved!Next]_(Proved!vars) => Proved!IInv'
  BY TableAssumptions, Proved!NextInvariant
<1>7. QED
  BY <1>4, <1>5, <1>6 DEF TableStep

LEMMA ClaimedRows ==
    ASSUME Proved!IInv, NEW c \in Consumer, Q!ClaimCommit(c)
    PROVE  /\ locks[c] \in SUBSET Job
           /\ \A j \in locks[c] : /\ row[j].status = "pending"
                                  /\ row'[j].status = "processing"
                                  /\ row'[j].attempts = row[j].attempts + 1
           /\ \A j \in Job \ locks[c] : row'[j] = row[j]
           /\ \A d \in Consumer : locks'[d] = IF d = c THEN {} ELSE locks[d]
<1>1. row \in [Job -> Q!Row] /\ locks \in [Consumer -> SUBSET Job]
  BY TableFacts DEF Q!TypeOK
<1>2. ASSUME NEW j \in locks[c]
      PROVE  /\ row[j].status = "pending"
             /\ row'[j].status = "processing"
             /\ row'[j].attempts = row[j].attempts + 1
  <2>1. j \in Job /\ row[j].status = "pending"
    BY LockedPending DEF Q!Locked
  <2>2. row'[j] = [row[j] EXCEPT !.status = "processing", !.attempts = @ + 1, !.lockedBy = c]
    BY <2>1, <1>2 DEF Q!ClaimCommit
  <2>3. QED
    BY <1>1, <2>1, <2>2 DEF Q!Row
<1>3. QED
  BY <1>1, <1>2 DEF Q!ClaimCommit

\* complete, dead-letter and reschedule write the status of one row, if it is there.
LEMMA SettledRow ==
    ASSUME Proved!IInv, NEW j \in Job, NEW s \in {"pending", "completed", "dead"},
           Q!SetStatus(j, s)
    PROVE  /\ \A i \in Job : i # j => row'[i] = row[i]
           /\ row'[j].attempts = row[j].attempts
           /\ row'[j].status = IF Q!Exists(j) THEN s ELSE row[j].status
  BY TableFacts DEF Q!SetStatus, Q!Exists, Q!TypeOK, Q!Row

LEMMA ReapedRows ==
    ASSUME Proved!IInv, NEW S \in SUBSET Job, Q!Reap(S)
    PROVE  \A j \in Job :
             /\ row'[j].attempts = row[j].attempts
             /\ IF j \in S THEN row[j].status = "completed" /\ row'[j].status = "gone"
                           ELSE row'[j] = row[j]
  BY TableFacts DEF Q!Reap, Q!TypeOK, Q!Row

-----------------------------------------------------------------------------
(* What the lifecycle of the jobs sees of a step.                           *)

JobStep == [Lifecycle!Next]_(Lifecycle!vars)

\* The jobs, as the lifecycle sees them.
Jobs == [j \in Job |-> [status |-> row[j].status, attempts |-> row[j].attempts]]

LEMMA SameJobs ==
    ASSUME \A j \in Job : row'[j].status = row[j].status /\ row'[j].attempts = row[j].attempts
    PROVE  Jobs' = Jobs
  BY DEF Jobs

LEMMA OneVerdict ==
    ASSUME NEW j \in Job, NEW from, NEW to,
           row[j].status = from, row'[j].status = to, row'[j].attempts = row[j].attempts,
           \A i \in Job : i # j => row'[i] = row[i]
    PROVE  Lifecycle!Verdict(j, from, to)
<1>1. Jobs' = [Jobs EXCEPT ![j].status = to]
  <2>1. ASSUME NEW i \in Job PROVE Jobs'[i] = [Jobs EXCEPT ![j].status = to][i]
    BY DEF Jobs
  <2>2. QED
    BY <2>1 DEF Jobs
<1>2. Jobs[j].status = from
  BY DEF Jobs
<1>3. QED
  BY <1>1, <1>2 DEF Lifecycle!Verdict, Jobs

\* While no row changes, doubts only end: nobody takes up a job again whose row is
\* not processing.
LEMMA DoubtsSettle ==
    ASSUME UNCHANGED row, NEW c \in Consumer,
           \A d \in Consumer \ {c} : proc'[d] = proc[d],
           \A j \in InFlight(c)' : j \in InFlight(c) \/ row[j].status = "processing"
    PROVE  JobStep
<1>1. \A d \in Consumer \ {c} : InFlight(d)' = InFlight(d)
  BY DEF InFlight
<1>2. Unheard' \subseteq Unheard /\ Unheard \subseteq Job
  BY <1>1 DEF Unheard
<1>3. PICK S \in SUBSET Job : S \subseteq Unheard /\ Unheard' = Unheard \ S
  <2>1. Unheard \ Unheard' \in SUBSET Job /\ Unheard' = Unheard \ (Unheard \ Unheard')
    BY <1>2
  <2>2. QED
    BY <2>1
<1>4. Jobs' = Jobs
  BY SameJobs
<1>5. Lifecycle!Settle(S)
  BY <1>3, <1>4 DEF Lifecycle!Settle, Jobs
<1>6. QED
  BY <1>5 DEF JobStep, Lifecycle!Next

\* Nothing changes for the jobs in flight: no doubt comes or goes.
LEMMA DoubtsStay ==
    ASSUME \A c \in Consumer : InFlight(c)' = InFlight(c),
           \A c \in Consumer : \A j \in InFlight(c) :
             row'[j].status = "processing" <=> row[j].status = "processing"
    PROVE  Unheard' = Unheard
  BY DEF Unheard

\* A committed claim delivers the rows it had locked.
LEMMA CommitDelivers ==
    ASSUME Proved!IInv, NEW c \in Consumer, Q!ClaimCommit(c), AttemptsLeft,
           \A d \in Consumer : InFlight(d)' = InFlight(d),
           \A d \in Consumer : \A j \in InFlight(d) : j \in Job \ locks[c]
    PROVE  JobStep
<1>0. PICK S \in SUBSET Job : S = locks[c]
  BY ClaimedRows
<1>1. /\ \A j \in S : /\ row[j].status = "pending" /\ row[j].attempts < MaxAttempts
                      /\ row'[j].status = "processing"
                      /\ row'[j].attempts = row[j].attempts + 1
      /\ \A j \in Job \ S : row'[j] = row[j]
  BY <1>0, ClaimedRows DEF AttemptsLeft
<1>2. Unheard' = Unheard
  BY <1>0, <1>1, DoubtsStay
<1>3. Jobs' = [j \in Job |-> IF j \in S
                             THEN [status |-> "processing", attempts |-> Jobs[j].attempts + 1]
                             ELSE Jobs[j]]
  BY <1>1 DEF Jobs
<1>4. \A j \in S : Jobs[j].status = "pending" /\ Jobs[j].attempts < MaxAttempts
  BY <1>1 DEF Jobs
<1>5. Lifecycle!Deliver(S)
  BY <1>2, <1>3, <1>4 DEF Lifecycle!Deliver, Jobs
<1>6. QED
  BY <1>5 DEF JobStep, Lifecycle!Next

\* The reaper forgets completed jobs; a doubt about one of them stays.
LEMMA ReapForgets ==
    ASSUME Proved!IInv, NEW S \in SUBSET Job, Q!Reap(S),
           \A c \in Consumer : InFlight(c)' = InFlight(c)
    PROVE  JobStep
<1>1. \A j \in Job :
        /\ row'[j].attempts = row[j].attempts
        /\ IF j \in S THEN row[j].status = "completed" /\ row'[j].status = "gone"
                      ELSE row'[j] = row[j]
  BY ReapedRows
<1>2. Unheard' = Unheard
  BY <1>1 DEF Unheard
<1>3. \A j \in S : Jobs[j].status = "completed"
  BY <1>1 DEF Jobs
<1>4. Jobs' = [j \in Job |-> IF j \in S THEN [Jobs[j] EXCEPT !.status = "gone"] ELSE Jobs[j]]
  BY <1>1 DEF Jobs
<1>5. Lifecycle!Forget(S)
  BY <1>2, <1>3, <1>4 DEF Lifecycle!Forget, Jobs
<1>6. QED
  BY <1>5 DEF JobStep, Lifecycle!Next

\* A statement of process c about a job of its own: a verdict, or the end of a doubt.
LEMMA VerdictGiven ==
    ASSUME Proved!IInv, NEW c \in Consumer, NEW j \in Job, proc[c].work[j] # "none",
           NEW what \in {"none"} \cup Verdicts,
           NEW s \in {"pending", "completed", "dead"}, Q!SetStatus(j, s),
           s = "pending" => row[j].attempts < MaxAttempts,
           s = "completed" => row[j].status = "processing",
           what # "none" => s = "completed",
           row[j].status \in {"processing", "completed", "gone"},
           \A d \in Consumer \ {c} : j \notin InFlight(d),
           \A d \in Consumer \ {c} : proc'[d] = proc[d],
           InFlight(c)' = IF what = "none" THEN InFlight(c) \ {j} ELSE InFlight(c)
    PROVE  JobStep
<1>1. /\ \A i \in Job : i # j => row'[i] = row[i]
      /\ row'[j].attempts = row[j].attempts
      /\ row'[j].status = IF row[j].status = "gone" THEN "gone" ELSE s
  BY SettledRow DEF Q!Exists
<1>2. \A d \in Consumer \ {c} : InFlight(d)' = InFlight(d)
  BY DEF InFlight
<1>3. j \in InFlight(c)
  BY DEF InFlight
<1>4. \A i \in Job : i # j => (i \in Unheard' <=> i \in Unheard)
  BY <1>1, <1>2 DEF Unheard
<1>5. j \in Unheard <=> row[j].status # "processing"
  BY <1>3 DEF Unheard
<1>6. j \in Unheard' <=> what # "none"
  BY <1>1, <1>2, <1>3 DEF Unheard
<1>7. Unheard' \in SUBSET Job /\ Unheard \in SUBSET Job
  BY DEF Unheard
<1>8. Jobs[j].attempts = row[j].attempts
  BY DEF Jobs
<1>9. CASE row[j].status = "processing"
  <2>1. Lifecycle!Verdict(j, "processing", s)
    BY <1>1, <1>9, OneVerdict
  <2>2. CASE s = "completed"
    <3>1. Unheard' \in {Unheard, Unheard \cup {j}}
      BY <1>4, <1>5, <1>6, <1>7, <1>9
    <3>2. Lifecycle!Succeed(j)
      BY <2>1, <2>2, <3>1 DEF Lifecycle!Succeed
    <3>3. QED
      BY <3>2 DEF JobStep, Lifecycle!Next
  <2>3. CASE s # "completed"
    <3>1. Unheard' = Unheard
      BY <1>4, <1>5, <1>6, <1>7, <1>9, <2>3
    <3>2. Lifecycle!Retry(j) \/ Lifecycle!Bury(j)
      BY <1>8, <2>1, <2>3, <3>1 DEF Lifecycle!Retry, Lifecycle!Bury, Jobs
    <3>3. QED
      BY <3>2 DEF JobStep, Lifecycle!Next
  <2>4. QED
    BY <2>2, <2>3
<1>10. CASE row[j].status # "processing"
  <2>1. j \in Unheard /\ Unheard' = Unheard \ {j} /\ s # "completed"
    BY <1>4, <1>5, <1>6, <1>7, <1>10
  <2>2. CASE row[j].status = "completed"
    <3>1. Lifecycle!Verdict(j, "completed", s)
      BY <1>1, <2>2, OneVerdict
    <3>2. Lifecycle!Overrule(j)
      BY <1>8, <2>1, <3>1 DEF Lifecycle!Overrule, Jobs
    <3>3. QED
      BY <3>2 DEF JobStep, Lifecycle!Next
  <2>3. CASE row[j].status = "gone"
    <3>1. Jobs' = Jobs
      BY <1>1, <2>3, SameJobs
    <3>2. Lifecycle!Overrule(j)
      BY <2>1, <3>1 DEF Lifecycle!Overrule, Jobs
    <3>3. QED
      BY <3>2 DEF JobStep, Lifecycle!Next
  <2>4. QED
    BY <1>10, <2>2, <2>3
<1>11. QED
  BY <1>9, <1>10

-----------------------------------------------------------------------------
(* What one process may do, and that it is enough.                          *)

\* To others' jobs: nothing but to reap a row whose completion they have not
\* heard of.
RowKept(j) ==
    /\ row'[j].attempts = row[j].attempts
    /\ \/ row'[j].status = row[j].status
       \/ row[j].status = "completed" /\ row'[j].status = "gone"

\* A step of process c: it keeps its own memory well formed and in agreement
\* with the rows, takes hold of pending rows only, and lets go of no row that
\* stays processing unless something failed.
Sound(c) ==
    /\ TableStep /\ JobStep
    /\ ProcTypes' /\ AttemptsLeft'
    /\ faults <= faults'
    /\ \A d \in Consumer \ {c} : proc'[d] = proc[d] /\ locks'[d] = locks[d]
    /\ WellFormed(c)' /\ HeldRows(c)'
    /\ \A j \in Holds(c)' : j \in Holds(c) \/ row[j].status = "pending"
    /\ \A d \in Consumer \ {c} : \A j \in Holds(d) : RowKept(j)
    /\ faults' = 0 =>
         /\ ~proc'[c].failed
         /\ \A j \in Job : row'[j].status = "processing" =>
              j \in Holds(c)' \/ (row[j].status = "processing" /\ j \notin Holds(c))

LEMMA HoldsJobs ==
    ASSUME ProcTypes, NEW c \in Consumer
    PROVE  Holds(c) \in SUBSET Job
  BY DEF ProcTypes, Process, Holds, InFlight

LEMMA SoundKeeps ==
    ASSUME IInv, NEW c \in Consumer, Sound(c)
    PROVE  IInv'
<1> USE DEF IInv, Sound, TableStep
<1>1. ASSUME NEW d \in Consumer \ {c}
      PROVE  /\ WellFormed(d)' /\ HeldRows(d)'
             /\ Holds(d)' = Holds(d)
             /\ Holds(c)' \cap Holds(d) = {}
  <2>1. Holds(d)' = Holds(d) /\ InFlight(d)' = InFlight(d)
    BY DEF Holds, InFlight
  <2>2. WellFormed(d)'
    BY <2>1 DEF WellFormed
  <2>3. HeldRows(d)'
    BY <2>1 DEF HeldRows, RowKept, ProcTypes
  <2>4. \A j \in Holds(d) : row[j].status # "pending" /\ j \notin Holds(c)
    BY DEF HeldRows, Exclusive
  <2>5. QED
    BY <2>1, <2>2, <2>3, <2>4
<1>2. \A d \in Consumer : WellFormed(d)' /\ HeldRows(d)'
  BY <1>1
<1>3. Exclusive'
  BY <1>1 DEF Exclusive
<1>4. Unfailed'
  <2> SUFFICES ASSUME faults' = 0
               PROVE  /\ \A d \in Consumer : ~proc'[d].failed
                      /\ \A j \in Job : row'[j].status = "processing" =>
                           \E d \in Consumer : j \in Holds(d)'
    BY DEF Unfailed
  <2>1. faults = 0
    BY DEF ProcTypes
  <2>2. \A d \in Consumer : ~proc'[d].failed
    BY <2>1 DEF Unfailed
  <2>3. ASSUME NEW j \in Job, row'[j].status = "processing"
        PROVE  \E d \in Consumer : j \in Holds(d)'
    <3>1. CASE j \in Holds(c)'
      BY <3>1
    <3>2. CASE row[j].status = "processing" /\ j \notin Holds(c)
      <4>1. PICK d \in Consumer : j \in Holds(d)
        BY <2>1, <3>2 DEF Unfailed
      <4>2. QED
        BY <1>1, <3>2, <4>1
    <3>3. QED
      BY <2>3, <3>1, <3>2
  <2>4. QED
    BY <2>2, <2>3
<1>5. QED
  BY <1>2, <1>3, <1>4

-----------------------------------------------------------------------------
(* Steps that change no row.                                                *)

KeepsRows(c) ==
    /\ UNCHANGED row
    /\ TableStep /\ ProcTypes'
    /\ faults <= faults'
    /\ \A d \in Consumer \ {c} : proc'[d] = proc[d] /\ locks'[d] = locks[d]
    /\ WellFormed(c)'
    /\ \A j \in Holds(c)' :
         /\ j \in Holds(c)
         /\ proc'[c].attempts[j] = proc[c].attempts[j]
         /\ row[j].status # "processing" => proc'[c].work[j] \in Verdicts
    /\ faults' = 0 => ~proc'[c].failed /\ Holds(c) \subseteq Holds(c)'

LEMMA KeepsRowsSound ==
    ASSUME IInv, NEW c \in Consumer, KeepsRows(c)
    PROVE  Sound(c)
<1> USE DEF IInv, KeepsRows
<1>1. HeldRows(c)'
  BY DEF HeldRows, ProcTypes
<1>2. AttemptsLeft'
  BY DEF AttemptsLeft
<1>3. JobStep
  <2>1. \A j \in InFlight(c)' : j \in InFlight(c) \/ row[j].status = "processing"
    <3> SUFFICES ASSUME NEW j \in InFlight(c)', row[j].status # "processing"
                 PROVE  j \in InFlight(c)
      OBVIOUS
    <3>1. j \in Job /\ j \in Holds(c)
      BY DEF InFlight, Holds
    <3>2. proc[c].work[j] \in Verdicts
      BY <3>1 DEF HeldRows
    <3>3. QED
      BY <3>1, <3>2 DEF InFlight, Verdicts
  <2>2. QED
    BY <2>1, DoubtsSettle
<1>4. QED
  BY <1>1, <1>2, <1>3 DEF Sound, RowKept

\* The flags and the places of the generator and the producer.
LEMMA ControlStep ==
    ASSUME IInv, NEW c \in Consumer,
           \/ Start(c) \/ Stop(c) \/ BatchEnds(c) \/ DelayEnds(c) \/ SourceEnds(c)
           \/ Leave(c) \/ Drained(c) \/ ReapTimer(c)
    PROVE  Sound(c)
<1> USE DEF IInv
<1>1. UNCHANGED <<row, due, ahead, locks, faults>>
  BY DEF Start, Stop, BatchEnds, DelayEnds, SourceEnds, Leave, Drained, ReapTimer, queueVars
<1>2. TableStep
  BY <1>1, StatementKeeps DEF queueVars
<1>3. ProcTypes' /\ \A d \in Consumer \ {c} : proc'[d] = proc[d]
  <2>1. \A d \in Consumer \ {c} : proc'[d] = proc[d]
    BY DEF Start, Stop, BatchEnds, DelayEnds, SourceEnds, Leave, Drained, ReapTimer, ProcTypes
  <2>2. starts' \in 0..MaxStarts
    BY ConfigAssumption DEF Start, Stop, BatchEnds, DelayEnds, SourceEnds, Leave, Drained,
                            ReapTimer, ProcTypes
  <2>3. proc' \in [Consumer -> Process]
    <3>0. proc[c] \in Process
      BY DEF ProcTypes
    <3>1. CASE Start(c)
      <4>1. [proc[c] EXCEPT !.life = "up", !.reaper = "armed"] \in Process
        BY <3>0 DEF Process
      <4>2. QED
        BY <3>1, <4>1 DEF Start, ProcTypes
    <3>2. CASE Stop(c)
      <4>1. [proc[c] EXCEPT !.life = "stopping",
                            !.gen = IF @ = "delay" THEN "top" ELSE @,
                            !.reaper = IF @ = "armed" THEN "off" ELSE @] \in Process
        BY <3>0 DEF Process
      <4>2. QED
        BY <3>2, <4>1 DEF Stop, ProcTypes
    <3>3. CASE BatchEnds(c)
      <4>1. [proc[c] EXCEPT !.gen = IF proc[c].full THEN "top" ELSE "delay"] \in Process
        BY <3>0 DEF Process
      <4>2. QED
        BY <3>3, <4>1 DEF BatchEnds, ProcTypes
    <3>4. CASE DelayEnds(c)
      <4>1. [proc[c] EXCEPT !.gen = "top"] \in Process
        BY <3>0 DEF Process
      <4>2. QED
        BY <3>4, <4>1 DEF DelayEnds, ProcTypes
    <3>5. CASE SourceEnds(c)
      <4>1. [proc[c] EXCEPT !.producer = "draining"] \in Process
        BY <3>0 DEF Process
      <4>2. QED
        BY <3>5, <4>1 DEF SourceEnds, ProcTypes
    <3>6. CASE Leave(c)
      <4>1. [proc[c] EXCEPT !.left = TRUE] \in Process
        BY <3>0 DEF Process
      <4>2. QED
        BY <3>6, <4>1 DEF Leave, ProcTypes
    <3>7. CASE Drained(c)
      <4>1. [proc[c] EXCEPT !.producer = "done"] \in Process
        BY <3>0 DEF Process
      <4>2. QED
        BY <3>7, <4>1 DEF Drained, ProcTypes
    <3>8. CASE ReapTimer(c)
      <4>1. [proc[c] EXCEPT !.reaper = "reaping"] \in Process
        BY <3>0 DEF Process
      <4>2. QED
        BY <3>8, <4>1 DEF ReapTimer, ProcTypes
    <3>9. QED
      BY <3>1, <3>2, <3>3, <3>4, <3>5, <3>6, <3>7, <3>8
  <2>4. QED
    BY <1>1, <2>1, <2>2, <2>3 DEF ProcTypes
<1>4. /\ proc'[c].batch = proc[c].batch /\ proc'[c].held = proc[c].held
      /\ proc'[c].work = proc[c].work /\ proc'[c].attempts = proc[c].attempts
      /\ proc'[c].failed = proc[c].failed
  BY DEF Start, Stop, BatchEnds, DelayEnds, SourceEnds, Leave, Drained, ReapTimer, ProcTypes,
         Process
<1>5. InFlight(c)' = InFlight(c) /\ Holds(c)' = Holds(c)
  BY <1>4 DEF InFlight, Holds
<1>6. WellFormed(c)'
  BY <1>1, <1>4, <1>5 DEF Start, Stop, BatchEnds, DelayEnds, SourceEnds, Leave, Drained,
                          ReapTimer, ProcTypes, Process, WellFormed
<1>7. \A j \in Holds(c) : row[j].status # "processing" => proc[c].work[j] \in Verdicts
  BY DEF HeldRows
<1>8. faults' = 0 => ~proc'[c].failed
  BY <1>1, <1>4 DEF Unfailed
<1>9. QED
  BY <1>1, <1>2, <1>3, <1>4, <1>5, <1>6, <1>7, <1>8, KeepsRowsSound DEF KeepsRows, ProcTypes

\* A process that ends holds nothing.
LEMMA DownHoldsNothing ==
    ASSUME NEW c \in Consumer, proc'[c] = Down
    PROVE  /\ Down \in Process
           /\ Holds(c)' = {} /\ ~proc'[c].failed
           /\ (locks'[c] = {} => WellFormed(c)')
<1>1. Down \in Process
  BY ConfigAssumption DEF Down, Process
<1>2. InFlight(c)' = {} /\ Holds(c)' = {}
  BY DEF Down, InFlight, Holds
<1>3. locks'[c] = {} => WellFormed(c)'
  BY <1>2 DEF Down, WellFormed
<1>4. QED
  BY <1>1, <1>2, <1>3 DEF Down

\* stop() resolves only when nothing is left to hold, or the stream has failed.
LEMMA SettledHoldsNothing ==
    ASSUME NEW c \in Consumer, WellFormed(c), Settled(c), ~proc[c].failed
    PROVE  Holds(c) = {}
<1>1. proc[c].producer = "done"
  BY DEF WellFormed, Settled
<1>2. InFlight(c) = {} /\ proc[c].batch = {} /\ proc[c].held = NoJob
  BY <1>1 DEF WellFormed
<1>3. QED
  BY <1>2 DEF Holds

LEMMA StopReturnsStep ==
    ASSUME IInv, NEW c \in Consumer, StopReturns(c)
    PROVE  Sound(c)
<1> USE DEF IInv
<1>1. UNCHANGED <<row, due, ahead, locks, faults, starts>>
  BY DEF StopReturns, queueVars
<1>2. TableStep
  BY <1>1, StatementKeeps DEF queueVars
<1>3. proc'[c] = Down /\ \A d \in Consumer \ {c} : proc'[d] = proc[d]
  BY DEF StopReturns, ProcTypes
<1>4. ProcTypes'
  BY <1>1, <1>3, DownHoldsNothing DEF StopReturns, ProcTypes
<1>5. locks[c] = {}
  BY DEF StopReturns, Settled, WellFormed
<1>6. faults = 0 => Holds(c) = {}
  BY SettledHoldsNothing DEF StopReturns, Unfailed
<1>7. QED
  BY <1>1, <1>2, <1>3, <1>4, <1>5, <1>6, DownHoldsNothing, KeepsRowsSound
     DEF KeepsRows, ProcTypes

\* The connection of a crashed process goes, and with it an open claim.
LEMMA CrashStep ==
    ASSUME IInv, NEW c \in Consumer, Crash(c)
    PROVE  Sound(c)
<1> USE DEF IInv
<1>1. Q!ClaimRollback(c) /\ UNCHANGED row
  BY DEF Crash, Q!ClaimRollback
<1>2. TableStep
  BY <1>1, StatementKeeps
<1>3. /\ proc'[c] = Down /\ locks'[c] = {}
      /\ \A d \in Consumer \ {c} : proc'[d] = proc[d] /\ locks'[d] = locks[d]
  BY <1>1, TableFacts DEF Crash, Q!ClaimRollback, ProcTypes, Q!TypeOK
<1>4. faults' \in 0..MaxFaults /\ faults < faults' /\ starts' = starts
  BY ConfigAssumption DEF Crash, Fault, ProcTypes
<1>5. ProcTypes'
  BY <1>3, <1>4, DownHoldsNothing DEF Crash, ProcTypes
<1>6. faults' # 0 /\ faults <= faults'
  BY <1>4 DEF ProcTypes
<1>7. QED
  BY <1>1, <1>2, <1>3, <1>5, <1>6, DownHoldsNothing, KeepsRowsSound DEF KeepsRows

LEMMA BeginClaimStep ==
    ASSUME IInv, NEW c \in Consumer, BeginClaim(c)
    PROVE  Sound(c)
<1> USE DEF IInv
<1>0. proc[c] \in Process
  BY DEF ProcTypes
<1> DEFINE p == [proc[c] EXCEPT !.gen = "claiming"]
<1>1. p \in Process
  BY <1>0 DEF Process
<1>2. UNCHANGED <<row, faults, starts>> /\ Q!ClaimSelect(c, BatchSize)
  BY DEF BeginClaim, Q!ClaimSelect
<1>3. TableStep
  BY <1>2, StatementKeeps
<1>4. proc'[c] = p /\ \A d \in Consumer \ {c} : proc'[d] = proc[d] /\ locks'[d] = locks[d]
  BY <1>2, TableFacts DEF BeginClaim, Q!ClaimSelect, ProcTypes, Q!TypeOK
<1>5. ProcTypes'
  BY <1>1, <1>2 DEF BeginClaim, ProcTypes
<1>6. InFlight(c)' = InFlight(c) /\ Holds(c)' = Holds(c)
  BY <1>0, <1>4 DEF InFlight, Holds, Process
<1>7. WellFormed(c)'
  BY <1>0, <1>4, <1>6 DEF WellFormed, BeginClaim, Process
<1>8. /\ proc'[c].attempts = proc[c].attempts /\ proc'[c].work = proc[c].work
      /\ proc'[c].failed = proc[c].failed
  BY <1>0, <1>4 DEF Process
<1>9. \A j \in Holds(c) : row[j].status # "processing" => proc[c].work[j] \in Verdicts
  BY DEF HeldRows
<1>10. faults <= faults' /\ (faults' = 0 => ~proc'[c].failed)
  BY <1>2, <1>8 DEF ProcTypes, Unfailed
<1> HIDE DEF p
<1>11. QED
  BY <1>2, <1>3, <1>4, <1>5, <1>6, <1>7, <1>8, <1>9, <1>10, KeepsRowsSound DEF KeepsRows

\* What is not being processed yet is still processing in the table.
LEMMA WaitingRows ==
    ASSUME IInv, NEW c \in Consumer, NEW j \in Holds(c), proc[c].work[j] \notin Verdicts
    PROVE  row[j].status = "processing"
  BY DEF IInv, HeldRows

LEMMA FailureMeansFault ==
    ASSUME IInv, NEW c \in Consumer, proc[c].failed \/ proc[c].left
    PROVE  faults # 0
  BY DEF IInv, WellFormed, Unfailed

\* A job goes from the batch into the producer's hand, or the rest is dropped.
LEMMA PullStep ==
    ASSUME IInv, NEW c \in Consumer, Pull(c)
    PROVE  Sound(c)
<1> USE DEF IInv
<1>0. /\ proc[c] \in Process /\ proc[c].held = NoJob
      /\ proc[c].producer = "pulling" /\ proc[c].gen = "yielding"
  BY DEF ProcTypes, Pull, WellFormed
<1>1. UNCHANGED <<row, due, ahead, locks, faults, starts>>
  BY DEF Pull, queueVars
<1>2. TableStep
  BY <1>1, StatementKeeps DEF queueVars
<1>3. \A j \in Holds(c) : row[j].status # "processing" => proc[c].work[j] \in Verdicts
  BY DEF HeldRows
<1>4. CASE proc[c].left
  <2> DEFINE p == [proc[c] EXCEPT !.producer = "draining", !.batch = {}]
  <2>1. p \in Process
    BY <1>0 DEF Process
  <2>2. proc' = [proc EXCEPT ![c] = p]
    BY <1>4 DEF Pull
  <2>3. ProcTypes'
    BY <1>1, <2>1, <2>2 DEF ProcTypes
  <2>4. proc'[c] = p /\ \A d \in Consumer \ {c} : proc'[d] = proc[d]
    BY <2>2 DEF ProcTypes
  <2>5. InFlight(c)' = InFlight(c) /\ Holds(c)' = InFlight(c)
    BY <1>0, <2>4 DEF InFlight, Holds, Process
  <2>6. WellFormed(c)'
    <3>1. /\ proc'[c].batch = {} /\ proc'[c].held = proc[c].held
          /\ proc'[c].producer = "draining" /\ proc'[c].gen = proc[c].gen
          /\ proc'[c].work = proc[c].work /\ proc'[c].attempts = proc[c].attempts
          /\ proc'[c].failed = proc[c].failed /\ proc'[c].left = proc[c].left
      BY <1>0, <2>4 DEF Process
    <3> HIDE DEF p
    <3>2. QED
      BY <1>0, <1>1, <2>5, <3>1 DEF WellFormed
  <2>7. proc'[c].attempts = proc[c].attempts /\ proc'[c].work = proc[c].work
    BY <1>0, <2>4 DEF Process
  <2> HIDE DEF p
  <2>8. InFlight(c) \subseteq Holds(c) /\ faults' # 0
    BY <1>1, <1>4, FailureMeansFault DEF Holds
  <2>9. QED
    BY <1>1, <1>2, <1>3, <2>3, <2>4, <2>5, <2>6, <2>7, <2>8, KeepsRowsSound
       DEF KeepsRows, ProcTypes
<1>5. CASE ~proc[c].left
  <2>0. PICK j \in proc[c].batch :
          proc' = [proc EXCEPT ![c].producer = "gated", ![c].batch = @ \ {j}, ![c].held = j]
    BY <1>5 DEF Pull
  <2> DEFINE p == [proc[c] EXCEPT !.producer = "gated", !.batch = @ \ {j}, !.held = j]
  <2>1. p \in Process /\ j \in Job
    BY <1>0 DEF Process
  <2>2. proc' = [proc EXCEPT ![c] = p]
    BY <2>0
  <2>3. ProcTypes'
    BY <1>1, <2>1, <2>2 DEF ProcTypes
  <2>4. proc'[c] = p /\ \A d \in Consumer \ {c} : proc'[d] = proc[d]
    BY <2>2 DEF ProcTypes
  <2>5. /\ proc'[c].batch = proc[c].batch \ {j} /\ proc'[c].held = j
        /\ proc'[c].work = proc[c].work /\ proc'[c].attempts = proc[c].attempts
        /\ proc'[c].failed = proc[c].failed
    BY <1>0, <2>4 DEF Process
  <2>6. InFlight(c)' = InFlight(c) /\ Holds(c)' = Holds(c)
    BY <1>0, <2>1, <2>5, ConfigAssumption DEF InFlight, Holds
  <2>7. WellFormed(c)'
    <3>1. /\ proc'[c].gen = proc[c].gen /\ proc'[c].left = proc[c].left
          /\ proc'[c].producer = "gated"
      BY <1>0, <2>4 DEF Process
    <3>2. j # NoJob /\ j \notin InFlight(c)
      BY <2>1, ConfigAssumption DEF WellFormed
    <3> HIDE DEF p
    <3>3. QED
      BY <1>0, <1>1, <2>5, <2>6, <3>1, <3>2 DEF WellFormed
  <2> HIDE DEF p
  <2>8. faults <= faults' /\ (faults' = 0 => ~proc'[c].failed)
    BY <1>1, <2>5 DEF ProcTypes, Unfailed
  <2>9. QED
    BY <1>1, <1>2, <1>3, <2>3, <2>4, <2>5, <2>6, <2>7, <2>8, KeepsRowsSound DEF KeepsRows
<1>6. QED
  BY <1>4, <1>5

\* The job in hand gets a slot, or is dropped with the batch.
LEMMA AdmitStep ==
    ASSUME IInv, NEW c \in Consumer, Admit(c)
    PROVE  Sound(c)
<1> USE DEF IInv
<1>0. proc[c] \in Process /\ proc[c].held \in Job /\ proc[c].producer = "gated"
  BY DEF ProcTypes, Admit, WellFormed, Process
<1>1. UNCHANGED <<row, due, ahead, locks, faults, starts>>
  BY DEF Admit, queueVars
<1>2. TableStep
  BY <1>1, StatementKeeps DEF queueVars
<1>3. \A j \in Holds(c) : row[j].status # "processing" => proc[c].work[j] \in Verdicts
  BY DEF HeldRows
<1>4. CASE proc[c].left
  <2> DEFINE p == [proc[c] EXCEPT !.producer = "draining", !.batch = {}, !.held = NoJob]
  <2>1. p \in Process
    BY <1>0 DEF Process
  <2>2. proc' = [proc EXCEPT ![c] = p]
    BY <1>4 DEF Admit
  <2>3. ProcTypes'
    BY <1>1, <2>1, <2>2 DEF ProcTypes
  <2>4. proc'[c] = p /\ \A d \in Consumer \ {c} : proc'[d] = proc[d]
    BY <2>2 DEF ProcTypes
  <2>5. InFlight(c)' = InFlight(c) /\ Holds(c)' = InFlight(c) /\ NoJob \notin InFlight(c)
    BY <1>0, <2>4, ConfigAssumption DEF InFlight, Holds, Process
  <2>6. WellFormed(c)'
    <3>1. /\ proc'[c].batch = {} /\ proc'[c].held = NoJob
          /\ proc'[c].producer = "draining" /\ proc'[c].gen = proc[c].gen
          /\ proc'[c].work = proc[c].work /\ proc'[c].attempts = proc[c].attempts
          /\ proc'[c].failed = proc[c].failed /\ proc'[c].left = proc[c].left
      BY <1>0, <2>4 DEF Process
    <3> HIDE DEF p
    <3>2. QED
      BY <1>0, <1>1, <2>5, <3>1 DEF WellFormed
  <2>7. proc'[c].attempts = proc[c].attempts /\ proc'[c].work = proc[c].work
    BY <1>0, <2>4 DEF Process
  <2> HIDE DEF p
  <2>8. InFlight(c) \subseteq Holds(c) /\ faults' # 0
    BY <1>1, <1>4, FailureMeansFault DEF Holds
  <2>9. QED
    BY <1>1, <1>2, <1>3, <2>3, <2>4, <2>5, <2>6, <2>7, <2>8, KeepsRowsSound
       DEF KeepsRows, ProcTypes
<1>5. CASE ~proc[c].left
  <2> DEFINE h == proc[c].held
             p == [proc[c] EXCEPT !.producer = "pulling", !.held = NoJob,
                                  !.work = [@ EXCEPT ![h] = "handler"]]
  <2>1. p \in Process
    BY <1>0 DEF Process
  <2>2. proc' = [proc EXCEPT ![c] = p]
    BY <1>5 DEF Admit
  <2>3. ProcTypes'
    BY <1>1, <2>1, <2>2 DEF ProcTypes
  <2>4. proc'[c] = p /\ \A d \in Consumer \ {c} : proc'[d] = proc[d]
    BY <2>2 DEF ProcTypes
  <2>5. /\ proc'[c].batch = proc[c].batch /\ proc'[c].held = NoJob
        /\ proc'[c].attempts = proc[c].attempts /\ proc'[c].failed = proc[c].failed
        /\ \A j \in Job : proc'[c].work[j] = IF j = h THEN "handler" ELSE proc[c].work[j]
    BY <1>0, <2>4 DEF Process
  <2>6. InFlight(c)' = InFlight(c) \cup {h} /\ Holds(c)' = Holds(c)
    BY <1>0, <2>5, ConfigAssumption DEF InFlight, Holds
  <2>7. WellFormed(c)'
    <3>1. /\ proc'[c].gen = proc[c].gen /\ proc'[c].left = proc[c].left
          /\ proc'[c].producer = "pulling"
      BY <1>0, <2>4 DEF Process
    <3>2. h \notin proc[c].batch /\ proc[c].producer = "gated"
      BY DEF WellFormed, Admit
    <3>3. NoJob \notin proc[c].batch \cup InFlight(c)'
      BY <1>0, ConfigAssumption DEF Process, InFlight
    <3> HIDE DEF p, h
    <3>4. QED
      BY <1>1, <2>5, <2>6, <3>1, <3>2, <3>3 DEF WellFormed
  <2>8. faults <= faults' /\ (faults' = 0 => ~proc'[c].failed)
    BY <1>1, <2>5 DEF ProcTypes, Unfailed
  <2>9. row[h].status = "processing"
    BY <1>0, ConfigAssumption, WaitingRows DEF WellFormed, InFlight, Holds, Verdicts
  <2>10. \A j \in Holds(c) : j \in Job
    BY HoldsJobs
  <2> HIDE DEF p, h
  <2>11. QED
    BY <1>1, <1>2, <1>3, <2>3, <2>4, <2>5, <2>6, <2>7, <2>8, <2>9, <2>10, KeepsRowsSound
       DEF KeepsRows
<1>6. QED
  BY <1>4, <1>5

-----------------------------------------------------------------------------
(* The claim commits.                                                       *)

LEMMA CommitStep ==
    ASSUME IInv, NEW c \in Consumer, Q!ClaimCommit(c)
    PROVE  /\ TableStep /\ AttemptsLeft'
           /\ locks[c] \in SUBSET Job /\ locks'[c] = {}
           /\ \A d \in Consumer \ {c} : locks'[d] = locks[d]
           /\ \A j \in locks[c] : /\ row[j].status = "pending"
                                  /\ row'[j].status = "processing"
                                  /\ row'[j].attempts \in 0..MaxAttempts
           /\ \A j \in Job \ locks[c] : row'[j] = row[j]
           /\ \A d \in Consumer : \A j \in Holds(d) : j \in Job \ locks[c]
<1> USE DEF IInv
<1>1. TableStep
  BY StatementKeeps
<1>2. row \in [Job -> Q!Row]
  BY TableFacts DEF Q!TypeOK
<1>3. ASSUME NEW j \in locks[c] PROVE row'[j].attempts \in 1..MaxAttempts
  <2>1. j \in Job /\ row[j].status = "pending" /\ row'[j].attempts = row[j].attempts + 1
    BY ClaimedRows
  <2>2. row[j].attempts \in Nat /\ row[j].attempts < MaxAttempts
    BY <1>2, <2>1 DEF AttemptsLeft, Q!Row
  <2>3. QED
    BY <2>1, <2>2, ConfigAssumption
<1>4. AttemptsLeft'
  <2> SUFFICES ASSUME NEW j \in Job
               PROVE  /\ row'[j].attempts <= MaxAttempts
                      /\ row'[j].status = "pending" => row'[j].attempts < MaxAttempts
    BY DEF AttemptsLeft
  <2>1. CASE j \in locks[c]
    BY <1>3, <2>1, ClaimedRows, ConfigAssumption
  <2>2. CASE j \notin locks[c]
    BY <2>2, ClaimedRows DEF AttemptsLeft
  <2>3. QED
    BY <2>1, <2>2
<1>5. \A d \in Consumer : \A j \in Holds(d) : j \in Job \ locks[c]
  BY ClaimedRows, HoldsJobs DEF HeldRows
<1>6. QED
  BY <1>1, <1>3, <1>4, <1>5, ClaimedRows, ConfigAssumption

LEMMA ClaimReturnsStep ==
    ASSUME IInv, NEW c \in Consumer, ClaimReturns(c)
    PROVE  Sound(c)
<1> USE DEF IInv
<1> DEFINE claimed == locks[c]
           full == Cardinality(claimed) = BatchSize
           counts == [j \in Job |-> IF j \in claimed THEN row'[j].attempts
                                    ELSE proc[c].attempts[j]]
           p == [proc[c] EXCEPT !.gen = "yielding", !.batch = claimed, !.full = full,
                                !.attempts = counts]
<1>0. /\ proc[c] \in Process /\ proc[c].gen = "claiming" /\ proc[c].producer = "pulling"
      /\ proc[c].held = NoJob /\ proc[c].batch = {}
  BY DEF ClaimReturns, ProcTypes, WellFormed
<1>1. Q!ClaimCommit(c) /\ UNCHANGED <<faults, starts>>
  BY DEF ClaimReturns
<1>2. /\ claimed \in SUBSET Job
      /\ \A j \in claimed : row'[j].attempts \in 0..MaxAttempts
  BY <1>1, CommitStep
<1>3. p \in Process
  <2>1. counts \in [Job -> 0..MaxAttempts]
    BY <1>0, <1>2 DEF Process
  <2>2. full \in BOOLEAN
    OBVIOUS
  <2> HIDE DEF full, counts
  <2>3. QED
    BY <1>0, <1>2, <2>1, <2>2 DEF Process
<1>4. proc' = [proc EXCEPT ![c] = p]
  BY DEF ClaimReturns
<1>5. proc'[c] = p /\ \A d \in Consumer \ {c} : proc'[d] = proc[d]
  BY <1>4 DEF ProcTypes
<1>6. ProcTypes'
  BY <1>1, <1>3, <1>4 DEF ProcTypes
<1>7. /\ proc'[c].gen = "yielding" /\ proc'[c].batch = claimed
      /\ proc'[c].producer = "pulling" /\ proc'[c].held = NoJob
      /\ proc'[c].work = proc[c].work /\ proc'[c].attempts = counts
      /\ proc'[c].failed = proc[c].failed /\ proc'[c].left = proc[c].left
  BY <1>0, <1>5 DEF Process
<1>8. /\ InFlight(c)' = InFlight(c) /\ Holds(c) = InFlight(c)
      /\ Holds(c)' = claimed \cup InFlight(c)
      /\ InFlight(c) \subseteq Job \ claimed
  <2>1. InFlight(c)' = InFlight(c) /\ Holds(c) = InFlight(c)
    BY <1>0, <1>7 DEF InFlight, Holds
  <2>2. InFlight(c) \subseteq Job \ claimed
    BY <1>1, <2>1, CommitStep
  <2>3. QED
    BY <1>7, <2>1, <2>2 DEF Holds
<1>9. \A j \in Job \ claimed : proc'[c].attempts[j] = proc[c].attempts[j]
  BY <1>7
<1> HIDE DEF p
<1>10. WellFormed(c)'
  <2>1. NoJob \notin claimed \cup InFlight(c)
    BY <1>2, ConfigAssumption DEF InFlight
  <2>2. \A j \in Job : proc[c].work[j] = "rescheduling" => j \in Job \ claimed
    BY <1>8 DEF InFlight
  <2>3. locks'[c] = {}
    BY <1>1, CommitStep
  <2>4. QED
    BY <1>0, <1>7, <1>8, <1>9, <2>1, <2>2, <2>3 DEF WellFormed
<1>11. HeldRows(c)'
  <2>1. ASSUME NEW j \in claimed
        PROVE  row'[j].attempts = proc'[c].attempts[j] /\ row'[j].status = "processing"
    BY <1>1, <1>2, <1>7, CommitStep
  <2>2. \A j \in InFlight(c) : row'[j] = row[j]
    BY <1>1, <1>8, CommitStep
  <2> HIDE DEF counts
  <2>3. QED
    BY <1>1, <1>7, <1>8, <1>9, <2>1, <2>2 DEF HeldRows
<1>12. ASSUME faults' = 0
       PROVE  /\ ~proc'[c].failed
              /\ \A j \in Job : row'[j].status = "processing" =>
                   j \in Holds(c)' \/ (row[j].status = "processing" /\ j \notin Holds(c))
  <2>1. \A j \in Job \ claimed : row'[j] = row[j]
    BY <1>1, CommitStep
  <2>2. QED
    BY <1>1, <1>7, <1>8, <1>12, <2>1 DEF Unfailed
<1>13. faults <= faults'
  BY <1>1 DEF ProcTypes
<1>14. \A d \in Consumer \ {c} : \A j \in Holds(d) : RowKept(j)
  BY <1>1, CommitStep DEF RowKept
<1>15. \A j \in Holds(c)' : j \in Holds(c) \/ row[j].status = "pending"
  BY <1>1, <1>8, CommitStep
<1>16. \A d \in Consumer \ {c} : locks'[d] = locks[d]
  BY <1>1, CommitStep
<1>17. TableStep /\ AttemptsLeft'
  BY <1>1, CommitStep
<1>18. JobStep
  <2>1. \A d \in Consumer : InFlight(d)' = InFlight(d)
    BY <1>5, <1>8 DEF InFlight
  <2>2. \A d \in Consumer : \A j \in InFlight(d) : j \in Job \ locks[c]
    BY <1>1, CommitStep DEF Holds
  <2>3. QED
    BY <1>1, <2>1, <2>2, CommitDelivers
<1> HIDE DEF claimed, counts, full
<1>19. QED
  BY <1>5, <1>6, <1>10, <1>11, <1>12, <1>13, <1>14, <1>15, <1>16, <1>17, <1>18 DEF Sound

\* A claim that throws was rolled back, or committed and left its rows processing.
LEMMA ClaimThrowsStep ==
    ASSUME IInv, NEW c \in Consumer, NEW how \in StatementFaults, ClaimThrows(c, how)
    PROVE  Sound(c)
<1> USE DEF IInv
<1> DEFINE p == [proc[c] EXCEPT !.gen = "top", !.producer = "threw", !.failed = TRUE]
<1>0. /\ proc[c] \in Process /\ proc[c].gen = "claiming" /\ proc[c].producer = "pulling"
      /\ proc[c].held = NoJob /\ proc[c].batch = {}
  BY DEF ClaimThrows, ProcTypes, WellFormed
<1>1. faults' \in 0..MaxFaults /\ faults <= faults' /\ faults' # 0 /\ starts' = starts
  BY ConfigAssumption DEF ClaimThrows, Fault, ProcTypes
<1>2. p \in Process
  BY <1>0 DEF Process
<1>3. proc'[c] = p /\ ProcTypes' /\ \A d \in Consumer \ {c} : proc'[d] = proc[d]
  BY <1>1, <1>2 DEF ProcTypes, ClaimThrows
<1>4. /\ proc'[c].batch = {} /\ proc'[c].held = NoJob
      /\ proc'[c].gen = "top" /\ proc'[c].producer = "threw" /\ proc'[c].failed
      /\ proc'[c].work = proc[c].work /\ proc'[c].attempts = proc[c].attempts
  BY <1>0, <1>3 DEF Process
<1>5. InFlight(c)' = InFlight(c) /\ Holds(c)' = InFlight(c) /\ Holds(c) = InFlight(c)
  BY <1>0, <1>4 DEF InFlight, Holds
<1>6. locks'[c] = {} => WellFormed(c)'
  <2>1. NoJob \notin InFlight(c)
    BY ConfigAssumption DEF InFlight
  <2> HIDE DEF p
  <2>2. QED
    BY <1>4, <1>5, <2>1 DEF WellFormed
<1> HIDE DEF p
<1>7. CASE Q!ClaimRollback(c)
  <2>1. TableStep /\ UNCHANGED row
    BY <1>7, StatementKeeps DEF Q!ClaimRollback
  <2>2. locks'[c] = {} /\ \A d \in Consumer \ {c} : locks'[d] = locks[d]
    BY <1>7, TableFacts DEF Q!ClaimRollback, Q!TypeOK
  <2>3. \A j \in Holds(c) : row[j].status # "processing" => proc[c].work[j] \in Verdicts
    BY DEF HeldRows
  <2>4. QED
    BY <1>1, <1>3, <1>4, <1>5, <1>6, <2>1, <2>2, <2>3, KeepsRowsSound DEF KeepsRows
<1>8. CASE Q!ClaimCommit(c)
  <2>1. \A d \in Consumer : \A j \in Holds(d) : row'[j] = row[j]
    BY <1>8, CommitStep
  <2>2. HeldRows(c)'
    BY <1>1, <1>4, <1>5, <2>1 DEF HeldRows, ProcTypes
  <2>3. WellFormed(c)'
    BY <1>6, <1>8, CommitStep
  <2>4. \A d \in Consumer \ {c} : \A j \in Holds(d) : RowKept(j)
    BY <2>1 DEF RowKept
  <2>5. /\ TableStep /\ AttemptsLeft'
        /\ \A d \in Consumer \ {c} : locks'[d] = locks[d]
    BY <1>8, CommitStep
  <2>6. JobStep
    <3>1. \A d \in Consumer : InFlight(d)' = InFlight(d)
      BY <1>3, <1>5 DEF InFlight
    <3>2. \A d \in Consumer : \A j \in InFlight(d) : j \in Job \ locks[c]
      BY <1>8, CommitStep DEF Holds
    <3>3. QED
      BY <1>8, <3>1, <3>2, CommitDelivers
  <2>7. QED
    BY <1>1, <1>3, <1>5, <2>2, <2>3, <2>4, <2>5, <2>6 DEF Sound
<1>9. QED
  BY <1>7, <1>8 DEF ClaimThrows

-----------------------------------------------------------------------------
(* process(job).                                                            *)

\* Process c goes on to wait for something else on behalf of a job in flight.
Works(c, j, what) ==
    /\ proc' \in [Consumer -> Process]
    /\ \A d \in Consumer \ {c} : proc'[d] = proc[d]
    /\ proc'[c].batch = proc[c].batch /\ proc'[c].held = proc[c].held
    /\ proc'[c].gen = proc[c].gen /\ proc'[c].producer = proc[c].producer
    /\ proc'[c].left = proc[c].left /\ proc'[c].attempts = proc[c].attempts
    /\ proc[c].failed => proc'[c].failed
    /\ \A i \in Job : proc'[c].work[i] = IF i = j THEN what ELSE proc[c].work[i]

LEMMA WorksMemory ==
    ASSUME ProcTypes, NEW c \in Consumer, NEW j \in Job,
           NEW what \in {"none", "completing"} \cup Verdicts
    PROVE  /\ Await(c, j, what) => Works(c, j, what) /\ proc'[c].failed = proc[c].failed
           /\ Rejects(c, j) => Works(c, j, "none")
<1>0. proc[c] \in Process
  BY DEF ProcTypes
<1>1. ASSUME Await(c, j, what)
      PROVE  Works(c, j, what) /\ proc'[c].failed = proc[c].failed
  <2> DEFINE p == [proc[c] EXCEPT !.work = [@ EXCEPT ![j] = what]]
  <2>1. p \in Process
    BY <1>0 DEF Process, Verdicts
  <2>2. proc' = [proc EXCEPT ![c] = p]
    BY <1>1 DEF Await
  <2>3. /\ proc' \in [Consumer -> Process] /\ proc'[c] = p
        /\ \A d \in Consumer \ {c} : proc'[d] = proc[d]
    BY <2>1, <2>2 DEF ProcTypes
  <2>4. QED
    BY <1>0, <2>3 DEF Process, Works
<1>2. ASSUME Rejects(c, j) PROVE Works(c, j, "none")
  <2> DEFINE p == [proc[c] EXCEPT !.work = [@ EXCEPT ![j] = "none"], !.failed = TRUE]
  <2>1. p \in Process
    BY <1>0 DEF Process
  <2>2. proc' = [proc EXCEPT ![c] = p]
    BY <1>2 DEF Rejects
  <2>3. /\ proc' \in [Consumer -> Process] /\ proc'[c] = p
        /\ \A d \in Consumer \ {c} : proc'[d] = proc[d]
    BY <2>1, <2>2 DEF ProcTypes
  <2>4. QED
    BY <1>0, <2>3 DEF Process, Works
<1>3. QED
  BY <1>1, <1>2

LEMMA WorksWellFormed ==
    ASSUME IInv, NEW c \in Consumer, NEW j \in Job, proc[c].work[j] # "none",
           NEW what \in {"none", "completing"} \cup Verdicts,
           what = "rescheduling" => proc[c].attempts[j] < MaxAttempts,
           Works(c, j, what), UNCHANGED locks
    PROVE  /\ WellFormed(c)'
           /\ j \in Holds(c)
           /\ Holds(c)' = IF what = "none" THEN Holds(c) \ {j} ELSE Holds(c)
           /\ InFlight(c)' = IF what = "none" THEN InFlight(c) \ {j} ELSE InFlight(c)
<1> USE DEF IInv
<1>1. j \in InFlight(c) /\ j \in Holds(c)
  BY DEF InFlight, Holds
<1>2. InFlight(c)' = IF what = "none" THEN InFlight(c) \ {j} ELSE InFlight(c)
  BY DEF InFlight, Works, Verdicts
<1>3. Holds(c)' = IF what = "none" THEN Holds(c) \ {j} ELSE Holds(c)
  <2>1. j \notin proc[c].batch /\ j # proc[c].held
    BY <1>1 DEF WellFormed
  <2>2. QED
    BY <1>1, <1>2, <2>1 DEF Holds, Works
<1>4. WellFormed(c)'
  BY <1>1, <1>2 DEF WellFormed, Works
<1>5. QED
  BY <1>1, <1>2, <1>3, <1>4

\* A job moves on, or is given up, without a word to the table.
LEMMA WorkKeepsRows ==
    ASSUME IInv, NEW c \in Consumer, NEW j \in Job, proc[c].work[j] # "none",
           NEW what \in {"none", "completing"} \cup Verdicts,
           what = "rescheduling" => proc[c].attempts[j] < MaxAttempts,
           what = "completing" => row[j].status = "processing",
           Works(c, j, what),
           UNCHANGED <<queueVars, starts>>,
           faults' \in 0..MaxFaults, faults <= faults',
           faults' = 0 => ~proc'[c].failed /\ what # "none"
    PROVE  Sound(c)
<1> USE DEF IInv
<1>1. UNCHANGED <<row, due, ahead, locks>> /\ TableStep
  BY StatementKeeps DEF queueVars
<1>2. ProcTypes'
  BY DEF ProcTypes, Works
<1>3. /\ WellFormed(c)' /\ j \in Holds(c)
      /\ Holds(c)' = IF what = "none" THEN Holds(c) \ {j} ELSE Holds(c)
  BY <1>1, WorksWellFormed
<1>4. \A i \in Holds(c)' : row[i].status # "processing" => proc'[c].work[i] \in Verdicts
  <2> SUFFICES ASSUME NEW i \in Holds(c)', row[i].status # "processing"
               PROVE  proc'[c].work[i] \in Verdicts
    OBVIOUS
  <2>1. i \in Holds(c) /\ i \in Job
    BY <1>3, HoldsJobs
  <2>2. proc[c].work[i] \in Verdicts
    BY <2>1 DEF HeldRows
  <2>3. CASE i = j
    BY <1>3, <2>3 DEF Works
  <2>4. CASE i # j
    BY <2>1, <2>2, <2>4 DEF Works
  <2>5. QED
    BY <2>3, <2>4
<1>5. QED
  BY <1>1, <1>2, <1>3, <1>4, KeepsRowsSound DEF KeepsRows, Works

\* A statement writes the verdict on a job that c has in flight.  Only of a
\* completion the reply may be lost and the job go on.
LEMMA VerdictStep ==
    ASSUME IInv, NEW c \in Consumer, NEW j \in Job, proc[c].work[j] # "none",
           NEW what \in {"none"} \cup Verdicts,
           \/ Q!Complete(j) /\ proc[c].work[j] = "completing"
           \/ Q!DeadLetter(j) /\ what = "none"
           \/ Q!Reschedule(j) /\ what = "none" /\ proc[c].work[j] = "rescheduling",
           what = "rescheduling" => proc[c].attempts[j] < MaxAttempts,
           Works(c, j, what),
           UNCHANGED starts,
           faults' \in 0..MaxFaults, faults <= faults',
           faults' = 0 => ~proc'[c].failed /\ what = "none"
    PROVE  Sound(c)
<1> USE DEF IInv
<1>1. PICK s \in {"pending", "completed", "dead"} :
        /\ Q!SetStatus(j, s) /\ UNCHANGED locks
        /\ s = "pending" => proc[c].attempts[j] < MaxAttempts
        /\ s = "completed" => proc[c].work[j] = "completing"
        /\ what # "none" => s = "completed"
  BY DEF Q!Complete, Q!DeadLetter, Q!Reschedule, WellFormed
<1>2. /\ WellFormed(c)' /\ j \in Holds(c)
      /\ Holds(c)' = IF what = "none" THEN Holds(c) \ {j} ELSE Holds(c)
  BY <1>1, WorksWellFormed
<1>3. /\ row[j].attempts = proc[c].attempts[j]
      /\ row[j].status \in {"processing", "completed", "gone"}
  BY <1>2 DEF HeldRows
<1>4. j \in Job \ Q!Locked
  BY <1>3, LockedPending
<1>5. TableStep
  BY <1>4, StatementKeeps
<1>6. /\ \A i \in Job : i # j => row'[i] = row[i]
      /\ row'[j].attempts = row[j].attempts
      /\ row'[j].status = IF Q!Exists(j) THEN s ELSE row[j].status
  BY <1>1, SettledRow
<1>7. /\ row'[j].status # "processing"
      /\ row'[j].status = "pending" => proc[c].attempts[j] < MaxAttempts
      /\ what # "none" => row'[j].status \in {"completed", "gone"}
  BY <1>1, <1>3, <1>6 DEF Q!Exists
<1>8. AttemptsLeft'
  BY <1>3, <1>6, <1>7 DEF AttemptsLeft
<1>9. ProcTypes'
  BY DEF ProcTypes, Works
<1>10. HeldRows(c)'
  <2> SUFFICES ASSUME NEW i \in Holds(c)'
               PROVE  /\ row'[i].attempts = proc'[c].attempts[i]
                      /\ \/ row'[i].status = "processing"
                         \/ /\ row'[i].status \in {"completed", "gone"}
                            /\ proc'[c].work[i] \in Verdicts /\ faults' > 0
    BY DEF HeldRows
  <2>1. i \in Holds(c) /\ i \in Job
    BY <1>2, HoldsJobs
  <2>2. CASE i = j
    BY <1>2, <1>3, <1>6, <1>7, <2>2 DEF Works
  <2>3. CASE i # j
    BY <1>6, <2>1, <2>3 DEF HeldRows, Works, ProcTypes
  <2>4. QED
    BY <2>2, <2>3
<1>11. \A d \in Consumer \ {c} : \A i \in Holds(d) : RowKept(i)
  <2> SUFFICES ASSUME NEW d \in Consumer \ {c}, NEW i \in Holds(d) PROVE RowKept(i)
    OBVIOUS
  <2>1. i # j /\ i \in Job
    BY <1>2, HoldsJobs DEF Exclusive
  <2>2. QED
    BY <1>6, <2>1 DEF RowKept
<1>12. ASSUME faults' = 0
       PROVE  /\ ~proc'[c].failed
              /\ \A i \in Job : row'[i].status = "processing" =>
                   i \in Holds(c)' \/ (row[i].status = "processing" /\ i \notin Holds(c))
  BY <1>2, <1>6, <1>7, <1>12
<1>13. \A d \in Consumer \ {c} : proc'[d] = proc[d] /\ locks'[d] = locks[d]
  BY <1>1 DEF Works
<1>14. \A i \in Holds(c)' : i \in Holds(c)
  BY <1>2
<1>15. JobStep
  <2>1. InFlight(c)' = IF what = "none" THEN InFlight(c) \ {j} ELSE InFlight(c)
    BY <1>1, WorksWellFormed
  <2>2. \A d \in Consumer \ {c} : j \notin InFlight(d)
    BY <1>2 DEF Exclusive, Holds
  <2>3. s = "completed" => row[j].status = "processing"
    BY <1>1, <1>2, WaitingRows DEF Verdicts
  <2>4. QED
    BY <1>1, <1>3, <1>13, <2>1, <2>2, <2>3, VerdictGiven
<1>16. QED
  BY <1>2, <1>5, <1>8, <1>9, <1>10, <1>11, <1>12, <1>13, <1>14, <1>15 DEF Sound

LEMMA CatchVerdict ==
    ASSUME NEW c \in Consumer, NEW j \in Job, NEW permanent \in BOOLEAN
    PROVE  /\ Catch(c, j, permanent) \in Verdicts
           /\ Catch(c, j, permanent) = "rescheduling" => proc[c].attempts[j] < MaxAttempts
  BY DEF Catch, Verdicts

LEMMA FaultCounts ==
    ASSUME ProcTypes, NEW how, Fault(how)
    PROVE  faults' \in 0..MaxFaults /\ faults <= faults' /\ faults' # 0
  BY ConfigAssumption DEF Fault, ProcTypes

\* The conflict takes a lost reply: as long as nothing has failed, the row is live
\* and its key its own.
LEMMA ConflictMeansFault ==
    ASSUME IInv, NEW c \in Consumer, NEW j \in Job, RescheduleConflicts(c, j)
    PROVE  faults # 0
<1> SUFFICES ASSUME faults = 0 PROVE FALSE
  OBVIOUS
<1>1. j \in Holds(c)
  BY DEF RescheduleConflicts, Holds, InFlight
<1>2. row[j].status = "processing"
  BY <1>1 DEF IInv, HeldRows
<1>3. PICK i \in Job \ {j} : Q!Live(i) /\ row[i].key = row[j].key /\ row[j].key # NoKey
  BY DEF RescheduleConflicts, Q!KeyTaken
<1>4. QED
  BY <1>2, <1>3, TableFacts DEF IInv, Q!DedupUnique, Q!Live

LEMMA WorkStep ==
    ASSUME IInv, NEW c \in Consumer, NEW j \in Job, Work(c, j)
    PROVE  Sound(c)
<1> USE DEF IInv
<1>0. faults \in 0..MaxFaults /\ faults <= faults /\ (faults = 0 => ~proc[c].failed)
  BY DEF ProcTypes, Unfailed
<1>1. proc[c].work[j] # "none"
  BY DEF Work, HandlerReturns, HandlerThrows, CompleteReturns, RescheduleReturns,
         DeadLetterReturns, RescheduleConflicts, CompleteThrows, RescheduleThrows,
         DeadLetterThrows
<1>2. proc[c].work[j] \notin Verdicts => row[j].status = "processing"
  BY <1>1, WaitingRows DEF Holds, InFlight
<1>3. CASE HandlerReturns(c, j)
  <2>1. Works(c, j, "completing") /\ proc'[c].failed = proc[c].failed
    BY <1>3, WorksMemory DEF HandlerReturns
  <2>2. QED
    BY <1>0, <1>1, <1>2, <1>3, <2>1, WorkKeepsRows DEF HandlerReturns, Verdicts
<1>4. CASE HandlerThrows(c, j)
  <2>1. PICK permanent \in BOOLEAN : Await(c, j, Catch(c, j, permanent))
    BY <1>4 DEF HandlerThrows
  <2>2. PICK what \in Verdicts : /\ what = Catch(c, j, permanent)
                                 /\ what = "rescheduling" => proc[c].attempts[j] < MaxAttempts
    BY CatchVerdict
  <2>3. Works(c, j, what) /\ proc'[c].failed = proc[c].failed
    BY <2>1, <2>2, WorksMemory
  <2>4. what # "completing" /\ what # "none"
    BY DEF Verdicts
  <2>5. UNCHANGED <<queueVars, faults, starts>>
    BY <1>4 DEF HandlerThrows
  <2>6. QED
    BY <1>0, <1>1, <2>2, <2>3, <2>4, <2>5, WorkKeepsRows
<1>5. CASE RescheduleConflicts(c, j)
  <2>1. Works(c, j, "none") /\ UNCHANGED <<queueVars, faults, starts>>
    BY <1>5, WorksMemory DEF RescheduleConflicts
  <2>2. faults' # 0
    BY <1>5, <2>1, ConflictMeansFault
  <2>3. QED
    BY <1>0, <1>1, <2>1, <2>2, WorkKeepsRows
<1>6. CASE CompleteReturns(c, j) \/ RescheduleReturns(c, j) \/ DeadLetterReturns(c, j)
  <2>1. Works(c, j, "none") /\ proc'[c].failed = proc[c].failed /\ UNCHANGED <<faults, starts>>
    BY <1>6, WorksMemory DEF CompleteReturns, RescheduleReturns, DeadLetterReturns
  <2>2. \/ Q!Complete(j) /\ proc[c].work[j] = "completing"
        \/ Q!DeadLetter(j)
        \/ Q!Reschedule(j) /\ proc[c].work[j] = "rescheduling"
    BY <1>6 DEF CompleteReturns, RescheduleReturns, DeadLetterReturns
  <2>3. QED
    BY <1>0, <1>1, <2>1, <2>2, VerdictStep
<1>7. ASSUME NEW how \in StatementFaults, CompleteThrows(c, j, how) PROVE Sound(c)
  <2>1. PICK what \in Verdicts : /\ what = Catch(c, j, FALSE)
                                 /\ what = "rescheduling" => proc[c].attempts[j] < MaxAttempts
    BY CatchVerdict
  <2>2. Works(c, j, what) /\ what # "completing" /\ starts' = starts
    BY <1>7, <2>1, WorksMemory DEF CompleteThrows, Verdicts
  <2>3. faults' \in 0..MaxFaults /\ faults <= faults' /\ faults' # 0
    BY <1>7, FaultCounts DEF CompleteThrows
  <2>4. CASE Q!Complete(j)
    BY <1>1, <1>7, <2>1, <2>2, <2>3, <2>4, VerdictStep DEF CompleteThrows
  <2>5. CASE UNCHANGED queueVars
    BY <1>1, <2>1, <2>2, <2>3, <2>5, WorkKeepsRows
  <2>6. QED
    BY <1>7, <2>4, <2>5 DEF CompleteThrows
<1>8. ASSUME NEW how \in StatementFaults,
             RescheduleThrows(c, j, how) \/ DeadLetterThrows(c, j, how)
      PROVE  Sound(c)
  <2>1. Works(c, j, "none") /\ starts' = starts
    BY <1>8, WorksMemory DEF RescheduleThrows, DeadLetterThrows
  <2>2. faults' \in 0..MaxFaults /\ faults <= faults' /\ faults' # 0
    BY <1>8, FaultCounts DEF RescheduleThrows, DeadLetterThrows
  <2>3. CASE Q!DeadLetter(j) \/ (Q!Reschedule(j) /\ proc[c].work[j] = "rescheduling")
    BY <1>1, <2>1, <2>2, <2>3, VerdictStep
  <2>4. CASE UNCHANGED queueVars
    BY <1>1, <2>1, <2>2, <2>4, WorkKeepsRows
  <2>5. QED
    BY <1>8, <2>3, <2>4 DEF RescheduleThrows, DeadLetterThrows
<1>9. QED
  BY <1>3, <1>4, <1>5, <1>6, <1>7, <1>8 DEF Work

\* The reaper deletes completed rows, also those whose completion was not heard of.
LEMMA ReapStep ==
    ASSUME IInv, NEW c \in Consumer,
           ReapReturns(c) \/ \E how \in StatementFaults : ReapThrows(c, how)
    PROVE  Sound(c)
<1> USE DEF IInv
<1>1. PICK S \in SUBSET Job : Q!Reap(S)
  BY DEF ReapReturns, ReapThrows
<1>2. Rearm(c) /\ starts' = starts /\ faults' \in 0..MaxFaults /\ faults <= faults'
  BY FaultCounts DEF ReapReturns, ReapThrows, ProcTypes
<1>3. TableStep /\ UNCHANGED locks
  BY <1>1, StatementKeeps DEF Q!Reap
<1> DEFINE p == [proc[c] EXCEPT !.reaper = IF proc[c].life = "up" THEN "armed" ELSE "off"]
<1>4. proc[c] \in Process
  BY DEF ProcTypes
<1>5. p \in Process
  BY <1>4 DEF Process
<1>6. proc'[c] = p /\ ProcTypes' /\ \A d \in Consumer \ {c} : proc'[d] = proc[d]
  BY <1>2, <1>5 DEF Rearm, ProcTypes
<1>7. /\ proc'[c].batch = proc[c].batch /\ proc'[c].held = proc[c].held
      /\ proc'[c].gen = proc[c].gen /\ proc'[c].producer = proc[c].producer
      /\ proc'[c].left = proc[c].left /\ proc'[c].attempts = proc[c].attempts
      /\ proc'[c].failed = proc[c].failed /\ proc'[c].work = proc[c].work
  BY <1>4, <1>6 DEF Process
<1> HIDE DEF p
<1>8. InFlight(c)' = InFlight(c) /\ Holds(c)' = Holds(c)
  BY <1>7 DEF InFlight, Holds
<1>9. WellFormed(c)'
  BY <1>3, <1>7, <1>8 DEF WellFormed
<1>10. \A j \in Job : RowKept(j) /\ (row'[j].status # "gone" => row'[j] = row[j])
  BY <1>1, ReapedRows DEF RowKept
<1>11. HeldRows(c)'
  <2> SUFFICES ASSUME NEW j \in Holds(c)
               PROVE  /\ row'[j].attempts = proc[c].attempts[j]
                      /\ \/ row'[j].status = "processing"
                         \/ /\ row'[j].status \in {"completed", "gone"}
                            /\ proc[c].work[j] \in Verdicts /\ faults' > 0
    BY <1>7, <1>8 DEF HeldRows
  <2>1. RowKept(j)
    BY <1>10, HoldsJobs
  <2>2. QED
    BY <1>2, <2>1 DEF HeldRows, RowKept, ProcTypes
<1>12. AttemptsLeft'
  BY <1>10 DEF AttemptsLeft, RowKept
<1>13. ASSUME faults' = 0
       PROVE  /\ ~proc'[c].failed
              /\ \A j \in Job : row'[j].status = "processing" =>
                   j \in Holds(c)' \/ (row[j].status = "processing" /\ j \notin Holds(c))
  BY <1>2, <1>7, <1>8, <1>10, <1>13 DEF Unfailed, ProcTypes
<1>14. \A d \in Consumer \ {c} : \A j \in Holds(d) : RowKept(j)
  BY <1>10, HoldsJobs
<1>15. JobStep
  <2>1. \A d \in Consumer : InFlight(d)' = InFlight(d)
    BY <1>6, <1>8 DEF InFlight
  <2>2. QED
    BY <1>1, <2>1, ReapForgets
<1>16. QED
  BY <1>2, <1>3, <1>6, <1>8, <1>9, <1>11, <1>12, <1>13, <1>14, <1>15 DEF Sound

-----------------------------------------------------------------------------
(* The invariant is inductive.                                              *)

LEMMA EnqueuedRow ==
    ASSUME Proved!IInv, NEW j \in Job, Q!Enqueue(j, KeyOf[j])
    PROVE  /\ row[j].status = "absent" /\ row[j].attempts = 0
           /\ row'[j].status = "pending" /\ row'[j].attempts = 0
           /\ \A i \in Job : i # j => row'[i] = row[i]
  BY TableFacts DEF Q!Enqueue, Q!TypeOK

LEMMA ArrivalStep ==
    ASSUME IInv, NEW j \in Job, Enqueue(j) \/ BecomesDue(j)
    PROVE  IInv'
<1> USE DEF IInv
<1>1. UNCHANGED <<locks, proc, faults, starts>>
  BY DEF Enqueue, BecomesDue, Q!Enqueue, Q!BecomesDue
<1>2. TableStep
  BY StatementKeeps DEF Enqueue, BecomesDue
<1>3. \/ UNCHANGED row
      \/ /\ row[j].status = "absent" /\ row[j].attempts = 0
         /\ row'[j].status = "pending" /\ row'[j].attempts = 0
         /\ \A i \in Job : i # j => row'[i] = row[i]
  BY EnqueuedRow DEF Enqueue, BecomesDue, Q!BecomesDue
<1>4. \A c \in Consumer : \A i \in Holds(c) : row'[i] = row[i]
  BY <1>3, HoldsJobs DEF HeldRows
<1>5. \A c \in Consumer : Holds(c)' = Holds(c) /\ InFlight(c)' = InFlight(c)
  BY <1>1 DEF Holds, InFlight
<1>6. \A c \in Consumer : WellFormed(c)' /\ HeldRows(c)'
  BY <1>1, <1>4, <1>5 DEF WellFormed, HeldRows
<1>7. ProcTypes' /\ Exclusive'
  BY <1>1, <1>5 DEF ProcTypes, Exclusive
<1>8. AttemptsLeft'
  BY <1>3, ConfigAssumption DEF AttemptsLeft
<1>9. Unfailed'
  BY <1>1, <1>3, <1>5 DEF Unfailed
<1>10. QED
  BY <1>2, <1>6, <1>7, <1>8, <1>9 DEF TableStep

LEMMA ProcessStep ==
    ASSUME IInv, NEW c \in Consumer,
           \/ Start(c) \/ Stop(c) \/ StopReturns(c) \/ Crash(c)
           \/ Source(c) \/ Stream(c) \/ Reaper(c)
           \/ \E j \in Job : Work(c, j)
    PROVE  Sound(c)
<1>1. CASE \/ Start(c) \/ Stop(c) \/ BatchEnds(c) \/ DelayEnds(c) \/ SourceEnds(c)
           \/ Leave(c) \/ Drained(c) \/ ReapTimer(c)
  BY <1>1, ControlStep
<1>2. CASE StopReturns(c) \/ Crash(c)
  BY <1>2, StopReturnsStep, CrashStep
<1>3. CASE BeginClaim(c) \/ ClaimReturns(c) \/ \E how \in StatementFaults : ClaimThrows(c, how)
  BY <1>3, BeginClaimStep, ClaimReturnsStep, ClaimThrowsStep
<1>4. CASE Pull(c) \/ Admit(c)
  BY <1>4, PullStep, AdmitStep
<1>5. CASE ReapReturns(c) \/ \E how \in StatementFaults : ReapThrows(c, how)
  BY <1>5, ReapStep
<1>6. CASE \E j \in Job : Work(c, j)
  BY <1>6, WorkStep
<1>7. QED
  BY <1>1, <1>2, <1>3, <1>4, <1>5, <1>6 DEF Source, Stream, Reaper

LEMMA InitInvariant == Init => IInv
<1> SUFFICES ASSUME Init PROVE IInv
  OBVIOUS
<1>1. Proved!IInv
  <2>1. Proved!Init
    BY SameTable DEF Init
  <2>2. QED
    BY <2>1, TableAssumptions, Proved!InitInvariant
<1>2. ASSUME NEW c \in Consumer
      PROVE  Holds(c) = {} /\ InFlight(c) = {} /\ locks[c] = {} /\ proc[c] = Down
  BY DEF Init, Q!Init, Down, Holds, InFlight
<1>3. ProcTypes
  BY ConfigAssumption DEF Init, Down, Process, ProcTypes
<1>4. \A c \in Consumer : WellFormed(c) /\ HeldRows(c)
  BY <1>2 DEF Down, WellFormed, HeldRows
<1>5. Exclusive
  BY <1>2 DEF Exclusive
<1>6. \A j \in Job : row[j].status = "absent" /\ row[j].attempts = 0
  BY DEF Init, Q!Init, Q!Absent
<1>7. AttemptsLeft
  BY <1>6, ConfigAssumption DEF AttemptsLeft
<1>8. Unfailed
  BY <1>2, <1>6 DEF Unfailed, Down
<1>9. QED
  BY <1>1, <1>3, <1>4, <1>5, <1>7, <1>8 DEF IInv

LEMMA NextInvariant == IInv /\ [Next]_vars => IInv'
<1> SUFFICES ASSUME IInv, [Next]_vars PROVE IInv'
  OBVIOUS
<1>1. CASE \E j \in Job : Enqueue(j) \/ BecomesDue(j)
  BY <1>1, ArrivalStep
<1>2. ASSUME NEW c \in Consumer,
             \/ Start(c) \/ Stop(c) \/ StopReturns(c) \/ Crash(c)
             \/ Source(c) \/ Stream(c) \/ Reaper(c)
             \/ \E j \in Job : Work(c, j)
      PROVE  IInv'
  BY <1>2, ProcessStep, SoundKeeps
<1>3. CASE UNCHANGED vars
  <2>1. TableStep
    BY <1>3, StatementKeeps DEF IInv, vars
  <2>2. \A c \in Consumer : Holds(c)' = Holds(c) /\ InFlight(c)' = InFlight(c)
    BY <1>3 DEF vars, Holds, InFlight
  <2>3. QED
    BY <1>3, <2>1, <2>2 DEF IInv, TableStep, vars, queueVars, ProcTypes, WellFormed,
                            HeldRows, Exclusive, AttemptsLeft, Unfailed
<1>4. QED
  BY <1>1, <1>2, <1>3 DEF Next

LEMMA Invariant == Spec => []IInv
  BY InitInvariant, NextInvariant, PTL DEF Spec

-----------------------------------------------------------------------------
(* The results.                                                             *)

\* The variables have their types: in particular a claim never counts an attempt
\* past max_attempts into the memory of a process.
THEOREM ConsumerTypes == Spec => []TypeOK
<1>1. IInv => TypeOK
  BY TableFacts DEF IInv, ProcTypes, TypeOK
<1>2. QED
  BY <1>1, Invariant, PTL

\* However many processes consume the topic, and whatever fails, a claimed job is in
\* one place of one process, its row is not claimable, and it has been delivered as
\* often as that process believes, at most max_attempts times.
THEOREM ConsumerExclusiveDelivery == Spec => []ExclusiveDelivery
<1>1. ASSUME IInv PROVE ExclusiveDelivery
  <2> USE <1>1 DEF IInv
  <2>1. TypeOK
    BY TableFacts DEF ProcTypes, TypeOK
  <2>2. \A c, d \in Consumer : c # d => Holds(c) \cap Holds(d) = {}
    BY DEF Exclusive
  <2>3. \A c \in Consumer :
          /\ proc[c].held \notin proc[c].batch \cup InFlight(c)
          /\ proc[c].batch \cap InFlight(c) = {}
    BY DEF WellFormed
  <2>4. \A c \in Consumer : \A j \in Holds(c) :
          row[j].status # "pending" /\ row[j].attempts = proc[c].attempts[j]
    BY DEF HeldRows
  <2>5. QED
    BY <2>1, <2>2, <2>3, <2>4 DEF ExclusiveDelivery, AttemptsLeft
<1>2. QED
  BY <1>1, Invariant, PTL

\* Stopping and starting processes loses no job: until something fails every row that
\* is processing is held by somebody, and a stream that settles without a failure of
\* its own leaves no claimed job behind.
THEOREM ConsumerNoOrphan == Spec => []NoOrphan
<1>1. IInv => NoOrphan
  BY SettledHoldsNothing DEF IInv, Unfailed, NoOrphan
<1>2. QED
  BY <1>1, Invariant, PTL

-----------------------------------------------------------------------------
(* The table under its consumers.                                           *)

\* The consumers keep the one rule of the table: no statement of theirs updates a
\* row that a claim has locked.  So each step is a statement of JobQueue, or leaves
\* the table alone.
THEOREM ConsumerImplementsQueue == Spec => Q!Spec
<1>1. Init => Q!Init
  BY DEF Init
<1>2. ASSUME IInv, [Next]_vars PROVE [Q!Next]_queueVars
  <2>1. CASE \E j \in Job : Enqueue(j) \/ BecomesDue(j)
    BY <1>2, <2>1, StatementKeeps DEF IInv, Enqueue, BecomesDue, TableStep
  <2>2. ASSUME NEW c \in Consumer,
               \/ Start(c) \/ Stop(c) \/ StopReturns(c) \/ Crash(c)
               \/ Source(c) \/ Stream(c) \/ Reaper(c)
               \/ \E j \in Job : Work(c, j)
        PROVE  [Q!Next]_queueVars
    BY <1>2, <2>2, ProcessStep DEF Sound, TableStep
  <2>3. CASE UNCHANGED vars
    BY <2>3 DEF vars
  <2>4. QED
    BY <1>2, <2>1, <2>2, <2>3 DEF Next
<1>3. IInv /\ [Next]_vars => [Q!Next]_<<row, due, ahead, locks>>
  BY <1>2 DEF queueVars
<1>4. QED
  BY <1>1, <1>3, Invariant, PTL DEF Spec, Q!Spec, Q!vars

LEMMA ConsumerProvedTable == Spec => Proved!Spec
<1>1. [Q!Next]_(Q!vars) => [Proved!Next]_(Proved!vars)
  BY SameTable DEF Q!vars, Proved!vars
<1>2. QED
  BY <1>1, SameTable, ConsumerImplementsQueue, PTL DEF Q!Spec, Proved!Spec

\* Two live jobs of a topic never carry the same key, whatever its consumers do:
\* also when a job is rescheduled whose completion was lost.
THEOREM ConsumerDedupUnique == Spec => []Q!DedupUnique
<1>1. IInv => Q!DedupUnique
  BY TableFacts DEF IInv
<1>2. QED
  BY <1>1, Invariant, PTL

\* Under all its consumers together, attempts grows by one when a pending row is
\* claimed and never otherwise.
THEOREM ConsumerAttemptsCount == Spec => Q!AttemptsCountDeliveries
<1>1. Proved!Spec => Proved!AttemptsCountDeliveries
  BY TableAssumptions, Proved!QueueAttemptsCount
<1>2. Proved!AttemptsCountDeliveries => Q!AttemptsCountDeliveries
  BY DEF Proved!AttemptsCountDeliveries, Q!AttemptsCountDeliveries, Proved!vars, Q!vars
<1>3. QED
  BY <1>1, <1>2, ConsumerProvedTable, PTL

-----------------------------------------------------------------------------
(* How a process takes up work and lets go of it.                           *)

Busy(c) == proc[c].gen = "claiming" \/ Holds(c) # {}

\* A process that is down is as it was before it was first started.
Rests(c) == proc[c].life = "down" => proc[c] = Down

\* Most steps of process c only let go: it takes nothing up that it did not have in hand,
\* and works on one job more only while a slot is free.
Recedes(c) ==
    /\ proc[c].life # "down" /\ proc'[c].life = proc[c].life
    /\ proc[c].failed => proc'[c].failed
    /\ Busy(c)' => Busy(c)
    /\ Waiting(c)' \subseteq Waiting(c)
    /\ \/ InFlight(c)' \subseteq InFlight(c)
       \/ /\ Cardinality(InFlight(c)) < Concurrency
          /\ \E j \in Job : InFlight(c)' = InFlight(c) \cup {j}

\* The rest of the memory of a process, for the steps that leave it alone.
Keeps(c) ==
    /\ proc'[c].batch = proc[c].batch /\ proc'[c].held = proc[c].held
    /\ proc'[c].work = proc[c].work /\ locks'[c] = locks[c]

LEMMA KeptMemory ==
    ASSUME NEW c \in Consumer, Keeps(c)
    PROVE  InFlight(c)' = InFlight(c) /\ Holds(c)' = Holds(c) /\ Waiting(c)' = Waiting(c)
  BY DEF Keeps, InFlight, Holds, Waiting

LEMMA ControlRecedes ==
    ASSUME IInv, NEW c \in Consumer, Rests(c),
           \/ BatchEnds(c) \/ DelayEnds(c) \/ SourceEnds(c)
           \/ Leave(c) \/ Drained(c) \/ Reaper(c)
    PROVE  Recedes(c)
<1>1. proc[c] \in Process /\ proc \in [Consumer -> Process]
  BY DEF IInv, ProcTypes
<1>2. UNCHANGED locks
  BY DEF BatchEnds, DelayEnds, SourceEnds, Leave, Drained, Reaper, ReapTimer, ReapReturns,
         ReapThrows, Q!Reap, queueVars
<1>3. /\ proc'[c].batch = proc[c].batch /\ proc'[c].held = proc[c].held
      /\ proc'[c].work = proc[c].work /\ proc'[c].life = proc[c].life
      /\ proc'[c].failed = proc[c].failed
      /\ proc'[c].gen = "claiming" => proc[c].gen = "claiming"
  BY <1>1 DEF BatchEnds, DelayEnds, SourceEnds, Leave, Drained, Reaper, ReapTimer, ReapReturns,
              ReapThrows, Rearm, Process
<1>4. proc[c] # Down
  BY DEF BatchEnds, DelayEnds, SourceEnds, Leave, Drained, Reaper, ReapTimer, ReapReturns,
         ReapThrows, Down
<1>5. InFlight(c)' = InFlight(c) /\ Holds(c)' = Holds(c) /\ Waiting(c)' = Waiting(c)
  BY <1>2, <1>3, KeptMemory DEF Keeps
<1>6. QED
  BY <1>3, <1>4, <1>5 DEF Recedes, Rests, Busy

\* The rows of a committed claim waited as locked, and wait as the batch; those of a
\* claim that throws are let go.
LEMMA ClaimRecedes ==
    ASSUME IInv, NEW c \in Consumer, Rests(c),
           ClaimReturns(c) \/ \E how \in StatementFaults : ClaimThrows(c, how)
    PROVE  Recedes(c)
<1>1. proc[c] \in Process /\ proc \in [Consumer -> Process] /\ proc[c].gen = "claiming"
  BY DEF IInv, ProcTypes, ClaimReturns, ClaimThrows
<1>2. proc[c].batch = {} /\ proc[c].held = NoJob
  BY <1>1 DEF IInv, WellFormed
<1>3. locks'[c] = {}
  BY TableFacts DEF IInv, ClaimReturns, ClaimThrows, Q!ClaimCommit, Q!ClaimRollback, Q!TypeOK
<1>4. /\ proc'[c].batch \subseteq locks[c] /\ proc'[c].held = proc[c].held
      /\ proc'[c].work = proc[c].work /\ proc'[c].life = proc[c].life
      /\ proc[c].failed => proc'[c].failed
  <2>1. CASE ClaimReturns(c)
    <3>1. PICK full, attempts :
            proc' = [proc EXCEPT ![c].gen = "yielding", ![c].batch = locks[c],
                                 ![c].full = full, ![c].attempts = attempts]
      BY <2>1 DEF ClaimReturns
    <3>2. QED
      BY <1>1, <3>1 DEF Process
  <2>2. ASSUME NEW how \in StatementFaults, ClaimThrows(c, how)
        PROVE  /\ proc'[c].batch = proc[c].batch /\ proc'[c].held = proc[c].held
               /\ proc'[c].work = proc[c].work /\ proc'[c].life = proc[c].life
               /\ proc'[c].failed
    BY <1>1, <2>2 DEF ClaimThrows, Process
  <2>3. QED
    BY <1>2, <2>1, <2>2
<1>5. InFlight(c)' = InFlight(c) /\ Waiting(c)' \subseteq Waiting(c)
  <2>1. InFlight(c)' = InFlight(c)
    BY <1>4 DEF InFlight
  <2>2. Waiting(c)' = proc'[c].batch \ InFlight(c)
    BY <1>2, <1>3, <1>4, <2>1 DEF Waiting, Holds
  <2>3. QED
    BY <1>4, <2>1, <2>2 DEF Waiting
<1>6. proc[c] # Down
  BY <1>1 DEF Down
<1>7. QED
  BY <1>1, <1>4, <1>5, <1>6 DEF Recedes, Rests, Busy

LEMMA PullRecedes ==
    ASSUME IInv, NEW c \in Consumer, Rests(c), Pull(c)
    PROVE  Recedes(c)
<1>1. /\ proc[c] \in Process /\ proc \in [Consumer -> Process]
      /\ proc[c].gen = "yielding" /\ proc[c].batch # {}
      /\ UNCHANGED locks
  BY DEF IInv, ProcTypes, Pull, queueVars
<1>2. /\ proc'[c].work = proc[c].work /\ proc'[c].life = proc[c].life
      /\ proc'[c].failed = proc[c].failed /\ proc'[c].gen = proc[c].gen
  BY <1>1 DEF Pull, Process
<1>3. proc[c].held = NoJob
  BY DEF IInv, WellFormed, Pull
<1>4. /\ proc'[c].batch \subseteq proc[c].batch
      /\ proc'[c].held = NoJob \/ proc'[c].held \in proc[c].batch
  BY <1>1, <1>3 DEF Pull, Process
<1>5. InFlight(c)' = InFlight(c) /\ Waiting(c)' \subseteq Waiting(c) /\ Holds(c) # {}
  <2>1. InFlight(c)' = InFlight(c)
    BY <1>2 DEF InFlight
  <2>2. QED
    BY <1>1, <1>4, <2>1 DEF Waiting, Holds
<1>6. proc[c] # Down
  BY <1>1 DEF Down
<1>7. QED
  BY <1>1, <1>2, <1>5, <1>6 DEF Recedes, Rests, Busy

LEMMA AdmitRecedes ==
    ASSUME IInv, NEW c \in Consumer, Rests(c), Admit(c)
    PROVE  Recedes(c)
<1>1. /\ proc[c] \in Process /\ proc \in [Consumer -> Process]
      /\ proc[c].held \in Job /\ proc[c].held # NoJob /\ UNCHANGED locks
  BY ConfigAssumption DEF IInv, ProcTypes, Admit, WellFormed, Process, queueVars
<1>2. /\ proc'[c].life = proc[c].life /\ proc'[c].failed = proc[c].failed
      /\ proc'[c].gen = proc[c].gen /\ proc'[c].held = NoJob
      /\ proc'[c].batch \subseteq proc[c].batch
  BY <1>1 DEF Admit, Process
<1>3. \/ InFlight(c)' = InFlight(c)
      \/ InFlight(c)' = InFlight(c) \cup {proc[c].held}
  <2>1. CASE proc[c].left
    <3>1. proc'[c].work = proc[c].work
      BY <1>1, <2>1 DEF Admit, Process
    <3>2. QED
      BY <3>1 DEF InFlight
  <2>2. CASE ~proc[c].left
    <3>1. \A j \in Job : proc'[c].work[j] = IF j = proc[c].held THEN "handler"
                                            ELSE proc[c].work[j]
      BY <1>1, <2>2 DEF Admit, Process
    <3>2. QED
      BY <1>1, <3>1 DEF InFlight
  <2>3. QED
    BY <2>1, <2>2
<1>4. Waiting(c)' \subseteq Waiting(c) /\ Holds(c) # {}
  BY <1>1, <1>2, <1>3 DEF Waiting, Holds
<1>5. proc[c] # Down
  BY DEF Down, Admit
<1>6. Cardinality(InFlight(c)) < Concurrency
  BY DEF Admit
<1>7. QED
  BY <1>1, <1>2, <1>3, <1>4, <1>5, <1>6 DEF Recedes, Rests, Busy

LEMMA WorkRecedes ==
    ASSUME IInv, NEW c \in Consumer, Rests(c), NEW j \in Job, Work(c, j)
    PROVE  Recedes(c)
<1>1. proc[c].work[j] # "none"
  BY DEF Work, HandlerReturns, HandlerThrows, CompleteReturns, RescheduleReturns,
         DeadLetterReturns, RescheduleConflicts, CompleteThrows, RescheduleThrows,
         DeadLetterThrows
<1>2. UNCHANGED locks
  BY DEF Work, HandlerReturns, HandlerThrows, CompleteReturns, RescheduleReturns,
         DeadLetterReturns, RescheduleConflicts, CompleteThrows, RescheduleThrows,
         DeadLetterThrows, Q!Complete, Q!Reschedule, Q!DeadLetter, queueVars
<1>3. \E what \in {"none", "completing"} \cup Verdicts : Await(c, j, what) \/ Rejects(c, j)
  <2>1. \A permanent \in BOOLEAN : Catch(c, j, permanent) \in Verdicts
    BY CatchVerdict
  <2>2. QED
    BY <2>1 DEF Work, HandlerReturns, HandlerThrows, CompleteReturns, RescheduleReturns,
                DeadLetterReturns, RescheduleConflicts, CompleteThrows, RescheduleThrows,
                DeadLetterThrows
<1>4. PICK what \in {"none", "completing"} \cup Verdicts : Works(c, j, what)
  BY <1>3, WorksMemory DEF IInv
<1>5. proc'[c].life = proc[c].life
  BY <1>3 DEF IInv, ProcTypes, Process, Await, Rejects
<1>6. InFlight(c)' \subseteq InFlight(c) /\ j \in InFlight(c)
  BY <1>1, <1>4 DEF InFlight, Works
<1>7. Waiting(c) = proc[c].batch \cup ({proc[c].held} \ {NoJob}) \cup locks[c]
  BY DEF IInv, WellFormed, Waiting, Holds
<1>8. Waiting(c)' \subseteq Waiting(c)
  BY <1>2, <1>4, <1>7 DEF Waiting, Holds, Works
<1>9. proc[c] # Down
  BY <1>1 DEF Down
<1>10. Holds(c) # {}
  BY <1>6 DEF Holds
<1>11. QED
  BY <1>4, <1>5, <1>6, <1>8, <1>9, <1>10 DEF Recedes, Rests, Busy, Works

\* Between them: a process takes up work as a claim, which it begins while it is up and
\* keeps nothing waiting.
Paced(c) ==
    \/ Recedes(c)
    \/ Keeps(c) /\ proc[c] = Down /\ proc'[c].life = "up"
       /\ proc'[c].gen = "top" /\ ~proc'[c].failed
    \/ Keeps(c) /\ proc[c].life = "up" /\ proc'[c].life = "stopping"
       /\ proc'[c].failed = proc[c].failed
       /\ (proc'[c].gen = "claiming" <=> proc[c].gen = "claiming")
    \/ /\ proc[c].life = "up" /\ proc'[c].life = "up" /\ proc'[c].gen = "claiming"
       /\ proc'[c].failed = proc[c].failed
       /\ InFlight(c)' = InFlight(c) /\ Waiting(c)' \subseteq Q!FirstDue(BatchSize)
    \/ /\ proc'[c] = Down /\ locks'[c] = {}
       /\ \/ proc[c].life = "stopping" /\ (~Busy(c) \/ proc[c].failed)
          \/ faults' > faults

LEMMA ProcessPaced ==
    ASSUME IInv, NEW c \in Consumer, Rests(c),
           \/ Start(c) \/ Stop(c) \/ StopReturns(c) \/ Crash(c)
           \/ Source(c) \/ Stream(c) \/ Reaper(c)
           \/ \E j \in Job : Work(c, j)
    PROVE  Paced(c)
<1>0. proc[c] \in Process /\ proc \in [Consumer -> Process] /\ WellFormed(c)
      /\ locks \in [Consumer -> SUBSET Job]
  BY TableFacts DEF IInv, ProcTypes, Q!TypeOK
<1>1. CASE Start(c)
  <2>1. Keeps(c) /\ proc[c] = Down /\ proc'[c].life = "up"
    BY <1>0, <1>1 DEF Start, Rests, Keeps, Process, queueVars
  <2>2. proc'[c].gen = proc[c].gen /\ proc'[c].failed = proc[c].failed
    BY <1>0, <1>1 DEF Start, Process
  <2>3. QED
    BY <2>1, <2>2 DEF Paced, Down
<1>2. CASE Stop(c)
  BY <1>0, <1>2 DEF Stop, Paced, Keeps, Process, queueVars
<1>3. CASE StopReturns(c)
  <2>1. proc'[c] = Down /\ proc[c].life = "stopping" /\ Settled(c) /\ UNCHANGED locks
    BY <1>0, <1>3 DEF StopReturns, queueVars
  <2>2. locks[c] = {} /\ proc[c].gen # "claiming"
    BY <1>0, <2>1 DEF Settled, WellFormed
  <2>3. ~proc[c].failed => Holds(c) = {}
    BY <1>0, <2>1, SettledHoldsNothing
  <2>4. QED
    BY <2>1, <2>2, <2>3 DEF Paced, Busy
<1>4. CASE Crash(c)
  <2>1. proc'[c] = Down /\ locks'[c] = {}
    BY <1>0, <1>4 DEF Crash, Q!ClaimRollback
  <2>2. faults' > faults
    BY <1>4 DEF Crash, Fault, IInv, ProcTypes
  <2>3. QED
    BY <2>1, <2>2 DEF Paced
<1>5. CASE BeginClaim(c)
  <2>1. /\ proc'[c].life = "up" /\ proc[c].life = "up" /\ proc'[c].gen = "claiming"
        /\ proc'[c].failed = proc[c].failed /\ proc'[c].work = proc[c].work
        /\ proc'[c].batch = proc[c].batch /\ proc'[c].held = proc[c].held
    BY <1>0, <1>5 DEF BeginClaim, Process
  <2>2. proc[c].batch = {} /\ proc[c].held = NoJob
    BY <1>0, <1>5 DEF BeginClaim, WellFormed
  <2>3. locks'[c] = Q!FirstDue(BatchSize)
    BY <1>0, <1>5 DEF BeginClaim, Q!ClaimSelect
  <2>4. InFlight(c)' = InFlight(c)
    BY <2>1 DEF InFlight
  <2>5. Waiting(c)' \subseteq Q!FirstDue(BatchSize)
    BY <2>1, <2>2, <2>3 DEF Waiting, Holds
  <2>6. QED
    BY <2>1, <2>4, <2>5 DEF Paced
<1>6. CASE \/ ClaimReturns(c) \/ BatchEnds(c) \/ DelayEnds(c) \/ SourceEnds(c)
           \/ \E how \in StatementFaults : ClaimThrows(c, how)
           \/ Stream(c) \/ Reaper(c) \/ \E j \in Job : Work(c, j)
  BY <1>6, ControlRecedes, ClaimRecedes, PullRecedes, AdmitRecedes, WorkRecedes
     DEF Paced, Stream
<1>7. QED
  BY <1>1, <1>2, <1>3, <1>4, <1>5, <1>6 DEF Source

\* No process works on more jobs than it has slots, or keeps more than a batch waiting.
WithinBounds(c) ==
    /\ IsFiniteSet(InFlight(c)) /\ Cardinality(InFlight(c)) <= Concurrency
    /\ IsFiniteSet(Waiting(c)) /\ Cardinality(Waiting(c)) <= BatchSize

Pacing == \A c \in Consumer : Rests(c) /\ WithinBounds(c)

\* What a claim takes: no more than a batch (the table's theorem).
ClaimBounded ==
    IsFiniteSet(Q!FirstDue(BatchSize)) /\ Cardinality(Q!FirstDue(BatchSize)) <= BatchSize

LEMMA ClaimsBounded == Spec => []ClaimBounded
<1>1. Proved!Spec => []Proved!ClaimsShareTheFront
  BY TableAssumptions, Proved!QueueClaimsShareTheFront
<1>2. Proved!Spec => []Proved!FiniteDue
  BY TableAssumptions, Proved!DueFinite
<1>3. Proved!ClaimsShareTheFront /\ Proved!FiniteDue => ClaimBounded
  <2> SUFFICES ASSUME Proved!ClaimsShareTheFront, Proved!FiniteDue PROVE ClaimBounded
    OBVIOUS
  <2>1. Q!Locked = Proved!Locked
    BY DEF Q!Locked, Proved!Locked
  <2>2. Q!FirstDue(BatchSize) = Proved!FirstDue(BatchSize)
    BY <2>1 DEF Q!FirstDue, Proved!FirstDue, Q!Cardinality, Proved!Cardinality
  <2>3. Cardinality(Q!FirstDue(BatchSize)) <= BatchSize
    BY <2>2 DEF Proved!ClaimsShareTheFront, Proved!OldestFirst, Proved!Cardinality, Cardinality
  <2>4. IsFiniteSet(due)
    BY DEF Proved!FiniteDue, Proved!IsFiniteSet, IsFiniteSet
  <2>5. Q!FirstDue(BatchSize) \subseteq due
    BY DEF Q!FirstDue
  <2>6. IsFiniteSet(Q!FirstDue(BatchSize))
    BY <2>4, <2>5, FS_Subset
  <2>7. QED
    BY <2>3, <2>6 DEF ClaimBounded
<1>4. QED
  BY <1>1, <1>2, <1>3, ConsumerProvedTable, PTL

LEMMA PacedKeepsBounds ==
    ASSUME NEW c \in Consumer, Paced(c), Rests(c), WithinBounds(c), ClaimBounded
    PROVE  Rests(c)' /\ WithinBounds(c)'
<1>0. Concurrency \in Nat \ {0} /\ BatchSize \in Nat \ {0}
  BY ConfigAssumption
<1>1. Rests(c)'
  BY DEF Paced, Recedes, Rests
<1>2. ASSUME NEW S, NEW n \in Nat, IsFiniteSet(S), Cardinality(S) <= n,
             NEW T, T \subseteq S
      PROVE  IsFiniteSet(T) /\ Cardinality(T) <= n
  <2>1. IsFiniteSet(T) /\ Cardinality(T) <= Cardinality(S)
    BY <1>2, FS_Subset
  <2>2. Cardinality(S) \in Nat /\ Cardinality(T) \in Nat
    BY <1>2, <2>1, FS_CardinalityType
  <2>3. QED
    BY <1>2, <2>1, <2>2
<1>3. Waiting(c)' \subseteq Waiting(c) \/ Waiting(c)' \subseteq Q!FirstDue(BatchSize)
  <2>1. ASSUME proc'[c] = Down, locks'[c] = {} PROVE Waiting(c)' = {}
    BY <2>1 DEF Down, Waiting, Holds, InFlight
  <2>2. QED
    BY <2>1, KeptMemory DEF Paced, Recedes
<1>4. PICK waiting : waiting = Waiting(c)'
  OBVIOUS
<1>5. IsFiniteSet(waiting) /\ Cardinality(waiting) <= BatchSize
  BY <1>0, <1>2, <1>3, <1>4 DEF WithinBounds, ClaimBounded
<1>6. PICK before : before = InFlight(c)
  OBVIOUS
<1>7. PICK after : after = InFlight(c)'
  OBVIOUS
<1>8. \/ after \subseteq before
      \/ Cardinality(before) < Concurrency /\ \E j \in Job : after = before \cup {j}
  <2>1. ASSUME proc'[c] = Down PROVE InFlight(c)' = {}
    BY <2>1 DEF Down, InFlight
  <2>2. QED
    BY <1>6, <1>7, <2>1, KeptMemory DEF Paced, Recedes
<1>9. IsFiniteSet(before) /\ Cardinality(before) <= Concurrency
  BY <1>6 DEF WithinBounds
<1>10. IsFiniteSet(after) /\ Cardinality(after) <= Concurrency
  <2>1. CASE after \subseteq before
    BY <1>0, <1>2, <1>9, <2>1
  <2>2. ASSUME Cardinality(before) < Concurrency, NEW j \in Job, after = before \cup {j}
        PROVE  IsFiniteSet(after) /\ Cardinality(after) <= Concurrency
    <3>1. /\ IsFiniteSet(after)
          /\ Cardinality(after) = IF j \in before THEN Cardinality(before)
                                                  ELSE Cardinality(before) + 1
      BY <1>9, <2>2, FS_AddElement
    <3>2. Cardinality(before) \in Nat
      BY <1>9, FS_CardinalityType
    <3>3. QED
      BY <1>0, <2>2, <3>1, <3>2
  <2>3. QED
    BY <1>8, <2>1, <2>2
<1>11. QED
  BY <1>1, <1>4, <1>5, <1>7, <1>10 DEF WithinBounds

LEMMA OthersKeepBounds ==
    ASSUME NEW d \in Consumer, proc'[d] = proc[d], locks'[d] = locks[d],
           Rests(d), WithinBounds(d)
    PROVE  Rests(d)' /\ WithinBounds(d)'
<1>1. InFlight(d)' = InFlight(d) /\ Waiting(d)' = Waiting(d)
  BY DEF InFlight, Waiting, Holds
<1>2. QED
  BY <1>1 DEF Rests, WithinBounds

LEMMA PacingInvariant == Spec => []Pacing
<1>1. Init => Pacing
  <2> SUFFICES ASSUME Init, NEW c \in Consumer PROVE Rests(c) /\ WithinBounds(c)
    BY DEF Pacing
  <2>1. proc[c] = Down /\ locks[c] = {}
    BY DEF Init, Q!Init
  <2>2. InFlight(c) = {} /\ Waiting(c) = {}
    BY <2>1 DEF Down, InFlight, Holds, Waiting
  <2>3. QED
    BY <2>1, <2>2, FS_EmptySet, ConfigAssumption DEF Rests, WithinBounds
<1>2. ASSUME IInv, ClaimBounded, Pacing, [Next]_vars PROVE Pacing'
  <2>1. CASE UNCHANGED <<proc, locks>>
    BY <1>2, <2>1, OthersKeepBounds DEF Pacing
  <2>2. CASE \E j \in Job : Enqueue(j) \/ BecomesDue(j)
    BY <2>1, <2>2 DEF Enqueue, BecomesDue, Q!Enqueue, Q!BecomesDue
  <2>3. ASSUME NEW c \in Consumer,
               \/ Start(c) \/ Stop(c) \/ StopReturns(c) \/ Crash(c)
               \/ Source(c) \/ Stream(c) \/ Reaper(c)
               \/ \E j \in Job : Work(c, j)
        PROVE  Pacing'
    <3>1. Rests(c)' /\ WithinBounds(c)'
      BY <1>2, <2>3, ProcessPaced, PacedKeepsBounds DEF Pacing
    <3>2. \A d \in Consumer \ {c} : proc'[d] = proc[d] /\ locks'[d] = locks[d]
      BY <1>2, <2>3, ProcessStep DEF Sound
    <3>3. QED
      BY <1>2, <3>1, <3>2, OthersKeepBounds DEF Pacing
  <2>4. QED
    BY <1>2, <2>1, <2>2, <2>3 DEF Next, vars, queueVars
<1>3. QED
  BY <1>1, <1>2, Invariant, ClaimsBounded, PTL DEF Spec

\* A process claims ahead of its pool by one batch at most: it asks for rows only when
\* nothing waits, and the table gives it no more than it asks for.
THEOREM ConsumerOneBatchAhead == Spec => []OneBatchAhead
<1>1. Pacing => OneBatchAhead
  BY DEF Pacing, WithinBounds, OneBatchAhead
<1>2. QED
  BY <1>1, PacingInvariant, PTL

\* A consumer implements the launch contract: it takes up work only between start() and
\* stop(), and stop() returns when its work is done, or because it has failed.
THEOREM ConsumerImplementsRunnableApp == Spec => ImplementsRunnableApp
<1>1. Init => Contract!Init
  <2> SUFFICES ASSUME Init PROVE Contract!Init
    OBVIOUS
  <2>1. ASSUME NEW c \in Consumer PROVE Apps[c] = Contract!Down
    <3>1. proc[c] = Down /\ Holds(c) = {}
      BY DEF Init, Down, Holds, InFlight
    <3>2. proc[c].life = "down" /\ proc[c].gen = "top" /\ proc[c].failed = FALSE
      BY <3>1 DEF Down
    <3>3. (proc[c].gen = "claiming" \/ Holds(c) # {}) = FALSE
      BY <3>1, <3>2
    <3>4. QED
      BY <3>2, <3>3 DEF Apps, Contract!Down
  <2>2. QED
    BY <2>1 DEF Apps, Contract!Init
<1>2. ASSUME IInv, Pacing, [Next]_vars PROVE [Contract!Next]_Apps
  <2>1. CASE UNCHANGED proc
    <3>1. \A c \in Consumer : Holds(c)' = Holds(c)
      BY <2>1 DEF Holds, InFlight
    <3>2. QED
      BY <2>1, <3>1 DEF Apps
  <2>2. CASE \E j \in Job : Enqueue(j) \/ BecomesDue(j)
    <3>1. UNCHANGED proc
      BY <2>1, <2>2 DEF Enqueue, BecomesDue
    <3>2. QED
      BY <2>1, <3>1
  <2>3. ASSUME NEW c \in Consumer,
               \/ Start(c) \/ Stop(c) \/ StopReturns(c) \/ Crash(c)
               \/ Source(c) \/ Stream(c) \/ Reaper(c)
               \/ \E j \in Job : Work(c, j)
        PROVE  [Contract!Next]_Apps
    <3>0. /\ Paced(c) /\ Rests(c) /\ proc[c].life \in {"down", "up", "stopping"}
          /\ proc[c].failed \in BOOLEAN /\ proc'[c].failed \in BOOLEAN
      <4>1. IInv'
        BY <1>2, NextInvariant
      <4>2. Paced(c) /\ Rests(c)
        BY <1>2, <2>3, ProcessPaced DEF Pacing
      <4>3. QED
        BY <1>2, <4>1, <4>2 DEF IInv, ProcTypes, Process
    <3>1. \A d \in Consumer \ {c} : proc'[d] = proc[d]
      BY <1>2, <2>3, ProcessStep DEF Sound
    <3>2. \A d \in Consumer \ {c} : Apps'[d] = Apps[d]
      <4>1. \A d \in Consumer \ {c} : Holds(d)' = Holds(d)
        BY <3>1 DEF Holds, InFlight
      <4>2. QED
        BY <3>1, <4>1 DEF Apps
    <3>3. PICK from, to : from = Apps[c] /\ to = Apps'[c]
      OBVIOUS
    <3>4. /\ from = [life |-> proc[c].life, busy |-> Busy(c), broken |-> proc[c].failed]
          /\ to = [life |-> proc'[c].life, busy |-> Busy(c)', broken |-> proc'[c].failed]
          /\ from.life = proc[c].life /\ to.life = proc'[c].life
          /\ from.broken = proc[c].failed /\ to.broken = proc'[c].failed
          /\ (from.busy <=> Busy(c)) /\ (to.busy <=> Busy(c)')
          /\ from.busy \in BOOLEAN /\ to.busy \in BOOLEAN
      BY <3>3 DEF Apps, Busy
    <3>shape. /\ from = [life |-> from.life, busy |-> from.busy, broken |-> from.broken]
              /\ to = [life |-> to.life, busy |-> to.busy, broken |-> to.broken]
      BY <3>3 DEF Apps
    <3>5. Apps' = [Apps EXCEPT ![c] = to]
      BY <3>2, <3>3 DEF Apps
    <3>6. CASE Recedes(c)
      <4>1. /\ from.life # "down" /\ to.life = from.life
            /\ to.busy \in {FALSE, from.busy} /\ to.broken \in {TRUE, from.broken}
        BY <3>0, <3>4, <3>6 DEF Recedes, Busy
      <4>2. to = [from EXCEPT !.busy = to.busy, !.broken = to.broken]
        BY <3>shape, <4>1
      <4>3. Contract!GoesOn(c)
        BY <3>3, <3>5, <4>1, <4>2 DEF Contract!GoesOn, Contract!Becomes
      <4>4. QED
        BY <4>3 DEF Contract!Next
    <3>7. ASSUME Keeps(c), proc[c] = Down, proc'[c].life = "up",
                 proc'[c].gen = "top", ~proc'[c].failed
          PROVE  [Contract!Next]_Apps
      <4>1. Holds(c) = {} /\ Holds(c)' = {}
        BY <3>7, KeptMemory DEF Down, Holds, InFlight
      <4>2. proc[c].life = "down" /\ proc[c].gen = "top" /\ proc[c].failed = FALSE
        BY <3>7 DEF Down
      <4>3. Busy(c) = FALSE /\ Busy(c)' = FALSE /\ proc'[c].failed = FALSE
        BY <3>0, <3>7, <4>1, <4>2 DEF Busy
      <4>4. /\ from.life = "down" /\ to.life = "up" /\ from.busy = FALSE /\ to.busy = FALSE
            /\ from.broken = FALSE /\ to.broken = FALSE
        BY <3>0, <3>4, <3>7, <4>2, <4>3
      <4>5. from = Contract!Down /\ to = [Contract!Down EXCEPT !.life = "up"]
        BY <3>shape, <4>4 DEF Contract!Down
      <4>6. Contract!Start(c)
        BY <3>3, <3>5, <4>5 DEF Contract!Start, Contract!Becomes
      <4>7. QED
        BY <4>6 DEF Contract!Next
    <3>8. ASSUME Keeps(c), proc[c].life = "up", proc'[c].life = "stopping",
                 proc'[c].failed = proc[c].failed,
                 proc'[c].gen = "claiming" <=> proc[c].gen = "claiming"
          PROVE  [Contract!Next]_Apps
      <4>1. Busy(c)' = Busy(c)
        BY <3>8, KeptMemory DEF Busy
      <4>2. from.life = "up" /\ to = [from EXCEPT !.life = "stopping"]
        BY <3>4, <3>8, <4>1
      <4>3. Contract!Stop(c)
        BY <3>3, <3>5, <4>2 DEF Contract!Stop, Contract!Becomes
      <4>4. QED
        BY <4>3 DEF Contract!Next
    <3>9. ASSUME proc[c].life = "up", proc'[c].life = "up", proc'[c].gen = "claiming",
                 proc'[c].failed = proc[c].failed
          PROVE  [Contract!Next]_Apps
      <4>1. Busy(c)' = TRUE
        BY <3>9 DEF Busy
      <4>2. /\ from.life = "up" /\ to.life = "up" /\ to.busy = TRUE
            /\ to.broken = from.broken
        BY <3>4, <3>9, <4>1
      <4>3. to = [from EXCEPT !.busy = TRUE]
        BY <3>shape, <4>2
      <4>4. Contract!TakesWork(c)
        BY <3>3, <3>5, <4>2, <4>3 DEF Contract!TakesWork, Contract!Becomes
      <4>5. QED
        BY <4>4 DEF Contract!Next
    <3>10. ASSUME proc'[c] = Down,
                  \/ proc[c].life = "stopping" /\ (~Busy(c) \/ proc[c].failed)
                  \/ faults' > faults
           PROVE  [Contract!Next]_Apps
      <4>1. Busy(c)' = FALSE /\ proc'[c].life = "down" /\ proc'[c].failed = FALSE
        BY <3>10 DEF Busy, Down, Holds, InFlight
      <4>2. to.life = "down" /\ to.busy = FALSE /\ to.broken = FALSE
        BY <3>4, <4>1
      <4>3. to = Contract!Down
        BY <3>shape, <4>2 DEF Contract!Down
      <4>4. \/ from.life = "stopping" /\ (~from.busy \/ from.broken)
            \/ faults' > faults
        BY <3>4, <3>10
      <4>5. Contract!StopReturns(c) \/ Contract!Dies(c)
        BY <3>3, <3>5, <4>3, <4>4 DEF Contract!StopReturns, Contract!Dies, Contract!Becomes
      <4>6. QED
        BY <4>5 DEF Contract!Next
    <3>11. QED
      BY <3>0, <3>6, <3>7, <3>8, <3>9, <3>10 DEF Paced
  <2>4. QED
    BY <1>2, <2>1, <2>2, <2>3 DEF Next, vars
<1>3. QED
  BY <1>1, <1>2, Invariant, PacingInvariant, PTL DEF Spec, ImplementsRunnableApp, Contract!Spec

-----------------------------------------------------------------------------
(* The lifecycle of the jobs.                                               *)

LEMMA ArrivalSubmits ==
    ASSUME IInv, NEW j \in Job, Enqueue(j) \/ BecomesDue(j)
    PROVE  JobStep
<1> USE DEF IInv
<1>1. \A c \in Consumer : InFlight(c)' = InFlight(c)
  BY DEF Enqueue, BecomesDue, InFlight
<1>2. CASE BecomesDue(j)
  <2>1. Jobs' = Jobs /\ Unheard' = Unheard
    BY <1>1, <1>2, DoubtsStay DEF BecomesDue, Q!BecomesDue, Jobs
  <2>2. QED
    BY <2>1 DEF JobStep, Jobs, Lifecycle!vars
<1>3. CASE Enqueue(j)
  <2>1. /\ row[j].status = "absent" /\ row[j].attempts = 0
        /\ row'[j].status = "pending" /\ row'[j].attempts = 0
        /\ \A i \in Job : i # j => row'[i] = row[i]
    BY <1>3, EnqueuedRow DEF Enqueue
  <2>2. \A c \in Consumer : j \notin InFlight(c) /\ InFlight(c) \subseteq Job
    BY <2>1 DEF HeldRows, Holds, InFlight
  <2>3. Unheard' = Unheard
    BY <1>1, <2>1, <2>2, DoubtsStay
  <2>4. Lifecycle!Verdict(j, "absent", "pending")
    BY <2>1, OneVerdict
  <2>5. Lifecycle!Submit(j)
    BY <2>3, <2>4 DEF Lifecycle!Submit
  <2>6. QED
    BY <2>5 DEF JobStep, Lifecycle!Next
<1>4. QED
  BY <1>2, <1>3

\* The consumers implement the lifecycle each job is promised.  With the invariant
\* each step is one of the lifecycle: a retry is given only while attempts remain,
\* because the count in memory is the row's; a verdict is overruled only by the one
\* process that has not heard of its own, because no other holds the job.
THEOREM ConsumerImplementsLifecycle == Spec => ImplementsJobLifecycle
<1>1. Init => Lifecycle!Init
  <2> SUFFICES ASSUME Init PROVE Lifecycle!Init
    OBVIOUS
  <2>1. \A j \in Job : row[j].status = "absent" /\ row[j].attempts = 0
    BY DEF Init, Q!Init, Q!Absent
  <2>2. Unheard = {}
    BY DEF Init, Down, InFlight, Unheard
  <2>3. QED
    BY <2>1, <2>2 DEF Lifecycle!Init
<1>2. ASSUME IInv, [Next]_vars PROVE JobStep
  <2>1. CASE \E j \in Job : Enqueue(j) \/ BecomesDue(j)
    BY <1>2, <2>1, ArrivalSubmits
  <2>2. ASSUME NEW c \in Consumer,
               \/ Start(c) \/ Stop(c) \/ StopReturns(c) \/ Crash(c)
               \/ Source(c) \/ Stream(c) \/ Reaper(c)
               \/ \E j \in Job : Work(c, j)
        PROVE  JobStep
    BY <1>2, <2>2, ProcessStep DEF Sound
  <2>3. CASE UNCHANGED vars
    <3>1. Jobs' = Jobs /\ Unheard' = Unheard
      BY <2>3 DEF vars, queueVars, Jobs, Unheard, InFlight
    <3>2. QED
      BY <3>1 DEF JobStep, Jobs, Lifecycle!vars
  <2>4. QED
    BY <1>2, <2>1, <2>2, <2>3 DEF Next
<1>3. IInv /\ [Next]_vars => [Lifecycle!Next]_(Lifecycle!vars)
  BY <1>2 DEF JobStep
<1>4. QED
  BY <1>1, <1>3, Invariant, PTL DEF Spec, ImplementsJobLifecycle, Lifecycle!Spec
===============================================================================
