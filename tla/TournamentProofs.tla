-------------------------- MODULE TournamentProofs --------------------------
(***************************************************************************)
(* What the report of a tournament may be relied on for, for any sets of   *)
(* requests, children and workers, any number of crashes and of requests.  *)
(***************************************************************************)
EXTENDS TournamentProperties, ListFacts, TLAPS

-----------------------------------------------------------------------------
(* The types.                                                              *)

LEMMA NoAggType == NoAgg \in Aggregation
<1>1. [r \in {} |-> Absent] \in Readings
  BY DEF Readings
<1>. QED  BY <1>1 DEF NoAgg, Aggregation

LEMMA TypeInit == Init => TournamentTypeOK
<1>. SUFFICES ASSUME Init PROVE TournamentTypeOK
  OBVIOUS
<1>1. Absent \in Record
  BY DEF Absent, Record, Final
<1>. QED
  BY <1>1, NoAggType, Zenon DEF Init, TournamentTypeOK, Busy, Over

\* The request that creates the children.
LEMMA TypeCreation ==
    ASSUME TournamentTypeOK, LinkInv, (\E c \in Configs : CreateTournament(c)) \/ Create
    PROVE  TournamentTypeOK'
<1>1. CASE \E c \in Configs : CreateTournament(c)
  <2>1. PICK c \in Configs : CreateTournament(c)
    BY <1>1
  <2>2. expand_tournament(c) \subseteq Children
    BY <2>1 DEF CreateTournament, Children
  <2>. QED  BY <2>1, <2>2 DEF CreateTournament, TournamentTypeOK, history
<1>2. CASE CreateChild
  <2>1. PICK s \in creator.todo, r \in Runs :
            /\ record' = [record EXCEPT ![r].status = "pending"]
            /\ creator' = [point |-> "link", todo |-> creator.todo \ {s}, run |-> r, key |-> s.key]
            /\ UNCHANGED <<rows, links, tour, pc, job, agg, client, crashes, requests, history>>
    BY <1>2 DEF CreateChild
  <2>2. record' \in [Runs -> Record]
    BY <2>1 DEF TournamentTypeOK, Record
  <2>3. s \in Children /\ s.key \in Keys
    BY DEF TournamentTypeOK, Keys
  <2>. QED  BY <2>1, <2>2, <2>3 DEF TournamentTypeOK, history
<1>3. CASE LinkChild
  BY <1>3 DEF LinkChild, TournamentTypeOK, LinkInv, history, Link
<1>4. CASE LinkDeleted
  BY <1>4 DEF LinkDeleted, TournamentTypeOK, history
<1>5. CASE EnqueueChild
  BY <1>5 DEF EnqueueChild, TournamentTypeOK, history
<1>. QED  BY <1>1, <1>2, <1>3, <1>4, <1>5 DEF Create
\* A worker at work has a run.
LEMMA OwnRun ==
    ASSUME TournamentTypeOK, OwnerInv, NEW w \in Workers, pc[w] \in Busy
    PROVE  job[w] \in Runs
BY DEF TournamentTypeOK, OwnerInv

\* A status that the store knows may be written to any record.
LEMMA SetStatusType ==
    ASSUME TournamentTypeOK, NEW r \in Runs, NEW status \in Final \cup {"pending", "running"},
           SetStatus(r, status)
    PROVE  record' \in [Runs -> Record]
<1>1. record[r] \in Record /\ record \in [Runs -> Record]
  BY DEF TournamentTypeOK
<1>2. [record[r] EXCEPT !.status = status] \in Record
  BY <1>1 DEF Record
<1>. QED  BY <1>1, <1>2 DEF SetStatus

\* The workers, but for their aggregations.
LEMMA TypeWorker ==
    ASSUME TournamentTypeOK, OwnerInv, NEW w \in Workers,
           \/ Open(w) \/ Start(w) \/ FailRun(w) \/ Complete(w) \/ MarkCompleted(w)
           \/ MarkFailed(w) \/ Leave(w)
    PROVE  TournamentTypeOK'
<1>. USE DEF WorkerStep, creation, history, Goto, Settle, Busy, Over
<1>r. pc[w] \in Busy => job[w] \in Runs
  BY OwnRun
<1>1. CASE Open(w)
  BY <1>1 DEF Open, TournamentTypeOK
<1>2. CASE Start(w)
  <2>1. record' \in [Runs -> Record]
    BY <1>2, <1>r, SetStatusType DEF Start
  <2>. QED  BY <1>2, <2>1 DEF Start, TournamentTypeOK
<1>3. CASE FailRun(w)
  <2>1. record' \in [Runs -> Record]
    BY <1>3, <1>r, SetStatusType DEF FailRun, Final, Terminal
  <2>. QED  BY <1>3, <2>1 DEF FailRun, TournamentTypeOK
<1>4. CASE Complete(w)
  <2>1. record' \in [Runs -> Record]
    BY <1>4, <1>r DEF Complete, TournamentTypeOK, Record, Final, Terminal
  <2>. QED  BY <1>4, <2>1 DEF Complete, TournamentTypeOK
<1>5. CASE MarkCompleted(w)
  BY <1>5, <1>r DEF MarkCompleted, TournamentTypeOK
<1>6. CASE MarkFailed(w)
  BY <1>6, <1>r DEF MarkFailed, TournamentTypeOK
<1>7. CASE Leave(w)
  BY <1>7 DEF Leave, TournamentTypeOK
<1>. QED  BY <1>1, <1>2, <1>3, <1>4, <1>5, <1>6, <1>7

\* A claim, a crash and the scheduler.
LEMMA TypeOwners ==
    ASSUME TournamentTypeOK, OwnerInv,
           (\E w \in Workers, r \in Runs : Claim(w, r))
               \/ (\E w \in Workers : Crash(w)) \/ (\E r \in Runs : Requeue(r))
    PROVE  TournamentTypeOK'
<1>. USE DEF WorkerStep, creation, history, Goto, Busy
<1>1. CASE \E w \in Workers, r \in Runs : Claim(w, r)
  BY <1>1 DEF Claim, TournamentTypeOK
<1>2. CASE \E w \in Workers : Crash(w)
  <2>1. PICK w \in Workers : Crash(w)
    BY <1>2
  <2>2. NoAgg \in Aggregation
    BY NoAggType
  <2>. QED  BY <2>1, <2>2 DEF Crash, TournamentTypeOK
<1>3. CASE \E r \in Runs : Requeue(r)
  BY <1>3 DEF Requeue, TournamentTypeOK
<1>. QED  BY <1>1, <1>2, <1>3

\* The beginning of an aggregation, by a worker or by the client's request.
LEMMA ListChildrenType ==
    ASSUME TournamentTypeOK, LinkInv, NEW p \in Processes, ListChildren(p), ~Active(p)
    PROVE  agg' \in [Processes -> Aggregation]
<1>1. agg[p] = NoAgg /\ NoAgg \in Aggregation
  BY NoAggType DEF LinkInv
<1>2. links \in SUBSET Link /\ {q \in Processes : Active(q)} \in SUBSET Processes
  BY DEF TournamentTypeOK
<1>3. [agg[p] EXCEPT !.on = TRUE, !.links = links, !.older = {q \in Processes : Active(q)}]
          \in Aggregation
  BY <1>1, <1>2 DEF Aggregation
<1>. QED  BY <1>3 DEF ListChildren, TournamentTypeOK

LEMMA TypeFind ==
    ASSUME TournamentTypeOK, OwnerInv, LinkInv, NEW w \in Workers, FindDone(w) \/ FindFailed(w)
    PROVE  TournamentTypeOK'
<1>1. pc[w] \in {"done", "failed"} /\ w \in Processes
  BY DEF FindDone, FindFailed, Find, Processes
<1>2. ~Active(w)
  BY <1>1 DEF LinkInv, Refreshing
<1>3. ListChildren(w) \/ UNCHANGED agg
  BY DEF FindDone, FindFailed, Find
<1>4. agg' \in [Processes -> Aggregation]
  BY <1>1, <1>2, <1>3, ListChildrenType DEF TournamentTypeOK
<1>5. /\ pc' \in [Workers -> Busy \cup {"idle", "off"}]
      /\ UNCHANGED <<rows, record, links, creator, tour, job, client, dropped>>
  BY DEF FindDone, FindFailed, Find, Goto, WorkerStep, creation, history, Busy, Over, TournamentTypeOK
<1>. QED  BY <1>4, <1>5 DEF TournamentTypeOK

\* What an aggregation reads next.
LEMMA ReadFacts ==
    ASSUME TournamentTypeOK, NEW p \in Processes, ReadChild(p)
    PROVE  \E l \in agg[p].links :
               /\ l \in Unread(p)
               /\ agg' = [agg EXCEPT ![p].read = agg'[p].read]
               /\ agg'[p].read = [r \in DOMAIN agg[p].read \cup {l.run} |->
                      IF r = l.run
                      THEN IF Stored(r) THEN record[r] ELSE [Absent EXCEPT !.status = "failed"]
                      ELSE agg[p].read[r]]
BY DEF ReadChild, TournamentTypeOK, Aggregation

LEMMA TypeAggregate ==
    ASSUME TournamentTypeOK, NEW p \in Processes, Aggregate(p)
    PROVE  TournamentTypeOK'
<1>1. CASE ReadChild(p)
  <2>1. PICK l \in agg[p].links :
            /\ agg' = [agg EXCEPT ![p].read = agg'[p].read]
            /\ agg'[p].read = [r \in DOMAIN agg[p].read \cup {l.run} |->
                   IF r = l.run
                   THEN IF Stored(r) THEN record[r] ELSE [Absent EXCEPT !.status = "failed"]
                   ELSE agg[p].read[r]]
    BY <1>1, ReadFacts
  <2>2. /\ agg[p] \in Aggregation /\ record \in [Runs -> Record]
    BY DEF TournamentTypeOK
  <2>3. PICK R \in SUBSET Runs : agg[p].read \in [R -> Record]
    BY <2>2 DEF Aggregation, Readings
  <2>4. l.run \in Runs
    BY <2>2 DEF Aggregation, Link
  <2>5. [Absent EXCEPT !.status = "failed"] \in Record
    BY DEF Absent, Record, Final, Terminal
  <2>6. agg'[p].read \in [R \cup {l.run} -> Record]
    BY <2>1, <2>2, <2>3, <2>4, <2>5
  <2>7. agg'[p].read \in Readings
    BY <2>4, <2>6 DEF Readings
  <2>8. [agg[p] EXCEPT !.read = agg'[p].read] \in Aggregation
    BY <2>2, <2>7 DEF Aggregation
  <2>9. agg' \in [Processes -> Aggregation]
    BY <2>1, <2>8 DEF TournamentTypeOK
  <2>. QED  BY <1>1, <2>9 DEF Aggregate, ReadChild, creation, TournamentTypeOK
<1>2. CASE WriteReport(p)
  <2>1. agg' \in [Processes -> Aggregation]
    <3>1. ASSUME NEW q \in Processes
          PROVE  [agg[q] EXCEPT !.late = TRUE] \in Aggregation
      <4>1. agg[q] \in Aggregation
        BY DEF TournamentTypeOK
      <4>. QED  BY <4>1 DEF Aggregation
    <3>2. \A q \in Processes : agg'[q] \in {NoAgg, agg[q], [agg[q] EXCEPT !.late = TRUE]}
      BY <1>2 DEF WriteReport
    <3>3. \A q \in Processes : agg[q] \in Aggregation
      BY DEF TournamentTypeOK
    <3>4. \A q \in Processes : agg'[q] \in Aggregation
      BY <3>1, <3>2, <3>3, NoAggType
    <3>. QED  BY <1>2, <3>4 DEF WriteReport
  <2>2. tour' = [status |-> tour'.status, report |-> tour'.report]
    BY <1>2 DEF WriteReport
  <2>. QED  BY <1>2, <2>1, <2>2 DEF Aggregate, WriteReport, creation, TournamentTypeOK
<1>. QED  BY <1>1, <1>2 DEF Aggregate

LEMMA TypeClient ==
    ASSUME TournamentTypeOK, LinkInv,
           \/ GetReport \/ CancelTournament \/ CancelInQueue \/ CancelRead \/ CancelWrite
           \/ EndCancel \/ \E r \in Runs : DeleteChild(r)
    PROVE  TournamentTypeOK'
<1>. USE DEF ClientStep, creation, history, Ask
<1>1. CASE GetReport
  <2>1. agg' \in [Processes -> Aggregation]
    BY <1>1, ListChildrenType DEF GetReport, Processes
  <2>. QED  BY <1>1, <2>1 DEF GetReport, TournamentTypeOK
<1>2. CASE CancelTournament
  <2>1. {l.run : l \in links} \subseteq Runs
    BY DEF TournamentTypeOK, Link
  <2>. QED  BY <1>2, <2>1 DEF CancelTournament, TournamentTypeOK
<1>3. CASE CancelInQueue
  BY <1>3 DEF CancelInQueue, TournamentTypeOK, Settle
<1>4. CASE CancelRead
  BY <1>4 DEF CancelRead, TournamentTypeOK, Visited
<1>5. CASE CancelWrite
  <2>1. record' \in [Runs -> Record]
    BY <1>5, SetStatusType DEF CancelWrite, TournamentTypeOK, Final, Terminal
  <2>. QED  BY <1>5, <2>1 DEF CancelWrite, TournamentTypeOK, Visited
<1>6. CASE EndCancel
  BY <1>6 DEF EndCancel, TournamentTypeOK
<1>7. CASE \E r \in Runs : DeleteChild(r)
  <2>1. PICK r \in Runs : DeleteChild(r)
    BY <1>7
  <2>2. [Absent EXCEPT !.status = "deleted"] \in Record
    BY DEF Absent, Record, Final
  <2>. QED  BY <2>1, <2>2 DEF DeleteChild, TournamentTypeOK
<1>. QED  BY <1>1, <1>2, <1>3, <1>4, <1>5, <1>6, <1>7

LEMMA TypeNext ==
    ASSUME TournamentTypeOK, OwnerInv, LinkInv, Next
    PROVE  TournamentTypeOK'
<1>1. CASE \E w \in Workers : Poll(w)
  BY <1>1 DEF Poll, vars, creation, history, TournamentTypeOK
<1>2. CASE \E w \in Workers : Aggregate(w)
  BY <1>2, TypeAggregate DEF Processes
<1>3. CASE Aggregate(Client)
  BY <1>3, TypeAggregate DEF Processes
<1>. QED
  BY <1>1, <1>2, <1>3, TypeCreation, TypeWorker, TypeOwners, TypeFind, TypeClient
     DEF Next, Work, ClientWork

-----------------------------------------------------------------------------
(* Who has a run.                                                          *)

LEMMA OwnerInit == Init => OwnerInv
BY DEF Init, OwnerInv, Busy, Over

\* Steps that leave the workers, the rows and the records alone.
LEMMA OwnerElsewhere ==
    ASSUME OwnerInv, UNCHANGED <<pc, job, rows, record, dropped>>
    PROVE  OwnerInv'
BY DEF OwnerInv

LEMMA OwnerCreation ==
    ASSUME TournamentTypeOK, OwnerInv, LinkInv, (\E c \in Configs : CreateTournament(c)) \/ Create
    PROVE  OwnerInv'
<1>. USE DEF history
<1>1. CASE CreateChild
  <2>1. PICK r \in Runs : /\ record[r] = Absent /\ record' = [record EXCEPT ![r].status = "pending"]
                          /\ UNCHANGED <<rows, pc, job, dropped>>
    BY <1>1 DEF CreateChild
  <2>2. rows[r] = "absent"
    BY <2>1 DEF LinkInv, Absent
  <2>3. \A w \in Workers : pc[w] \in Busy => job[w] \in Runs /\ job[w] # r
    BY <2>2, OwnRun DEF OwnerInv
  <2>4. \A q \in Runs \ {r} : record'[q] = record[q]
    BY <2>1 DEF TournamentTypeOK
  <2>. QED  BY <2>1, <2>2, <2>3, <2>4 DEF OwnerInv, Over, Busy
<1>2. CASE EnqueueChild
  <2>1. creator.run \in Runs /\ rows[creator.run] = "absent"
    BY <1>2 DEF EnqueueChild, LinkInv
  <2>2. \A w \in Workers : job[w] # creator.run
    BY <2>1, ProcessesAssumption DEF OwnerInv
  <2>. QED  BY <1>2, <2>1, <2>2 DEF EnqueueChild, OwnerInv, TournamentTypeOK, Over, Busy
<1>. QED
  BY <1>1, <1>2, OwnerElsewhere DEF Create, CreateTournament, LinkChild, LinkDeleted

\* A worker goes on with its run, or gives it up: the others keep theirs.
LEMMA OwnerMove ==
    ASSUME TournamentTypeOK, OwnerInv, NEW w \in Workers, NEW point \in Busy \cup {"idle", "off"},
           NEW r, r = job[w] \/ r = NoRun, r # NoRun <=> point \in Busy,
           pc' = [pc EXCEPT ![w] = point], job' = [job EXCEPT ![w] = r],
           UNCHANGED dropped,
           \A q \in Runs : q # job[w] => rows'[q] = rows[q] /\ record'[q] = record[q],
           r # NoRun => rows'[r] = IF point \in PastMark THEN "settled" ELSE "running",
           point \in Over => record'[r].status \in Final,
           job[w] \in Runs => (rows'[job[w]] = "settled" => record'[job[w]].status \in Final)
    PROVE  OwnerInv'
<1>1. /\ pc'[w] = point /\ job'[w] = r
      /\ \A v \in Workers : v # w => pc'[v] = pc[v] /\ job'[v] = job[v]
  BY DEF TournamentTypeOK
<1>2. \A v \in Workers : job[v] # NoRun => job[v] \in Runs
  BY DEF TournamentTypeOK
<1>3. \A v \in Workers : v # w /\ job[v] # NoRun => job[v] # job[w]
  BY DEF OwnerInv
<1>4. \A v \in Workers : job'[v] # NoRun <=> pc'[v] \in Busy
  BY <1>1 DEF OwnerInv
<1>5. \A v \in Workers : job'[v] # NoRun =>
          rows'[job'[v]] = IF pc'[v] \in PastMark THEN "settled" ELSE "running"
  BY <1>1, <1>2, <1>3 DEF OwnerInv
<1>6. \A v, u \in Workers : job'[v] # NoRun /\ job'[v] = job'[u] => v = u
  BY <1>1 DEF OwnerInv
<1>7. \A v \in Workers : pc'[v] \in Over => record'[job'[v]].status \in Final
  BY <1>1, <1>2, <1>3 DEF OwnerInv, Busy
<1>8. \A q \in Runs : rows'[q] = "settled" => q \in dropped' \/ record'[q].status \in Final
  BY DEF OwnerInv
<1>9. \A q \in dropped' : rows'[q] = "settled" /\ \A v \in Workers : job'[v] # q
  BY <1>1, ProcessesAssumption DEF OwnerInv, TournamentTypeOK
<1>. QED  BY <1>4, <1>5, <1>6, <1>7, <1>8, <1>9 DEF OwnerInv

LEMMA OwnerWorker ==
    ASSUME TournamentTypeOK, OwnerInv, LinkInv, NEW w \in Workers,
           \/ Open(w) \/ Start(w) \/ FailRun(w) \/ Complete(w) \/ FindDone(w) \/ MarkCompleted(w)
           \/ MarkFailed(w) \/ FindFailed(w) \/ Leave(w)
    PROVE  OwnerInv'
<1>. USE DEF WorkerStep, history, Goto, Busy, Over, PastMark
<1>1. job[w] \in Runs /\ job[w] # NoRun
  BY OwnRun, ProcessesAssumption
     DEF Open, Start, FailRun, Complete, FindDone, MarkCompleted, MarkFailed, FindFailed, Leave, Find
<1>2. /\ rows[job[w]] = IF pc[w] \in PastMark THEN "settled" ELSE "running"
      /\ pc[w] \in Over => record[job[w]].status \in Final
      /\ record[job[w]].status # "none"
  BY <1>1 DEF OwnerInv, LinkInv
<1>3. job = [job EXCEPT ![w] = job[w]] /\ record \in [Runs -> Record] /\ rows \in [Runs -> {"absent", "pending", "running", "settled"}]
  BY DEF TournamentTypeOK
<1>4. \A status : SetStatus(job[w], status) =>
          /\ \A q \in Runs : q # job[w] => record'[q] = record[q]
          /\ record'[job[w]].status \in {status, "deleted"}
  BY <1>1, <1>2, <1>3 DEF SetStatus, Stored, Record
<1>5. CASE Open(w)
  <2>1. PICK point \in {"fail", "start"} :
            /\ pc' = [pc EXCEPT ![w] = point]
            /\ point = "fail" => record[job[w]].status \in Final
    BY <1>5 DEF Open, Final, Terminal
  <2>2. rows[job[w]] = "running" /\ UNCHANGED <<rows, record, job, dropped>>
    BY <1>2, <1>5 DEF Open
  <2>. QED  BY ZenonT(30), <1>1, <1>3, <2>1, <2>2, OwnerMove
<1>6. CASE Start(w)
  BY ZenonT(30), <1>1, <1>2, <1>3, <1>4, <1>6, OwnerMove DEF Start
<1>7. CASE FailRun(w)
  <2>1. /\ \A q \in Runs : q # job[w] => record'[q] = record[q]
        /\ record'[job[w]].status \in Final
    BY <1>4, <1>7 DEF FailRun, Final, Terminal
  <2>2. pc' = [pc EXCEPT ![w] = "fail"] /\ UNCHANGED <<rows, job, dropped>>
    BY <1>7 DEF FailRun
  <2>3. rows[job[w]] = "running"
    BY <1>2, <1>7 DEF FailRun
  <2>. QED  BY ZenonT(30), <1>1, <1>3, <2>1, <2>2, <2>3, OwnerMove
<1>8. CASE Complete(w)
  <2>1. /\ \A q \in Runs : q # job[w] => record'[q] = record[q]
        /\ record'[job[w]].status \in {"completed", "deleted"}
    BY <1>1, <1>2, <1>3, <1>8 DEF Complete, Stored
  <2>. QED  BY ZenonT(30), <1>1, <1>2, <1>3, <1>8, <2>1, OwnerMove DEF Complete, Final, Terminal
<1>9. CASE FindDone(w)
  BY <1>1, <1>2, <1>3, <1>9, OwnerMove DEF FindDone, Find
<1>10. CASE MarkCompleted(w)
  BY <1>1, <1>2, <1>3, <1>10, OwnerMove DEF MarkCompleted, Settle
<1>11. CASE MarkFailed(w)
  BY <1>1, <1>2, <1>3, <1>11, OwnerMove DEF MarkFailed, Settle
<1>12. CASE FindFailed(w)
  BY <1>1, <1>2, <1>3, <1>12, OwnerMove DEF FindFailed, Find
<1>13. CASE Leave(w)
  BY <1>1, <1>2, <1>3, <1>13, OwnerMove DEF Leave
<1>. QED  BY <1>5, <1>6, <1>7, <1>8, <1>9, <1>10, <1>11, <1>12, <1>13

\* A run that was running without a worker, or waiting, is nobody's.
LEMMA OwnerOwners ==
    ASSUME TournamentTypeOK, OwnerInv, LinkInv,
           \/ \E w \in Workers, r \in Runs : Claim(w, r)
           \/ \E w \in Workers : Crash(w)
           \/ \E r \in Runs : Requeue(r)
    PROVE  OwnerInv'
<1>. USE DEF WorkerStep, history, Goto, Busy, Over, PastMark, Abandoned
<1>1. CASE \E w \in Workers, r \in Runs : Claim(w, r)
  <2>1. PICK w \in Workers, r \in Runs : Claim(w, r)
    BY <1>1
  <2>2. r # NoRun /\ \A v \in Workers : job[v] # r
    <3>1. CASE Abandoned(r)
      BY <3>1, ProcessesAssumption
    <3>2. CASE rows[r] = "pending"
      BY <3>2, ProcessesAssumption DEF OwnerInv
    <3>. QED  BY <2>1, <3>1, <3>2 DEF Claim
  <2>3. rows[r] # "settled" /\ r \notin dropped
    BY <2>1 DEF Claim, OwnerInv
  <2>4. job[w] = NoRun
    BY <2>1 DEF Claim, OwnerInv
  <2>. QED  BY <2>1, <2>2, <2>3, <2>4 DEF Claim, OwnerInv, TournamentTypeOK
<1>2. CASE \E w \in Workers : Crash(w)
  <2>1. PICK w \in Workers : Crash(w)
    BY <1>2
  <2>2. rows[job[w]] = "settled" => record[job[w]].status \in Final
    BY <2>1 DEF Crash, OwnerInv
  <2>. QED  BY <2>1, <2>2, OwnerMove DEF Crash
<1>3. CASE \E r \in Runs : Requeue(r)
  <2>1. PICK r \in Runs : Requeue(r)
    BY <1>3
  <2>2. \A w \in Workers : job[w] # r
    BY <2>1 DEF Requeue
  <2>3. r \notin dropped
    BY <2>1 DEF Requeue, OwnerInv
  <2>. QED  BY <2>1, <2>2, <2>3 DEF Requeue, OwnerInv, TournamentTypeOK
<1>. QED  BY <1>1, <1>2, <1>3

LEMMA OwnerClient ==
    ASSUME TournamentTypeOK, OwnerInv,
           \/ GetReport \/ CancelTournament \/ CancelInQueue \/ CancelRead \/ CancelWrite
           \/ EndCancel \/ \E r \in Runs : DeleteChild(r)
    PROVE  OwnerInv'
<1>. USE DEF ClientStep, history
<1>r. \A w \in Workers : pc[w] \in Busy => job[w] \in Runs
  BY OwnRun
<1>1. CASE CancelInQueue
  <2>1. PICK r \in client.todo :
            /\ IF rows[r] = "pending" THEN Settle(r) /\ dropped' = dropped \cup {r}
                                      ELSE UNCHANGED <<rows, dropped>>
            /\ UNCHANGED <<pc, job, record>>
    BY <1>1 DEF CancelInQueue
  <2>2. CASE rows[r] = "pending"
    <3>1. r \in Runs
      BY DEF TournamentTypeOK
    <3>2. \A w \in Workers : job[w] # r
      BY <2>2, <3>1, ProcessesAssumption DEF OwnerInv, PastMark
    <3>. QED  BY <2>1, <2>2, <3>1, <3>2 DEF OwnerInv, Settle, TournamentTypeOK
  <2>3. CASE rows[r] # "pending"
    BY <2>1, <2>3, OwnerElsewhere
  <2>. QED  BY <2>2, <2>3
<1>2. CASE CancelWrite
  <2>1. /\ SetStatus(client.run, "canceled") /\ client.run \in Runs
        /\ UNCHANGED <<pc, job, rows, dropped>>
    BY <1>2 DEF CancelWrite, TournamentTypeOK
  <2>2. \A r \in Runs : record[r].status \in Final => record'[r].status \in Final
    BY <2>1 DEF SetStatus, TournamentTypeOK, Final, Terminal
  <2>. QED  BY <2>1, <2>2, <1>r DEF OwnerInv, Over, Busy
<1>3. CASE \E r \in Runs : DeleteChild(r)
  <2>1. PICK r \in Runs : DeleteChild(r)
    BY <1>3
  <2>2. \A q \in Runs : record[q].status \in Final => record'[q].status \in Final
    BY <2>1 DEF DeleteChild, TournamentTypeOK, Final, Absent
  <2>. QED  BY <2>1, <2>2, <1>r DEF DeleteChild, OwnerInv, Over, Busy
<1>. QED
  BY <1>1, <1>2, <1>3, OwnerElsewhere
     DEF GetReport, CancelTournament, CancelRead, EndCancel

LEMMA OwnerNext ==
    ASSUME TournamentTypeOK, OwnerInv, LinkInv, Next
    PROVE  OwnerInv'
<1>1. CASE \E w \in Workers : Poll(w)
  BY <1>1, OwnerElsewhere DEF Poll, vars, history
<1>2. CASE \E p \in Processes : Aggregate(p)
  BY <1>2, OwnerElsewhere DEF Aggregate, ReadChild, WriteReport
<1>. QED
  BY <1>1, <1>2, OwnerCreation, OwnerWorker, OwnerOwners, OwnerClient
     DEF Next, Work, ClientWork, Processes

-----------------------------------------------------------------------------
(* What is linked.                                                         *)

LEMMA LinkInit == Init => LinkInv
<1>. SUFFICES ASSUME Init PROVE LinkInv
  OBVIOUS
<1>1. /\ \A p \in Processes : agg[p] = NoAgg /\ agg[p].links = {} /\ ~Active(p)
      /\ Workers \subseteq Processes /\ links = {} /\ creator.point = "idle"
      /\ \A r \in Runs : rows[r] = "absent"
  BY DEF Init, Active, NoAgg, Processes
<1>2. links \cup UNION {agg[p].links : p \in Processes} = {}
  BY <1>1
<1>. QED  BY <1>1, <1>2 DEF LinkInv

\* The links that are stored or under way in an aggregation.
AllLinks == links \cup UNION {agg[p].links : p \in Processes}

\* Steps that neither create nor link: no row and no record comes or goes, no aggregation has
\* other links than those.
LEMMA LinkMove ==
    ASSUME TournamentTypeOK, LinkInv, UNCHANGED creator, links' \subseteq links,
           tour'.status = "none" => tour.status = "none",
           \A r \in Runs : rows[r] = "absent" <=> rows'[r] = "absent",
           \A r \in Runs : record[r].status # "none" => record'[r].status # "none",
           \A p \in Processes : agg'[p] = NoAgg \/ (agg'[p].on /\ agg'[p].links \subseteq AllLinks),
           \A w \in Workers : agg'[w].on => pc'[w] \in Refreshing
    PROVE  LinkInv'
<1>1. AllLinks' \subseteq AllLinks
  BY DEF AllLinks, NoAgg
<1>2. \A l \in AllLinks : l.run \in Runs
  <2>1. \A l \in links : l.run \in Runs
    BY DEF TournamentTypeOK, Link
  <2>2. \A p \in Processes : \A l \in agg[p].links : l.run \in Runs
    BY DEF TournamentTypeOK, Aggregation, Link
  <2>. QED  BY <2>1, <2>2 DEF AllLinks
<1>3. \A l \in AllLinks' : /\ record'[l.run].status # "none"
                           /\ creator'.point = "link" => l.run # creator'.run
  BY <1>1, <1>2 DEF LinkInv, AllLinks
<1>4. creator'.point \in {"link", "enqueue"} =>
          /\ creator'.run \in Runs /\ creator'.key \in Keys
          /\ rows'[creator'.run] = "absent" /\ record'[creator'.run].status # "none"
  BY DEF LinkInv
<1>5. \A l \in links' : rows'[l.run] = "absent" => creator'.point = "enqueue" /\ creator'.run = l.run
  BY <1>2 DEF LinkInv, AllLinks
<1>6. \A r \in Runs : rows'[r] # "absent" => record'[r].status # "none"
  BY DEF LinkInv
<1>7. \A p \in Processes : ~agg'[p].on => agg'[p] = NoAgg
  OBVIOUS
<1>8. tour'.status = "none" => creator'.point = "idle"
  BY DEF LinkInv
<1>9. \A w \in Workers : agg'[w].on => pc'[w] \in Refreshing
  OBVIOUS
<1>10. /\ \A p \in Processes : ~Active(p)' => agg'[p] = NoAgg
       /\ \A w \in Workers : Active(w)' => pc'[w] \in Refreshing
  BY <1>7, <1>9 DEF Active
<1>. QED  BY <1>3, <1>4, <1>5, <1>6, <1>8, <1>10 DEF LinkInv, AllLinks

\* No aggregation begins or ends.
LEMMA LinkIdle ==
    ASSUME TournamentTypeOK, LinkInv, UNCHANGED <<creator, agg>>, links' \subseteq links,
           tour'.status = "none" => tour.status = "none",
           \A r \in Runs : rows[r] = "absent" <=> rows'[r] = "absent",
           \A r \in Runs : record[r].status # "none" => record'[r].status # "none",
           \A w \in Workers : Active(w) => pc'[w] \in Refreshing
    PROVE  LinkInv'
<1>1. \A p \in Processes : agg[p] = NoAgg \/ Active(p)
  BY DEF LinkInv
<1>2. \A p \in Processes : agg[p].links \subseteq AllLinks
  BY DEF AllLinks
<1>. QED  BY <1>1, <1>2, LinkMove DEF Active

LEMMA LinkCreation ==
    ASSUME TournamentTypeOK, LinkInv, (\E c \in Configs : CreateTournament(c)) \/ Create
    PROVE  LinkInv'
<1>. USE DEF history
<1>1. CASE \E c \in Configs : CreateTournament(c)
  <2>1. /\ creator' = [creator EXCEPT !.point = "next", !.todo = creator'.todo]
        /\ tour'.status = "running" /\ UNCHANGED <<rows, record, links, pc, agg>>
    BY <1>1 DEF CreateTournament, TournamentTypeOK
  <2>2. creator'.point = "next" /\ creator.point = "idle"
    BY <1>1, <2>1 DEF CreateTournament, TournamentTypeOK, LinkInv
  <2>. QED  BY <2>1, <2>2 DEF LinkInv, Active
<1>2. CASE CreateChild
  <2>1. PICK s \in creator.todo, r \in Runs :
            /\ record[r] = Absent /\ record' = [record EXCEPT ![r].status = "pending"]
            /\ creator.point = "next"
            /\ creator' = [point |-> "link", todo |-> creator.todo \ {s}, run |-> r, key |-> s.key]
            /\ UNCHANGED <<rows, links, tour, pc, agg>>
    BY <1>2 DEF CreateChild
  <2>2. rows[r] = "absent" /\ \A l \in AllLinks : l.run # r
    BY <2>1 DEF LinkInv, Absent, AllLinks
  <2>3. \A q \in Runs : record[q].status # "none" => record'[q].status # "none"
    BY <2>1 DEF TournamentTypeOK
  <2>4. record'[r].status = "pending"
    BY <2>1 DEF TournamentTypeOK, Record
  <2>5. s.key \in Keys
    BY DEF TournamentTypeOK, Keys
  <2>6. \A l \in AllLinks : l.run \in Runs
    <3>1. \A l \in links : l.run \in Runs
      BY DEF TournamentTypeOK, Link
    <3>2. \A p \in Processes : \A l \in agg[p].links : l.run \in Runs
      BY DEF TournamentTypeOK, Aggregation, Link
    <3>. QED  BY <3>1, <3>2 DEF AllLinks
  <2>. QED  BY <2>1, <2>2, <2>3, <2>4, <2>5, <2>6 DEF LinkInv, Active, AllLinks
<1>3. CASE LinkChild
  <2>1. /\ creator.point = "link" /\ creator' = [creator EXCEPT !.point = "enqueue"]
        /\ links' = {l \in links : l.key # creator.key}
                        \cup {[key |-> creator.key, run |-> creator.run]}
        /\ UNCHANGED <<rows, record, tour, pc, agg>>
    BY <1>3 DEF LinkChild
  <2>2. creator'.point = "enqueue" /\ creator'.run = creator.run /\ creator'.key = creator.key
    BY <2>1 DEF TournamentTypeOK
  <2>. QED  BY <2>1, <2>2 DEF LinkInv, Active
<1>4. CASE LinkDeleted
  <2>1. /\ creator.point = "link" /\ creator' = [creator EXCEPT !.point = "broken"]
        /\ UNCHANGED <<rows, record, links, tour, pc, agg>>
    BY <1>4 DEF LinkDeleted
  <2>2. creator'.point = "broken"
    BY <2>1 DEF TournamentTypeOK
  <2>. QED  BY <2>1, <2>2 DEF LinkInv, Active
<1>5. CASE EnqueueChild
  <2>1. /\ creator.point = "enqueue" /\ rows' = [rows EXCEPT ![creator.run] = "pending"]
        /\ creator' = [creator EXCEPT !.point = "next", !.run = NoRun, !.key = <<>>]
        /\ UNCHANGED <<record, links, tour, pc, agg>>
    BY <1>5 DEF EnqueueChild
  <2>2. creator'.point = "next"
    BY <2>1 DEF TournamentTypeOK
  <2>3. \A r \in Runs : rows'[r] = IF r = creator.run THEN "pending" ELSE rows[r]
    BY <2>1 DEF TournamentTypeOK
  <2>4. \A l \in links : l.run \in Runs
    BY DEF TournamentTypeOK, Link
  <2>. QED  BY <2>1, <2>2, <2>3, <2>4 DEF LinkInv, Active
<1>. QED  BY <1>1, <1>2, <1>3, <1>4, <1>5 DEF Create

\* A record that exists stays, also as a deleted one.
LEMMA SetStatusKeeps ==
    ASSUME TournamentTypeOK, NEW r \in Runs, NEW status, status # "none", SetStatus(r, status)
    PROVE  \A q \in Runs : record[q].status # "none" => record'[q].status # "none"
BY DEF SetStatus, TournamentTypeOK, Record

LEMMA LinkWorker ==
    ASSUME TournamentTypeOK, OwnerInv, LinkInv, NEW w \in Workers,
           \/ Open(w) \/ Start(w) \/ FailRun(w) \/ Complete(w) \/ MarkCompleted(w)
           \/ MarkFailed(w) \/ Leave(w)
    PROVE  LinkInv'
<1>. USE DEF WorkerStep, creation, history, Goto
<1>1. job[w] \in Runs /\ ~Active(w)
  BY OwnRun
     DEF Open, Start, FailRun, Complete, MarkCompleted, MarkFailed, Leave, Busy, Over, LinkInv, Refreshing
<1>2. \A v \in Workers : v # w => pc'[v] = pc[v]
  BY DEF Open, Start, FailRun, Complete, MarkCompleted, MarkFailed, Leave, TournamentTypeOK
<1>3. \A v \in Workers : Active(v) => pc'[v] \in Refreshing
  BY <1>1, <1>2 DEF LinkInv
<1>4. rows[job[w]] # "absent"
  BY <1>1, ProcessesAssumption DEF OwnerInv
<1>5. CASE Open(w)
  BY <1>3, <1>5, LinkIdle DEF Open
<1>6. CASE Start(w)
  BY <1>1, <1>3, <1>6, LinkIdle, SetStatusKeeps DEF Start
<1>7. CASE FailRun(w)
  BY <1>1, <1>3, <1>7, LinkIdle, SetStatusKeeps DEF FailRun
<1>8. CASE Complete(w)
  <2>1. \A q \in Runs : record[q].status # "none" => record'[q].status # "none"
    BY <1>1, <1>8 DEF Complete, TournamentTypeOK
  <2>. QED  BY <1>3, <1>8, <2>1, LinkIdle DEF Complete
<1>9. CASE MarkCompleted(w)
  <2>1. \A r \in Runs : rows[r] = "absent" <=> rows'[r] = "absent"
    BY <1>1, <1>4, <1>9 DEF MarkCompleted, Settle, TournamentTypeOK
  <2>. QED  BY <1>3, <1>9, <2>1, LinkIdle DEF MarkCompleted
<1>10. CASE MarkFailed(w)
  <2>1. \A r \in Runs : rows[r] = "absent" <=> rows'[r] = "absent"
    BY <1>1, <1>4, <1>10 DEF MarkFailed, Settle, TournamentTypeOK
  <2>. QED  BY <1>3, <1>10, <2>1, LinkIdle DEF MarkFailed
<1>11. CASE Leave(w)
  BY <1>3, <1>11, LinkIdle DEF Leave
<1>. QED  BY <1>5, <1>6, <1>7, <1>8, <1>9, <1>10, <1>11

LEMMA LinkOwners ==
    ASSUME TournamentTypeOK, OwnerInv, LinkInv,
           \/ \E w \in Workers, r \in Runs : Claim(w, r)
           \/ \E w \in Workers : Crash(w)
           \/ \E r \in Runs : Requeue(r)
    PROVE  LinkInv'
<1>. USE DEF WorkerStep, creation, history, Goto
<1>1. CASE \E w \in Workers, r \in Runs : Claim(w, r)
  <2>1. PICK w \in Workers, r \in Runs : Claim(w, r)
    BY <1>1
  <2>2. \A v \in Workers : Active(v) => pc'[v] \in Refreshing
    BY <2>1 DEF Claim, LinkInv, Refreshing, TournamentTypeOK
  <2>3. \A q \in Runs : rows[q] = "absent" <=> rows'[q] = "absent"
    BY <2>1 DEF Claim, Abandoned, TournamentTypeOK
  <2>. QED  BY <2>1, <2>2, <2>3, LinkIdle DEF Claim
<1>2. CASE \E w \in Workers : Crash(w)
  <2>1. PICK w \in Workers : Crash(w)
    BY <1>2
  <2>2. /\ agg'[w] = NoAgg /\ pc'[w] = "off" /\ ~NoAgg.on
        /\ \A p \in Processes : p # w => agg'[p] = agg[p]
        /\ \A v \in Workers : v # w => pc'[v] = pc[v]
    BY <2>1 DEF Crash, TournamentTypeOK, Processes, NoAgg
  <2>3. \A p \in Processes : agg[p] = NoAgg \/ agg[p].on
    BY DEF LinkInv, Active
  <2>4. \A p \in Processes : agg[p].links \subseteq AllLinks
    BY DEF AllLinks
  <2>5. \A p \in Processes : agg'[p] = NoAgg \/ (agg'[p].on /\ agg'[p].links \subseteq AllLinks)
    BY <2>2, <2>3, <2>4
  <2>6. \A v \in Workers : agg'[v].on => pc'[v] \in Refreshing
    BY <2>2 DEF LinkInv, Active, Processes
  <2>. QED  BY <2>1, <2>5, <2>6, LinkMove DEF Crash
<1>3. CASE \E r \in Runs : Requeue(r)
  <2>1. PICK r \in Runs : Requeue(r)
    BY <1>3
  <2>2. \A q \in Runs : rows[q] = "absent" <=> rows'[q] = "absent"
    BY <2>1 DEF Requeue, Abandoned, TournamentTypeOK
  <2>. QED  BY <2>1, <2>2, LinkIdle DEF Requeue, LinkInv
<1>. QED  BY <1>1, <1>2, <1>3

\* An aggregation begins with the stored links.
LEMMA LinkListed ==
    ASSUME TournamentTypeOK, LinkInv, NEW p \in Processes, ListChildren(p),
           UNCHANGED <<creator, links, tour, rows, record>>,
           \A w \in Workers : w # p => pc'[w] = pc[w],
           p \in Workers => pc'[p] \in Refreshing
    PROVE  LinkInv'
<1>1. /\ agg'[p].on /\ agg'[p].links = links
      /\ \A q \in Processes : q # p => agg'[q] = agg[q]
  BY DEF ListChildren, TournamentTypeOK, Aggregation
<1>2. \A q \in Processes : agg[q] = NoAgg \/ agg[q].on
  BY DEF LinkInv, Active
<1>3. links \subseteq AllLinks /\ \A q \in Processes : agg[q].links \subseteq AllLinks
  BY DEF AllLinks
<1>4. \A q \in Processes : agg'[q] = NoAgg \/ (agg'[q].on /\ agg'[q].links \subseteq AllLinks)
  BY <1>1, <1>2, <1>3
<1>5. \A w \in Workers : agg'[w].on => pc'[w] \in Refreshing
  BY <1>1 DEF LinkInv, Active, Processes
<1>. QED  BY <1>4, <1>5, LinkMove

LEMMA LinkFind ==
    ASSUME TournamentTypeOK, LinkInv, NEW w \in Workers, FindDone(w) \/ FindFailed(w)
    PROVE  LinkInv'
<1>1. /\ pc[w] \in {"done", "failed"} /\ pc'[w] \in Refreshing
      /\ \A v \in Workers : v # w => pc'[v] = pc[v]
      /\ UNCHANGED <<creator, links, tour, rows, record>>
      /\ ListChildren(w) \/ UNCHANGED agg
  BY DEF FindDone, FindFailed, Find, Goto, WorkerStep, creation, Refreshing, TournamentTypeOK
<1>2. CASE ListChildren(w)
  BY <1>1, <1>2, LinkListed DEF Processes
<1>3. CASE UNCHANGED agg
  BY <1>1, <1>3, LinkIdle DEF LinkInv
<1>. QED  BY <1>1, <1>2, <1>3

LEMMA LinkAggregate ==
    ASSUME TournamentTypeOK, LinkInv, NEW p \in Processes, Aggregate(p)
    PROVE  LinkInv'
<1>1. /\ agg[p].on
      /\ ReadChild(p) \/ WriteReport(p)
      /\ UNCHANGED <<creator, links, rows, record, pc>>
  BY DEF Aggregate, Active, creation, ReadChild, WriteReport
<1>2. \A q \in Processes : agg[q] = NoAgg \/ agg[q].on
  BY DEF LinkInv, Active
<1>3. \A q \in Processes : agg[q].links \subseteq AllLinks
  BY DEF AllLinks
<1>4. CASE ReadChild(p)
  <2>1. agg' = [agg EXCEPT ![p].read = agg'[p].read]
    BY <1>4, ReadFacts
  <2>2. /\ \A q \in Processes : q # p => agg'[q] = agg[q]
        /\ agg'[p].on = agg[p].on /\ agg'[p].links = agg[p].links
    BY <2>1 DEF TournamentTypeOK, Aggregation
  <2>3. tour' = tour
    BY <1>4 DEF ReadChild
  <2>4. \A w \in Workers : agg'[w].on => pc'[w] \in Refreshing
    BY <1>1, <2>2 DEF LinkInv, Active, Processes
  <2>5. \A q \in Processes : agg'[q] = NoAgg \/ (agg'[q].on /\ agg'[q].links \subseteq AllLinks)
    BY <1>1, <1>2, <1>3, <2>2
  <2>. QED  BY <1>1, <2>3, <2>4, <2>5, LinkMove
<1>5. CASE WriteReport(p)
  <2>1. \A q \in Processes :
            \/ agg'[q] = NoAgg
            \/ /\ agg[q].on
               /\ agg'[q] = agg[q] \/ agg'[q] = [agg[q] EXCEPT !.late = TRUE]
    BY <1>2, <1>5 DEF WriteReport, Active
  <2>2. \A q \in Processes :
            agg'[q] = NoAgg \/ (agg[q].on /\ agg'[q].on /\ agg'[q].links = agg[q].links)
    <3>. SUFFICES ASSUME NEW q \in Processes, agg'[q] # NoAgg
                  PROVE  agg[q].on /\ agg'[q].on /\ agg'[q].links = agg[q].links
      OBVIOUS
    <3>1. agg[q] \in Aggregation
      BY DEF TournamentTypeOK
    <3>. QED  BY <2>1, <3>1 DEF Aggregation
  <2>3. ~NoAgg.on
    BY DEF NoAgg
  <2>4. \A w \in Workers : agg'[w].on => pc'[w] \in Refreshing
    BY <1>1, <2>2, <2>3 DEF LinkInv, Active, Processes
  <2>5. tour'.status # "none"
    BY <1>5 DEF WriteReport, build_report
  <2>. QED  BY <1>1, <1>3, <2>2, <2>4, <2>5, LinkMove
<1>. QED  BY <1>1, <1>4, <1>5

LEMMA LinkClient ==
    ASSUME TournamentTypeOK, LinkInv,
           \/ GetReport \/ CancelTournament \/ CancelInQueue \/ CancelRead \/ CancelWrite
           \/ EndCancel \/ \E r \in Runs : DeleteChild(r)
    PROVE  LinkInv'
<1>. USE DEF ClientStep, creation, history
<1>1. CASE GetReport
  BY <1>1, LinkListed, ProcessesAssumption DEF GetReport, Processes
<1>2. CASE CancelTournament
  BY <1>2, LinkIdle DEF CancelTournament, LinkInv
<1>3. CASE CancelInQueue
  <2>1. \A r \in Runs : rows[r] = "absent" <=> rows'[r] = "absent"
    BY <1>3 DEF CancelInQueue, Settle, TournamentTypeOK
  <2>. QED  BY <1>3, <2>1, LinkIdle DEF CancelInQueue, LinkInv
<1>4. CASE CancelRead
  BY <1>4, LinkIdle DEF CancelRead, LinkInv
<1>5. CASE CancelWrite
  <2>1. client.run \in Runs /\ SetStatus(client.run, "canceled")
    BY <1>5 DEF CancelWrite, TournamentTypeOK
  <2>2. \A r \in Runs : record[r].status # "none" => record'[r].status # "none"
    BY <2>1, SetStatusKeeps
  <2>. QED  BY <1>5, <2>2, LinkIdle DEF CancelWrite, LinkInv
<1>6. CASE EndCancel
  <2>1. tour'.status = "canceled"
    BY <1>6 DEF EndCancel, TournamentTypeOK
  <2>. QED  BY <1>6, <2>1, LinkIdle DEF EndCancel, LinkInv
<1>7. CASE \E r \in Runs : DeleteChild(r)
  <2>1. PICK r \in Runs : DeleteChild(r)
    BY <1>7
  <2>2. \A q \in Runs : record[q].status # "none" => record'[q].status # "none"
    BY <2>1 DEF DeleteChild, Absent, TournamentTypeOK
  <2>3. links' \subseteq links
    BY <2>1 DEF DeleteChild
  <2>. QED  BY <2>1, <2>2, <2>3, LinkIdle DEF DeleteChild, LinkInv
<1>. QED  BY <1>1, <1>2, <1>3, <1>4, <1>5, <1>6, <1>7

LEMMA LinkNext ==
    ASSUME TournamentTypeOK, OwnerInv, LinkInv, Next
    PROVE  LinkInv'
<1>1. CASE \E w \in Workers : Poll(w)
  BY <1>1, LinkIdle DEF Poll, vars, creation, LinkInv
<1>2. CASE \E p \in Processes : Aggregate(p)
  BY <1>2, LinkAggregate
<1>. QED
  BY <1>1, <1>2, LinkCreation, LinkWorker, LinkOwners, LinkFind, LinkClient
     DEF Next, Work, ClientWork, Processes

-----------------------------------------------------------------------------
(* What the reports have shown.                                            *)

LEMMA ReportInit == Init => ReportInv
BY DEF Init, ReportInv, SettledIsReported, Refreshing, Active, NoAgg, Processes

\* The points at which a worker owes a refresh to the report, or has begun one.
Owing == {"mark", "failed", "leave"}

\* Steps that no refresh depends on: the rows that become settled were dropped, and whoever
\* owes a refresh still does.
LEMMA ReportIdle ==
    ASSUME LinkInv, ReportInv, links' \subseteq links, UNCHANGED <<reported, lost>>,
           dropped \subseteq dropped',
           \A r \in Runs : rows'[r] = "settled" => rows[r] = "settled" \/ r \in dropped',
           \A l \in links : l.run \in Runs,
           \A w \in Workers : agg'[w] = agg[w],
           \A w \in Workers : pc[w] \in Owing \/ pc'[w] \in Owing => pc'[w] = pc[w] /\ job'[w] = job[w]
    PROVE  ReportInv'
<1>1. SettledIsReported'
  <2>. SUFFICES ASSUME NEW l \in links', rows'[l.run] = "settled", l.run \notin reported' \cup lost' \cup dropped'
                PROVE  \E w \in Workers : job'[w] = l.run /\ pc'[w] \in PastMark
    BY DEF SettledIsReported
  <2>1. PICK w \in Workers : job[w] = l.run /\ pc[w] \in PastMark
    BY DEF ReportInv, SettledIsReported
  <2>. QED  BY <2>1 DEF PastMark, Owing
<1>2. ASSUME NEW w \in Workers, pc'[w] \in Refreshing, ~agg'[w].on, NEW l \in links', l.run = job'[w]
      PROVE  job'[w] \in reported'
  BY <1>2 DEF ReportInv, Refreshing, Owing, Active
<1>3. ASSUME NEW w \in Workers, agg'[w].on
      PROVE  /\ \E l \in agg'[w].links : l.run = job'[w]
             /\ job'[w] \in DOMAIN agg'[w].read => agg'[w].read[job'[w]].status \in Terminal
  <2>1. Active(w) /\ pc[w] \in Owing
    BY <1>3 DEF LinkInv, Refreshing, Owing, Active
  <2>. QED  BY <2>1 DEF ReportInv
<1>. QED  BY <1>1, <1>2, <1>3 DEF ReportInv, Active

LEMMA LinkRuns ==
    ASSUME TournamentTypeOK
    PROVE  \A l \in links : l.run \in Runs
BY DEF TournamentTypeOK, Link

LEMMA ReportCreation ==
    ASSUME TournamentInv, (\E c \in Configs : CreateTournament(c)) \/ Create
    PROVE  ReportInv'
<1>. USE LinkRuns DEF TournamentInv, history, Owing
<1>1. CASE \E c \in Configs : CreateTournament(c)
  BY <1>1, ReportIdle DEF CreateTournament
<1>2. CASE CreateChild
  BY <1>2, ReportIdle DEF CreateChild
<1>3. CASE LinkChild
  <2>1. /\ creator.point = "link" /\ UNCHANGED <<rows, pc, job, agg, reported, lost, dropped>>
        /\ \A l \in links' : l \in links \/ l.run = creator.run
    BY <1>3 DEF LinkChild
  <2>2. creator.run \in Runs /\ rows[creator.run] = "absent"
    BY <2>1 DEF LinkInv
  <2>3. \A w \in Workers : pc[w] \in Refreshing => job[w] # creator.run
    BY <2>2 DEF OwnerInv, Refreshing, Busy, Over
  <2>4. SettledIsReported'
    BY <2>1, <2>2 DEF ReportInv, SettledIsReported
  <2>. QED  BY <2>1, <2>3, <2>4 DEF ReportInv, Active
<1>4. CASE LinkDeleted
  BY <1>4, ReportIdle DEF LinkDeleted
<1>5. CASE EnqueueChild
  <2>1. \A r \in Runs : rows'[r] = "settled" => rows[r] = "settled"
    BY <1>5 DEF EnqueueChild, TournamentTypeOK
  <2>. QED  BY <1>5, <2>1, ReportIdle DEF EnqueueChild
<1>. QED  BY <1>1, <1>2, <1>3, <1>4, <1>5 DEF Create

LEMMA ReportWorker ==
    ASSUME TournamentInv, NEW w \in Workers,
           \/ Open(w) \/ Start(w) \/ FailRun(w) \/ Complete(w) \/ (\E r \in Runs : Claim(w, r))
    PROVE  ReportInv'
<1>1. /\ pc[w] \notin Owing /\ pc'[w] \notin Owing
      /\ \A v \in Workers : v # w => pc'[v] = pc[v] /\ job'[v] = job[v]
      /\ UNCHANGED <<links, reported, lost, dropped, agg>>
      /\ \A r \in Runs : rows'[r] = "settled" => rows[r] = "settled"
  BY DEF TournamentInv, Open, Start, FailRun, Complete, Claim, Goto, WorkerStep, creation, history,
         TournamentTypeOK, Owing
<1>. QED  BY <1>1, ReportIdle, LinkRuns DEF TournamentInv

\* A worker settles its row and leaves it, after its refresh or to begin it.
LEMMA ReportMark ==
    ASSUME TournamentInv, NEW w \in Workers, MarkCompleted(w) \/ MarkFailed(w) \/ Leave(w)
    PROVE  ReportInv'
<1>1. /\ pc[w] \in Over /\ ~agg[w].on
      /\ pc'[w] = (IF MarkFailed(w) THEN "failed" ELSE "idle")
      /\ \A v \in Workers : v # w => pc'[v] = pc[v] /\ job'[v] = job[v]
      /\ UNCHANGED <<links, reported, lost, dropped, agg>>
  BY DEF TournamentInv, MarkCompleted, MarkFailed, Leave, Goto, WorkerStep, creation, history, LinkInv,
         TournamentTypeOK, Over, Refreshing, Active
<1>2. \A r \in Runs : rows'[r] = "settled" => rows[r] = "settled" \/ r = job[w]
  BY DEF TournamentInv, MarkCompleted, MarkFailed, Leave, Settle, TournamentTypeOK
<1>3. /\ MarkFailed(w) => job'[w] = job[w]
      /\ ~MarkFailed(w) => pc[w] \in Refreshing
  BY DEF MarkCompleted, MarkFailed, Leave, WorkerStep, Refreshing
<1>4. SettledIsReported'
  <2>. SUFFICES ASSUME NEW l \in links', rows'[l.run] = "settled", l.run \notin reported' \cup lost' \cup dropped'
                PROVE  \E v \in Workers : job'[v] = l.run /\ pc'[v] \in PastMark
    BY DEF SettledIsReported
  <2>1. l \in links /\ l.run \in Runs
    BY <1>1, LinkRuns DEF TournamentInv
  <2>2. CASE l.run = job[w]
    <3>1. MarkFailed(w)
      BY <1>1, <1>3, <2>1, <2>2 DEF TournamentInv, ReportInv, Active
    <3>. QED  BY <1>1, <1>3, <2>2, <3>1 DEF PastMark
  <2>3. CASE l.run # job[w]
    <3>1. PICK v \in Workers : job[v] = l.run /\ pc[v] \in PastMark
      BY <1>1, <1>2, <2>1, <2>3 DEF TournamentInv, ReportInv, SettledIsReported
    <3>. QED  BY <1>1, <2>3, <3>1
  <2>. QED  BY <2>2, <2>3
<1>5. ASSUME NEW v \in Workers, pc'[v] \in Refreshing, ~agg'[v].on, NEW l \in links', l.run = job'[v]
      PROVE  job'[v] \in reported'
  BY <1>1, <1>5 DEF TournamentInv, ReportInv, Refreshing, Active
<1>6. ASSUME NEW v \in Workers, agg'[v].on
      PROVE  /\ \E l \in agg'[v].links : l.run = job'[v]
             /\ job'[v] \in DOMAIN agg'[v].read => agg'[v].read[job'[v]].status \in Terminal
  BY <1>1, <1>6 DEF TournamentInv, ReportInv, Active
<1>. QED  BY <1>4, <1>5, <1>6 DEF ReportInv, Active

\* An aggregation begins for the run of the worker, if there is a link to it.
LEMMA ReportFind ==
    ASSUME TournamentInv, NEW w \in Workers, FindDone(w) \/ FindFailed(w)
    PROVE  ReportInv'
<1>1. /\ pc[w] \in {"done", "failed"} /\ pc'[w] \in Refreshing /\ (pc[w] = "failed" => pc'[w] = "leave")
      /\ \A v \in Workers : v # w => pc'[v] = pc[v]
      /\ UNCHANGED <<links, rows, job, reported, lost, dropped>>
  BY DEF TournamentInv, FindDone, FindFailed, Find, Goto, WorkerStep, creation, history,
         TournamentTypeOK, Refreshing
<1>2. ~agg[w].on /\ agg[w] = NoAgg
  BY DEF TournamentInv, FindDone, FindFailed, Find, LinkInv, Refreshing, Active, Processes
<1>3. /\ \A v \in Workers : v # w => agg'[v] = agg[v]
      /\ agg'[w].on => /\ \E l \in agg'[w].links : l.run = job[w]
                       /\ DOMAIN agg'[w].read = {}
      /\ ~agg'[w].on => \A l \in links : l.run # job[w]
  <2>1. CASE \E l \in links : l.run = job[w]
    <3>1. ListChildren(w)
      BY <2>1 DEF FindDone, FindFailed, Find
    <3>2. /\ \A v \in Workers : v # w => agg'[v] = agg[v]
          /\ agg'[w].on /\ agg'[w].links = links /\ agg'[w].read = agg[w].read
      BY <3>1 DEF ListChildren, TournamentInv, TournamentTypeOK, Aggregation, Processes
    <3>. QED  BY <1>2, <2>1, <3>2 DEF NoAgg
  <2>2. CASE ~\E l \in links : l.run = job[w]
    BY <1>2, <2>2 DEF FindDone, FindFailed, Find
  <2>. QED  BY <2>1, <2>2
<1>4. SettledIsReported'
  BY <1>1 DEF TournamentInv, ReportInv, SettledIsReported, PastMark
<1>5. ASSUME NEW v \in Workers, pc'[v] \in Refreshing, ~agg'[v].on, NEW l \in links', l.run = job'[v]
      PROVE  job'[v] \in reported'
  BY <1>1, <1>3, <1>5 DEF TournamentInv, ReportInv, Active
<1>6. ASSUME NEW v \in Workers, agg'[v].on
      PROVE  /\ \E l \in agg'[v].links : l.run = job'[v]
             /\ job'[v] \in DOMAIN agg'[v].read => agg'[v].read[job'[v]].status \in Terminal
  BY <1>1, <1>3, <1>6 DEF TournamentInv, ReportInv, Active
<1>. QED  BY <1>4, <1>5, <1>6 DEF ReportInv, Active

\* A worker dies, and its run is lost if its row is settled already.
LEMMA ReportCrash ==
    ASSUME TournamentInv, NEW w \in Workers, Crash(w)
    PROVE  ReportInv'
<1>1. /\ pc'[w] = "off" /\ agg'[w] = NoAgg /\ ~NoAgg.on
      /\ \A v \in Workers : v # w => pc'[v] = pc[v] /\ job'[v] = job[v] /\ agg'[v] = agg[v]
      /\ UNCHANGED <<rows, links, reported, dropped>>
      /\ lost' = IF pc[w] \in PastMark THEN lost \cup {job[w]} ELSE lost
  BY DEF TournamentInv, Crash, Goto, creation, TournamentTypeOK, Processes, NoAgg
<1>2. SettledIsReported'
  BY <1>1 DEF TournamentInv, ReportInv, SettledIsReported
<1>3. ASSUME NEW v \in Workers, pc'[v] \in Refreshing, ~agg'[v].on, NEW l \in links', l.run = job'[v]
      PROVE  job'[v] \in reported'
  BY <1>1, <1>3 DEF TournamentInv, ReportInv, Refreshing, Active
<1>4. ASSUME NEW v \in Workers, agg'[v].on
      PROVE  /\ \E l \in agg'[v].links : l.run = job'[v]
             /\ job'[v] \in DOMAIN agg'[v].read => agg'[v].read[job'[v]].status \in Terminal
  BY <1>1, <1>4 DEF TournamentInv, ReportInv, Active
<1>. QED  BY <1>2, <1>3, <1>4 DEF ReportInv, Active

\* A run whose worker has begun a refresh has a final record, which the refresh reads.
LEMMA ReportRead ==
    ASSUME TournamentInv, NEW p \in Processes, Active(p), ReadChild(p),
           UNCHANGED <<rows, links, pc, job, reported, lost, dropped>>
    PROVE  ReportInv'
<1>1. PICK l \in agg[p].links :
          /\ agg' = [agg EXCEPT ![p].read = agg'[p].read]
          /\ agg'[p].read = [r \in DOMAIN agg[p].read \cup {l.run} |->
                 IF r = l.run
                 THEN IF Stored(r) THEN record[r] ELSE [Absent EXCEPT !.status = "failed"]
                 ELSE agg[p].read[r]]
  BY ReadFacts DEF TournamentInv
<1>2. /\ \A q \in Processes : agg'[q].on = agg[q].on /\ agg'[q].links = agg[q].links
      /\ \A q \in Processes : q # p => agg'[q] = agg[q]
  <2>1. agg[p] \in Aggregation /\ agg \in [Processes -> Aggregation]
    BY DEF TournamentInv, TournamentTypeOK
  <2>2. agg'[p].on = agg[p].on /\ agg'[p].links = agg[p].links
    BY <1>1, <2>1 DEF Aggregation
  <2>. QED  BY <1>1, <2>1, <2>2
<1>3. SettledIsReported'
  BY DEF TournamentInv, ReportInv, SettledIsReported
<1>4. ASSUME NEW w \in Workers, pc'[w] \in Refreshing, ~agg'[w].on, NEW m \in links', m.run = job'[w]
      PROVE  job'[w] \in reported'
  BY <1>2, <1>4 DEF TournamentInv, ReportInv, Active, Processes
<1>5. ASSUME NEW w \in Workers, agg'[w].on
      PROVE  /\ \E m \in agg'[w].links : m.run = job'[w]
             /\ job'[w] \in DOMAIN agg'[w].read => agg'[w].read[job'[w]].status \in Terminal
  <2>1. /\ \E m \in agg'[w].links : m.run = job'[w]
        /\ job[w] \in DOMAIN agg[w].read => agg[w].read[job[w]].status \in Terminal
    BY <1>2, <1>5 DEF TournamentInv, ReportInv, Active, Processes
  <2>2. CASE w # p
    BY <1>2, <2>1, <2>2 DEF Processes
  <2>3. CASE w = p /\ job[w] # l.run
    BY <1>1, <2>1, <2>3
  <2>4. CASE w = p /\ job[w] = l.run
    <3>1. record[job[w]].status \in Final
      BY <1>2, <1>5 DEF TournamentInv, OwnerInv, LinkInv, Refreshing, Over, Active, Processes
    <3>2. agg'[w].read[job[w]].status \in Terminal
      BY <1>1, <2>4, <3>1 DEF Stored, Final, Terminal, Absent
    <3>. QED  BY <2>1, <3>2
  <2>. QED  BY <2>2, <2>3, <2>4
<1>. QED  BY <1>3, <1>4, <1>5 DEF ReportInv, Active

\* When the report is written, every link has been read.
LEMMA ReportWritten ==
    ASSUME TournamentInv, NEW p \in Processes, Active(p), WriteReport(p),
           UNCHANGED <<rows, links, pc, job, lost, dropped>>
    PROVE  ReportInv'
<1>1. /\ \A l \in agg[p].links : l.run \in DOMAIN agg[p].read
      /\ reported' = reported \cup {l.run : l \in {m \in agg[p].links :
                           agg[p].read[m.run].status \in Terminal}}
  BY DEF WriteReport, Unread
<1>2. /\ agg'[p] = NoAgg /\ ~NoAgg.on
      /\ \A q \in Processes : q # p => agg'[q] = agg[q] \/ agg'[q] = [agg[q] EXCEPT !.late = TRUE]
  <2>1. ~NoAgg.on
    BY DEF NoAgg
  <2>. QED  BY <2>1 DEF WriteReport, Processes
<1>3. ASSUME NEW q \in Processes, q # p
      PROVE  agg'[q].on = agg[q].on /\ agg'[q].links = agg[q].links /\ agg'[q].read = agg[q].read
  <2>1. agg[q] \in Aggregation
    BY DEF TournamentInv, TournamentTypeOK
  <2>. QED  BY <1>2, <1>3, <2>1 DEF Aggregation
<1>4. SettledIsReported'
  BY <1>1 DEF TournamentInv, ReportInv, SettledIsReported
<1>5. p \in Workers => job[p] \in reported'
  BY <1>1 DEF TournamentInv, ReportInv
<1>6. ASSUME NEW w \in Workers, pc'[w] \in Refreshing, ~agg'[w].on, NEW m \in links', m.run = job'[w]
      PROVE  job'[w] \in reported'
  BY <1>1, <1>3, <1>5, <1>6 DEF TournamentInv, ReportInv, Active, Processes
<1>7. ASSUME NEW w \in Workers, agg'[w].on
      PROVE  /\ \E m \in agg'[w].links : m.run = job'[w]
             /\ job'[w] \in DOMAIN agg'[w].read => agg'[w].read[job'[w]].status \in Terminal
  BY <1>2, <1>3, <1>7 DEF TournamentInv, ReportInv, Active, Processes
<1>. QED  BY <1>4, <1>6, <1>7 DEF ReportInv, Active

LEMMA ReportOthers ==
    ASSUME TournamentInv,
           \/ GetReport \/ CancelTournament \/ CancelInQueue \/ CancelRead \/ CancelWrite
           \/ EndCancel \/ \E r \in Runs : Requeue(r) \/ DeleteChild(r)
    PROVE  ReportInv'
<1>. USE LinkRuns DEF TournamentInv, ClientStep, WorkerStep, creation, history, Owing
<1>1. CASE GetReport
  <2>1. \A w \in Workers : agg'[w] = agg[w]
    BY <1>1, ProcessesAssumption DEF GetReport, ListChildren, TournamentTypeOK, Processes
  <2>. QED  BY <1>1, <2>1, ReportIdle DEF GetReport
<1>2. CASE CancelTournament
  BY <1>2, ReportIdle DEF CancelTournament
<1>3. CASE CancelInQueue
  <2>1. \A r \in Runs : rows'[r] = "settled" => rows[r] = "settled" \/ r \in dropped'
    BY <1>3 DEF CancelInQueue, Settle, TournamentTypeOK
  <2>2. dropped \subseteq dropped'
    BY <1>3 DEF CancelInQueue
  <2>. QED  BY <1>3, <2>1, <2>2, ReportIdle DEF CancelInQueue
<1>4. CASE CancelRead
  BY <1>4, ReportIdle DEF CancelRead
<1>5. CASE CancelWrite
  BY <1>5, ReportIdle DEF CancelWrite
<1>6. CASE EndCancel
  BY <1>6, ReportIdle DEF EndCancel
<1>7. CASE \E r \in Runs : Requeue(r)
  <2>1. \A r \in Runs : rows'[r] = "settled" => rows[r] = "settled"
    BY <1>7 DEF Requeue, TournamentTypeOK
  <2>. QED  BY <1>7, <2>1, ReportIdle DEF Requeue
<1>8. CASE \E r \in Runs : DeleteChild(r)
  <2>1. links' \subseteq links
    BY <1>8 DEF DeleteChild
  <2>. QED  BY <1>8, <2>1, ReportIdle DEF DeleteChild
<1>. QED  BY <1>1, <1>2, <1>3, <1>4, <1>5, <1>6, <1>7, <1>8

LEMMA ReportNext ==
    ASSUME TournamentInv, Next
    PROVE  ReportInv'
<1>1. CASE \E w \in Workers : Poll(w)
  BY <1>1, ReportIdle, LinkRuns DEF Poll, vars, creation, history, TournamentInv
<1>2. CASE \E p \in Processes : Aggregate(p)
  <2>1. PICK p \in Processes : Aggregate(p)
    BY <1>2
  <2>2. CASE ReadChild(p)
    BY <2>1, <2>2, ReportRead DEF Aggregate, ReadChild, creation
  <2>3. CASE WriteReport(p)
    BY <2>1, <2>3, ReportWritten DEF Aggregate, creation
  <2>. QED  BY <2>1, <2>2, <2>3 DEF Aggregate
<1>. QED
  BY <1>1, <1>2, ReportCreation, ReportWorker, ReportMark, ReportFind, ReportCrash, ReportOthers
     DEF Next, Work, ClientWork, Processes

\* The inductive invariant of the tournament.
THEOREM TournamentInvariant == Spec => []TournamentInv
<1>1. Init => TournamentInv
  BY TypeInit, OwnerInit, LinkInit, ReportInit DEF TournamentInv
<1>2. TournamentInv /\ [Next]_vars => TournamentInv'
  <2>1. CASE Next
    BY <2>1, TypeNext, OwnerNext, LinkNext, ReportNext DEF TournamentInv
  <2>2. CASE UNCHANGED vars
    BY <2>2, ReportIdle, LinkRuns, LinkIdle, OwnerElsewhere
       DEF TournamentInv, TournamentTypeOK, vars, creation, history, LinkInv
  <2>. QED  BY <2>1, <2>2
<1>. QED  BY <1>1, <1>2, PTL DEF Spec

\* For every linked child whose row is settled, some stored report has shown it as
\* terminal, unless a worker is about to refresh it or died, or a cancel took it off the queue:
\* Worker.run never leaves a child behind that the report does not know as finished.
THEOREM SettledAlwaysReported == Spec => []SettledIsReported
<1>1. TournamentInv => SettledIsReported
  BY DEF TournamentInv, ReportInv
<1>. QED  BY <1>1, TournamentInvariant, PTL

-----------------------------------------------------------------------------
(* Children that a cancel took off the queue.                              *)

\* The steps that write a record.
LEMMA RecordSteps ==
    ASSUME Next
    PROVE  \/ UNCHANGED record
           \/ CreateChild \/ (\E w \in Workers : Start(w) \/ FailRun(w) \/ Complete(w))
           \/ CancelWrite \/ (\E r \in Runs : DeleteChild(r))
BY Zenon DEF Next, Create, Work, ClientWork, CreateTournament, LinkChild, LinkDeleted, EnqueueChild,
       Poll, Open, FindDone, FindFailed, Find, MarkCompleted, MarkFailed, Leave, Claim, Aggregate,
       ReadChild, WriteReport, Crash, Requeue, GetReport, CancelTournament, CancelInQueue, CancelRead,
       EndCancel, WorkerStep, ClientStep, vars

\* Nobody else touches a dropped child: its record stays final.
LEMMA FinalStays ==
    ASSUME TournamentInv, Next, NEW r \in dropped, record[r].status \in Final
    PROVE  record'[r].status \in Final
<1>1. /\ r \in Runs /\ rows[r] = "settled" /\ record[r].status \in Final /\ record[r].status # "none"
      /\ \A w \in Workers : job[w] # r
      /\ record \in [Runs -> Record]
  BY DEF TournamentInv, TournamentTypeOK, OwnerInv, Final, Terminal
<1>2. \A q \in Runs : \A status : SetStatus(q, status) /\ (q = r => status \in Final) => record'[r].status \in Final
  BY <1>1 DEF SetStatus, Record
<1>3. CASE CreateChild
  BY <1>1, <1>3 DEF CreateChild, Absent
<1>4. CASE \E w \in Workers : Start(w) \/ FailRun(w) \/ Complete(w)
  <2>1. PICK w \in Workers : Start(w) \/ FailRun(w) \/ Complete(w)
    BY <1>4
  <2>2. job[w] \in Runs /\ job[w] # r
    BY <1>1, <2>1, OwnRun DEF Start, FailRun, Complete, Busy, TournamentInv
  <2>3. CASE Complete(w)
    BY <1>1, <2>2, <2>3 DEF Complete
  <2>. QED  BY <1>2, <2>1, <2>2, <2>3 DEF Start, FailRun
<1>5. CASE CancelWrite
  <2>1. client.run \in Runs /\ SetStatus(client.run, "canceled")
    BY <1>5 DEF CancelWrite, TournamentInv, TournamentTypeOK
  <2>. QED  BY <1>2, <2>1 DEF Final, Terminal
<1>6. CASE \E q \in Runs : DeleteChild(q)
  BY <1>1, <1>6 DEF DeleteChild, Absent, Final
<1>7. CASE UNCHANGED record
  BY <1>1, <1>7
<1>. QED  BY <1>3, <1>4, <1>5, <1>6, <1>7, RecordSteps

\* The client's request moves only in steps of the client.
LEMMA ClientSteps ==
    ASSUME Next
    PROVE  \/ UNCHANGED <<client, dropped>>
           \/ GetReport \/ CancelTournament \/ CancelInQueue \/ CancelRead \/ CancelWrite \/ EndCancel
           \/ \E r \in Runs : DeleteChild(r)
BY Zenon DEF Next, Create, Work, ClientWork, CreateTournament, CreateChild, LinkChild, LinkDeleted,
       EnqueueChild, Poll, Open, Start, FailRun, Complete, FindDone, FindFailed, Find, MarkCompleted,
       MarkFailed, Leave, Claim, Aggregate, ReadChild, WriteReport, Crash, Requeue, WorkerStep,
       creation, history, vars

LEMMA DropNext ==
    ASSUME TournamentInv, DropInv, Next
    PROVE  DropInv'
<1>1. \A r \in dropped : record[r].status \in Final => record'[r].status \in Final
  BY FinalStays
<1>2. \A r \in dropped : client.run # r => record[r].status \in Final
  BY DEF DropInv, DroppedIsFinal, Final
<1>3. CASE UNCHANGED <<client, dropped>>
  BY <1>1, <1>2, <1>3 DEF DropInv, DroppedIsFinal, Final
<1>4. CASE GetReport \/ CancelTournament \/ \E r \in Runs : DeleteChild(r)
  <2>1. client.run = NoRun /\ client'.run = NoRun /\ dropped' = dropped
    BY <1>4 DEF GetReport, CancelTournament, DeleteChild, Ask, DropInv, history
  <2>2. \A r \in dropped : r # NoRun
    BY ProcessesAssumption DEF TournamentInv, TournamentTypeOK
  <2>. QED  BY <1>1, <1>2, <2>1, <2>2 DEF DropInv, DroppedIsFinal, Final
<1>5. CASE CancelInQueue
  <2>1. PICK r \in client.todo :
            /\ client.point = "cancel" /\ client.run = NoRun
            /\ client' = [client EXCEPT !.run = r] /\ dropped' \in {dropped, dropped \cup {r}}
    BY <1>5 DEF CancelInQueue
  <2>2. client'.run = r /\ client'.point = "cancel"
    BY <2>1 DEF TournamentInv, TournamentTypeOK
  <2>3. \A q \in dropped : q # NoRun
    BY ProcessesAssumption DEF TournamentInv, TournamentTypeOK
  <2>. QED  BY <1>1, <1>2, <2>1, <2>2, <2>3 DEF DropInv, DroppedIsFinal, Final
<1>6. CASE CancelRead
  <2>1. \A r \in dropped : record[r].status \notin Final => record[r].status \in {"pending", "running"}
    <3>. SUFFICES ASSUME NEW r \in dropped PROVE record[r].status \in Final \cup {"pending", "running"}
      OBVIOUS
    <3>1. r \in Runs /\ rows[r] = "settled"
      BY DEF TournamentInv, TournamentTypeOK, OwnerInv
    <3>2. record[r].status # "none" /\ record[r] \in Record
      BY <3>1 DEF TournamentInv, LinkInv, TournamentTypeOK
    <3>. QED  BY <3>2 DEF Record
  <2>2. dropped' = dropped /\ record' = record /\ client.point = "cancel"
    BY <1>6 DEF CancelRead
  <2>3. CASE Cancels(record[client.run].status)
    <3>1. client'.run = client.run /\ client'.point = "write"
      BY <1>6, <2>3 DEF CancelRead, TournamentInv, TournamentTypeOK
    <3>. QED  BY <1>2, <2>2, <3>1 DEF DropInv, DroppedIsFinal, Final
  <2>4. CASE ~Cancels(record[client.run].status)
    <3>1. client'.point = "cancel"
      BY <1>6, <2>4 DEF CancelRead, Visited
    <3>2. \A r \in dropped : record[r].status \in Final
      BY <1>2, <2>1, <2>4 DEF Cancels
    <3>. QED  BY <2>2, <3>1, <3>2 DEF DropInv, DroppedIsFinal, Final
  <2>. QED  BY <2>3, <2>4
<1>7. CASE CancelWrite
  <2>1. /\ client.run \in Runs /\ SetStatus(client.run, "canceled") /\ dropped' = dropped
        /\ client'.point = "cancel" /\ record \in [Runs -> Record]
    BY <1>7 DEF CancelWrite, Visited, TournamentInv, TournamentTypeOK
  <2>2. client.run \in dropped => record'[client.run].status \in Final
    <3>. SUFFICES ASSUME client.run \in dropped PROVE record'[client.run].status \in Final
      OBVIOUS
    <3>1. record[client.run].status # "none"
      BY DEF TournamentInv, OwnerInv, LinkInv, TournamentTypeOK
    <3>. QED  BY <2>1, <3>1 DEF SetStatus, Stored, Record, Final, Terminal
  <2>. QED  BY <1>1, <1>2, <2>1, <2>2 DEF DropInv, DroppedIsFinal, Final
<1>8. CASE EndCancel
  <2>1. client.run = NoRun /\ client'.run = client.run /\ dropped' = dropped
    BY <1>8 DEF EndCancel, TournamentInv, TournamentTypeOK
  <2>. QED  BY <1>1, <1>2, <2>1 DEF DropInv, DroppedIsFinal, Final
<1>. QED  BY <1>3, <1>4, <1>5, <1>6, <1>7, <1>8, ClientSteps

\* A child that a cancel took off the queue, which no worker will ever execute, is final as
\* soon as the cancel goes on to the next child: cancel_tournament leaves no child that looks
\* unfinished and that nobody would ever finish.
THEOREM DroppedAlwaysFinal == Spec => []DroppedIsFinal
<1>1. Init => DropInv
  BY DEF Init, DropInv, DroppedIsFinal
<1>2. TournamentInv /\ DropInv /\ [Next]_vars => DropInv'
  <2>1. CASE Next
    BY <2>1, DropNext
  <2>2. CASE UNCHANGED vars
    BY <2>2 DEF vars, history, DropInv, DroppedIsFinal
  <2>. QED  BY <2>1, <2>2
<1>3. DropInv => DroppedIsFinal
  BY DEF DropInv
<1>. QED  BY <1>1, <1>2, <1>3, TournamentInvariant, PTL DEF Spec

-----------------------------------------------------------------------------
(* The keys of the children.                                               *)

\* Two picks from lists without repetition that have the same values are the same.
LEMMA ValuesDistinct ==
    ASSUME NEW lists, \A i \in DOMAIN lists : IsInjective(lists[i]),
           NEW p \in Picks(lists), NEW q \in Picks(lists), Values(lists, p) = Values(lists, q)
    PROVE  p = q
<1>1. /\ p \in [DOMAIN lists -> UNION {DOMAIN lists[i] : i \in DOMAIN lists}]
      /\ q \in [DOMAIN lists -> UNION {DOMAIN lists[i] : i \in DOMAIN lists}]
      /\ \A i \in DOMAIN lists : p[i] \in DOMAIN lists[i] /\ q[i] \in DOMAIN lists[i]
  BY DEF Picks
<1>2. ASSUME NEW i \in DOMAIN lists
      PROVE  p[i] = q[i]
  <2>1. Values(lists, p)[i] = lists[i][p[i]] /\ Values(lists, q)[i] = lists[i][q[i]]
    BY DEF Values
  <2>. QED  BY <1>1, <2>1 DEF IsInjective
<1>. QED  BY <1>1, <1>2

\* The values of a pick are a sequence.
LEMMA ValuesType ==
    ASSUME NEW S, NEW lists \in Seq(Seq(S)), NEW p \in Picks(lists)
    PROVE  Values(lists, p) \in Seq(S)
<1>1. ASSUME NEW i \in 1..Len(lists)
      PROVE  lists[i][p[i]] \in S
  <2>1. lists[i] \in Seq(S) /\ p[i] \in DOMAIN lists[i]
    BY DEF Picks
  <2>. QED  BY <2>1
<1>2. Values(lists, p) = [i \in 1..Len(lists) |-> lists[i][p[i]]]
  BY DEF Values
<1>. QED  BY <1>1, <1>2

\* Two sequences that are the same with the same beginning are the same.
LEMMA SameRest ==
    ASSUME NEW S, NEW start \in Seq(S), NEW a \in Seq(S), NEW b \in Seq(S), start \o a = start \o b
    PROVE  a = b
<1>. DEFINE k == Len(start)
<1>1. k \in Nat /\ Len(a) \in Nat /\ Len(b) \in Nat
  OBVIOUS
<1>2. Len(start \o a) = k + Len(a) /\ Len(start \o b) = k + Len(b)
  OBVIOUS
<1>3. Len(a) = Len(b)
  BY <1>1, <1>2
<1>4. \A i \in 1..Len(a) : (start \o a)[k + i] = a[i] /\ (start \o b)[k + i] = b[i]
  BY <1>3
<1>. QED  BY <1>3, <1>4, SeqEqual

\* Where the characters of a text with a separator are.
Divides(w, x, c, y) ==
    /\ Len(w) = Len(x) + 1 + Len(y) /\ w[Len(x) + 1] = c
    /\ \A i \in 1..Len(x) : w[i] = x[i]
    /\ \A i \in 1..Len(y) : w[Len(x) + 1 + i] = y[i] /\ y[i] # c

\* The second of two lists stands after the first.
After(w, s, t) == \A i \in 1..Len(t) : w[Len(s) + i] = t[i]

LEMMA ConcatAfter ==
    ASSUME NEW s \in Seq(Nat), NEW t \in Seq(Nat), NEW w, w = s \o t
    PROVE  After(w, s, t)
<1>1. PICK m \in Nat, n \in Nat : m = Len(s) /\ n = Len(t)
  BY LenProperties
<1>2. \A i \in 1..(m + n) : w[i] = IF i <= m THEN s[i] ELSE t[i - m]
  BY <1>1, ConcatProperties
<1>3. ASSUME NEW i \in 1..n
      PROVE  w[m + i] = t[i]
  <2>1. m + i \in 1..(m + n) /\ ~(m + i <= m) /\ (m + i) - m = i
    OBVIOUS
  <2>. QED  BY <1>2, <2>1
<1>. QED  BY <1>1, <1>3 DEF After

LEMMA Divided ==
    ASSUME NEW c \in Nat, NEW x \in Seq(Nat), NEW y \in Seq(Nat \ {c}), NEW w, w = x \o (<<c>> \o y)
    PROVE  Divides(w, x, c, y)
<1>0. PICK r : r = <<c>> \o y
  OBVIOUS
<1>1. /\ r \in Seq(Nat) /\ Len(r) = 1 + Len(y) /\ r[1] = c
      /\ \A i \in 1..Len(y) : r[i + 1] = y[i] /\ y[i] # c
      /\ Len(x) \in Nat /\ Len(y) \in Nat
  <2>1. y \in Seq(Nat)
    BY SeqMonotonic
  <2>2. /\ <<c>> \o y \in Seq(Nat) /\ Len(<<c>> \o y) = 1 + Len(y) /\ (<<c>> \o y)[1] = c
        /\ \A i \in 1..Len(y) : (<<c>> \o y)[i + 1] = y[i] /\ y[i] # c
        /\ Len(x) \in Nat /\ Len(y) \in Nat
    BY <2>1
  <2>. QED  BY <1>0, <2>2, Zenon
<1>2. w = x \o r
  BY <1>0
<1>3. Len(w) = Len(x) + Len(r) /\ \A i \in 1..Len(x) : w[i] = x[i]
  BY <1>1, <1>2
<1>4. After(w, x, r)
  <2>1. r \in Seq(Nat)
    BY <1>1
  <2>. QED  BY <1>2, <2>1, ConcatAfter
<1>5. w[Len(x) + 1] = c
  BY <1>1, <1>4 DEF After
<1>6. ASSUME NEW i \in 1..Len(y)
      PROVE  w[Len(x) + 1 + i] = y[i] /\ y[i] # c
  <2>1. i + 1 \in 1..Len(r) /\ Len(x) + (i + 1) = Len(x) + 1 + i
    BY <1>1
  <2>2. w[Len(x) + (i + 1)] = r[i + 1]
    BY <1>4, <2>1 DEF After
  <2>. QED  BY <1>1, <2>1, <2>2
<1>7. Len(w) = Len(x) + 1 + Len(y)
  BY <1>1, <1>3
<1>. QED  BY <1>3, <1>5, <1>6, <1>7 DEF Divides

LEMMA NotBefore ==
    ASSUME NEW c \in Nat, NEW x \in Seq(Nat), NEW u \in Seq(Nat),
           NEW y \in Seq(Nat \ {c}), NEW v \in Seq(Nat \ {c}), x \o (<<c>> \o y) = u \o (<<c>> \o v)
    PROVE  Len(u) <= Len(x)
<1>1. PICK w : w = x \o (<<c>> \o y) /\ w = u \o (<<c>> \o v)
  OBVIOUS
<1>2. Divides(w, x, c, y)
  BY <1>1, Divided
<1>3. Divides(w, u, c, v)
  BY <1>1, Divided
<1>4. Len(x) \in Nat /\ Len(u) \in Nat /\ Len(y) \in Nat /\ Len(v) \in Nat
  OBVIOUS
<1>. SUFFICES ASSUME Len(x) < Len(u) PROVE FALSE
  BY <1>4
<1>. DEFINE i == Len(u) - Len(x)
<1>5. i \in 1..Len(y) /\ Len(x) + 1 + i = Len(u) + 1
  BY <1>2, <1>3, <1>4 DEF Divides
<1>. HIDE DEF i
<1>6. w[Len(x) + 1 + i] # c
  BY <1>2, <1>5 DEF Divides
<1>. QED  BY <1>3, <1>5, <1>6 DEF Divides

\* A text with a separator is divided at the last one.
LEMMA LastSeparator ==
    ASSUME NEW c \in Nat, NEW x \in Text, NEW u \in Text,
           NEW y \in Seq(Nat \ {c}), NEW v \in Seq(Nat \ {c}), x \o (<<c>> \o y) = u \o (<<c>> \o v)
    PROVE  x = u /\ y = v
<1>1. x \in Seq(Nat) /\ u \in Seq(Nat)
  BY DEF Text
<1>2. PICK w : w = x \o (<<c>> \o y) /\ w = u \o (<<c>> \o v)
  OBVIOUS
<1>3. Divides(w, x, c, y)
  BY <1>1, <1>2, Divided
<1>4. Divides(w, u, c, v)
  BY <1>1, <1>2, Divided
<1>5. Len(x) \in Nat /\ Len(u) \in Nat /\ Len(y) \in Nat /\ Len(v) \in Nat
  BY <1>1
<1>6. Len(x) <= Len(u) /\ Len(u) <= Len(x)
  BY <1>1, NotBefore
<1>7. Len(x) = Len(u) /\ Len(y) = Len(v)
  BY <1>3, <1>4, <1>5, <1>6 DEF Divides
<1>8. \A i \in 1..Len(x) : x[i] = u[i]
  BY <1>3, <1>4, <1>7 DEF Divides
<1>9. \A i \in 1..Len(y) : y[i] = v[i]
  BY <1>3, <1>4, <1>7 DEF Divides
<1>. QED  BY <1>1, <1>7, <1>8, <1>9, SeqEqual

-----------------------------------------------------------------------------
(* Joined texts.                                                           *)

\* The texts that f joins one after the other.
Joins(f, texts, separator, S) ==
    /\ f \in [1..Len(texts) -> Seq(S)] /\ f[1] = texts[1]
    /\ \A i \in 2..Len(texts) : f[i] = f[i - 1] \o (<<separator>> \o texts[i])

LEMMA JoinedUnfolds ==
    ASSUME NEW S \in SUBSET Nat, NEW c \in S, NEW texts \in Seq(Seq(S)), texts # <<>>
    PROVE  \E f : Joins(f, texts, c, S) /\ Joined(texts, c) = f[Len(texts)]
<1>. DEFINE n == Len(texts)
            seqs == [i \in 1..n |-> IF i = 1 THEN texts[i] ELSE <<c>> \o texts[i]]
            f == CHOOSE h : h = [i \in 1..n |-> IF i = 1 THEN seqs[i] ELSE h[i - 1] \o seqs[i]]
<1>1. n \in Nat /\ n # 0 /\ DOMAIN texts = 1..n /\ \A i \in 1..n : texts[i] \in Seq(S)
  BY EmptySeq
<1>2. Joined(texts, c) = FlattenSeq(seqs)
  BY <1>1 DEF Joined
<1>3. Len(seqs) = n
  <2>1. seqs \in Seq(Seq(S))
    BY <1>1
  <2>. QED  BY <1>1, <2>1
<1>4. \A i \in 1..n : seqs[i] = IF i = 1 THEN texts[i] ELSE <<c>> \o texts[i]
  OBVIOUS
<1>. HIDE DEF seqs, n
<1>5. FlattenSeq(seqs) = f[n]
  BY <1>1, <1>3 DEF FlattenSeq
<1>6. Flattens(f, seqs, n)
  <2>1. \E h : Flattens(h, seqs, n)
    BY <1>1, FlattenExists
  <2>2. \E h : h = [i \in 1..n |-> IF i = 1 THEN seqs[i] ELSE h[i - 1] \o seqs[i]]
    BY <2>1 DEF Flattens
  <2>3. f = [i \in 1..n |-> IF i = 1 THEN seqs[i] ELSE f[i - 1] \o seqs[i]]
    BY <2>2
  <2>. QED  BY <2>3 DEF Flattens
<1>. HIDE DEF f
<1>7. f = [i \in 1..n |-> f[i]] /\ \A i \in 1..n : f[i] = IF i = 1 THEN seqs[i] ELSE f[i - 1] \o seqs[i]
  BY <1>6 DEF Flattens
<1>8. f[1] = texts[1] /\ \A i \in 2..n : f[i] = f[i - 1] \o (<<c>> \o texts[i])
  <2>1. 1 \in 1..n
    BY <1>1
  <2>2. ASSUME NEW i \in 2..n
        PROVE  f[i] = f[i - 1] \o (<<c>> \o texts[i])
    <3>1. i \in 1..n /\ i # 1
      BY <1>1
    <3>. QED  BY <1>4, <1>7, <3>1
  <2>. QED  BY <1>4, <1>7, <2>1, <2>2
<1>. DEFINE Bad == {i \in 1..n : f[i] \notin Seq(S)}
<1>9. ASSUME Bad # {} PROVE FALSE
  <2>1. PICK i \in Bad : \A j \in Bad : i <= j
    <3>1. Bad \in SUBSET Nat
      BY <1>1
    <3>. HIDE DEF Bad
    <3>. QED  BY <1>9, <3>1, LeastNumber
  <2>2. i \in 1..n /\ f[i] \notin Seq(S) /\ i - 1 \notin Bad
    BY <1>1, <2>1
  <2>3. i # 1
    BY <1>1, <1>8, <2>2
  <2>4. i \in 2..n /\ i - 1 \in 1..n
    BY <1>1, <2>2, <2>3
  <2>5. PICK s \in Seq(S), t \in Seq(S) : s = f[i - 1] /\ t = texts[i]
    BY <1>1, <2>2, <2>4
  <2>6. f[i] = s \o (<<c>> \o t)
    BY <1>8, <2>4, <2>5
  <2>. QED  BY <2>2, <2>6
<1>. QED  BY <1>1, <1>2, <1>5, <1>7, <1>8, <1>9 DEF Joins, n

\* Joined texts have the characters of the texts and the separator.
LEMMA JoinedType ==
    ASSUME NEW S \in SUBSET Nat, NEW c \in S, NEW texts \in Seq(Seq(S)), texts # <<>>
    PROVE  Joined(texts, c) \in Seq(S)
<1>1. PICK f : Joins(f, texts, c, S) /\ Joined(texts, c) = f[Len(texts)]
  BY JoinedUnfolds
<1>2. Len(texts) \in 1..Len(texts)
  BY EmptySeq
<1>. QED  BY <1>1, <1>2 DEF Joins

\* Several texts are joined with their separator.
LEMMA JoinedHas ==
    ASSUME NEW c \in Nat, NEW texts \in Seq(Text), Len(texts) > 1
    PROVE  c \in Range(Joined(texts, c))
<1>1. PICK f : Joins(f, texts, c, Nat) /\ Joined(texts, c) = f[Len(texts)]
  <2>1. texts # <<>>
    BY EmptySeq
  <2>. QED  BY <2>1, JoinedUnfolds DEF Text
<1>. DEFINE n == Len(texts)
<1>2. n \in 2..n /\ n - 1 \in 1..n /\ n \in Nat
  OBVIOUS
<1>3. PICK s \in Seq(Nat), t \in Seq(Nat) : s = f[n - 1] /\ t = texts[n] /\ f[n] = s \o (<<c>> \o t)
  <2>1. f[n - 1] \in Seq(Nat) /\ f[n] = f[n - 1] \o (<<c>> \o texts[n])
    BY <1>1, <1>2 DEF Joins
  <2>2. texts[n] \in Seq(Nat)
    BY <1>2 DEF Text
  <2>. QED  BY <2>1, <2>2
<1>4. /\ <<c>> \o t \in Seq(Nat) /\ Len(<<c>> \o t) = 1 + Len(t) /\ (<<c>> \o t)[1] = c
      /\ Len(s) \in Nat /\ Len(t) \in Nat
  OBVIOUS
<1>5. Len(s) + 1 \in DOMAIN (s \o (<<c>> \o t)) /\ (s \o (<<c>> \o t))[Len(s) + 1] = c
  BY <1>4
<1>. QED  BY <1>1, <1>3, <1>5 DEF Range

\* As many texts without the separator are the same if they are the same joined.
LEMMA JoinedSame ==
    ASSUME NEW c \in Nat, NEW s \in Seq(Seq(Nat \ {c})), NEW t \in Seq(Seq(Nat \ {c})),
           Len(s) = Len(t), Joined(s, c) = Joined(t, c)
    PROVE  s = t
<1>. DEFINE n == Len(s)
<1>0. n \in Nat /\ Len(t) = n
  OBVIOUS
<1>1. CASE n = 0
  BY <1>1, EmptySeq
<1>2. CASE n # 0
  <2>1. s \in Seq(Seq(Nat)) /\ t \in Seq(Seq(Nat)) /\ s # <<>> /\ t # <<>>
    <3>1. Seq(Nat \ {c}) \subseteq Seq(Nat)
      BY SeqMonotonic
    <3>. QED  BY <1>2, <3>1, SeqMonotonic, EmptySeq
  <2>2. PICK f : Joins(f, s, c, Nat) /\ Joined(s, c) = f[n]
    BY <2>1, JoinedUnfolds
  <2>3. PICK g : Joins(g, t, c, Nat) /\ Joined(t, c) = g[n]
    <3>1. Len(t) = n /\ Nat \in SUBSET Nat
      OBVIOUS
    <3>. HIDE DEF n
    <3>2. \E g : Joins(g, t, c, Nat) /\ Joined(t, c) = g[Len(t)]
      BY <2>1, JoinedUnfolds
    <3>. QED  BY <3>1, <3>2
  <2>4. \A i \in 1..n : s[i] \in Seq(Nat \ {c}) /\ t[i] \in Seq(Nat \ {c})
    OBVIOUS
  <2>5. /\ f \in [1..n -> Text] /\ f[1] = s[1] /\ \A i \in 2..n : f[i] = f[i - 1] \o (<<c>> \o s[i])
        /\ g \in [1..n -> Text] /\ g[1] = t[1] /\ \A i \in 2..n : g[i] = g[i - 1] \o (<<c>> \o t[i])
    BY <1>0, <2>2, <2>3 DEF Joins, Text
  <2>. HIDE DEF n
  <2>. DEFINE Same(i) == \A j \in 1..i : s[j] = t[j]
              Bad == {i \in 1..n : f[i] = g[i] /\ ~Same(i)}
  <2>6. ASSUME Bad # {} PROVE FALSE
    <3>1. PICK i \in Bad : \A j \in Bad : i <= j
      <4>1. Bad \in SUBSET Nat
        BY <1>0
      <4>. HIDE DEF Bad
      <4>. QED  BY <2>6, <4>1, LeastNumber
    <3>. HIDE DEF Same
    <3>2. i \in 1..n /\ f[i] = g[i] /\ ~Same(i) /\ i - 1 \notin Bad
      BY <1>0, <3>1
    <3>. USE DEF Same
    <3>3. i # 1
      BY <2>5, <3>2
    <3>4. i \in 2..n /\ i - 1 \in 1..n
      BY <1>0, <3>2, <3>3
    <3>5. f[i - 1] = g[i - 1] /\ s[i] = t[i]
      <4>1. PICK x \in Text, u \in Text : x = f[i - 1] /\ u = g[i - 1]
        BY <2>5, <3>4
      <4>2. PICK y \in Seq(Nat \ {c}), v \in Seq(Nat \ {c}) : y = s[i] /\ v = t[i]
        BY <2>4, <3>2
      <4>3. x \o (<<c>> \o y) = u \o (<<c>> \o v)
        BY <2>5, <3>2, <3>4, <4>1, <4>2
      <4>4. x = u /\ y = v
        BY <4>3, LastSeparator
      <4>. QED  BY <4>1, <4>2, <4>4
    <3>6. Same(i - 1)
      BY <3>2, <3>4, <3>5
    <3>7. \A j \in 1..i : j \in 1..(i - 1) \/ j = i
      BY <3>4
    <3>. QED  BY <3>2, <3>5, <3>6, <3>7
  <2>7. n \in 1..n
    BY <1>0, <1>2
  <2>8. Same(n)
    BY <2>2, <2>3, <2>6, <2>7
  <2>. QED  BY <2>8, SeqEqual DEF n
<1>. QED  BY <1>1, <1>2

-----------------------------------------------------------------------------
(* The keys of requests whose texts contain no separator.                  *)

LEMMA Without ==
    ASSUME NEW S \in SUBSET Nat, NEW text \in Text, S \cap Range(text) = {}
    PROVE  text \in Seq(Nat \ S)
<1>1. text \in Seq(Nat) /\ Len(text) \in Nat /\ DOMAIN text = 1..Len(text)
  BY DEF Text
<1>2. ASSUME NEW i \in 1..Len(text)
      PROVE  text[i] \in Nat \ S
  <2>1. text[i] \in Nat
    BY <1>1
  <2>2. text[i] \in Range(text)
    BY <1>1 DEF Range
  <2>. QED  BY <2>1, <2>2
<1>3. text = [i \in 1..Len(text) |-> text[i]]
  BY <1>1
<1>. QED  BY <1>1, <1>2, <1>3

LEMMA FunctionSeq ==
    ASSUME NEW S, NEW n \in Nat, NEW f \in [1..n -> S]
    PROVE  f \in Seq(S) /\ Len(f) = n
OBVIOUS

LEMMA TextsWithout ==
    ASSUME NEW S \in SUBSET Nat, NEW texts \in Seq(Text), \A t \in Range(texts) : S \cap Range(t) = {}
    PROVE  texts \in Seq(Seq(Nat \ S))
<1>1. Len(texts) \in Nat /\ DOMAIN texts = 1..Len(texts) /\ texts = [i \in 1..Len(texts) |-> texts[i]]
  OBVIOUS
<1>2. ASSUME NEW i \in 1..Len(texts)
      PROVE  texts[i] \in Seq(Nat \ S)
  <2>1. texts[i] \in Text
    OBVIOUS
  <2>2. texts[i] \in Range(texts)
    BY <1>1 DEF Range
  <2>. QED  BY <2>1, <2>2, Without
<1>. QED  BY <1>1, <1>2

\* An item has the characters of its name and its text, and determines its text.
LEMMA ItemType ==
    ASSUME NEW S \in SUBSET Nat, Equals \in S, NEW name \in Seq(S), NEW text \in Seq(S)
    PROVE  Item(name, text) \in Seq(S)
BY DEF Item

LEMMA ItemSame ==
    ASSUME NEW name \in Text, NEW a \in Text, NEW b \in Text, Item(name, a) = Item(name, b)
    PROVE  a = b
<1>1. name \o <<Equals>> \in Seq(Nat) /\ a \in Seq(Nat) /\ b \in Seq(Nat)
  BY DEF Text, Equals
<1>2. (name \o <<Equals>>) \o a = (name \o <<Equals>>) \o b
  BY DEF Item
<1>. QED  BY <1>1, <1>2, SameRest

LEMMA PlainIsText == Plain \subseteq Text
BY SeqMonotonic DEF Plain, Text

\* The parts of two keys have the same names, and no separator in their texts.
Alike(n, a, b) ==
    /\ DOMAIN a = 1..n /\ DOMAIN b = 1..n
    /\ \A i \in 1..n : /\ a[i][1] \in Words /\ a[i][1] = b[i][1]
                       /\ a[i][2] \in Plain /\ b[i][2] \in Plain

\* A key determines the texts of its parts.
LEMMA KeySame ==
    ASSUME NEW n \in Nat, NEW a, NEW b, Alike(n, a, b), _key(a) = _key(b)
    PROVE  \A i \in 1..n : a[i][2] = b[i][2]
<1>. DEFINE s == [i \in 1..n |-> Item(Spelling[a[i][1]], a[i][2])]
            t == [i \in 1..n |-> Item(Spelling[b[i][1]], b[i][2])]
<1>1. Nat \ {Bar} \in SUBSET Nat /\ Equals \in Nat \ {Bar} /\ Bar \in Nat
  BY DEF Bar, Equals
<1>2. ASSUME NEW i \in 1..n
      PROVE  /\ Spelling[a[i][1]] \in Plain /\ Spelling[b[i][1]] = Spelling[a[i][1]]
             /\ Item(Spelling[a[i][1]], a[i][2]) \in Seq(Nat \ {Bar})
             /\ Item(Spelling[b[i][1]], b[i][2]) \in Seq(Nat \ {Bar})
  <2>1. Spelling[a[i][1]] \in Plain /\ Spelling[b[i][1]] = Spelling[a[i][1]]
    BY SpellingAssumption DEF Alike
  <2>2. a[i][2] \in Plain /\ b[i][2] \in Plain
    BY DEF Alike
  <2>. QED  BY <1>1, <2>1, <2>2, ItemType DEF Plain
<1>3. s \in Seq(Seq(Nat \ {Bar})) /\ Len(s) = n /\ t \in Seq(Seq(Nat \ {Bar})) /\ Len(t) = n
  <2>1. s \in [1..n -> Seq(Nat \ {Bar})] /\ t \in [1..n -> Seq(Nat \ {Bar})]
    BY <1>2
  <2>. HIDE DEF s, t
  <2>. QED  BY <2>1, FunctionSeq
<1>4. _key(a) = Joined(s, Bar) /\ _key(b) = Joined(t, Bar)
  BY DEF _key, Alike
<1>5. \A i \in 1..n : s[i] = Item(Spelling[a[i][1]], a[i][2]) /\ t[i] = Item(Spelling[b[i][1]], b[i][2])
  OBVIOUS
<1>. HIDE DEF s, t
<1>6. s = t
  BY <1>1, <1>3, <1>4, JoinedSame
<1>7. ASSUME NEW i \in 1..n
      PROVE  a[i][2] = b[i][2]
  <2>1. Item(Spelling[a[i][1]], a[i][2]) = Item(Spelling[a[i][1]], b[i][2])
    BY <1>2, <1>5, <1>6
  <2>2. Spelling[a[i][1]] \in Text /\ a[i][2] \in Text /\ b[i][2] \in Text
    BY <1>2, PlainIsText DEF Alike
  <2>. QED  BY <2>1, <2>2, ItemSame
<1>. QED  BY <1>7

InParameter == Seq(Nat \ {Bar, Comma})

\* What a dict of parameters is rendered to is a part of a key, and determines the values.
LEMMA CombinationType ==
    ASSUME NEW parameters, parameters \in Seq(Range(parameters)),
           \A i \in DOMAIN parameters : parameters[i].name \in InParameter,
           NEW v, \A i \in DOMAIN parameters : v[i] \in InParameter
    PROVE  Combination(parameters, v) \in Plain
<1>. DEFINE n == Len(parameters)
            s == [i \in 1..n |-> Item(parameters[i].name, v[i])]
            S == Nat \ {Bar}
<1>1. n \in Nat /\ DOMAIN parameters = 1..n /\ (parameters # <<>> => n # 0)
  BY ListShape, EmptySeq
<1>2. S \in SUBSET Nat /\ Equals \in S /\ Comma \in S
  BY DEF Bar, Equals, Comma
<1>3. InParameter \subseteq Seq(S)
  BY SeqMonotonic DEF InParameter
<1>. HIDE DEF S, n
<1>4. \A i \in 1..n : Item(parameters[i].name, v[i]) \in Seq(S)
  BY <1>1, <1>2, <1>3, ItemType
<1>5. s \in Seq(Seq(S)) /\ Len(s) = n
  BY <1>1, <1>4
<1>6. CASE parameters = <<>>
  BY <1>6, SpellingAssumption DEF Combination, Words
<1>7. CASE parameters # <<>>
  <2>1. Combination(parameters, v) = Joined(s, Comma)
    BY <1>1, <1>7 DEF Combination
  <2>2. s # <<>>
    BY <1>1, <1>5, <1>7
  <2>. HIDE DEF s
  <2>3. Joined(s, Comma) \in Seq(S)
    BY <1>2, <1>5, <2>2, JoinedType
  <2>. QED  BY <2>1, <2>3 DEF S, Plain
<1>. QED  BY <1>6, <1>7

LEMMA CombinationSame ==
    ASSUME NEW parameters, parameters \in Seq(Range(parameters)),
           \A i \in DOMAIN parameters : parameters[i].name \in InParameter,
           NEW v, \A i \in DOMAIN parameters : v[i] \in InParameter,
           NEW w, \A i \in DOMAIN parameters : w[i] \in InParameter,
           Combination(parameters, v) = Combination(parameters, w)
    PROVE  \A i \in DOMAIN parameters : v[i] = w[i]
<1>. DEFINE n == Len(parameters)
            s == [i \in 1..n |-> Item(parameters[i].name, v[i])]
            t == [i \in 1..n |-> Item(parameters[i].name, w[i])]
            S == Nat \ {Comma}
<1>1. n \in Nat /\ DOMAIN parameters = 1..n
  BY ListShape
<1>2. S \in SUBSET Nat /\ Equals \in S /\ Comma \in Nat
  BY DEF Equals, Comma
<1>3. InParameter \subseteq Seq(S) /\ InParameter \subseteq Text
  BY SeqMonotonic DEF InParameter, Text
<1>. HIDE DEF S, n
<1>4. \A i \in 1..n : Item(parameters[i].name, v[i]) \in Seq(S) /\ Item(parameters[i].name, w[i]) \in Seq(S)
  BY <1>1, <1>2, <1>3, ItemType
<1>5. s \in Seq(Seq(S)) /\ Len(s) = n /\ t \in Seq(Seq(S)) /\ Len(t) = n
  <2>1. s \in [1..n -> Seq(S)] /\ t \in [1..n -> Seq(S)]
    BY <1>4
  <2>. HIDE DEF s, t
  <2>. QED  BY <1>1, <2>1, FunctionSeq
<1>6. parameters # <<>> => Joined(s, Comma) = Joined(t, Comma)
  BY <1>1 DEF Combination
<1>7. \A i \in 1..n : s[i] = Item(parameters[i].name, v[i]) /\ t[i] = Item(parameters[i].name, w[i])
  OBVIOUS
<1>. HIDE DEF s, t
<1>8. ASSUME NEW i \in DOMAIN parameters
      PROVE  v[i] = w[i]
  <2>1. parameters # <<>>
    BY EmptySeq
  <2>2. s = t
    BY <1>2, <1>5, <1>6, <2>1, JoinedSame DEF S
  <2>3. Item(parameters[i].name, v[i]) = Item(parameters[i].name, w[i])
    BY <1>1, <1>7, <2>2
  <2>4. parameters[i].name \in Text /\ v[i] \in Text /\ w[i] \in Text
    BY <1>3
  <2>. QED  BY <2>3, <2>4, ItemSame
<1>. QED  BY <1>8

DistinctKeys(children) == \A s, t \in children : s.key = t.key => s = t

\* The children of the picks, and keys that tell the picked values.
KeyedBy(children, lists, key, type) ==
    children = {[pick |-> p, key |-> key[p], type |-> type] : p \in Picks(lists)}
Tells(lists, key) == \A p, q \in Picks(lists) : key[p] = key[q] => Values(lists, p) = Values(lists, q)

\* Children are distinguished by their keys if the keys determine the picked values.
LEMMA DistinctByKey ==
    ASSUME NEW lists, \A i \in DOMAIN lists : IsInjective(lists[i]), NEW type, NEW key, Tells(lists, key),
           NEW children, KeyedBy(children, lists, key, type)
    PROVE  DistinctKeys(children)
<1>1. \A p, q \in Picks(lists) : key[p] = key[q] => p = q
  BY ValuesDistinct DEF Tells
<1>. QED  BY <1>1 DEF DistinctKeys, KeyedBy

\* The values of a list of n of them.
LEMMA ListedIn ==
    ASSUME NEW S, NEW n, NEW v \in Seq(S), DOMAIN v = 1..n
    PROVE  \A i \in 1..n : v[i] \in S
<1>1. v \in [1..Len(v) -> S]
  BY LenProperties
<1>. QED  BY <1>1

\* The texts of a request.
LEMMA RequestTexts ==
    ASSUME NEW c, IsConfig(c), Separated(c)
    PROVE  /\ c.strategies \in Seq(Plain) /\ c.scenarios \in Seq(Plain) /\ c.symbols \in Seq(Plain)
           /\ c.seeds \in Seq(Plain) /\ c.participant_counts \in Seq(Plain)
           /\ c.volatility_ranges \in Seq(Plain) /\ c.sweep.strategy \in Plain
<1>1. Bar \in Nat /\ {Bar} \in SUBSET Nat
  BY DEF Bar
<1>2. ASSUME NEW texts \in Seq(Text), \A t \in Range(texts) : Bar \notin Range(t)
      PROVE  texts \in Seq(Plain)
  <2>1. \A t \in Range(texts) : {Bar} \cap Range(t) = {}
    BY <1>2
  <2>. QED  BY <1>1, <2>1, TextsWithout DEF Plain
<1>3. c.sweep.strategy \in Plain
  <2>1. c.sweep.strategy \in Text /\ {Bar} \cap Range(c.sweep.strategy) = {}
    BY DEF IsConfig, Separated
  <2>. QED  BY <1>1, <2>1, Without DEF Plain
<1>. QED  BY <1>2, <1>3 DEF IsConfig, Separated

LEMMA SymbolsPart ==
    ASSUME NEW c, IsConfig(c), Separated(c), Expandable(c)
    PROVE  Joined(c.symbols, Plus) \in Plain
<1>1. Nat \ {Bar} \in SUBSET Nat /\ Plus \in Nat \ {Bar}
  BY DEF Bar, Plus
<1>2. c.symbols \in Seq(Seq(Nat \ {Bar})) /\ c.symbols # <<>>
  BY RequestTexts DEF Plain, Expandable
<1>. QED  BY <1>1, <1>2, JoinedType DEF Plain

\* The children of a request that repeats no text have keys of their own.
LEMMA BacktestKeys ==
    ASSUME NEW c, IsConfig(c), RepeatFree(c), Separated(c), Expandable(c)
    PROVE  DistinctKeys(_strategy_backtests(c))
<1>. DEFINE lists == <<c.seeds, c.strategies>>
            none == Spelling["none"]
            symbols == Joined(c.symbols, Plus)
            Parts(v) == <<<<"parameters", none>>, <<"seed", v[1]>>, <<"strategy", v[2]>>, <<"symbols", symbols>>>>
            key == [p \in Picks(lists) |-> _key(Parts(Values(lists, p)))]
<1>1. DOMAIN lists = 1..2 /\ lists \in Seq(Seq(Plain)) /\ \A i \in DOMAIN lists : IsInjective(lists[i])
  BY RequestTexts DEF RepeatFree
<1>2. none \in Plain /\ symbols \in Plain
  BY SymbolsPart, SpellingAssumption DEF Words
<1>3. KeyedBy(_strategy_backtests(c), lists, key, "backtest")
  BY DEF _strategy_backtests, Product, KeyedBy
<1>. HIDE DEF lists, none, symbols
<1>4. ASSUME NEW p \in Picks(lists), NEW q \in Picks(lists), key[p] = key[q]
      PROVE  Values(lists, p) = Values(lists, q)
  <2>1. PICK v, w : v = Values(lists, p) /\ w = Values(lists, q)
    OBVIOUS
  <2>2. v \in Seq(Plain) /\ w \in Seq(Plain) /\ DOMAIN v = 1..2 /\ DOMAIN w = 1..2
    BY <1>1, <2>1, ValuesType DEF Values
  <2>3. _key(Parts(v)) = _key(Parts(w))
    BY <1>4, <2>1
  <2>4. \A i \in 1..2 : v[i] \in Plain /\ w[i] \in Plain
    BY <2>2, ListedIn
  <2>5. Alike(4, Parts(v), Parts(w))
    BY <1>2, <2>4 DEF Alike, Words
  <2>6. \A i \in 1..4 : Parts(v)[i][2] = Parts(w)[i][2]
    <3>. HIDE DEF Parts
    <3>. QED  BY <2>3, <2>5, KeySame
  <2>7. v[1] = w[1] /\ v[2] = w[2]
    BY <2>6
  <2>. QED  BY <2>1, <2>2, <2>7
<1>. HIDE DEF key
<1>5. Tells(lists, key)
  BY <1>4 DEF Tells
<1>. QED  BY <1>1, <1>3, <1>5, DistinctByKey

LEMMA SessionKeys ==
    ASSUME NEW c, IsConfig(c), RepeatFree(c), Separated(c)
    PROVE  DistinctKeys(_scenario_sessions(c))
<1>. DEFINE strategies == IF c.strategies = <<>> THEN <<Spelling["session_participants"]>> ELSE c.strategies
            lists == <<c.participant_counts, c.scenarios, c.seeds, strategies, c.volatility_ranges>>
            Parts(v) == <<<<"participants", v[1]>>, <<"scenario", v[2]>>, <<"seed", v[3]>>,
                          <<"strategy", v[4]>>, <<"volatility", v[5]>>>>
            key == [p \in Picks(lists) |-> _key(Parts(Values(lists, p)))]
<1>1. IsInjective(strategies) /\ strategies \in Seq(Plain)
  <2>1. CASE c.strategies = <<>>
    <3>1. Spelling["session_participants"] \in Plain
      BY SpellingAssumption DEF Words
    <3>. QED  BY <2>1, <3>1 DEF IsInjective
  <2>2. CASE c.strategies # <<>>
    BY <2>2, RequestTexts DEF RepeatFree
  <2>. QED  BY <2>1, <2>2
<1>2. KeyedBy(_scenario_sessions(c), lists, key, "session")
  BY DEF _scenario_sessions, Product, KeyedBy
<1>. HIDE DEF strategies
<1>3. DOMAIN lists = 1..5 /\ lists \in Seq(Seq(Plain)) /\ \A i \in DOMAIN lists : IsInjective(lists[i])
  <2>1. /\ c.participant_counts \in Seq(Plain) /\ c.scenarios \in Seq(Plain) /\ c.seeds \in Seq(Plain)
        /\ c.volatility_ranges \in Seq(Plain)
    BY RequestTexts
  <2>2. lists \in Seq(Seq(Plain))
    BY <1>1, <2>1
  <2>. QED  BY <1>1, <2>2 DEF RepeatFree
<1>. HIDE DEF lists
<1>4. ASSUME NEW p \in Picks(lists), NEW q \in Picks(lists), key[p] = key[q]
      PROVE  Values(lists, p) = Values(lists, q)
  <2>1. PICK v, w : v = Values(lists, p) /\ w = Values(lists, q)
    OBVIOUS
  <2>2. v \in Seq(Plain) /\ w \in Seq(Plain) /\ DOMAIN v = 1..5 /\ DOMAIN w = 1..5
    BY <1>3, <2>1, ValuesType DEF Values
  <2>3. _key(Parts(v)) = _key(Parts(w))
    BY <1>4, <2>1
  <2>4. \A i \in 1..5 : v[i] \in Plain /\ w[i] \in Plain
    BY <2>2, ListedIn
  <2>5. Alike(5, Parts(v), Parts(w))
    BY <2>4 DEF Alike, Words
  <2>6. \A i \in 1..5 : Parts(v)[i][2] = Parts(w)[i][2]
    <3>. HIDE DEF Parts
    <3>. QED  BY <2>3, <2>5, KeySame
  <2>7. v[1] = w[1] /\ v[2] = w[2] /\ v[3] = w[3] /\ v[4] = w[4] /\ v[5] = w[5]
    BY <2>6
  <2>. QED  BY <2>1, <2>2, <2>7
<1>. HIDE DEF key
<1>5. Tells(lists, key)
  BY <1>4 DEF Tells
<1>. QED  BY <1>2, <1>3, <1>5, DistinctByKey

LEMMA ParametersShape ==
    ASSUME NEW parameters, IsParameters(parameters),
           \A p \in Range(parameters) : /\ IsInjective(p.values)
                                        /\ \A text \in {p.name} \cup Range(p.values) : {Bar, Comma} \cap Range(text) = {}
    PROVE  \A i \in DOMAIN parameters :
               /\ parameters[i].name \in InParameter /\ parameters[i].values \in Seq(InParameter)
               /\ IsInjective(parameters[i].values)
<1>1. {Bar, Comma} \in SUBSET Nat
  BY DEF Bar, Comma
<1>. SUFFICES ASSUME NEW i \in DOMAIN parameters
              PROVE  /\ parameters[i].name \in InParameter /\ parameters[i].values \in Seq(InParameter)
                     /\ IsInjective(parameters[i].values)
  OBVIOUS
<1>2. PICK p \in Range(parameters) : p = parameters[i]
  BY DEF Range
<1>3. p.name \in Text /\ p.values \in Seq(Text)
  BY <1>2 DEF IsParameters
<1>4. p.name \in InParameter
  BY <1>1, <1>3, Without DEF InParameter
<1>5. p.values \in Seq(InParameter)
  BY <1>1, <1>3, TextsWithout DEF InParameter
<1>. QED  BY <1>2, <1>4, <1>5

LEMMA SweepKeys ==
    ASSUME NEW c, IsConfig(c), RepeatFree(c), Separated(c), Expandable(c), c.type = "parameter_sweep"
    PROVE  DistinctKeys(_parameter_sweep(c))
<1>. DEFINE strategy == IF c.sweep.on THEN c.sweep.strategy ELSE Head(c.strategies)
            parameters == IF c.sweep.on THEN c.sweep.parameters ELSE c.strategy_parameters
            symbols == Joined(c.symbols, Plus)
            lists == Append([i \in DOMAIN parameters |-> parameters[i].values], c.seeds)
            Parts(v) == <<<<"parameters", Combination(parameters, v)>>, <<"seed", Last(v)>>,
                          <<"strategy", strategy>>, <<"symbols", symbols>>>>
            key == [p \in Picks(lists) |-> _key(Parts(Values(lists, p)))]
            n == Len(parameters)
<1>1. strategy \in Plain /\ symbols \in Plain
  <2>1. c.strategies \in Seq(Plain) /\ c.sweep.strategy \in Plain
    BY RequestTexts
  <2>. QED  BY <2>1, SymbolsPart DEF Expandable
<1>2. /\ IsParameters(parameters)
      /\ \A i \in DOMAIN parameters :
             /\ parameters[i].name \in InParameter /\ parameters[i].values \in Seq(InParameter)
             /\ IsInjective(parameters[i].values)
  <2>1. CASE c.sweep.on
    <3>1. IsParameters(c.sweep.parameters)
      BY DEF IsConfig
    <3>. QED  BY <2>1, <3>1, ParametersShape DEF RepeatFree, Separated
  <2>2. CASE ~c.sweep.on
    <3>1. IsParameters(c.strategy_parameters)
      BY DEF IsConfig
    <3>. QED  BY <2>2, <3>1, ParametersShape DEF RepeatFree, Separated
  <2>. QED  BY <2>1, <2>2
<1>3. KeyedBy(_parameter_sweep(c), lists, key, "backtest")
  BY DEF _parameter_sweep, Product, KeyedBy
<1>. HIDE DEF strategy, symbols, parameters
<1>4. n \in Nat /\ DOMAIN parameters = 1..n /\ parameters \in Seq(Range(parameters))
  BY <1>2, ListShape DEF IsParameters
<1>5. /\ DOMAIN lists = 1..(n + 1) /\ lists[n + 1] = c.seeds /\ lists = [i \in 1..(n + 1) |-> lists[i]]
      /\ \A i \in 1..n : lists[i] = parameters[i].values
  <2>1. [i \in DOMAIN parameters |-> parameters[i].values] \in Seq(Seq(InParameter))
    BY <1>2, <1>4
  <2>. QED  BY <1>4, <2>1
<1>6. c.seeds \in Seq(Plain) /\ IsInjective(c.seeds)
  BY RequestTexts DEF RepeatFree
<1>. HIDE DEF lists, n
<1>7. \A i \in DOMAIN lists : IsInjective(lists[i])
  <2>1. \A i \in 1..(n + 1) : i \in 1..n \/ i = n + 1
    BY <1>4
  <2>2. ASSUME NEW i \in 1..n PROVE IsInjective(lists[i])
    BY <1>2, <1>4, <1>5
  <2>3. IsInjective(lists[n + 1])
    BY <1>5, <1>6
  <2>. QED  BY <1>5, <2>1, <2>2, <2>3
<1>8. ASSUME NEW p \in Picks(lists)
      PROVE  /\ Values(lists, p) = [i \in 1..(n + 1) |-> Values(lists, p)[i]]
             /\ Len(Values(lists, p)) = n + 1 /\ Values(lists, p)[n + 1] \in Plain
             /\ \A i \in 1..n : Values(lists, p)[i] \in InParameter
  <2>1. Values(lists, p) = [i \in 1..(n + 1) |-> lists[i][p[i]]]
    BY <1>5 DEF Values
  <2>2. \A i \in 1..(n + 1) : p[i] \in DOMAIN lists[i]
    BY <1>5 DEF Picks
  <2>3. n + 1 \in 1..(n + 1) /\ \A i \in 1..n : i \in 1..(n + 1)
    BY <1>4
  <2>4. c.seeds[p[n + 1]] \in Plain
    BY <1>5, <1>6, <2>2, <2>3
  <2>5. ASSUME NEW i \in 1..n
        PROVE  lists[i][p[i]] \in InParameter
    <3>1. lists[i] \in Seq(InParameter) /\ p[i] \in DOMAIN lists[i]
      BY <1>2, <1>4, <1>5, <2>2, <2>3
    <3>. QED  BY <3>1
  <2>6. PICK v : v = Values(lists, p)
    OBVIOUS
  <2>7. /\ v = [i \in 1..(n + 1) |-> v[i]] /\ v[n + 1] \in Plain
        /\ \A i \in 1..n : v[i] \in InParameter
    BY <1>5, <2>1, <2>3, <2>4, <2>5, <2>6
  <2>8. Len(v) = n + 1
    BY <1>4, <2>7, FunctionList
  <2>. QED  BY <2>6, <2>7, <2>8
<1>9. ASSUME NEW p \in Picks(lists), NEW q \in Picks(lists), key[p] = key[q]
      PROVE  Values(lists, p) = Values(lists, q)
  <2>1. PICK v, w : v = Values(lists, p) /\ w = Values(lists, q)
    OBVIOUS
  <2>2. /\ v = [i \in 1..(n + 1) |-> v[i]] /\ Last(v) = v[n + 1] /\ Last(v) \in Plain
        /\ w = [i \in 1..(n + 1) |-> w[i]] /\ Last(w) = w[n + 1] /\ Last(w) \in Plain
    BY <1>4, <1>8, <2>1 DEF Last
  <2>11. (\A i \in DOMAIN parameters : v[i] \in InParameter) /\ (\A i \in DOMAIN parameters : w[i] \in InParameter)
    BY <1>4, <1>8, <2>1
  <2>3. _key(Parts(v)) = _key(Parts(w))
    BY <1>9, <2>1
  <2>4. \A i \in DOMAIN parameters : parameters[i].name \in InParameter
    BY <1>2
  <2>5. Combination(parameters, v) \in Plain /\ Combination(parameters, w) \in Plain
    BY <1>4, <2>11, <2>4, CombinationType
  <2>6. Alike(4, Parts(v), Parts(w))
    BY <1>1, <2>2, <2>5 DEF Alike, Words
  <2>7. \A i \in 1..4 : Parts(v)[i][2] = Parts(w)[i][2]
    <3>. HIDE DEF Parts
    <3>. QED  BY <2>3, <2>6, KeySame
  <2>8. Combination(parameters, v) = Combination(parameters, w) /\ Last(v) = Last(w)
    BY <2>7
  <2>9. \A i \in 1..n : v[i] = w[i]
    <3>1. \A i \in DOMAIN parameters : v[i] = w[i]
      BY <1>4, <2>11, <2>4, <2>8, CombinationSame
    <3>. QED  BY <1>4, <3>1
  <2>10. \A i \in 1..(n + 1) : v[i] = w[i]
    <3>1. \A i \in 1..(n + 1) : i \in 1..n \/ i = n + 1
      BY <1>4
    <3>. QED  BY <2>2, <2>8, <2>9, <3>1
  <2>. QED  BY <2>1, <2>2, <2>10
<1>. HIDE DEF key
<1>10. Tells(lists, key)
  BY <1>9 DEF Tells
<1>. QED  BY <1>3, <1>7, <1>10, DistinctByKey

\* Only the last of the symbol sets contains a plus, if there are several symbols.
LEMMA SymbolSetsDistinct ==
    ASSUME NEW symbols \in Seq(Plain), symbols # <<>>, IsInjective(symbols),
           \A s \in Range(symbols) : Plus \notin Range(s)
    PROVE  IsInjective(SymbolSets(symbols)) /\ SymbolSets(symbols) \in Seq(Plain)
<1>. DEFINE n == Len(symbols)
            all == Joined(symbols, Plus)
<1>1. n \in Nat /\ DOMAIN symbols = 1..n
  OBVIOUS
<1>2. CASE n > 1
  <2>1. all \in Plain
    <3>1. Nat \ {Bar} \in SUBSET Nat /\ Plus \in Nat \ {Bar}
      BY DEF Bar, Plus
    <3>. QED  BY <3>1, JoinedType DEF Plain
  <2>2. Plus \in Range(all)
    <3>1. symbols \in Seq(Text) /\ Plus \in Nat
      BY PlainIsText, SeqMonotonic DEF Plus
    <3>. QED  BY <1>2, <3>1, JoinedHas
  <2>3. SymbolSets(symbols) = symbols \o <<all>>
    BY <1>2 DEF SymbolSets
  <2>. HIDE DEF all
  <2>4. /\ symbols \o <<all>> \in Seq(Plain) /\ DOMAIN (symbols \o <<all>>) = 1..(n + 1)
        /\ \A i \in 1..(n + 1) : (symbols \o <<all>>)[i] = IF i = n + 1 THEN all ELSE symbols[i]
    BY <1>1, <2>1
  <2>5. \A i \in 1..n : symbols[i] # all
    BY <1>1, <2>2 DEF Range
  <2>6. \A i, j \in 1..n : symbols[i] = symbols[j] => i = j
    BY <1>1 DEF IsInjective
  <2>7. ASSUME NEW i \in 1..(n + 1), NEW j \in 1..(n + 1), (symbols \o <<all>>)[i] = (symbols \o <<all>>)[j]
        PROVE  i = j
    BY <1>1, <2>4, <2>5, <2>6, <2>7
  <2>. QED  BY <2>3, <2>4, <2>7 DEF IsInjective
<1>3. CASE ~(n > 1)
  <2>1. SymbolSets(symbols) = symbols \o <<>>
    BY <1>3 DEF SymbolSets
  <2>. QED  BY <2>1
<1>. QED  BY <1>2, <1>3

LEMMA SymbolKeys ==
    ASSUME NEW c, IsConfig(c), RepeatFree(c), Separated(c), Expandable(c)
    PROVE  DistinctKeys(_multi_symbol_sweep(c))
<1>. DEFINE sets == SymbolSets(c.symbols)
            lists == <<c.seeds, c.strategies, sets>>
            Parts(v) == <<<<"seed", v[1]>>, <<"strategy", v[2]>>, <<"symbols", v[3]>>>>
            key == [p \in Picks(lists) |-> _key(Parts(Values(lists, p)))]
<1>1. IsInjective(sets) /\ sets \in Seq(Plain)
  BY RequestTexts, SymbolSetsDistinct DEF RepeatFree, Separated, Expandable
<1>2. KeyedBy(_multi_symbol_sweep(c), lists, key, "backtest")
  BY DEF _multi_symbol_sweep, Product, KeyedBy
<1>. HIDE DEF sets
<1>3. DOMAIN lists = 1..3 /\ lists \in Seq(Seq(Plain)) /\ \A i \in DOMAIN lists : IsInjective(lists[i])
  BY <1>1, RequestTexts DEF RepeatFree
<1>. HIDE DEF lists
<1>4. ASSUME NEW p \in Picks(lists), NEW q \in Picks(lists), key[p] = key[q]
      PROVE  Values(lists, p) = Values(lists, q)
  <2>1. PICK v, w : v = Values(lists, p) /\ w = Values(lists, q)
    OBVIOUS
  <2>2. v \in Seq(Plain) /\ w \in Seq(Plain) /\ DOMAIN v = 1..3 /\ DOMAIN w = 1..3
    BY <1>3, <2>1, ValuesType DEF Values
  <2>3. _key(Parts(v)) = _key(Parts(w))
    BY <1>4, <2>1
  <2>4. \A i \in 1..3 : v[i] \in Plain /\ w[i] \in Plain
    BY <2>2, ListedIn
  <2>5. Alike(3, Parts(v), Parts(w))
    BY <2>4 DEF Alike, Words
  <2>6. \A i \in 1..3 : Parts(v)[i][2] = Parts(w)[i][2]
    <3>. HIDE DEF Parts
    <3>. QED  BY <2>3, <2>5, KeySame
  <2>7. v[1] = w[1] /\ v[2] = w[2] /\ v[3] = w[3]
    BY <2>6
  <2>. QED  BY <2>1, <2>2, <2>7
<1>. HIDE DEF key
<1>5. Tells(lists, key)
  BY <1>4 DEF Tells
<1>. QED  BY <1>2, <1>3, <1>5, DistinctByKey

\* No two children of one request have the same key, whatever its type, if no list repeats a
\* text and no text contains a separator: link_tournament_child, an upsert by the key, never
\* replaces a link.  The key is the text that _key renders without escaping anything.
THEOREM ChildKeysDistinct ==
    ASSUME NEW c, IsConfig(c), RepeatFree(c), Separated(c), Expandable(c)
    PROVE  DistinctKeys(expand_tournament(c))
<1>1. CASE c.type = "strategy_vs_strategy"
  BY <1>1, BacktestKeys DEF expand_tournament
<1>2. CASE c.type = "strategy_vs_scenario"
  BY <1>2, SessionKeys DEF expand_tournament
<1>3. CASE c.type = "parameter_sweep"
  BY <1>3, SweepKeys DEF expand_tournament
<1>4. CASE c.type = "multi_symbol_sweep"
  BY <1>4, SymbolKeys DEF expand_tournament
<1>. QED  BY <1>1, <1>2, <1>3, <1>4 DEF IsConfig

-----------------------------------------------------------------------------
(* Every child is linked.                                                  *)

\* The steps of the creating request.
LEMMA CreatorSteps ==
    ASSUME Next
    PROVE  \/ UNCHANGED <<creator, links>> \/ (\E c \in Configs : CreateTournament(c)) \/ Create
           \/ \E r \in Runs : DeleteChild(r)
BY Zenon DEF Next, Work, ClientWork, Poll, Open, Start, FailRun, Complete, FindDone, FindFailed, Find,
       MarkCompleted, MarkFailed, Leave, Claim, Aggregate, Crash, Requeue, GetReport,
       CancelTournament, CancelInQueue, CancelRead, CancelWrite, EndCancel, WorkerStep, ClientStep,
       creation, vars

\* Only the request that creates the children brings a record into the store.
LEMMA StoredBefore ==
    ASSUME TournamentInv, Next, ~CreateChild, NEW r \in Runs, record'[r].status \notin {"none", "deleted"}
    PROVE  Stored(r)
<1>1. record \in [Runs -> Record]
  BY DEF TournamentInv, TournamentTypeOK
<1>2. \A q \in Runs : \A status : SetStatus(q, status) => Stored(r)
  BY <1>1 DEF SetStatus, Stored
<1>3. ASSUME NEW w \in Workers, Start(w) \/ FailRun(w) \/ Complete(w)
      PROVE  Stored(r)
  <2>1. job[w] \in Runs
    BY <1>3, OwnRun DEF Start, FailRun, Complete, Busy, TournamentInv
  <2>2. CASE Complete(w)
    BY <1>1, <2>1, <2>2 DEF Complete, Stored
  <2>. QED  BY <1>2, <1>3, <2>1, <2>2 DEF Start, FailRun
<1>4. CASE CancelWrite
  BY <1>2, <1>4 DEF CancelWrite, TournamentInv, TournamentTypeOK
<1>5. CASE \E q \in Runs : DeleteChild(q)
  BY <1>1, <1>5 DEF DeleteChild, Absent, Stored
<1>6. CASE UNCHANGED record
  BY <1>6 DEF Stored
<1>. QED  BY <1>3, <1>4, <1>5, <1>6, RecordSteps

LEMMA KeyNext ==
    ASSUME TournamentInv, KeyInv, Next, \A c \in Configs : RepeatFree(c) /\ Separated(c)
    PROVE  KeyInv'
<1>. USE DEF TournamentInv
<1>1. CASE \E c \in Configs : CreateTournament(c)
  <2>1. PICK c \in Configs : CreateTournament(c)
    BY <1>1
  <2>2. /\ creator'.point = "next" /\ creator'.todo = expand_tournament(c) /\ creator.point = "idle"
        /\ UNCHANGED <<record, links>>
    BY <2>1 DEF CreateTournament, TournamentTypeOK, LinkInv
  <2>3. (\A r \in Runs : record[r].status = "none") /\ links = {}
    BY <2>2, LinkRuns DEF KeyInv, LinkInv
  <2>4. \A s, t \in expand_tournament(c) : s.key = t.key => s = t
    BY <2>1, ChildKeysDistinct, ConfigsAssumption DEF CreateTournament, DistinctKeys
  <2>. QED  BY <2>2, <2>3, <2>4 DEF KeyInv, Stored
<1>2. CASE CreateChild
  <2>1. PICK s \in creator.todo, r \in Runs :
            /\ creator.point = "next" /\ record[r] = Absent
            /\ record' = [record EXCEPT ![r].status = "pending"]
            /\ creator' = [point |-> "link", todo |-> creator.todo \ {s}, run |-> r, key |-> s.key]
            /\ links' = links
    BY <1>2 DEF CreateChild
  <2>2. \A q \in Runs : q # r => record'[q] = record[q]
    BY <2>1 DEF TournamentTypeOK
  <2>. QED  BY <2>1, <2>2 DEF KeyInv, Stored
<1>3. CASE LinkChild
  <2>1. /\ creator.point = "link" /\ creator' = [creator EXCEPT !.point = "enqueue"]
        /\ links' = {l \in links : l.key # creator.key}
                        \cup {[key |-> creator.key, run |-> creator.run]}
        /\ record' = record
    BY <1>3 DEF LinkChild
  <2>2. creator'.point = "enqueue" /\ creator'.todo = creator.todo
    BY <2>1 DEF TournamentTypeOK
  <2>3. links \subseteq links' /\ \A l \in links' : l \in links \/ (l.key = creator.key /\ l.run = creator.run)
    BY <2>1 DEF KeyInv
  <2>4. \E l \in links' : l.run = creator.run
    <3>1. [key |-> creator.key, run |-> creator.run] \in links'
      BY <2>1
    <3>. QED  BY <3>1
  <2>. QED  BY <2>1, <2>2, <2>3, <2>4 DEF KeyInv, Stored
<1>4. CASE LinkDeleted
  <2>1. creator'.point = "broken" /\ creator'.todo = creator.todo /\ UNCHANGED <<links, record>>
    BY <1>4 DEF LinkDeleted, TournamentTypeOK
  <2>. QED  BY <2>1 DEF KeyInv
<1>5. CASE EnqueueChild
  <2>1. /\ creator.point = "enqueue" /\ creator'.point = "next" /\ creator'.todo = creator.todo
        /\ UNCHANGED <<links, record>>
    BY <1>5 DEF EnqueueChild, TournamentTypeOK
  <2>. QED  BY <2>1 DEF KeyInv, Stored
<1>6. CASE \E r \in Runs : DeleteChild(r)
  <2>1. PICK r \in Runs : DeleteChild(r)
    BY <1>6
  <2>2. /\ links' = {l \in links : l.run # r} /\ creator' = creator
        /\ record'[r].status = "deleted" /\ \A q \in Runs : q # r => record'[q] = record[q]
        /\ record[r].status # "none"
    BY <2>1 DEF DeleteChild, TournamentTypeOK, Absent, Stored
  <2>. QED  BY <2>2 DEF KeyInv, Stored
<1>7. CASE UNCHANGED <<creator, links>> /\ ~CreateChild
  <2>1. \A r \in Runs : Stored(r)' => Stored(r)
    BY <1>7, StoredBefore DEF Stored
  <2>2. creator.point = "idle" => UNCHANGED record
    <3>. SUFFICES ASSUME creator.point = "idle" PROVE UNCHANGED record
      OBVIOUS
    <3>1. \A r \in Runs : record[r].status = "none" /\ rows[r] = "absent"
      BY DEF KeyInv, LinkInv
    <3>2. \A w \in Workers : ~Start(w) /\ ~FailRun(w) /\ ~Complete(w)
      BY <3>1, OwnRun, ProcessesAssumption DEF Start, FailRun, Complete, Busy, OwnerInv
    <3>3. CancelWrite => UNCHANGED record
      BY <3>1 DEF CancelWrite, TournamentTypeOK, SetStatus, Stored
    <3>4. \A r \in Runs : ~DeleteChild(r)
      BY <3>1 DEF DeleteChild, Stored
    <3>. QED  BY <1>7, <3>2, <3>3, <3>4, RecordSteps
  <2>. QED  BY <1>7, <2>1, <2>2 DEF KeyInv, Stored
<1>. QED  BY <1>1, <1>2, <1>3, <1>4, <1>5, <1>6, <1>7, CreatorSteps DEF Create

\* Every child of a tournament that was not deleted is linked to it once the creation is over,
\* whatever the workers and the client have done meanwhile, if no list of a request repeats a
\* text and no text contains a separator: otherwise two children may have one key (_key), and
\* the second link replaces the first (link_tournament_child).
THEOREM EveryChildAlwaysLinked ==
    ASSUME \A c \in Configs : RepeatFree(c) /\ Separated(c)
    PROVE  Spec => []EveryChildLinked
<1>1. Init => KeyInv
  BY DEF Init, KeyInv, Absent
<1>2. TournamentInv /\ KeyInv /\ [Next]_vars => KeyInv'
  <2>1. CASE Next
    BY <2>1, KeyNext
  <2>2. CASE UNCHANGED vars
    BY <2>2 DEF vars, creation, KeyInv, Stored
  <2>. QED  BY <2>1, <2>2
<1>3. KeyInv => EveryChildLinked
  BY DEF KeyInv, EveryChildLinked, Created
<1>. QED  BY <1>1, <1>2, <1>3, TournamentInvariant, PTL DEF Spec

-----------------------------------------------------------------------------
(* The last report.                                                        *)

\* What is disturbed stays so.
LEMMA DisturbedStays ==
    ASSUME TournamentInv, Next, Disturbed
    PROVE  Disturbed'
<1>1. lost \subseteq lost' /\ (overtaken => overtaken')
  <2>1. \/ UNCHANGED <<lost, overtaken>> \/ (\E w \in Workers : Crash(w))
        \/ \E p \in Processes : Aggregate(p)
    BY Zenon DEF Next, Create, Work, ClientWork, CreateTournament, CreateChild, LinkChild, LinkDeleted,
           EnqueueChild, Poll, Open, Start, FailRun, Complete, FindDone, FindFailed, Find,
           MarkCompleted, MarkFailed, Leave, Claim, Requeue, GetReport, CancelTournament,
           CancelInQueue, CancelRead, CancelWrite, EndCancel, DeleteChild, WorkerStep, ClientStep,
           creation, history, vars, Processes
  <2>2. ASSUME NEW w \in Workers, Crash(w)
        PROVE  lost \subseteq lost' /\ overtaken' = overtaken
    BY <2>2 DEF Crash
  <2>3. ASSUME NEW p \in Processes, Aggregate(p)
        PROVE  lost' = lost /\ (overtaken => overtaken')
    <3>1. lost' = lost /\ (ReadChild(p) \/ WriteReport(p))
      BY <2>3 DEF Aggregate
    <3>2. CASE ReadChild(p)
      <4>1. overtaken' = overtaken
        BY <3>2 DEF ReadChild
      <4>. QED  BY <3>1, <4>1, Zenon
    <3>3. CASE WriteReport(p)
      <4>1. overtaken' = (overtaken \/ agg[p].late)
        BY <3>3, Zenon DEF WriteReport
      <4>. QED  BY <3>1, <4>1, Zenon
    <3>. QED  BY <3>1, <3>2, <3>3, Zenon
  <2>4. CASE UNCHANGED <<lost, overtaken>>
    BY <2>4, Zenon
  <2>5. CASE \E w \in Workers : Crash(w)
    BY <2>2, <2>5, Zenon
  <2>. QED  BY <2>1, <2>3, <2>4, <2>5, Zenon
<1>2. ASSUME NEW r \in Runs, record[r].status = "deleted"
      PROVE  record'[r].status = "deleted"
  <2>1. record \in [Runs -> Record]
    BY DEF TournamentInv, TournamentTypeOK
  <2>2. \A q \in Runs : \A status : SetStatus(q, status) => record'[r].status = "deleted"
    BY <1>2, <2>1 DEF SetStatus, Stored
  <2>3. CASE CreateChild
    BY <1>2, <2>1, <2>3 DEF CreateChild, Absent
  <2>4. ASSUME NEW w \in Workers, Start(w) \/ FailRun(w) \/ Complete(w)
        PROVE  record'[r].status = "deleted"
    <3>1. job[w] \in Runs
      BY <2>4, OwnRun DEF Start, FailRun, Complete, Busy, TournamentInv
    <3>2. CASE Complete(w)
      BY <1>2, <2>1, <3>1, <3>2 DEF Complete, Stored
    <3>. QED  BY <2>2, <2>4, <3>1, <3>2 DEF Start, FailRun
  <2>5. CASE CancelWrite
    BY <2>2, <2>5 DEF CancelWrite, TournamentInv, TournamentTypeOK
  <2>6. CASE \E q \in Runs : DeleteChild(q)
    BY <1>2, <2>1, <2>6 DEF DeleteChild, Absent
  <2>7. CASE UNCHANGED record
    BY <1>2, <2>7
  <2>. QED  BY <2>3, <2>4, <2>5, <2>6, <2>7, RecordSteps
<1>. QED  BY <1>1, <1>2 DEF Disturbed

Current == Shown /\ StatusShown /\ Readable /\ LateIfDue /\ KnownIfComing

\* Steps that begin and end no aggregation but by a crash, after which nothing is due or
\* coming that was not before.
LEMMA CurrentKeep ==
    ASSUME TournamentInv, Current, UNCHANGED links, creator' = creator \/ creator'.point # "link",
           tour'.report = tour.report, tour'.status \in {tour.status, "canceled"} \/ tour.status = "none",
           tour'.status # "none" \/ tour'.status = tour.status,
           \A p \in Processes : agg'[p] = agg[p] \/ ~agg'[p].on,
           \A l \in links : Due(l)' => Due(l) /\ record'[l.run] = record[l.run],
           \A l \in links, w \in Workers : Coming(w, l)' => Coming(w, l) /\ record'[l.run] = record[l.run],
           \A r \in Runs : record[r].status # "none" => record'[r].status # "none"
    PROVE  Current'
<1>1. ASSUME NEW L \in SUBSET Link, Snapshot(L)
      PROVE  Snapshot(L)'
  <2>1. \A l \in L : l.run \in Runs
    BY DEF Link
  <2>. QED  BY <1>1, <2>1 DEF Snapshot
<1>2. ASSUME NEW L \in SUBSET Link, NEW read \in Readings, Shows(L, read)
      PROVE  Shows(L, read)'
  <2>1. Snapshot(L)'
    BY <1>1, <1>2 DEF Shows
  <2>2. \A l \in links' : Due(l)' => l \in L /\ read[l.run] = record'[l.run]
    BY <1>2 DEF Shows
  <2>. QED  BY <1>2, <2>1, <2>2 DEF Shows
<1>3. Shown'
  BY <1>2 DEF Current, Shown
<1>4. StatusShown'
  BY DEF Current, StatusShown
<1>5. Readable'
  <2>1. \A p \in Processes : agg[p].links \in SUBSET Link
    BY DEF TournamentInv, TournamentTypeOK, Aggregation
  <2>. QED  BY <1>1, <2>1 DEF Current, Readable, Active
<1>6. ASSUME NEW p \in Processes, NEW l \in links, Behind(p, l)', record'[l.run] = record[l.run]
      PROVE  Behind(p, l) /\ agg'[p] = agg[p]
  BY <1>6 DEF Behind, Active
<1>7. LateIfDue'
  BY <1>6 DEF Current, LateIfDue
<1>8. KnownIfComing'
  <2>. SUFFICES ASSUME NEW l \in links', NEW w \in Workers, Coming(w, l)',
                       NEW p \in Processes, Behind(p, l)'
                PROVE  agg'[p].late \/ p \in agg'[w].older \ {w}
    BY DEF KnownIfComing
  <2>1. Coming(w, l) /\ Behind(p, l) /\ agg'[p] = agg[p]
    BY <1>6
  <2>2. agg'[w] = agg[w]
    BY DEF Coming, Active, Processes
  <2>. QED  BY <2>1, <2>2 DEF Current, KnownIfComing
<1>. QED  BY <1>3, <1>4, <1>5, <1>7, <1>8 DEF Current

\* The creation: a new link is in no report and in no aggregation.
LEMMA CurrentCreation ==
    ASSUME TournamentInv, Current, (\E c \in Configs : CreateTournament(c)) \/ Create
    PROVE  Current'
<1>. USE DEF TournamentInv, history
<1>s. \A l \in links : l.run \in Runs
  BY LinkRuns
<1>1. CASE \E c \in Configs : CreateTournament(c)
  <2>1. PICK c \in Configs : CreateTournament(c)
    BY <1>1
  <2>2. /\ creator'.point = "next" /\ tour'.report = tour.report /\ tour'.status = "running"
        /\ tour.status = "none" /\ UNCHANGED <<rows, record, links, pc, job, agg, dropped>>
    BY <2>1 DEF CreateTournament, TournamentTypeOK
  <2>3. \A l \in links : Due(l)' => Due(l) /\ record'[l.run] = record[l.run]
    BY <2>2 DEF Due, Refreshed, Active
  <2>4. \A l \in links, w \in Workers : Coming(w, l)' => Coming(w, l) /\ record'[l.run] = record[l.run]
    BY <2>2 DEF Coming, Active
  <2>. QED  BY <2>2, <2>3, <2>4, CurrentKeep
<1>2. CASE CreateChild
  <2>0. PICK s \in creator.todo, r \in Runs :
            /\ record[r] = Absent /\ record' = [record EXCEPT ![r].status = "pending"]
            /\ creator' = [point |-> "link", todo |-> creator.todo \ {s}, run |-> r, key |-> s.key]
            /\ UNCHANGED <<rows, links, tour, pc, job, agg, dropped>>
    BY <1>2 DEF CreateChild
  <2>1. /\ record[r] = Absent /\ record' = [record EXCEPT ![r].status = "pending"]
        /\ creator'.point = "link" /\ creator'.run = r
        /\ UNCHANGED <<rows, links, tour, pc, job, agg, dropped>>
    BY <2>0
  <2>2. /\ \A q \in Runs : q # r => record'[q] = record[q]
        /\ record'[r].status = "pending" /\ record[r].status = "none"
    BY <2>1 DEF TournamentTypeOK, Record, Absent
  <2>3. \A l \in links : l.run # r
    BY <2>2 DEF LinkInv
  <2>4. ASSUME NEW L \in SUBSET Link, Snapshot(L)
        PROVE  Snapshot(L)'
    <3>1. \A l \in L : l.run \in Runs /\ l.run # r
      BY <2>2, <2>4 DEF Link, Snapshot
    <3>. QED  BY <2>1, <2>2, <2>4, <3>1 DEF Snapshot
  <2>5. \A l \in links : (Due(l)' <=> Due(l)) /\ record'[l.run] = record[l.run]
    BY <1>s, <2>1, <2>2, <2>3 DEF Due, Refreshed, Active
  <2>6. \A l \in links, w \in Workers : Coming(w, l)' <=> Coming(w, l)
    BY <1>s, <2>1, <2>2, <2>3 DEF Coming, Active
  <2>7. \A l \in links, p \in Processes : Behind(p, l)' <=> Behind(p, l)
    BY <2>1, <2>5 DEF Behind, Active
  <2>8. ASSUME NEW L \in SUBSET Link, NEW read \in Readings, Shows(L, read)
        PROVE  Shows(L, read)'
    BY <2>1, <2>4, <2>5, <2>8 DEF Shows
  <2>9. Shown' /\ StatusShown'
    BY <2>1, <2>5, <2>8 DEF Current, Shown, StatusShown
  <2>10. Readable'
    <3>1. \A p \in Processes : agg[p].links \in SUBSET Link
      BY DEF TournamentTypeOK, Aggregation
    <3>. QED  BY <2>1, <2>4, <3>1 DEF Current, Readable, Active
  <2>11. LateIfDue' /\ KnownIfComing'
    BY <2>1, <2>5, <2>6, <2>7 DEF Current, LateIfDue, KnownIfComing
  <2>. QED  BY <2>9, <2>10, <2>11 DEF Current
<1>3. CASE LinkChild
  <2>. DEFINE new == [key |-> creator.key, run |-> creator.run]
  <2>1. /\ creator.point = "link" /\ creator'.point = "enqueue"
        /\ links' = {l \in links : l.key # creator.key} \cup {new}
        /\ UNCHANGED <<rows, record, tour, pc, job, agg, dropped>>
    BY <1>3 DEF LinkChild, TournamentTypeOK
  <2>2. /\ new.run = creator.run /\ creator.run \in Runs /\ rows[creator.run] = "absent" /\ new \in links'
        /\ \A w \in Workers : job[w] # creator.run
    <3>1. creator.run \in Runs /\ rows[creator.run] = "absent"
      BY <2>1 DEF LinkInv
    <3>2. \A w \in Workers : job[w] # creator.run
      BY <3>1, ProcessesAssumption DEF OwnerInv
    <3>. QED  BY <2>1, <3>1, <3>2
  <2>. HIDE DEF new
  <2>3. ASSUME NEW L, Snapshot(L)
        PROVE  Snapshot(L)'
    <3>1. new \notin L
      BY <2>1, <2>2, <2>3 DEF Snapshot
    <3>. QED  BY <2>1, <2>2, <2>3, <3>1 DEF Snapshot
  <2>4. \A l \in links' : Due(l)' => l \in links /\ Due(l)
    BY <2>1, <2>2 DEF Due, Refreshed, Active
  <2>5. \A l \in links', w \in Workers : Coming(w, l)' => l \in links /\ Coming(w, l)
    BY <2>1, <2>2 DEF Coming, Active
  <2>6. \A l, p : Behind(p, l)' => Behind(p, l)
    BY <2>1 DEF Behind, Active
  <2>7. ASSUME NEW L \in SUBSET Link, NEW read \in Readings, Shows(L, read)
        PROVE  Shows(L, read)'
    BY <2>1, <2>3, <2>4, <2>7 DEF Shows
  <2>8. Shown' /\ StatusShown'
    BY <2>1, <2>4, <2>7 DEF Current, Shown, StatusShown
  <2>9. Readable'
    BY <2>1, <2>3 DEF Current, Readable, Active
  <2>10. LateIfDue' /\ KnownIfComing'
    BY <2>1, <2>4, <2>5, <2>6 DEF Current, LateIfDue, KnownIfComing
  <2>. QED  BY <2>8, <2>9, <2>10 DEF Current
<1>4. CASE LinkDeleted \/ EnqueueChild
  <2>1. /\ creator'.point # "link" /\ UNCHANGED <<record, links, tour, pc, job, agg, dropped>>
        /\ \A r \in Runs : rows'[r] = "settled" => rows[r] = "settled"
    BY <1>4 DEF LinkDeleted, EnqueueChild, TournamentTypeOK
  <2>2. \A l \in links : Due(l)' => Due(l) /\ record'[l.run] = record[l.run]
    BY <1>s, <2>1 DEF Due, Refreshed, Active
  <2>3. \A l \in links, w \in Workers : Coming(w, l)' => Coming(w, l) /\ record'[l.run] = record[l.run]
    BY <2>1 DEF Coming, Active
  <2>. QED  BY <2>1, <2>2, <2>3, CurrentKeep
<1>. QED  BY <1>1, <1>2, <1>3, <1>4 DEF Create

\* A worker on its way to the end of its run, for which nothing is due yet.
LEMMA CurrentRun ==
    ASSUME TournamentInv, Current, NEW w \in Workers,
           Open(w) \/ Start(w) \/ FailRun(w) \/ Complete(w) \/ MarkFailed(w)
    PROVE  Current'
<1>. USE DEF TournamentInv, WorkerStep, creation, history, Goto
<1>s. \A l \in links : l.run \in Runs
  BY LinkRuns
<1>1. /\ job[w] \in Runs /\ pc[w] \notin Refreshing /\ pc'[w] \notin Refreshing
      /\ \A v \in Workers : v # w => pc'[v] = pc[v]
      /\ UNCHANGED <<creator, links, tour, job, agg, dropped>>
  BY OwnRun DEF Open, Start, FailRun, Complete, MarkFailed, Busy, Over, Refreshing, TournamentTypeOK
<1>2. /\ ~Active(w) /\ \A v \in Workers : v # w => job[v] # job[w]
      /\ record[job[w]].status # "none"
  BY <1>1, ProcessesAssumption DEF LinkInv, OwnerInv
<1>3. /\ \A q \in Runs : q # job[w] => record'[q] = record[q] /\ rows'[q] = rows[q]
      /\ record'[job[w]].status # "none"
  BY <1>1, <1>2 DEF Open, Start, FailRun, Complete, MarkFailed, SetStatus, Settle, TournamentTypeOK, Record
<1>4. ASSUME NEW q \in Runs, Refreshed(q)'
      PROVE  q # job[w] /\ Refreshed(q)
  BY <1>1, <1>2, <1>3, <1>4 DEF Refreshed, Active
<1>5. \A l \in links : Due(l)' => Due(l) /\ record'[l.run] = record[l.run]
  BY <1>s, <1>3, <1>4 DEF Due
<1>6. \A l \in links, v \in Workers : Coming(v, l)' => Coming(v, l) /\ record'[l.run] = record[l.run]
  BY <1>s, <1>1, <1>2, <1>3 DEF Coming, Active
<1>7. \A r \in Runs : record[r].status # "none" => record'[r].status # "none"
  BY <1>3
<1>. QED  BY <1>1, <1>5, <1>6, <1>7, CurrentKeep

\* A worker that takes a run or gives it up: what was due stays so.
LEMMA CurrentOwners ==
    ASSUME TournamentInv, Current, lost' = {},
           \/ \E w \in Workers : MarkCompleted(w) \/ Leave(w) \/ Crash(w) \/ \E r \in Runs : Claim(w, r)
           \/ \E r \in Runs : Requeue(r)
    PROVE  Current'
<1>. USE DEF TournamentInv, WorkerStep, creation, history, Goto
<1>s. \A l \in links : l.run \in Runs
  BY LinkRuns
<1>k. ASSUME UNCHANGED <<creator, links, tour, record>>,
             \A p \in Processes : agg'[p] = agg[p] \/ ~agg'[p].on,
             \A q \in Runs : Refreshed(q)' => Refreshed(q),
             \A v \in Workers : agg'[v].on => Active(v) /\ job'[v] = job[v]
      PROVE  Current'
  <2>1. \A l \in links : Due(l)' => Due(l) /\ record'[l.run] = record[l.run]
    BY <1>s, <1>k DEF Due
  <2>2. \A l \in links, v \in Workers : Coming(v, l)' => Coming(v, l) /\ record'[l.run] = record[l.run]
    BY <1>k DEF Coming, Active
  <2>. QED  BY <1>k, <2>1, <2>2, CurrentKeep
<1>1. ASSUME NEW w \in Workers, MarkCompleted(w) \/ Leave(w)
      PROVE  Current'
  <2>1. /\ job[w] \in Runs /\ pc[w] \in Refreshing /\ ~Active(w) /\ job'[w] = NoRun
        /\ \A v \in Workers : v # w => pc'[v] = pc[v] /\ job'[v] = job[v]
        /\ UNCHANGED <<creator, links, tour, agg, dropped, record>>
    BY <1>1, OwnRun DEF MarkCompleted, Leave, Busy, Over, Refreshing, TournamentTypeOK
  <2>2. \A q \in Runs : q # job[w] => rows'[q] = rows[q]
    BY <1>1, <2>1 DEF MarkCompleted, Leave, Settle, TournamentTypeOK
  <2>3. Refreshed(job[w])
    BY <2>1 DEF Refreshed
  <2>4. \A q \in Runs : Refreshed(q)' => Refreshed(q)
    BY <2>1, <2>2, <2>3, ProcessesAssumption DEF Refreshed, Active
  <2>5. \A v \in Workers : agg'[v].on => Active(v) /\ job'[v] = job[v]
    BY <2>1 DEF Active
  <2>. QED  BY <1>k, <2>1, <2>4, <2>5
<1>2. ASSUME NEW w \in Workers, Crash(w)
      PROVE  Current'
  <2>1. /\ job[w] \in Runs /\ pc[w] \notin PastMark /\ pc'[w] = "off" /\ job'[w] = NoRun
        /\ \A v \in Workers : v # w => pc'[v] = pc[v] /\ job'[v] = job[v] /\ agg'[v] = agg[v]
        /\ \A p \in Processes : agg'[p] = agg[p] \/ ~agg'[p].on
        /\ UNCHANGED <<creator, links, tour, dropped, record, rows>> /\ ~agg'[w].on
    BY <1>2 DEF Crash, TournamentTypeOK, Processes, NoAgg
  <2>2. rows[job[w]] = "running" /\ \A v \in Workers : v # w => job[v] # job[w]
    BY <2>1, ProcessesAssumption DEF OwnerInv
  <2>3. \A q \in Runs : Refreshed(q)' => Refreshed(q)
    BY <2>1, <2>2, ProcessesAssumption DEF Refreshed, Active, Refreshing
  <2>4. \A v \in Workers : agg'[v].on => Active(v) /\ job'[v] = job[v]
    BY <2>1 DEF Active
  <2>. QED  BY <1>k, <2>1, <2>3, <2>4
<1>3. ASSUME NEW w \in Workers, NEW r \in Runs, Claim(w, r)
      PROVE  Current'
  <2>0. pc[w] = "idle" /\ job[w] = NoRun
    BY <1>3 DEF Claim, OwnerInv, Busy, Over
  <2>1. /\ pc[w] = "idle" /\ pc'[w] = "open" /\ job'[w] = r /\ job[w] = NoRun
        /\ \A v \in Workers : v # w => pc'[v] = pc[v] /\ job'[v] = job[v]
        /\ rows'[r] = "running" /\ \A q \in Runs : q # r => rows'[q] = rows[q]
        /\ UNCHANGED <<creator, links, tour, dropped, record, agg>>
    BY <1>3, <2>0 DEF Claim, TournamentTypeOK
  <2>2. ~Active(w)
    BY <2>1 DEF LinkInv, Refreshing
  <2>3. \A v \in Workers : v # w => job[v] # r
    BY <1>3, ProcessesAssumption DEF Claim, Abandoned, OwnerInv
  <2>4. \A q \in Runs : Refreshed(q)' => Refreshed(q)
    BY <2>1, <2>3, ProcessesAssumption DEF Refreshed, Active, Refreshing
  <2>5. \A v \in Workers : agg'[v].on => Active(v) /\ job'[v] = job[v]
    BY <2>1, <2>2 DEF Active
  <2>. QED  BY <1>k, <2>1, <2>4, <2>5
<1>4. ASSUME NEW r \in Runs, Requeue(r)
      PROVE  Current'
  <2>1. /\ rows'[r] = "pending" /\ \A q \in Runs : q # r => rows'[q] = rows[q]
        /\ UNCHANGED <<creator, links, tour, dropped, record, agg, pc, job>>
    BY <1>4 DEF Requeue, TournamentTypeOK
  <2>2. \A q \in Runs : Refreshed(q)' => Refreshed(q)
    BY <2>1 DEF Refreshed, Active
  <2>3. \A v \in Workers : agg'[v].on => Active(v) /\ job'[v] = job[v]
    BY <2>1 DEF Active
  <2>. QED  BY <1>k, <2>1, <2>2, <2>3
<1>. QED  BY <1>1, <1>2, <1>3, <1>4

\* A cancel: what it writes is not due any more.
LEMMA CurrentCancel ==
    ASSUME TournamentInv, Current,
           CancelTournament \/ CancelInQueue \/ CancelRead \/ CancelWrite \/ EndCancel
    PROVE  Current'
<1>. USE DEF TournamentInv, ClientStep, creation, history, Ask
<1>s. \A l \in links : l.run \in Runs
  BY LinkRuns
<1>1. /\ UNCHANGED <<creator, links, agg, pc, job>> /\ tour'.report = tour.report
      /\ tour'.status \in {tour.status, "canceled"}
  BY DEF CancelTournament, CancelInQueue, CancelRead, CancelWrite, EndCancel, TournamentTypeOK
<1>2. \A q \in Runs : q \notin dropped' /\ rows'[q] = "settled" => q \notin dropped /\ rows[q] = "settled"
  BY DEF CancelTournament, CancelInQueue, CancelRead, CancelWrite, EndCancel, Settle, TournamentTypeOK
<1>3. \A q \in Runs : record'[q] # record[q] => record'[q].status = "canceled"
  <2>1. CASE CancelWrite
    <3>1. client.run \in Runs /\ SetStatus(client.run, "canceled")
      BY <2>1 DEF CancelWrite, TournamentTypeOK
    <3>. QED  BY <3>1 DEF SetStatus, TournamentTypeOK, Record
  <2>2. CASE ~CancelWrite
    BY <2>2 DEF CancelTournament, CancelInQueue, CancelRead, EndCancel
  <2>. QED  BY <2>1, <2>2
<1>4. \A q \in Runs : Refreshed(q)' => Refreshed(q)
  BY <1>1, <1>2 DEF Refreshed, Active
<1>5. \A l \in links : Due(l)' => Due(l) /\ record'[l.run] = record[l.run]
  BY <1>s, <1>3, <1>4 DEF Due
<1>6. \A l \in links, v \in Workers : Coming(v, l)' => Coming(v, l) /\ record'[l.run] = record[l.run]
  BY <1>s, <1>1, <1>3 DEF Coming, Active
<1>7. \A r \in Runs : record[r].status # "none" => record'[r].status # "none"
  BY <1>3
<1>. QED  BY <1>1, <1>5, <1>6, <1>7, CurrentKeep

\* An aggregation that begins now will show every record as it is or as it becomes, and knows
\* the ones that may not.
LEMMA CurrentListed ==
    ASSUME TournamentInv, Current, NEW p \in Processes, ListChildren(p), ~Active(p),
           UNCHANGED <<creator, links, tour, rows, record, dropped, job>>,
           \A w \in Workers : w # p => pc'[w] = pc[w],
           p \in Workers => pc[p] \notin Refreshing
    PROVE  Current'
<1>. USE DEF TournamentInv
<1>1. /\ agg'[p].on /\ agg'[p].links = links /\ DOMAIN agg'[p].read = {}
      /\ agg'[p].older = {q \in Processes : Active(q)}
      /\ \A q \in Processes : q # p => agg'[q] = agg[q]
  <2>1. agg[p] = NoAgg /\ agg[p] \in Aggregation
    BY DEF LinkInv, TournamentTypeOK
  <2>2. agg' = [agg EXCEPT ![p] = [agg[p] EXCEPT !.on = TRUE, !.links = links,
                                       !.older = {q \in Processes : Active(q)}]]
    BY DEF ListChildren, TournamentTypeOK
  <2>3. agg'[p].read = agg[p].read
    BY <2>1, <2>2 DEF TournamentTypeOK, Aggregation
  <2>4. DOMAIN agg[p].read = {}
    BY <2>1 DEF NoAgg
  <2>. QED  BY <2>1, <2>2, <2>3, <2>4 DEF TournamentTypeOK, Aggregation
<1>2. \A q \in Runs : Refreshed(q)' => Refreshed(q)
  BY <1>1 DEF Refreshed, Active, Processes
<1>3. \A l \in links : Due(l)' => Due(l)
  BY <1>2, LinkRuns DEF Due
<1>4. ASSUME NEW l \in links, NEW q \in Processes, Behind(q, l)'
      PROVE  q # p /\ Behind(q, l) /\ agg'[q] = agg[q] /\ q \in agg'[p].older
  <2>1. q # p
    BY <1>1, <1>4 DEF Behind
  <2>2. agg'[q] = agg[q] /\ Behind(q, l)
    BY <1>1, <1>4, <2>1 DEF Behind, Active
  <2>. QED  BY <1>1, <2>1, <2>2 DEF Behind
<1>5. Shown'
  <2>1. ASSUME NEW L \in SUBSET Link, NEW read \in Readings, Shows(L, read)
        PROVE  Shows(L, read)'
    BY <1>3, <2>1 DEF Shows, Snapshot
  <2>. QED  BY <1>3, <2>1 DEF Current, Shown
<1>6. StatusShown'
  BY DEF Current, StatusShown
<1>7. Readable'
  <2>1. \A l \in links : record[l.run].status # "none" /\ (creator.point = "link" => l.run # creator.run)
    BY DEF LinkInv
  <2>. QED  BY <1>1, <2>1 DEF Current, Readable, Snapshot, Active
<1>8. LateIfDue'
  BY <1>3, <1>4 DEF Current, LateIfDue
<1>9. KnownIfComing'
  <2>. SUFFICES ASSUME NEW l \in links, NEW w \in Workers, Coming(w, l)', NEW q \in Processes, Behind(q, l)'
                PROVE  agg'[q].late \/ q \in agg'[w].older \ {w}
    BY DEF KnownIfComing
  <2>1. CASE w = p
    BY <1>4, <2>1
  <2>2. CASE w # p
    <3>1. agg'[w] = agg[w] /\ Coming(w, l)
      BY <1>1, <2>2 DEF Coming, Active, Processes
    <3>. QED  BY <1>4, <3>1 DEF Current, KnownIfComing
  <2>. QED  BY <2>1, <2>2
<1>. QED  BY <1>5, <1>6, <1>7, <1>8, <1>9 DEF Current

LEMMA CurrentFind ==
    ASSUME TournamentInv, Current, NEW w \in Workers, FindDone(w) \/ FindFailed(w)
    PROVE  Current'
<1>1. /\ pc[w] \in {"done", "failed"} /\ w \in Processes
      /\ \A v \in Workers : v # w => pc'[v] = pc[v]
      /\ UNCHANGED <<creator, links, tour, rows, record, dropped, job>>
  BY DEF FindDone, FindFailed, Find, Goto, WorkerStep, creation, history, TournamentInv,
         TournamentTypeOK, Processes
<1>2. ~Active(w)
  BY <1>1 DEF TournamentInv, LinkInv, Refreshing
<1>3. CASE ListChildren(w)
  BY <1>1, <1>2, <1>3, CurrentListed DEF Refreshing
<1>4. CASE UNCHANGED agg /\ \A l \in links : l.run # job[w]
  <2>1. \A l \in links : Due(l)' => Due(l) /\ record'[l.run] = record[l.run]
    BY <1>1, <1>4 DEF Due, Refreshed, Active
  <2>2. \A l \in links, v \in Workers : Coming(v, l)' => Coming(v, l) /\ record'[l.run] = record[l.run]
    BY <1>1, <1>4 DEF Coming, Active
  <2>. QED  BY <1>1, <1>4, <2>1, <2>2, CurrentKeep
<1>. QED  BY <1>3, <1>4 DEF FindDone, FindFailed, Find

\* A record that is read now is not behind.
LEMMA CurrentRead ==
    ASSUME TournamentInv, Current, ~Disturbed, NEW p \in Processes, Active(p), ReadChild(p),
           UNCHANGED <<creator, links, rows, dropped, job, pc>>
    PROVE  Current'
<1>. USE DEF TournamentInv
<1>1. PICK m \in agg[p].links :
          /\ agg' = [agg EXCEPT ![p].read = agg'[p].read]
          /\ agg'[p].read = [r \in DOMAIN agg[p].read \cup {m.run} |->
                 IF r = m.run
                 THEN IF Stored(r) THEN record[r] ELSE [Absent EXCEPT !.status = "failed"]
                 ELSE agg[p].read[r]]
  BY ReadFacts
<1>2. agg[p] \in Aggregation /\ agg \in [Processes -> Aggregation]
  BY DEF TournamentTypeOK
<1>3. UNCHANGED <<record, tour>>
  BY DEF ReadChild
<1>4. /\ \A q \in Processes : q # p => agg'[q] = agg[q]
      /\ agg'[p].on = agg[p].on /\ agg'[p].links = agg[p].links
      /\ agg'[p].late = agg[p].late /\ agg'[p].older = agg[p].older
  BY <1>1, <1>2 DEF Aggregation
<1>5. Stored(m.run)
  <2>1. m.run \in Runs
    BY <1>2 DEF Aggregation, Link
  <2>2. record[m.run].status # "none"
    BY DEF Current, Readable, Snapshot
  <2>. QED  BY <2>1, <2>2 DEF Stored, Disturbed
<1>6. DOMAIN agg'[p].read = DOMAIN agg[p].read \cup {m.run}
  BY <1>1
<1>7. /\ agg'[p].read[m.run] = record[m.run]
      /\ \A r \in DOMAIN agg[p].read : r # m.run => agg'[p].read[r] = agg[p].read[r]
  BY <1>1, <1>5
<1>8. \A q \in Processes : Active(q)' <=> Active(q)
  BY <1>4 DEF Active
<1>9. ASSUME NEW l, NEW q \in Processes, Behind(q, l)'
      PROVE  Behind(q, l)
  <2>1. CASE q # p
    BY <1>3, <1>4, <1>9, <2>1 DEF Behind, Active
  <2>2. CASE q = p
    BY <1>3, <1>4, <1>6, <1>7, <1>9, <2>2 DEF Behind, Active
  <2>. QED  BY <2>1, <2>2
<1>10. \A q \in Runs : Refreshed(q)' => Refreshed(q)
  BY <1>8 DEF Refreshed, Processes
<1>11. \A l \in links : Due(l)' => Due(l)
  BY <1>3, <1>10, LinkRuns DEF Due
<1>12. Shown'
  <2>1. ASSUME NEW L \in SUBSET Link, NEW read \in Readings, Shows(L, read)
        PROVE  Shows(L, read)'
    BY <1>3, <1>11, <2>1 DEF Shows, Snapshot
  <2>. QED  BY <1>3, <1>11, <2>1 DEF Current, Shown
<1>13. StatusShown'
  BY <1>3 DEF Current, StatusShown
<1>14. Readable'
  BY <1>3, <1>4, <1>6, <1>8 DEF Current, Readable, Snapshot
<1>15. \A q \in Processes : agg'[q].late = agg[q].late /\ agg'[q].older = agg[q].older
  BY <1>4
<1>16. LateIfDue'
  BY <1>9, <1>11, <1>15 DEF Current, LateIfDue
<1>17. KnownIfComing'
  <2>1. \A l \in links, w \in Workers : Coming(w, l)' => Coming(w, l)
    BY <1>3, <1>8 DEF Coming, Processes
  <2>. QED  BY <1>9, <1>15, <2>1 DEF Current, KnownIfComing, Processes
<1>. QED  BY <1>12, <1>13, <1>14, <1>16, <1>17 DEF Current

\* A report that is stored without overtaking another shows what is due, and what becomes due
\* by it; the aggregations that it knows to be behind are late now.
LEMMA CurrentWritten ==
    ASSUME TournamentInv, Current, ~overtaken', NEW p \in Processes, Active(p), WriteReport(p),
           UNCHANGED <<creator, links, rows, dropped, job, pc>>
    PROVE  Current'
<1>. USE DEF TournamentInv
<1>1. /\ tour' = [status |-> build_report(agg[p].links, agg[p].read).status,
                  report |-> build_report(agg[p].links, agg[p].read)]
      /\ record' = record
      /\ \A l \in agg[p].links : l.run \in DOMAIN agg[p].read
  BY DEF WriteReport, Unread
<1>2. ~agg[p].late
  <2>1. overtaken' = (overtaken \/ agg[p].late)
    BY Zenon DEF WriteReport
  <2>. QED  BY <2>1, Zenon
<1>3. agg[p] \in Aggregation /\ p \notin {q \in Processes : agg'[q].on}
  BY DEF TournamentTypeOK, WriteReport, NoAgg
<1>4. ASSUME NEW q \in Processes, q # p
      PROVE  /\ agg'[q].on = agg[q].on /\ agg'[q].links = agg[q].links /\ agg'[q].read = agg[q].read
             /\ agg'[q].older = agg[q].older
             /\ agg[q].late => agg'[q].late
             /\ q \in agg[p].older /\ Active(q) => agg'[q].late
  <2>1. agg[q] \in Aggregation
    BY DEF TournamentTypeOK
  <2>2. agg'[q] = IF q \in agg[p].older /\ Active(q) THEN [agg[q] EXCEPT !.late = TRUE] ELSE agg[q]
    BY <1>4 DEF WriteReport
  <2>3. [agg[q] EXCEPT !.late = TRUE].late
    BY <2>1 DEF Aggregation
  <2>. QED  BY <2>1, <2>2, <2>3 DEF Aggregation
<1>5. ASSUME NEW l, NEW q \in Processes, Behind(q, l)'
      PROVE  q # p /\ Behind(q, l)
  <2>1. q # p
    BY <1>3, <1>5 DEF Behind, Active
  <2>. QED  BY <1>1, <1>4, <1>5, <2>1 DEF Behind, Active
<1>6. ASSUME NEW l \in links, Due(l)'
      PROVE  Due(l) \/ (p \in Workers /\ Coming(p, l))
  <2>1. CASE rows[l.run] = "settled" /\ l.run \notin dropped /\ \A w \in Workers : job[w] # l.run
    BY <1>1, <1>6, <2>1 DEF Due, Refreshed
  <2>2. CASE \E w \in Workers : job[w] = l.run /\ pc[w] \in Refreshing /\ ~agg'[w].on
    <3>1. PICK w \in Workers : job[w] = l.run /\ pc[w] \in Refreshing /\ ~agg'[w].on
      BY <2>2
    <3>2. CASE w = p
      BY <1>1, <1>6, <3>1, <3>2 DEF Due, Coming
    <3>3. CASE w # p
      BY <1>1, <1>4, <1>6, <3>1, <3>3 DEF Due, Refreshed, Active, Processes
    <3>. QED  BY <3>2, <3>3
  <2>. QED  BY <1>6, <2>1, <2>2 DEF Due, Refreshed, Active
<1>7. ASSUME NEW l \in links, Due(l)'
      PROVE  ~Behind(p, l)
  <2>1. CASE Due(l)
    BY <1>2, <2>1 DEF Current, LateIfDue
  <2>2. CASE p \in Workers /\ Coming(p, l)
    BY <1>2, <2>2 DEF Current, KnownIfComing
  <2>. QED  BY <1>6, <1>7, <2>1, <2>2
<1>8. Shown'
  <2>1. PICK L \in SUBSET Link, read \in Readings : L = agg[p].links /\ read = agg[p].read
    BY <1>3 DEF Aggregation
  <2>2. Snapshot(L)'
    BY <1>1, <2>1 DEF Current, Readable, Snapshot
  <2>3. DOMAIN read = {l.run : l \in L}
    BY <1>1, <2>1 DEF Current, Readable
  <2>4. \A l \in links' : Due(l)' => l \in L /\ read[l.run] = record'[l.run]
    BY <1>1, <1>7, <2>1, <2>3 DEF Behind
  <2>5. Shows(L, read)'
    BY <2>2, <2>3, <2>4 DEF Shows
  <2>6. tour'.report = build_report(L, read)
    BY <1>1, <2>1
  <2>. QED  BY <2>5, <2>6 DEF Shown
<1>9. StatusShown'
  <2>1. tour'.status = tour'.report.status
    BY <1>1
  <2>2. tour'.status # "none"
    BY <1>1 DEF build_report
  <2>. QED  BY <2>1, <2>2 DEF StatusShown
<1>10. Readable'
  <2>. SUFFICES ASSUME NEW q \in Processes, agg'[q].on
                PROVE  Snapshot(agg[q].links)' /\ DOMAIN agg'[q].read \subseteq {l.run : l \in agg'[q].links}
    BY DEF Readable, Active
  <2>1. q # p
    BY <1>3
  <2>2. agg'[q].links = agg[q].links /\ agg'[q].read = agg[q].read /\ Active(q)
    BY <1>4, <2>1 DEF Active
  <2>. QED  BY <1>1, <2>2 DEF Current, Readable, Snapshot
<1>11. LateIfDue'
  <2>. SUFFICES ASSUME NEW l \in links, Due(l)', NEW q \in Processes, Behind(q, l)'
                PROVE  agg'[q].late
    BY DEF LateIfDue
  <2>1. q # p /\ Behind(q, l)
    BY <1>5
  <2>2. CASE Due(l)
    BY <1>4, <2>1, <2>2 DEF Current, LateIfDue
  <2>3. CASE p \in Workers /\ Coming(p, l)
    BY <1>4, <2>1, <2>3 DEF Current, KnownIfComing, Behind
  <2>. QED  BY <1>6, <2>2, <2>3
<1>12. KnownIfComing'
  <2>. SUFFICES ASSUME NEW l \in links, NEW w \in Workers, Coming(w, l)', NEW q \in Processes, Behind(q, l)'
                PROVE  agg'[q].late \/ q \in agg'[w].older \ {w}
    BY DEF KnownIfComing
  <2>1. q # p /\ Behind(q, l)
    BY <1>5
  <2>2. w \in Processes /\ w # p
    BY <1>3 DEF Coming, Active, Processes
  <2>3. Coming(w, l) /\ agg'[w].older = agg[w].older
    BY <1>1, <1>4, <2>2 DEF Coming, Active
  <2>. QED  BY <1>4, <2>1, <2>3 DEF Current, KnownIfComing
<1>. QED  BY <1>8, <1>9, <1>10, <1>11, <1>12 DEF Current

\* A step that changes nothing.
LEMMA CurrentUnchanged ==
    ASSUME Current, UNCHANGED vars
    PROVE  Current'
<1>. USE DEF vars, creation, history
<1>1. \A l \in links : Due(l)' <=> Due(l)
  BY DEF Due, Refreshed, Active
<1>2. \A l \in links, p \in Processes : Behind(p, l)' <=> Behind(p, l)
  BY DEF Behind, Active
<1>3. \A l \in links, w \in Workers : Coming(w, l)' <=> Coming(w, l)
  BY DEF Coming, Active
<1>4. \A L \in SUBSET Link, read \in Readings : Shows(L, read)' <=> Shows(L, read)
  BY <1>1 DEF Shows, Snapshot
<1>5. Shown'
  BY <1>1, <1>4 DEF Current, Shown
<1>6. StatusShown'
  BY DEF Current, StatusShown
<1>7. Readable'
  BY DEF Current, Readable, Snapshot, Active
<1>8. LateIfDue'
  BY <1>1, <1>2 DEF Current, LateIfDue
<1>9. KnownIfComing'
  BY <1>2, <1>3 DEF Current, KnownIfComing
<1>. QED  BY <1>5, <1>6, <1>7, <1>8, <1>9 DEF Current

LEMMA CurrentNext ==
    ASSUME TournamentInv, CurrentInv, Next
    PROVE  CurrentInv'
<1>. SUFFICES ASSUME ~Disturbed, ~Disturbed' PROVE Current'
  BY DisturbedStays DEF CurrentInv, Current
<1>1. Current /\ lost' = {} /\ ~overtaken'
  BY DEF CurrentInv, Current, Disturbed
<1>2. CASE \E p \in Processes : Aggregate(p)
  <2>1. PICK p \in Processes : Aggregate(p)
    BY <1>2
  <2>2. Active(p) /\ UNCHANGED <<creator, links, rows, dropped, job, pc>>
    BY <2>1 DEF Aggregate, creation
  <2>3. CASE ReadChild(p)
    BY <1>1, <2>2, <2>3, CurrentRead
  <2>4. CASE WriteReport(p)
    BY <1>1, <2>2, <2>4, CurrentWritten
  <2>. QED  BY <2>1, <2>3, <2>4 DEF Aggregate
<1>3. CASE \E r \in Runs : DeleteChild(r)
  <2>1. \E r \in Runs : record'[r].status = "deleted"
    BY <1>3 DEF DeleteChild, Absent, TournamentInv, TournamentTypeOK
  <2>. QED  BY <2>1 DEF Disturbed
<1>4. CASE GetReport
  <2>1. /\ Client \in Processes /\ ListChildren(Client) /\ ~Active(Client)
        /\ UNCHANGED <<creator, links, tour, rows, record, dropped, job, pc>>
    BY <1>4 DEF GetReport, ClientStep, creation, Processes
  <2>2. Client \notin Workers
    BY ProcessesAssumption
  <2>3. /\ UNCHANGED <<creator, links, tour, rows, record, dropped, job>>
        /\ \A w \in Workers : w # Client => pc'[w] = pc[w]
        /\ Client \in Workers => pc[Client] \notin Refreshing
    BY <2>1, <2>2
  <2>. QED  BY <1>1, <2>1, <2>3, CurrentListed, Zenon
<1>5. CASE \E w \in Workers : Poll(w)
  <2>1. UNCHANGED vars
    BY <1>5 DEF Poll
  <2>. QED  BY <1>1, <2>1, CurrentUnchanged
<1>6. CASE \E w \in Workers : Open(w) \/ Start(w) \/ FailRun(w) \/ Complete(w) \/ MarkFailed(w)
  BY <1>1, <1>6, CurrentRun
<1>7. CASE \E w \in Workers : FindDone(w) \/ FindFailed(w)
  BY <1>1, <1>7, CurrentFind
<1>8. CASE CancelTournament \/ CancelInQueue \/ CancelRead \/ CancelWrite \/ EndCancel
  BY <1>1, <1>8, CurrentCancel
<1>9. CASE (\E c \in Configs : CreateTournament(c)) \/ Create
  BY <1>1, <1>9, CurrentCreation
<1>10. CASE \/ \E w \in Workers : MarkCompleted(w) \/ Leave(w) \/ Crash(w) \/ \E r \in Runs : Claim(w, r)
            \/ \E r \in Runs : Requeue(r)
  BY <1>1, <1>10, CurrentOwners
<1>. QED
  BY <1>2, <1>3, <1>4, <1>5, <1>6, <1>7, <1>8, <1>9, <1>10, Zenon DEF Next, Work, ClientWork, Processes

\* When everything is quiet, the refresh of every child is over.
LEMMA QuietDue ==
    ASSUME TournamentInv, Quiet, Undisturbed
    PROVE  \A l \in links : Due(l) /\ record[l.run].status \in Terminal
<1>. USE DEF TournamentInv
<1>. SUFFICES ASSUME NEW l \in links PROVE Due(l) /\ record[l.run].status \in Terminal
  OBVIOUS
<1>1. l.run \in Runs
  BY LinkRuns
<1>2. rows[l.run] = "settled"
  BY <1>1 DEF LinkInv, Quiet, Created
<1>3. \A w \in Workers : job[w] = NoRun
  BY DEF OwnerInv, Quiet, TournamentTypeOK, Busy, Over
<1>4. \A w \in Workers : job[w] # l.run
  BY <1>1, <1>3, ProcessesAssumption
<1>5. record[l.run].status \in Final /\ record[l.run].status \notin {"canceled", "deleted"}
  BY <1>1, <1>2 DEF OwnerInv, Undisturbed
<1>6. Due(l)
  BY <1>2, <1>4, <1>5 DEF Due, Refreshed, Undisturbed
<1>. QED  BY <1>5, <1>6 DEF Final

\* build_report on children that are all terminal.
LEMMA TerminalReport ==
    ASSUME NEW L, L # {}, NEW read, \A l \in L : StatusIn(read, l.run) \in Terminal
    PROVE  build_report(L, read).status = "completed"
<1>1. {l \in L : StatusIn(read, l.run) \in Terminal} = L
  OBVIOUS
<1>. QED  BY <1>1 DEF build_report

LEMMA QuietCurrent ==
    ASSUME TournamentInv, CurrentInv
    PROVE  QuietReportCurrent
<1>. SUFFICES ASSUME Quiet, links # {}, Undisturbed, lost = {}, ~overtaken
              PROVE  /\ tour.report = build_report(links, [r \in {l.run : l \in links} |-> record[r]])
                     /\ tour.status \in {"completed", "canceled"}
  BY DEF QuietReportCurrent
<1>1. Shown /\ StatusShown
  BY Zenon DEF CurrentInv, Disturbed, Undisturbed
<1>2. \A l \in links : Due(l) /\ record[l.run].status \in Terminal
  BY QuietDue
<1>3. PICK L \in SUBSET Link, read \in Readings : tour.report = build_report(L, read) /\ Shows(L, read)
  BY <1>1, <1>2 DEF Shown
<1>4. L = links
  BY <1>2, <1>3 DEF Shows, Snapshot
<1>5. read = [r \in {l.run : l \in links} |-> record[r]]
  <2>1. read = [r \in DOMAIN read |-> read[r]] /\ DOMAIN read = {l.run : l \in links}
    BY <1>3, <1>4 DEF Shows, Readings
  <2>2. \A r \in DOMAIN read : read[r] = record[r]
    BY <1>2, <1>3, <1>4, <2>1 DEF Shows
  <2>. QED  BY <2>1, <2>2
<1>6. \A l \in links : StatusIn(read, l.run) \in Terminal
  BY <1>2, <1>5 DEF StatusIn
<1>7. tour.report.status = "completed"
  BY <1>3, <1>4, <1>6, TerminalReport
<1>8. tour.report # NoReport
  BY <1>7 DEF NoReport
<1>9. tour.status \in {"completed", "canceled"}
  BY <1>1, <1>7, <1>8 DEF StatusShown
<1>. QED  BY <1>3, <1>4, <1>5, <1>9

LEMMA CurrentInit == Init => CurrentInv
<1>. SUFFICES ASSUME Init PROVE Current
  BY DEF CurrentInv, Current
<1>1. \A p \in Processes : ~Active(p)
  BY DEF Init, NoAgg, Active
<1>2. links = {} /\ tour.report = NoReport
  BY DEF Init
<1>. QED  BY <1>1, <1>2 DEF Current, Shown, StatusShown, Readable, LateIfDue, KnownIfComing

\* Once everything is quiet the stored report is build_report of the final children, and the
\* tournament is over, unless an aggregation that had read older records was stored over a
\* newer one, a worker died between mark_failed and its refresh, or a client canceled or
\* deleted a child (aggregate_for_child, Worker.run).
THEOREM QuietReportAlwaysCurrent == Spec => []QuietReportCurrent
<1>1. Init => CurrentInv
  BY CurrentInit
<1>2. TournamentInv /\ CurrentInv /\ [Next]_vars => CurrentInv'
  <2>1. ASSUME TournamentInv, CurrentInv, Next PROVE CurrentInv'
    BY <2>1, CurrentNext
  <2>2. ASSUME CurrentInv, UNCHANGED vars PROVE CurrentInv'
    <3>1. CASE Disturbed
      BY <2>2, <3>1, Zenon DEF Disturbed, CurrentInv, vars, history
    <3>2. CASE Current
      BY <2>2, <3>2, CurrentUnchanged DEF CurrentInv, Current
    <3>. QED  BY <2>2, <3>1, <3>2 DEF CurrentInv, Current
  <2>. QED  BY <2>1, <2>2
<1>3. TournamentInv /\ CurrentInv => QuietReportCurrent
  BY QuietCurrent
<1>. QED  BY <1>1, <1>2, <1>3, TournamentInvariant, PTL DEF Spec
=============================================================================
