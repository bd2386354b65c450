---------------------------- MODULE StreamProofs ----------------------------
(***************************************************************************)
(* What a reader of a run's stream may rely on, for any number of readers, *)
(* any length of run and any limits of the deques and replays.             *)
(***************************************************************************)
EXTENDS StreamProperties, ListFacts

-----------------------------------------------------------------------------
(* The filter of a log.                                                    *)

\* One step of the filter.
Filtered(entries, i, before) ==
    IF entries[i] = Other THEN before ELSE Append(before, entries[i])

\* The filter of a log is defined by its recursion: there is a function of the prefixes of
\* every length that satisfies it.
LEMMA FilterExists ==
    ASSUME NEW entries, NEW len \in Nat
    PROVE  \E f : f = [i \in 0..len |-> IF i = 0 THEN <<>> ELSE Filtered(entries, i, f[i - 1])]
<1>. DEFINE Missing == {n \in Nat :
                 ~\E f : f = [i \in 0..n |-> IF i = 0 THEN <<>> ELSE Filtered(entries, i, f[i - 1])]}
<1>. SUFFICES ASSUME Missing # {} PROVE FALSE
  OBVIOUS
<1>1. PICK n \in Missing : \A m \in Missing : n <= m
  BY LeastNumber
<1>2. n \in Nat /\ ~\E f : f = [i \in 0..n |-> IF i = 0 THEN <<>> ELSE Filtered(entries, i, f[i - 1])]
  BY <1>1
<1>. HIDE DEF Missing
<1>3. n # 0
  <2>. DEFINE g == [i \in 0..0 |-> <<>>]
  <2>1. g = [i \in 0..0 |-> IF i = 0 THEN <<>> ELSE Filtered(entries, i, g[i - 1])]
    OBVIOUS
  <2>. QED  BY <1>2, <2>1
<1>4. n - 1 \in Nat /\ n - 1 \notin Missing
  BY <1>1, <1>2, <1>3
<1>5. PICK f : f = [i \in 0..(n - 1) |-> IF i = 0 THEN <<>> ELSE Filtered(entries, i, f[i - 1])]
  BY <1>4 DEF Missing
<1>. DEFINE g == [i \in 0..n |-> IF i = n THEN Filtered(entries, n, f[n - 1]) ELSE f[i]]
<1>6. ASSUME NEW i \in 0..n
      PROVE  g[i] = IF i = 0 THEN <<>> ELSE Filtered(entries, i, g[i - 1])
  <2>1. CASE i = n
    BY <1>2, <1>3, <2>1
  <2>2. CASE i # n
    <3>1. i \in 0..(n - 1) /\ g[i] = f[i]
      BY <1>2, <2>2
    <3>2. f[i] = IF i = 0 THEN <<>> ELSE Filtered(entries, i, f[i - 1])
      BY <1>5, <3>1
    <3>3. i # 0 => g[i - 1] = f[i - 1]
      BY <1>2, <3>1
    <3>. QED  BY <3>1, <3>2, <3>3
  <2>. QED  BY <2>1, <2>2
<1>7. g = [i \in 0..n |-> IF i = 0 THEN <<>> ELSE Filtered(entries, i, g[i - 1])]
  BY <1>6
<1>. QED  BY <1>2, <1>7

\* What the filter keeps: published messages that the log holds, in its order.
LEMMA FilterFacts ==
    ASSUME NEW entries \in Seq(Published \cup {Other}), InOrder(entries)
    PROVE  /\ StreamMessages(entries) \in Seq(Published)
           /\ InOrder(StreamMessages(entries))
           /\ \A i \in DOMAIN StreamMessages(entries) :
                 \E k \in DOMAIN entries : StreamMessages(entries)[i] = entries[k]
           /\ \A k \in DOMAIN entries : entries[k] # Other =>
                 \E i \in DOMAIN StreamMessages(entries) : StreamMessages(entries)[i] = entries[k]
<1>. DEFINE Good(s, n) == /\ s \in Seq(Published) /\ InOrder(s)
                          /\ \A i \in DOMAIN s : \E k \in 1..n : s[i] = entries[k]
                          /\ \A k \in 1..n : entries[k] # Other => \E i \in DOMAIN s : s[i] = entries[k]
            Def(f) == f = [i \in 0..Len(entries) |->
                              IF i = 0 THEN <<>> ELSE Filtered(entries, i, f[i - 1])]
<1>0. Len(entries) \in Nat /\ entries \in [1..Len(entries) -> Published \cup {Other}]
  OBVIOUS
<1>1. \E f : Def(f)
  BY <1>0, FilterExists, Zenon
<1>. DEFINE kept == CHOOSE k : Def(k)
<1>2. Def(kept) /\ StreamMessages(entries) = kept[Len(entries)]
  BY <1>1, Zenon DEF StreamMessages, Filtered
<1>. HIDE DEF kept
<1>3. /\ kept[0] = <<>>
      /\ \A i \in 1..Len(entries) : kept[i] = Filtered(entries, i, kept[i - 1])
  <2>1. \A i \in 0..Len(entries) :
            kept[i] = IF i = 0 THEN <<>> ELSE Filtered(entries, i, kept[i - 1])
    BY <1>2, Zenon
  <2>2. 0 \in 0..Len(entries) /\ \A i \in 1..Len(entries) : i \in 0..Len(entries) /\ i # 0
    BY <1>0
  <2>. QED  BY <2>1, <2>2, Zenon
<1>. HIDE DEF Def
<1>4. ASSUME NEW n \in 1..Len(entries), Good(kept[n - 1], n - 1) PROVE Good(kept[n], n)
  <2>1. CASE entries[n] = Other
    <3>1. kept[n] = kept[n - 1] /\ \A k \in 1..n : k \in 1..(n - 1) \/ k = n
      BY <1>3, <2>1 DEF Filtered
    <3>2. \A k \in 1..(n - 1) : k \in 1..n
      BY <1>0
    <3>. QED  BY <1>4, <2>1, <3>1, <3>2
  <2>2. CASE entries[n] # Other
    <3>0. kept[n] = Append(kept[n - 1], entries[n])
      BY <1>3, <2>2, Zenon DEF Filtered
    <3>1. kept[n] = Append(kept[n - 1], entries[n]) /\ entries[n] \in Published
      BY <1>0, <2>2, <3>0
    <3>2. InOrder(kept[n])
      <4>. SUFFICES ASSUME NEW i \in DOMAIN kept[n], NEW j \in DOMAIN kept[n], i < j,
                           kept[n][i].by = kept[n][j].by, kept[n][i].by \in Threads
                    PROVE  kept[n][i].n < kept[n][j].n
        BY DEF InOrder
      <4>1. CASE j \in DOMAIN kept[n - 1]
        <5>1. i \in DOMAIN kept[n - 1] /\ kept[n][i] = kept[n - 1][i] /\ kept[n][j] = kept[n - 1][j]
          BY <1>4, <3>1, <4>1
        <5>. QED  BY <1>4, <4>1, <5>1 DEF InOrder
      <4>2. CASE j \notin DOMAIN kept[n - 1]
        <5>1. /\ i \in DOMAIN kept[n - 1] /\ kept[n][i] = kept[n - 1][i]
              /\ kept[n][j] = entries[n]
          BY <1>4, <3>1, <4>2
        <5>2. PICK k \in 1..(n - 1) : kept[n][i] = entries[k]
          BY <1>4, <5>1
        <5>3. k \in DOMAIN entries /\ n \in DOMAIN entries /\ k < n
          BY <1>0
        <5>. QED  BY <5>1, <5>2, <5>3 DEF InOrder
      <4>. QED  BY <4>1, <4>2
    <3>3. \A i \in DOMAIN kept[n] : \E k \in 1..n : kept[n][i] = entries[k]
      BY <1>4, <3>1
    <3>4. ASSUME NEW k \in 1..n, entries[k] # Other
          PROVE  \E i \in DOMAIN kept[n] : kept[n][i] = entries[k]
      <4>1. CASE k = n
        <5>1. Len(kept[n - 1]) + 1 \in DOMAIN kept[n] /\ kept[n][Len(kept[n - 1]) + 1] = entries[n]
          BY <1>4, <3>1
        <5>. QED  BY <4>1, <5>1
      <4>2. CASE k # n
        <5>1. k \in 1..(n - 1)
          BY <4>2
        <5>2. PICK i \in DOMAIN kept[n - 1] : kept[n - 1][i] = entries[k]
          BY <1>4, <3>4, <5>1
        <5>3. i \in DOMAIN kept[n] /\ kept[n][i] = kept[n - 1][i]
          BY <1>4, <3>1
        <5>. QED  BY <5>2, <5>3
      <4>. QED  BY <4>1, <4>2
    <3>5. kept[n] \in Seq(Published)
      BY <1>4, <3>1
    <3>. HIDE DEF kept
    <3>. QED  BY <3>2, <3>3, <3>4, <3>5
  <2>. QED  BY <2>1, <2>2
<1>5. \A n \in 0..Len(entries) : Good(kept[n], n)
  <2>. DEFINE Bad == {n \in Nat : n <= Len(entries) /\ ~Good(kept[n], n)}
  <2>. SUFFICES ASSUME Bad # {} PROVE FALSE
    <3>. HIDE DEF Good, kept
    <3>. QED  BY <1>0
  <2>1. PICK n \in Bad : \A m \in Bad : n <= m
    BY LeastNumber
  <2>2. n # 0
    <3>1. Good(kept[0], 0)
      BY <1>3 DEF InOrder
    <3>2. ~Good(kept[n], n)
      BY <2>1
    <3>. HIDE DEF Good, kept
    <3>. QED  BY <3>1, <3>2
  <2>3. n \in 1..Len(entries) /\ n - 1 \in Nat /\ n - 1 \notin Bad
    BY <2>1, <2>2
  <2>4. Good(kept[n - 1], n - 1)
    BY <2>3
  <2>. QED  BY <1>4, <2>1, <2>3, <2>4
<1>6. Good(kept[Len(entries)], Len(entries))
  BY <1>5
<1>. QED  BY <1>2, <1>6

\* What is left of a sequence without its first elements.
LEMMA SuffixFacts ==
    ASSUME NEW S, NEW s \in Seq(S), NEW d \in Nat, d <= Len(s)
    PROVE  /\ SubSeq(s, d + 1, Len(s)) \in Seq(S)
           /\ \A i \in DOMAIN SubSeq(s, d + 1, Len(s)) :
                  i + d \in DOMAIN s /\ SubSeq(s, d + 1, Len(s))[i] = s[i + d]
<1>. DEFINE r == SubSeq(s, d + 1, Len(s))
<1>1. r \in Seq(S) /\ Len(r) = Len(s) - d
  OBVIOUS
<1>2. \A i \in 1..Len(r) : i + d \in 1..Len(s) /\ r[i] = s[i + d]
  BY <1>1
<1>. QED  BY <1>1, <1>2

\* A deque keeps a suffix.
LEMMA KeepFacts ==
    ASSUME NEW S, NEW s \in Seq(S)
    PROVE  /\ Keep(s) \in Seq(S)
           /\ \E d \in Nat : \A i \in DOMAIN Keep(s) : i + d \in DOMAIN s /\ Keep(s)[i] = s[i + d]
<1>0. Len(s) \in Nat /\ RecentLimit \in Nat \ {0}
  BY LimitsAssumption
<1>1. CASE Len(s) > RecentLimit
  <2>. DEFINE d == Len(s) - RecentLimit
  <2>1. d \in Nat /\ Keep(s) = SubSeq(s, d + 1, Len(s))
    BY <1>0, <1>1 DEF Keep
  <2>2. Keep(s) \in Seq(S) /\ Len(Keep(s)) = RecentLimit
    BY <1>0, <1>1, <2>1
  <2>3. \A i \in DOMAIN Keep(s) : i + d \in DOMAIN s /\ Keep(s)[i] = s[i + d]
    BY <1>0, <1>1, <2>1, <2>2
  <2>. QED  BY <2>1, <2>2, <2>3
<1>2. CASE ~(Len(s) > RecentLimit)
  <2>1. Keep(s) = s
    BY <1>2 DEF Keep
  <2>2. 0 \in Nat /\ \A i \in DOMAIN Keep(s) : i + 0 \in DOMAIN s /\ Keep(s)[i] = s[i + 0]
    BY <1>0, <2>1
  <2>. QED  BY <2>1, <2>2
<1>. QED  BY <1>1, <1>2

\* The two newest messages of a deque that has room for two are kept.
LEMMA KeepNewest ==
    ASSUME NEW S, NEW s \in Seq(S), RecentLimit >= 2, NEW i \in DOMAIN s, i >= Len(s) - 1
    PROVE  \E j \in DOMAIN Keep(s) : Keep(s)[j] = s[i] /\ Len(Keep(s)) - j = Len(s) - i
<1>0. Len(s) \in Nat /\ RecentLimit \in Nat \ {0}
  BY LimitsAssumption
<1>1. CASE Len(s) > RecentLimit
  <2>. DEFINE d == Len(s) - RecentLimit
  <2>1. d \in Nat /\ Keep(s) = SubSeq(s, d + 1, Len(s))
    BY <1>0, <1>1 DEF Keep
  <2>2. Keep(s) \in Seq(S) /\ Len(Keep(s)) = RecentLimit
    BY <1>0, <1>1, <2>1
  <2>3. i - d \in DOMAIN Keep(s) /\ Keep(s)[i - d] = s[i]
    BY <1>0, <1>1, <2>1, <2>2
  <2>. QED  BY <1>0, <2>1, <2>2, <2>3
<1>2. CASE ~(Len(s) > RecentLimit)
  BY <1>0, <1>2 DEF Keep
<1>. QED  BY <1>1, <1>2

\* A part of an ordered sequence is ordered.
LEMMA SuffixInOrder ==
    ASSUME NEW S, NEW s \in Seq(S), NEW r \in Seq(S), InOrder(s), NEW d \in Nat,
           \A i \in DOMAIN r : i + d \in DOMAIN s /\ r[i] = s[i + d]
    PROVE  InOrder(r)
<1>. SUFFICES ASSUME NEW i \in DOMAIN r, NEW j \in DOMAIN r, i < j,
                     r[i].by = r[j].by, r[i].by \in Threads
              PROVE  r[i].n < r[j].n
  BY DEF InOrder
<1>1. i + d < j + d
  OBVIOUS
<1>. QED  BY <1>1 DEF InOrder

\* A reader is replayed published messages, in order, and none from the future.
LEMMA ReplayFacts ==
    ASSUME StreamTypeOK, OrderInv
    PROVE  /\ ReplayRecent("api") \in Seq(Published)
           /\ InOrder(ReplayRecent("api")) /\ UpToDate(ReplayRecent("api"))
<1>0. recent["api"] \in Seq(Published) /\ logs \in Seq(Published \cup {Other})
      /\ ReplayLimit \in Nat
  BY LimitsAssumption DEF StreamTypeOK, Processes
<1>1. CASE recent["api"] # <<>>
  <2>. DEFINE s == recent["api"]
              d == Max({0, Len(s) - ReplayLimit})
              r == ReplayRecent("api")
  <2>1. d \in {0, Len(s) - ReplayLimit} /\ d >= 0
    <3>1. \E x \in {0, Len(s) - ReplayLimit} : \A y \in {0, Len(s) - ReplayLimit} : x >= y
      BY <1>0
    <3>. QED  BY <1>0, <3>1 DEF Max
  <2>2. d \in Nat /\ d <= Len(s)
    BY <1>0, <2>1
  <2>a. r = SubSeq(s, d + 1, Len(s))
    BY <1>1, Zenon DEF ReplayRecent
  <2>. HIDE DEF d, s
  <2>b. s \in Seq(Published)
    BY <1>0 DEF s
  <2>3. r \in Seq(Published) /\ \A i \in DOMAIN r : i + d \in DOMAIN s /\ r[i] = s[i + d]
    <3>. HIDE DEF r
    <3>1. /\ SubSeq(s, d + 1, Len(s)) \in Seq(Published)
          /\ \A i \in DOMAIN SubSeq(s, d + 1, Len(s)) :
                 i + d \in DOMAIN s /\ SubSeq(s, d + 1, Len(s))[i] = s[i + d]
      BY <2>b, <2>2, SuffixFacts
    <3>. QED  BY <2>a, <3>1
  <2>4. InOrder(s) /\ UpToDate(s)
    BY DEF OrderInv, Processes, s
  <2>. HIDE DEF r
  <2>5. InOrder(r)
    BY <2>b, <2>2, <2>3, <2>4, SuffixInOrder
  <2>6. UpToDate(r)
    BY <2>3, <2>4 DEF UpToDate
  <2>. QED  BY <2>3, <2>5, <2>6 DEF r
<1>2. CASE recent["api"] = <<>>
  <2>. DEFINE m == Min({ReplayLimit, Len(logs)})
              e == SubSeq(logs, 1, m)
  <2>1. m \in {ReplayLimit, Len(logs)} /\ m <= Len(logs)
    <3>1. \E x \in {ReplayLimit, Len(logs)} : \A y \in {ReplayLimit, Len(logs)} : x =< y
      BY <1>0
    <3>. QED  BY <1>0, <3>1 DEF Min
  <2>2. m \in Nat /\ ReplayRecent("api") = StreamMessages(e)
    BY <1>0, <1>2, <2>1 DEF ReplayRecent
  <2>. HIDE DEF m
  <2>3. /\ e \in Seq(Published \cup {Other})
        /\ \A i \in DOMAIN e : i + 0 \in DOMAIN logs /\ e[i] = logs[i + 0]
    BY <1>0, <2>1, <2>2
  <2>. HIDE DEF e
  <2>4. InOrder(e)
    BY <1>0, <2>3, SuffixInOrder DEF OrderInv
  <2>5. /\ StreamMessages(e) \in Seq(Published) /\ InOrder(StreamMessages(e))
        /\ \A i \in DOMAIN StreamMessages(e) : \E k \in DOMAIN e : StreamMessages(e)[i] = e[k]
    BY <2>3, <2>4, FilterFacts
  <2>6. \A k \in DOMAIN e : \E l \in DOMAIN logs : e[k] = logs[l]
    BY <2>3
  <2>7. UpToDate(StreamMessages(e))
    BY <2>5, <2>6 DEF OrderInv, UpToDate
  <2>. QED  BY <2>2, <2>5, <2>7
<1>. QED  BY <1>1, <1>2

-----------------------------------------------------------------------------
(* The steps, by what they do to the threads and the service.              *)

Serving == {"deliver", "sentinel"}
Categories == {"status", "progress", "completed", "error"}
Afters == {"end", "queued", "run", "close"}

\* A thread goes on without the service; an entry that is no message may be logged.
Moves(t) ==
    /\ thread[t].point \notin Serving
    /\ \E point \in ThreadPoints \ Serving, after \in Afters :
           thread' = [thread EXCEPT ![t].point = point, ![t].after = after]
    /\ logs' \in {logs, Append(logs, Other), <<>>} /\ status' \in Statuses
    /\ UNCHANGED <<mode, service, queue, viewer, faults>>

\* A thread that serves nobody publishes; only a message about the queueing of a queued run
\* and those of its cancel go to the service that has readers.
Publishes(t, p, category, after) ==
    /\ thread[t].point \notin Serving
    /\ mode = "queued" /\ t = "exec" /\ after # "queued" => p = "worker"
    /\ Publish(t, p, category, after)

Closes(t, p) ==
    /\ thread[t].point \notin Serving
    /\ mode = "queued" /\ t = "exec" => p = "worker"
    /\ Close(t, p)

\* Every step is of one of these kinds.
LEMMA StepKinds ==
    ASSUME StreamTypeOK, Next
    PROVE  \/ \E t \in Threads : Moves(t)
           \/ \E t \in Threads, p \in Processes, category \in Categories, after \in Afters :
                 Publishes(t, p, category, after)
           \/ \E t \in Threads, p \in Processes : Closes(t, p)
           \/ \E t \in Threads : Deliver(t) \/ LogMessage(t) \/ PutSentinel(t)
           \/ \E v \in Viewers : Read(v) \/ Drop(v)
           \/ Restart
<1>. USE DEF Serving, Afters, Categories, Threads, Processes
<1>0. /\ \A t \in Threads : thread[t].after \in Afters /\ thread[t].point \in ThreadPoints
      /\ \A t \in Threads : thread[t] = [thread[t] EXCEPT !.after = thread[t].after]
      /\ thread \in [Threads -> Thread]
  BY DEF StreamTypeOK, Thread
<1>1. CASE CreateRun
  BY <1>1 DEF CreateRun, Moves, ThreadPoints, Statuses
<1>9. CASE ClaimQueued
  <2>2. PICK point \in {"end", "start"} :
            thread' = [thread EXCEPT !["exec"].point = point, !["exec"].after = "end"]
    BY <1>9 DEF ClaimQueued
  <2>3. Moves("exec")
    BY <1>9, <2>2 DEF ClaimQueued, Moves, AppendLog, ThreadPoints, StreamTypeOK
  <2>. QED  BY <2>3
<1>2. CASE StartRun \/ FinishRun("completed") \/ FinishRun("failed")
  <2>1. PICK point \in ThreadPoints \ Serving : Goto("exec", point)
    BY <1>2 DEF StartRun, FinishRun, ThreadPoints
  <2>2. thread' = [thread EXCEPT !["exec"].point = point, !["exec"].after = thread["exec"].after]
    BY <1>0, <2>1 DEF Goto
  <2>3. Moves("exec")
    BY <1>0, <1>2, <2>1, <2>2
       DEF StartRun, FinishRun, Moves, SetStatus, Statuses, StreamTypeOK
  <2>. QED  BY <2>3
<1>3. CASE CancelRead
  BY <1>0, <1>3 DEF CancelRead, Moves, ThreadPoints, StreamTypeOK
<1>4. CASE CancelWrite
  <2>1. PICK point \in ThreadPoints \ Serving : Goto("cancel", point)
    BY <1>4 DEF CancelWrite, ThreadPoints
  <2>2. thread' = [thread EXCEPT !["cancel"].point = point, !["cancel"].after = thread["cancel"].after]
    BY <1>0, <2>1 DEF Goto
  <2>3. Moves("cancel")
    BY <1>0, <1>4, <2>1, <2>2 DEF CancelWrite, Moves, SetStatus, AppendLog, Statuses, StreamTypeOK
  <2>. QED  BY <2>3
<1>5. CASE DeleteRun
  <2>1. thread' = [thread EXCEPT !["delete"].point = "close", !["delete"].after = thread["delete"].after]
    BY <1>0, <1>5 DEF DeleteRun, Goto
  <2>2. Moves("delete")
    BY <1>0, <1>5, <2>1 DEF DeleteRun, Moves, ThreadPoints, Statuses
  <2>. QED  BY <2>2
<1>6. CASE PublishQueued \/ PublishStarted \/ PublishProgress \/ PublishEnd
  BY <1>0, <1>6 DEF PublishQueued, PublishStarted, PublishProgress, PublishEnd, Publishes, Home
<1>7. CASE PublishCanceled
  BY <1>0, <1>7 DEF PublishCanceled, Publishes
<1>8. CASE CloseRun \/ CloseCanceled \/ CloseDeleted
  BY <1>0, <1>8 DEF CloseRun, CloseCanceled, CloseDeleted, Closes, Home
<1>. QED  BY <1>1, <1>2, <1>3, <1>4, <1>5, <1>6, <1>7, <1>8, <1>9 DEF Next, Advance, Execute

-----------------------------------------------------------------------------
(* Types.                                                                  *)

\* What a service remembers after a message is published, and the threads then.
LEMMA PublishFacts ==
    ASSUME StreamTypeOK, NEW t \in Threads, NEW p \in Processes, NEW category \in Categories,
           NEW after \in Afters, Publishes(t, p, category, after)
    PROVE  \E msg \in Published :
              /\ msg.by = t /\ msg.n = thread[t].n + 1
              /\ recent' = [recent EXCEPT ![p] = Keep(Append(@, msg))]
              /\ thread' = [thread EXCEPT ![t] = [point |-> "deliver", after |-> after, msg |-> msg,
                                                 to |-> subscribers[p], n |-> msg.n]]
<1>. DEFINE msg == [category |-> category, by |-> t, n |-> thread[t].n + 1]
<1>1. thread[t].n \in Nat
  BY DEF StreamTypeOK, Thread
<1>2. msg \in Published /\ msg.by = t /\ msg.n = thread[t].n + 1
  BY <1>1 DEF Published, Categories
<1>. QED  BY <1>2, Zenon DEF Publishes, Publish

\* A thread that moves.
LEMMA ThreadFacts ==
    ASSUME NEW th \in Thread, NEW point \in ThreadPoints, NEW after \in Afters
    PROVE  [th EXCEPT !.point = point, !.after = after] \in Thread
BY DEF Thread, Afters

\* The state keeps its types.
LEMMA TypeStep ==
    ASSUME StreamTypeOK, OrderInv, Next
    PROVE  StreamTypeOK'
<1>. USE DEF Processes
<1>th. thread \in [Threads -> Thread]
  BY DEF StreamTypeOK
<1>vw. viewer \in [Viewers -> Viewer]
  BY DEF StreamTypeOK
<1>qu. queue \in [Viewers -> Seq(Published \cup {Sentinel})]
  BY DEF StreamTypeOK
<1>lo. logs \in Seq(Published \cup {Other})
  BY DEF StreamTypeOK
<1>re. recent \in [Processes -> Seq(Published)]
  BY DEF StreamTypeOK
<1>su. subscribers \in [Processes -> SUBSET Viewers]
  BY DEF StreamTypeOK
<1>cl. closed \in [Processes -> BOOLEAN] /\ mode \in {"sync", "queued"} /\ status \in Statuses /\ faults \in Nat
  BY DEF StreamTypeOK
<1>a. NewViewer \in Viewer
  BY DEF NewViewer, Viewer, ViewerPoints, Statuses
<1>t. \A t \in Threads : thread[t] \in Thread
  BY <1>th
<1>v. \A v \in Viewers : viewer[v] \in Viewer
  BY <1>vw
<1>1. ASSUME NEW t \in Threads, Moves(t) PROVE StreamTypeOK'
  <2>1. PICK point \in ThreadPoints, after \in Afters :
            thread' = [thread EXCEPT ![t] = [thread[t] EXCEPT !.point = point, !.after = after]]
    BY <1>1 DEF Moves
  <2>2. thread' \in [Threads -> Thread]
    <3>1. [thread[t] EXCEPT !.point = point, !.after = after] \in Thread
      BY <1>t, ThreadFacts
    <3>. QED  BY <1>th, <2>1, <3>1
  <2>3. Append(logs, Other) \in Seq(Published \cup {Other}) /\ <<>> \in Seq(Published \cup {Other})
    BY <1>lo
  <2>4. logs' \in Seq(Published \cup {Other}) /\ status' \in Statuses
    BY <1>lo, <1>1, <2>3 DEF Moves
  <2>5. UNCHANGED <<mode, service, queue, viewer, faults>>
    BY <1>1 DEF Moves
  <2>. QED  BY <1>vw, <1>qu, <1>re, <1>su, <1>cl, <2>2, <2>4, <2>5 DEF service, StreamTypeOK
<1>2. ASSUME NEW t \in Threads, NEW p \in Processes, NEW category \in Categories,
             NEW after \in Afters, Publishes(t, p, category, after)
      PROVE  StreamTypeOK'
  <2>1. PICK msg \in Published :
            /\ msg.by = t /\ msg.n = thread[t].n + 1
            /\ recent' = [recent EXCEPT ![p] = Keep(Append(@, msg))]
            /\ thread' = [thread EXCEPT ![t] = [point |-> "deliver", after |-> after, msg |-> msg,
                                               to |-> subscribers[p], n |-> msg.n]]
    BY <1>2, PublishFacts
  <2>2. recent' \in [Processes -> Seq(Published)]
    <3>1. Append(recent[p], msg) \in Seq(Published)
      BY <1>re
    <3>2. Keep(Append(recent[p], msg)) \in Seq(Published)
      BY <3>1, KeepFacts
    <3>. QED  BY <1>re, <2>1, <3>2
  <2>3. thread' \in [Threads -> Thread]
    <3>1. [point |-> "deliver", after |-> after, msg |-> msg, to |-> subscribers[p], n |-> msg.n]
              \in Thread
      BY <1>su DEF Published, Thread, ThreadPoints, Afters
    <3>. QED  BY <1>th, <2>1, <3>1
  <2>4. UNCHANGED <<mode, status, logs, subscribers, closed, queue, viewer, faults>>
    BY <1>2 DEF Publishes, Publish
  <2>. QED  BY <1>vw, <1>qu, <1>lo, <1>su, <1>cl, <2>2, <2>3, <2>4 DEF StreamTypeOK
<1>3. ASSUME NEW t \in Threads, NEW p \in Processes, Closes(t, p) PROVE StreamTypeOK'
  <2>1. thread' \in [Threads -> Thread]
    <3>1. [thread[t] EXCEPT !.point = "sentinel", !.to = subscribers[p]] \in Thread
      BY <1>t, <1>su DEF Thread, ThreadPoints
    <3>. QED  BY <1>th, <1>3, <3>1 DEF Closes, Close
  <2>2. closed' \in [Processes -> BOOLEAN] /\ subscribers' \in [Processes -> SUBSET Viewers]
    BY <1>cl, <1>su, <1>3 DEF Closes, Close
  <2>3. UNCHANGED <<mode, status, logs, recent, queue, viewer, faults>>
    BY <1>3 DEF Closes, Close
  <2>. QED  BY <1>vw, <1>qu, <1>lo, <1>re, <1>cl, <2>1, <2>2, <2>3 DEF StreamTypeOK
<1>4. ASSUME NEW t \in Threads, Deliver(t) \/ PutSentinel(t) PROVE StreamTypeOK'
  <2>1. PICK v \in Viewers, m \in {thread[t].msg, Sentinel} :
            /\ queue' = [queue EXCEPT ![v] = Append(queue[v], m)]
            /\ m = Sentinel \/ thread[t].point = "deliver"
            /\ thread' = [thread EXCEPT ![t] = [thread[t] EXCEPT !.to = @ \ {v}]]
    <3>1. thread[t].to \subseteq Viewers
      BY <1>t DEF Thread
    <3>2. CASE Deliver(t)
      BY <3>1, <3>2 DEF Deliver
    <3>3. CASE PutSentinel(t)
      BY <3>1, <3>3 DEF PutSentinel
    <3>. QED  BY <1>4, <3>2, <3>3
  <2>2. m \in Published \cup {Sentinel}
    BY <2>1 DEF OrderInv
  <2>3. thread' \in [Threads -> Thread]
    <3>1. [thread[t] EXCEPT !.to = @ \ {v}] \in Thread
      BY <1>t DEF Thread
    <3>. QED  BY <1>th, <2>1, <3>1
  <2>4. queue' \in [Viewers -> Seq(Published \cup {Sentinel})]
    <3>1. Append(queue[v], m) \in Seq(Published \cup {Sentinel})
      BY <1>qu, <2>2
    <3>. QED  BY <1>qu, <2>1, <3>1
  <2>5. UNCHANGED <<mode, status, logs, service, viewer, faults>>
    BY <1>4 DEF Deliver, PutSentinel
  <2>. QED  BY <1>vw, <1>lo, <1>re, <1>su, <1>cl, <2>3, <2>4, <2>5 DEF service, StreamTypeOK
<1>5. ASSUME NEW t \in Threads, LogMessage(t) PROVE StreamTypeOK'
  <2>1. thread[t].msg \in Published \cup {Other} /\ thread[t].after \in ThreadPoints
    BY <1>t DEF Thread, ThreadPoints
  <2>2. logs' \in Seq(Published \cup {Other})
    <3>1. Append(logs, thread[t].msg) \in Seq(Published \cup {Other})
      BY <1>lo, <2>1
    <3>. QED  BY <1>lo, <1>5, <3>1 DEF LogMessage, AppendLog
  <2>3. thread' \in [Threads -> Thread]
    <3>1. [thread[t] EXCEPT !.point = thread[t].after] \in Thread
      BY <1>t, <2>1 DEF Thread
    <3>. QED  BY <1>th, <1>5, <3>1 DEF LogMessage, Goto
  <2>4. UNCHANGED <<mode, status, service, queue, viewer, faults>>
    BY <1>5 DEF LogMessage
  <2>. QED  BY <1>vw, <1>qu, <1>re, <1>su, <1>cl, <2>2, <2>3, <2>4 DEF service, StreamTypeOK
<1>6. ASSUME NEW v \in Viewers, NEW vw \in Viewer, viewer' = [viewer EXCEPT ![v] = vw]
      PROVE  viewer' \in [Viewers -> Viewer]
  BY <1>vw, <1>6
<1>7. ASSUME NEW v \in Viewers, Connect(v) \/ Replay(v) \/ CheckEnd(v) PROVE StreamTypeOK'
  <2>1. PICK vw : viewer' = [viewer EXCEPT ![v] = vw] /\ vw \in Viewer
    <3>1. CASE Connect(v)
      <4>1. [point |-> "replay", known |-> status, got |-> <<>>,
             late |-> status \in {"completed", "failed"} /\ EndLogged] \in Viewer
        BY <1>cl DEF Viewer, ViewerPoints
      <4>. QED  BY <3>1, <4>1 DEF Connect
    <3>2. CASE Replay(v)
      <4>1. ReplayRecent("api") \in Seq(Published)
        BY ReplayFacts
      <4>2. PICK point \in {"done", "check"} :
                viewer' = [viewer EXCEPT ![v] = [viewer[v] EXCEPT !.got = ReplayRecent("api"), !.point = point]]
        BY <3>2 DEF Replay
      <4>3. [viewer[v] EXCEPT !.got = ReplayRecent("api"), !.point = point] \in Viewer
        BY <1>v, <4>1 DEF Viewer, ViewerPoints
      <4>. QED  BY <4>2, <4>3
    <3>3. CASE CheckEnd(v)
      <4>1. [viewer[v] EXCEPT !.point = "subscribe"] \in Viewer
        BY <1>v DEF Viewer, ViewerPoints
      <4>. QED  BY <1>a, <3>3, <4>1 DEF CheckEnd
    <3>. QED  BY <1>7, <3>1, <3>2, <3>3
  <2>2. viewer' \in [Viewers -> Viewer]
    BY <1>6, <2>1
  <2>3. UNCHANGED <<mode, status, logs, recent, closed, subscribers, queue, thread, faults>>
    BY <1>7 DEF Connect, Replay, CheckEnd, ViewerStep
  <2>. QED  BY <1>th, <1>qu, <1>lo, <1>re, <1>su, <1>cl, <2>2, <2>3 DEF StreamTypeOK
<1>8. ASSUME NEW v \in Viewers, Subscribe(v) PROVE StreamTypeOK'
  <2>1. viewer' \in [Viewers -> Viewer]
    <3>1. [viewer[v] EXCEPT !.point = "live"] \in Viewer
      BY <1>v DEF Viewer, ViewerPoints
    <3>. QED  BY <1>a, <1>6, <1>8, <3>1 DEF Subscribe
  <2>2. /\ subscribers' \in [Processes -> SUBSET Viewers]
        /\ queue' \in [Viewers -> Seq(Published \cup {Sentinel})]
    BY <1>su, <1>qu, <1>8 DEF Subscribe
  <2>3. UNCHANGED <<mode, status, logs, recent, closed, thread, faults>>
    BY <1>8 DEF Subscribe, ViewerStep
  <2>. QED  BY <1>th, <1>lo, <1>re, <1>cl, <2>1, <2>2, <2>3 DEF StreamTypeOK
<1>b. ASSUME NEW v \in Viewers, Unsubscribe(v) \/ UNCHANGED <<subscribers, thread>>
      PROVE  subscribers' \in [Processes -> SUBSET Viewers] /\ thread' \in [Threads -> Thread]
  <2>1. \A t \in Threads : [thread[t] EXCEPT !.to = @ \ {v}] \in Thread
    BY <1>t DEF Thread
  <2>. QED  BY <1>th, <1>su, <1>b, <2>1 DEF Unsubscribe
<1>9. ASSUME NEW v \in Viewers, Receive(v) PROVE StreamTypeOK'
  <2>. DEFINE msg == Head(queue[v])
              over == msg = Sentinel \/ msg.category \in EndCategories
  <2>1. /\ msg \in Published \cup {Sentinel} /\ Tail(queue[v]) \in Seq(Published \cup {Sentinel})
        /\ <<>> \in Seq(Published \cup {Sentinel})
    BY <1>qu, <1>9 DEF Receive
  <2>2. /\ viewer' = [viewer EXCEPT ![v] =
                  IF msg = Sentinel THEN NewViewer
                  ELSE [viewer[v] EXCEPT !.got = Append(@, msg),
                                         !.point = IF over THEN "done" ELSE @]]
        /\ queue' = [queue EXCEPT ![v] = IF over THEN <<>> ELSE Tail(@)]
        /\ Unsubscribe(v) \/ UNCHANGED <<subscribers, thread>>
    BY <1>9, Zenon DEF Receive
  <2>. HIDE DEF msg, over
  <2>3. viewer' \in [Viewers -> Viewer]
    <3>1. CASE msg = Sentinel
      BY <1>a, <1>6, <2>2, <3>1
    <3>2. CASE msg # Sentinel
      <4>1. viewer[v].got \in Seq(Published) /\ msg \in Published
        BY <1>v, <2>1, <3>2 DEF Viewer
      <4>2. Append(viewer[v].got, msg) \in Seq(Published)
        BY <4>1
      <4>3. CASE over
        BY <1>vw, <1>v, <2>2, <3>2, <4>2, <4>3 DEF Viewer, ViewerPoints
      <4>4. CASE ~over
        BY <1>vw, <1>v, <2>2, <3>2, <4>2, <4>4 DEF Viewer, ViewerPoints
      <4>. QED  BY <4>3, <4>4
    <3>. QED  BY <3>1, <3>2
  <2>4. queue' \in [Viewers -> Seq(Published \cup {Sentinel})]
    BY <1>qu, <2>1, <2>2
  <2>5. UNCHANGED <<mode, status, logs, recent, closed, faults>>
    BY <1>9 DEF Receive, ViewerStep
  <2>. QED  BY <1>b, <1>lo, <1>re, <1>cl, <2>2, <2>3, <2>4, <2>5 DEF StreamTypeOK
<1>10. ASSUME NEW v \in Viewers, Drop(v) PROVE StreamTypeOK'
  <2>1. viewer' \in [Viewers -> Viewer]
    BY <1>a, <1>6, <1>10 DEF Drop
  <2>2. queue' \in [Viewers -> Seq(Published \cup {Sentinel})]
    BY <1>qu, <1>10 DEF Drop
  <2>3. Unsubscribe(v) /\ faults' \in Nat /\ UNCHANGED <<mode, status, logs, recent, closed>>
    BY <1>cl, <1>10 DEF Drop, ViewerStep
  <2>. QED  BY <1>b, <1>lo, <1>re, <1>cl, <2>1, <2>2, <2>3 DEF StreamTypeOK
<1>11. CASE Restart
  <2>0. /\ faults' = faults + 1 /\ mode' = mode /\ status' = status /\ logs' = logs
        /\ recent' = [recent EXCEPT !["api"] = <<>>]
        /\ subscribers' = [subscribers EXCEPT !["api"] = {}]
        /\ closed' = [closed EXCEPT !["api"] = FALSE]
        /\ queue' = [v \in Viewers |-> <<>>]
    BY <1>11, Zenon DEF Restart
  <2>1. thread' \in [Threads -> Thread]
    <3>1. \A t \in Threads : [thread[t] EXCEPT !.point = "end", !.to = {}] \in Thread
      BY <1>t DEF Thread, ThreadPoints
    <3>. QED  BY <1>t, <1>11, <3>1 DEF Restart
  <2>2. viewer' \in [Viewers -> Viewer]
    BY <1>v, <1>a, <1>11 DEF Restart
  <2>3. /\ recent' \in [Processes -> Seq(Published)]
        /\ subscribers' \in [Processes -> SUBSET Viewers]
        /\ closed' \in [Processes -> BOOLEAN]
    BY <1>re, <1>su, <1>cl, <2>0
  <2>4. queue' \in [Viewers -> Seq(Published \cup {Sentinel})]
    BY <2>0
  <2>5. faults' \in Nat
    BY <1>cl, <2>0
  <2>. QED  BY <1>lo, <1>cl, <2>0, <2>1, <2>2, <2>3, <2>4, <2>5 DEF StreamTypeOK
<1>. QED
  BY StepKinds, <1>1, <1>2, <1>3, <1>4, <1>5, <1>7, <1>8, <1>9, <1>10, <1>11 DEF Read

-----------------------------------------------------------------------------
(* Who is subscribed, and who is served.                                   *)

Receipt(v) ==
    /\ Live(v) /\ queue[v] # <<>> /\ Head(queue[v]) # Sentinel
    /\ viewer'[v].got = Append(viewer[v].got, Head(queue[v]))

\* The steps of a viewer, as the threads and the other viewers see them: one that stays
\* live or gets it keeps its subscription, one that is not live has none.
LEMMA ViewerSteps ==
    ASSUME StreamTypeOK, SubscriberInv, NEW v \in Viewers, Read(v) \/ Drop(v)
    PROVE  /\ UNCHANGED <<mode, status, logs, recent, closed>>
           /\ \A w \in Viewers \ {v} : viewer'[w] = viewer[w] /\ queue'[w] = queue[w]
           /\ viewer'[v].got \in {<<>>, viewer[v].got, ReplayRecent("api")} \/ Receipt(v)
           /\ \/ /\ Live(v) <=> Live(v)'
                 /\ UNCHANGED <<subscribers, thread>>
                 /\ Live(v) => Receipt(v) /\ queue'[v] = Tail(queue[v])
              \/ /\ ~closed["api"] /\ ~Live(v) /\ Live(v)' /\ queue'[v] = <<>>
                 /\ viewer'[v].got = viewer[v].got
                 /\ subscribers' = [subscribers EXCEPT !["api"] = @ \cup {v}] /\ UNCHANGED thread
              \/ ~Live(v)' /\ Unsubscribe(v)
<1>. USE DEF Live, StreamTypeOK
<1>a. viewer \in [Viewers -> Viewer] /\ queue \in [Viewers -> Seq(Published \cup {Sentinel})]
  OBVIOUS
<1>1. CASE Connect(v) \/ Replay(v) \/ CheckEnd(v)
  <2>1. /\ viewer[v].point # "live" /\ viewer'[v].point # "live"
        /\ viewer'[v].got \in {<<>>, viewer[v].got, ReplayRecent("api")}
        /\ \A w \in Viewers \ {v} : viewer'[w] = viewer[w]
    BY <1>a, <1>1 DEF Connect, Replay, CheckEnd, NewViewer, Viewer
  <2>2. UNCHANGED <<mode, status, logs, recent, closed, subscribers, queue, thread>>
    BY <1>1 DEF Connect, Replay, CheckEnd, ViewerStep
  <2>. QED  BY <2>1, <2>2
<1>2. CASE Subscribe(v)
  <2>1. CASE closed["api"]
    BY <1>a, <1>2, <2>1 DEF Subscribe, ViewerStep, NewViewer, Viewer, Processes
  <2>2. CASE ~closed["api"]
    BY <1>a, <1>2, <2>2 DEF Subscribe, ViewerStep, Viewer
  <2>. QED  BY <2>1, <2>2
<1>3. CASE Receive(v)
  <2>. DEFINE msg == Head(queue[v])
              over == msg = Sentinel \/ msg.category \in EndCategories
  <2>1. /\ viewer' = [viewer EXCEPT ![v] =
                  IF msg = Sentinel THEN NewViewer
                  ELSE [viewer[v] EXCEPT !.got = Append(@, msg),
                                         !.point = IF over THEN "done" ELSE @]]
        /\ queue' = [queue EXCEPT ![v] = IF over THEN <<>> ELSE Tail(@)]
        /\ IF over THEN Unsubscribe(v) ELSE UNCHANGED <<subscribers, thread>>
        /\ viewer[v].point = "live" /\ UNCHANGED <<mode, status, logs, recent, closed>>
        /\ msg = Sentinel => over
        /\ queue[v] # <<>> /\ msg = Head(queue[v])
    BY <1>3, Zenon DEF Receive, ViewerStep
  <2>. HIDE DEF msg, over
  <2>2. viewer'[v].point # "live" <=> over
    BY <1>a, <2>1 DEF NewViewer, Viewer
  <2>3. \A w \in Viewers \ {v} : viewer'[w] = viewer[w] /\ queue'[w] = queue[w]
    BY <1>a, <2>1
  <2>4. /\ msg = Sentinel => viewer'[v].got = <<>>
        /\ msg # Sentinel => viewer'[v].got = Append(viewer[v].got, msg)
        /\ ~over => queue'[v] = Tail(queue[v])
    BY <1>a, <2>1 DEF NewViewer, Viewer
  <2>5. viewer'[v].got = <<>> \/ Receipt(v)
    BY <2>1, <2>4 DEF Receipt
  <2>6. ~over => Receipt(v) /\ queue'[v] = Tail(queue[v])
    BY <2>1, <2>4 DEF Receipt
  <2>. QED  BY <2>1, <2>2, <2>3, <2>5, <2>6
<1>4. CASE Drop(v)
  BY <1>a, <1>4 DEF Drop, ViewerStep, NewViewer
<1>. QED  BY <1>1, <1>2, <1>3, <1>4 DEF Read

\* Everybody who is live on an open stream is subscribed, threads serve live viewers.
LEMMA SubscriberStep ==
    ASSUME StreamTypeOK, SubscriberInv, Next
    PROVE  SubscriberInv'
<1>. USE DEF Live, Processes, Serving, Threads
<1>th. thread \in [Threads -> Thread] /\ \A t \in Threads : thread[t].to \in SUBSET Viewers
  BY DEF StreamTypeOK, Thread
<1>su. subscribers \in [Processes -> SUBSET Viewers] /\ closed \in [Processes -> BOOLEAN]
  BY DEF StreamTypeOK
<1>1. ASSUME NEW t \in Threads, Moves(t) PROVE SubscriberInv'
  <2>1. /\ \A s \in Threads : thread'[s].to = thread[s].to
        /\ thread'[t].point \notin Serving /\ thread[t].to = {}
        /\ \A s \in Threads \ {t} : thread'[s] = thread[s]
        /\ UNCHANGED <<mode, service, queue, viewer>>
    BY <1>th, <1>1 DEF Moves, SubscriberInv, Thread
  <2>. QED  BY <1>th, <2>1 DEF SubscriberInv, service
<1>2. ASSUME NEW t \in Threads, NEW p \in Processes, NEW category \in Categories,
             NEW after \in Afters, Publishes(t, p, category, after)
      PROVE  SubscriberInv'
  <2>1. /\ thread'[t].point = "deliver" /\ thread'[t].to = subscribers[p]
        /\ thread'[t].after = after
        /\ \A s \in Threads \ {t} : thread'[s] = thread[s]
        /\ UNCHANGED <<mode, subscribers, closed, queue, viewer>>
        /\ mode = "queued" /\ t = "exec" /\ after # "queued" => p = "worker"
    BY <1>th, <1>2 DEF Publishes, Publish
  <2>. QED  BY <1>th, <1>su, <2>1 DEF SubscriberInv
<1>3. ASSUME NEW t \in Threads, NEW p \in Processes, Closes(t, p) PROVE SubscriberInv'
  <2>1. /\ thread'[t].point = "sentinel" /\ thread'[t].to = subscribers[p]
        /\ \A s \in Threads \ {t} : thread'[s] = thread[s]
        /\ closed' = [closed EXCEPT ![p] = TRUE] /\ subscribers' = [subscribers EXCEPT ![p] = {}]
        /\ UNCHANGED <<mode, queue, viewer>>
        /\ mode = "queued" /\ t = "exec" => p = "worker"
    BY <1>th, <1>3 DEF Closes, Close, Thread
  <2>. QED  BY <1>th, <1>su, <2>1 DEF SubscriberInv
<1>4. ASSUME NEW t \in Threads, Deliver(t) \/ PutSentinel(t) PROVE SubscriberInv'
  <2>1. /\ thread'[t].to \subseteq thread[t].to /\ thread'[t].point = thread[t].point
        /\ thread'[t].after = thread[t].after
        /\ \A s \in Threads \ {t} : thread'[s] = thread[s]
        /\ UNCHANGED <<mode, subscribers, closed, viewer>>
    BY <1>th, <1>4 DEF Deliver, PutSentinel, service, Thread
  <2>. QED  BY <1>th, <2>1 DEF SubscriberInv
<1>5. ASSUME NEW t \in Threads, LogMessage(t) PROVE SubscriberInv'
  <2>1. /\ thread'[t].to = {} /\ \A s \in Threads \ {t} : thread'[s] = thread[s]
        /\ UNCHANGED <<mode, subscribers, closed, viewer>>
    BY <1>th, <1>5 DEF LogMessage, Goto, service, Thread
  <2>. QED  BY <1>th, <2>1 DEF SubscriberInv
<1>6. ASSUME NEW v \in Viewers, Read(v) \/ Drop(v) PROVE SubscriberInv'
  <2>0. /\ UNCHANGED <<mode, closed>> /\ \A w \in Viewers \ {v} : viewer'[w] = viewer[w]
    BY <1>6, ViewerSteps
  <2>1. CASE (Live(v) <=> Live(v)') /\ UNCHANGED <<subscribers, thread>>
    BY <1>su, <1>th, <2>0, <2>1 DEF SubscriberInv
  <2>2. CASE /\ ~closed["api"] /\ Live(v)'
             /\ subscribers' = [subscribers EXCEPT !["api"] = @ \cup {v}] /\ UNCHANGED thread
    BY <1>su, <1>th, <2>0, <2>2 DEF SubscriberInv
  <2>3. CASE ~Live(v)' /\ Unsubscribe(v)
    <3>1. /\ \A t \in Threads : /\ thread'[t].to = thread[t].to \ {v}
                                /\ thread'[t].point = thread[t].point
                                /\ thread'[t].after = thread[t].after
          /\ subscribers' = [subscribers EXCEPT !["api"] = @ \ {v}]
      BY <1>th, <2>3 DEF Unsubscribe, Thread
    <3>. QED  BY <1>su, <1>th, <2>0, <2>3, <3>1 DEF SubscriberInv
  <2>. QED  BY <1>6, <2>1, <2>2, <2>3, ViewerSteps
<1>7. CASE Restart
  <2>1. /\ subscribers' = [subscribers EXCEPT !["api"] = {}]
        /\ closed' = [closed EXCEPT !["api"] = FALSE]
        /\ mode' = mode
        /\ viewer' = [v \in Viewers |-> IF viewer[v].point = "done" THEN viewer[v] ELSE NewViewer]
        /\ thread' = [t \in Threads |->
               IF Process(t) = "api" /\ thread[t].point \notin {"begin", "queued"}
               THEN [thread[t] EXCEPT !.point = "end", !.to = {}] ELSE thread[t]]
    BY <1>7, Zenon DEF Restart
  <2>2. \A v \in Viewers : viewer'[v].point # "live"
    BY <2>1 DEF NewViewer
  <2>3. \A t \in Threads : thread'[t].to = {}
    <3>. SUFFICES ASSUME NEW t \in Threads PROVE thread'[t].to = {}
      OBVIOUS
    <3>1. CASE thread[t].point \in {"begin", "queued"}
      BY <1>th, <2>1, <3>1 DEF SubscriberInv
    <3>2. CASE Process(t) = "api" /\ thread[t].point \notin {"begin", "queued"}
      BY <1>th, <2>1, <3>2 DEF Thread
    <3>3. CASE Process(t) # "api"
      <4>1. t = "exec" /\ thread["exec"].after # "queued" /\ mode = "queued"
        BY <3>3 DEF Process, Home
      <4>. QED  BY <1>th, <2>1, <3>3, <4>1 DEF SubscriberInv
    <3>. QED  BY <3>1, <3>2, <3>3
  <2>. QED  BY <1>su, <2>1, <2>2, <2>3 DEF SubscriberInv
<1>. QED  BY StepKinds, <1>1, <1>2, <1>3, <1>4, <1>5, <1>6, <1>7

\* Whoever waits on a stream that was closed has the sentinel or is about to get it.
LEMMA StrandedStep ==
    ASSUME StreamTypeOK, SubscriberInv, NobodyStranded, Next
    PROVE  NobodyStranded'
<1>. USE DEF Live, Processes, Serving
<1>th. thread \in [Threads -> Thread]
  BY DEF StreamTypeOK
<1>qu. queue \in [Viewers -> Seq(Published \cup {Sentinel})]
  BY DEF StreamTypeOK
<1>a. ASSUME ~closed["api"] => ~closed'["api"],
             \A v \in Viewers : viewer'[v].point = "live" => viewer[v].point = "live",
             \A v \in Viewers : \A i \in DOMAIN queue[v] :
                 i \in DOMAIN queue'[v] /\ queue'[v][i] = queue[v][i],
             \A t \in Threads : thread[t].point = "sentinel" =>
                 /\ thread'[t].point = "sentinel"
                 /\ \A v \in thread[t].to : \/ v \in thread'[t].to
                                            \/ \E i \in DOMAIN queue'[v] : queue'[v][i] = Sentinel
      PROVE  NobodyStranded'
  BY <1>a DEF NobodyStranded
<1>1. ASSUME NEW t \in Threads, Moves(t) PROVE NobodyStranded'
  <2>1. /\ thread[t].point # "sentinel" /\ \A s \in Threads \ {t} : thread'[s] = thread[s]
        /\ closed' = closed /\ queue' = queue /\ viewer' = viewer
    BY <1>th, <1>1 DEF Moves, service
  <2>. QED  BY <1>a, <2>1
<1>2. ASSUME NEW t \in Threads, NEW p \in Processes, NEW category \in Categories,
             NEW after \in Afters, Publishes(t, p, category, after)
      PROVE  NobodyStranded'
  <2>1. /\ thread[t].point # "sentinel" /\ \A s \in Threads \ {t} : thread'[s] = thread[s]
        /\ closed' = closed /\ queue' = queue /\ viewer' = viewer
    BY <1>th, <1>2 DEF Publishes, Publish
  <2>. QED  BY <1>a, <2>1
<1>3. ASSUME NEW t \in Threads, NEW p \in Processes, Closes(t, p) PROVE NobodyStranded'
  <2>1. /\ thread'[t].point = "sentinel" /\ thread'[t].to = subscribers[p]
        /\ thread[t].point # "sentinel" /\ \A s \in Threads \ {t} : thread'[s] = thread[s]
        /\ closed' = [closed EXCEPT ![p] = TRUE] /\ UNCHANGED <<queue, viewer>>
    BY <1>th, <1>3 DEF Closes, Close, Thread
  <2>2. CASE p = "worker" \/ closed["api"]
    <3>1. closed'["api"] = closed["api"]
      BY <2>1, <2>2 DEF StreamTypeOK
    <3>. QED  BY <1>a, <2>1, <3>1
  <2>3. CASE p = "api" /\ ~closed["api"]
    BY <2>1, <2>3 DEF NobodyStranded, SubscriberInv
  <2>. QED  BY <2>2, <2>3
<1>4. ASSUME NEW t \in Threads, Deliver(t) \/ PutSentinel(t) PROVE NobodyStranded'
  <2>1. PICK v \in thread[t].to, m \in {thread[t].msg, Sentinel} :
            /\ queue' = [queue EXCEPT ![v] = Append(@, m)]
            /\ thread[t].point = "sentinel" => m = Sentinel
            /\ thread'[t].to = thread[t].to \ {v} /\ thread'[t].point = thread[t].point
            /\ \A s \in Threads \ {t} : thread'[s] = thread[s]
            /\ closed' = closed /\ viewer' = viewer
    <3>1. CASE Deliver(t)
      <4>1. PICK v \in thread[t].to :
                /\ queue' = [queue EXCEPT ![v] = Append(@, thread[t].msg)]
                /\ thread' = [thread EXCEPT ![t].to = @ \ {v}]
        BY <3>1 DEF Deliver
      <4>2. thread[t].point = "deliver" /\ closed' = closed /\ viewer' = viewer
        BY <3>1 DEF Deliver, service
      <4>3. /\ thread'[t].to = thread[t].to \ {v} /\ thread'[t].point = thread[t].point
            /\ \A s \in Threads \ {t} : thread'[s] = thread[s]
        BY <1>th, <4>1 DEF Thread
      <4>. QED  BY <4>1, <4>2, <4>3
    <3>2. CASE PutSentinel(t)
      <4>1. PICK v \in thread[t].to :
                /\ queue' = [queue EXCEPT ![v] = Append(@, Sentinel)]
                /\ thread' = [thread EXCEPT ![t].to = @ \ {v}]
        BY <3>2 DEF PutSentinel
      <4>2. thread[t].point = "sentinel" /\ closed' = closed /\ viewer' = viewer
        BY <3>2 DEF PutSentinel, service
      <4>3. /\ thread'[t].to = thread[t].to \ {v} /\ thread'[t].point = thread[t].point
            /\ \A s \in Threads \ {t} : thread'[s] = thread[s]
        BY <1>th, <4>1 DEF Thread
      <4>. QED  BY <4>1, <4>2, <4>3
    <3>. QED  BY <1>4, <3>1, <3>2
  <2>0. v \in Viewers /\ queue[v] \in Seq(Published \cup {Sentinel})
    BY <1>th, <1>qu DEF Thread
  <2>2. /\ \A i \in DOMAIN queue[v] : i \in DOMAIN Append(queue[v], m)
                                   /\ Append(queue[v], m)[i] = queue[v][i]
        /\ Len(queue[v]) + 1 \in DOMAIN Append(queue[v], m)
        /\ Append(queue[v], m)[Len(queue[v]) + 1] = m
    BY <2>0
  <2>3. queue'[v] = Append(queue[v], m) /\ \A w \in Viewers \ {v} : queue'[w] = queue[w]
    BY <1>qu, <2>0, <2>1
  <2>4. thread[t].point = "sentinel" => \E i \in DOMAIN queue'[v] : queue'[v][i] = Sentinel
    BY <2>1, <2>2, <2>3
  <2>5. \A w \in Viewers : \A i \in DOMAIN queue[w] :
            i \in DOMAIN queue'[w] /\ queue'[w][i] = queue[w][i]
    BY <2>2, <2>3
  <2>. QED  BY <1>a, <2>1, <2>4, <2>5
<1>5. ASSUME NEW t \in Threads, LogMessage(t) PROVE NobodyStranded'
  <2>1. /\ thread[t].point # "sentinel" /\ \A s \in Threads \ {t} : thread'[s] = thread[s]
        /\ closed' = closed /\ queue' = queue /\ viewer' = viewer
    BY <1>th, <1>5 DEF LogMessage, Goto, service
  <2>. QED  BY <1>a, <2>1
<1>6. ASSUME NEW v \in Viewers, Read(v) \/ Drop(v) PROVE NobodyStranded'
  <2>0. closed' = closed /\ \A w \in Viewers \ {v} : viewer'[w] = viewer[w] /\ queue'[w] = queue[w]
    BY <1>6, ViewerSteps
  <2>1. CASE /\ Live(v) <=> Live(v)'
             /\ UNCHANGED <<subscribers, thread>>
             /\ Live(v) => Receipt(v) /\ queue'[v] = Tail(queue[v])
    <3>1. CASE ~Live(v)
      BY <2>0, <2>1, <3>1 DEF NobodyStranded
    <3>2. CASE Live(v)
      <4>1. queue[v] # <<>> /\ Head(queue[v]) # Sentinel /\ queue'[v] = Tail(queue[v])
        BY <2>1, <3>2 DEF Receipt
      <4>2. ASSUME NEW i \in DOMAIN queue[v], queue[v][i] = Sentinel
            PROVE  \E j \in DOMAIN queue'[v] : queue'[v][j] = Sentinel
        <5>1. /\ i # 1 /\ i - 1 \in DOMAIN Tail(queue[v])
              /\ Tail(queue[v])[i - 1] = queue[v][i]
          BY <1>qu, <4>1, <4>2
        <5>. QED  BY <4>1, <4>2, <5>1
      <4>. QED  BY <2>0, <2>1, <4>2 DEF NobodyStranded
    <3>. QED  BY <3>1, <3>2
  <2>2. CASE ~closed["api"]
    BY <2>0, <2>2 DEF NobodyStranded
  <2>3. CASE ~Live(v)' /\ Unsubscribe(v)
    <3>1. \A t \in Threads : /\ thread'[t].to = thread[t].to \ {v}
                             /\ thread'[t].point = thread[t].point
      BY <1>th, <2>3 DEF Unsubscribe, Thread
    <3>. QED  BY <2>0, <2>3, <3>1 DEF NobodyStranded
  <2>. QED  BY <1>6, <2>1, <2>2, <2>3, ViewerSteps
<1>7. CASE Restart
  <2>1. closed' = [closed EXCEPT !["api"] = FALSE]
    BY <1>7, Zenon DEF Restart
  <2>2. ~closed'["api"]
    BY <2>1 DEF StreamTypeOK
  <2>. QED  BY <2>2 DEF NobodyStranded
<1>. QED  BY StepKinds, <1>1, <1>2, <1>3, <1>4, <1>5, <1>6, <1>7

-----------------------------------------------------------------------------
(* The order of the messages.                                              *)

Entries == Published \cup {Other, Sentinel}

\* A message newer than all others of its publisher may follow them.
LEMMA AppendInOrder ==
    ASSUME NEW S, NEW s \in Seq(S), NEW e \in S, InOrder(s),
           \A i \in DOMAIN s : s[i].by = e.by /\ s[i].by \in Threads => s[i].n < e.n
    PROVE  /\ InOrder(Append(s, e))
           /\ \A i \in DOMAIN Append(s, e) :
                  Append(s, e)[i] = e \/ \E k \in DOMAIN s : Append(s, e)[i] = s[k]
<1>. DEFINE r == Append(s, e)
<1>0. /\ Len(s) \in Nat /\ DOMAIN s = 1..Len(s) /\ DOMAIN r = 1..(Len(s) + 1)
      /\ \A i \in 1..Len(s) : r[i] = s[i]
      /\ r[Len(s) + 1] = e
  OBVIOUS
<1>. HIDE DEF r
<1>1. ASSUME NEW i \in DOMAIN r, NEW j \in DOMAIN r, i < j, r[i].by = r[j].by, r[i].by \in Threads
      PROVE  r[i].n < r[j].n
  <2>1. i \in 1..Len(s) /\ (j \in 1..Len(s) \/ j = Len(s) + 1)
    BY <1>0, <1>1
  <2>. QED  BY <1>0, <1>1, <2>1 DEF InOrder
<1>2. \A i \in DOMAIN r : r[i] = e \/ \E k \in DOMAIN s : r[i] = s[k]
  <2>1. \A i \in DOMAIN r : i \in 1..Len(s) \/ i = Len(s) + 1
    BY <1>0
  <2>. QED  BY <1>0, <2>1
<1>. QED  BY <1>1, <1>2 DEF InOrder, r

\* Messages with numbers, and what the order says of a thread that delivers.
LEMMA NumberFacts ==
    ASSUME StreamTypeOK
    PROVE  /\ \A m \in Entries : m.n \in Nat
           /\ \A t \in Threads : thread[t].n \in Nat
           /\ Published \subseteq Entries /\ Other.by \notin Threads /\ Sentinel.by \notin Threads
           /\ logs \in Seq(Published \cup {Other})
           /\ \A i \in DOMAIN logs : logs[i] \in Entries
           /\ \A p \in Processes : recent[p] \in Seq(Published)
           /\ \A v \in Viewers : /\ viewer[v].got \in Seq(Published)
                                 /\ queue[v] \in Seq(Published \cup {Sentinel})
                                 /\ \A i \in DOMAIN queue[v] : queue[v][i] \in Entries
                                 /\ \A i \in DOMAIN viewer[v].got : viewer[v].got[i] \in Entries
<1>1. \A m \in Entries : m.n \in Nat
  BY DEF Entries, Published, Other, Sentinel
<1>2. Other.by \notin Threads /\ Sentinel.by \notin Threads
  BY DEF Other, Sentinel, Threads
<1>3. /\ \A t \in Threads : thread[t].n \in Nat
      /\ logs \in Seq(Published \cup {Other})
      /\ \A p \in Processes : recent[p] \in Seq(Published)
      /\ \A v \in Viewers : /\ viewer[v].got \in Seq(Published)
                            /\ queue[v] \in Seq(Published \cup {Sentinel})
  BY DEF StreamTypeOK, Thread, Viewer
<1>4. Published \subseteq Entries /\ Published \cup {Other} \subseteq Entries
      /\ Published \cup {Sentinel} \subseteq Entries
  BY DEF Entries
<1>5. \A i \in DOMAIN logs : logs[i] \in Entries
  BY <1>3, <1>4
<1>6. \A v \in Viewers : /\ \A i \in DOMAIN queue[v] : queue[v][i] \in Entries
                         /\ \A i \in DOMAIN viewer[v].got : viewer[v].got[i] \in Entries
  BY <1>3, <1>4
<1>. QED  BY <1>1, <1>2, <1>3, <1>4, <1>5, <1>6

\* Messages reach the deques, the store and the queues in the order of their numbers.
LEMMA OrderService ==
    ASSUME StreamTypeOK, SubscriberInv, OrderInv,
           \/ \E t \in Threads : Moves(t) \/ Deliver(t) \/ LogMessage(t) \/ PutSentinel(t)
           \/ \E t \in Threads, p \in Processes, category \in Categories, after \in Afters :
                 Publishes(t, p, category, after)
           \/ \E t \in Threads, p \in Processes : Closes(t, p)
    PROVE  OrderInv'
<1>. USE DEF Live
<1>th. thread \in [Threads -> Thread]
  BY DEF StreamTypeOK
<1>n. \A m \in Entries : m.n \in Nat
  BY NumberFacts
<1>tn. \A t \in Threads : thread[t].n \in Nat
  BY NumberFacts
\* A step that changes no number, no reader and no queue.
<1>a. ASSUME UNCHANGED <<recent, queue, viewer>>,
             \A t \in Threads : thread'[t].n = thread[t].n,
             \A t \in Threads : thread'[t].point = "deliver" =>
                 thread[t].point = "deliver" /\ thread'[t] = thread[t],
             InOrder(logs'),
             \A i \in DOMAIN logs' :
                 \/ logs'[i].by \notin Threads
                 \/ \E k \in DOMAIN logs : logs'[i] = logs[k]
                 \/ /\ logs'[i].n <= thread[logs'[i].by].n
                    /\ thread'[logs'[i].by].point # "deliver"
      PROVE  OrderInv'
  <2>1. UpToDate(logs)'
    BY <1>a DEF OrderInv, UpToDate
  <2>2. \A t \in Threads : thread'[t].point = "deliver" => Before(logs, t)'
    BY <1>a DEF OrderInv, Before
  <2>3. \A p \in Processes : InOrder(recent[p])' /\ UpToDate(recent[p])'
    BY <1>a DEF OrderInv, InOrder, UpToDate
  <2>4. \A v \in Viewers : InOrder(viewer[v].got)' /\ UpToDate(viewer[v].got)'
    BY <1>a DEF OrderInv, InOrder, UpToDate
  <2>5. \A v \in Viewers : Live(v)' =>
           /\ InOrder(queue[v])' /\ UpToDate(queue[v])'
           /\ \A i \in DOMAIN viewer'[v].got, j \in DOMAIN queue'[v] :
                  viewer'[v].got[i].by = queue'[v][j].by => viewer'[v].got[i].n < queue'[v][j].n
    BY <1>a DEF OrderInv, InOrder, UpToDate
  <2>6. \A t \in Threads : thread'[t].point = "deliver" =>
           /\ thread'[t].msg \in Published /\ thread'[t].msg.by = t /\ thread'[t].msg.n = thread'[t].n
           /\ \A v \in thread'[t].to : Before(viewer[v].got, t)' /\ Before(queue[v], t)'
    BY <1>a DEF OrderInv, Before
  <2>7. InOrder(logs)'
    BY <1>a DEF InOrder
  <2>. QED  BY <2>1, <2>2, <2>3, <2>4, <2>5, <2>6, <2>7 DEF OrderInv
<1>1. ASSUME NEW t \in Threads, Moves(t) PROVE OrderInv'
  <2>1. /\ \A s \in Threads : thread'[s].n = thread[s].n
        /\ \A s \in Threads : thread'[s].point = "deliver" =>
               thread[s].point = "deliver" /\ thread'[s] = thread[s]
    BY <1>th, <1>1 DEF Moves, Thread, Serving
  <2>2. UNCHANGED <<recent, queue, viewer>> /\ logs' \in {logs, Append(logs, Other), <<>>}
    BY <1>1 DEF Moves, service
  <2>3. CASE logs' = logs
    BY <1>a, <2>1, <2>2, <2>3 DEF OrderInv
  <2>4. CASE logs' = <<>>
    BY <1>a, <2>1, <2>2, <2>4 DEF InOrder
  <2>5. CASE logs' = Append(logs, Other)
    <3>1. Other.by \notin Threads /\ logs \in Seq(Published \cup {Other}) /\ InOrder(logs)
      BY NumberFacts DEF OrderInv
    <3>2. /\ InOrder(logs')
          /\ \A i \in DOMAIN logs' : logs'[i] = Other \/ \E k \in DOMAIN logs : logs'[i] = logs[k]
      BY <2>5, <3>1, AppendInOrder
    <3>. QED  BY <1>a, <2>1, <2>2, <3>1, <3>2
  <2>. QED  BY <2>2, <2>3, <2>4, <2>5
<1>2. ASSUME NEW t \in Threads, NEW p \in Processes, Closes(t, p) PROVE OrderInv'
  <2>1. /\ \A s \in Threads : thread'[s].n = thread[s].n
        /\ \A s \in Threads : thread'[s].point = "deliver" =>
               thread[s].point = "deliver" /\ thread'[s] = thread[s]
        /\ UNCHANGED <<recent, queue, viewer, logs>>
    BY <1>th, <1>2 DEF Closes, Close, Thread
  <2>. QED  BY <1>a, <2>1 DEF OrderInv
<1>3. ASSUME NEW t \in Threads, LogMessage(t) PROVE OrderInv'
  <2>1. /\ \A s \in Threads : thread'[s].n = thread[s].n
        /\ thread'[t].point = thread[t].after /\ thread[t].point = "deliver"
        /\ \A s \in Threads \ {t} : thread'[s] = thread[s]
        /\ UNCHANGED <<recent, queue, viewer>>
        /\ logs' = logs \/ logs' = Append(logs, thread[t].msg)
    BY <1>th, <1>3 DEF LogMessage, Goto, AppendLog, service, Thread
  <2>2. thread'[t].point # "deliver"
    BY <1>th, <2>1 DEF Thread
  <2>3. CASE logs' = logs
    BY <1>a, <2>1, <2>2, <2>3 DEF OrderInv
  <2>4. CASE logs' = Append(logs, thread[t].msg)
    <3>1. /\ logs \in Seq(Published \cup {Other}) /\ InOrder(logs) /\ Before(logs, t)
          /\ thread[t].msg \in Published /\ thread[t].msg.by = t /\ thread[t].msg.n = thread[t].n
      BY <2>1, NumberFacts DEF OrderInv
    <3>2. \A i \in DOMAIN logs : logs[i].by = thread[t].msg.by => logs[i].n < thread[t].msg.n
      BY <3>1 DEF Before
    <3>3. /\ InOrder(logs')
          /\ \A i \in DOMAIN logs' :
                 logs'[i] = thread[t].msg \/ \E k \in DOMAIN logs : logs'[i] = logs[k]
      BY <2>4, <3>1, <3>2, AppendInOrder
    <3>4. thread[t].n <= thread[t].n
      BY <1>tn
    <3>. QED  BY <1>a, <2>1, <2>2, <3>1, <3>3, <3>4
  <2>. QED  BY <2>1, <2>3, <2>4
<1>4. ASSUME NEW t \in Threads, NEW p \in Processes, NEW category \in Categories,
             NEW after \in Afters, Publishes(t, p, category, after)
      PROVE  OrderInv'
  <2>1. PICK msg \in Published :
            /\ msg.by = t /\ msg.n = thread[t].n + 1
            /\ recent' = [recent EXCEPT ![p] = Keep(Append(@, msg))]
            /\ thread' = [thread EXCEPT ![t] = [point |-> "deliver", after |-> after, msg |-> msg,
                                               to |-> subscribers[p], n |-> msg.n]]
    BY <1>4, PublishFacts
  <2>2. UNCHANGED <<logs, queue, viewer>>
    BY <1>4 DEF Publishes, Publish
  <2>3. /\ thread'[t].point = "deliver" /\ thread'[t].msg = msg /\ thread'[t].to = subscribers[p]
        /\ thread'[t].n = thread[t].n + 1
        /\ \A s \in Threads \ {t} : thread'[s] = thread[s]
    BY <1>th, <2>1
  <2>4. \A s \in Threads : thread[s].n <= thread'[s].n /\ thread'[s].n \in Nat
    BY <1>tn, <2>3
  <2>5. ASSUME NEW s, UpToDate(s), \A i \in DOMAIN s : s[i] \in Entries
        PROVE  /\ \A i \in DOMAIN s : s[i].by \in Threads => s[i].n <= thread'[s[i].by].n
               /\ \A i \in DOMAIN s : s[i].by = t => s[i].n < thread[t].n + 1
    BY <1>n, <1>tn, <2>4, <2>5 DEF UpToDate
  <2>6. \A q \in Processes : InOrder(recent[q])' /\ UpToDate(recent[q])'
    <3>. SUFFICES ASSUME NEW q \in Processes PROVE InOrder(recent[q])' /\ UpToDate(recent[q])'
      OBVIOUS
    <3>1. /\ recent[q] \in Seq(Published) /\ InOrder(recent[q]) /\ UpToDate(recent[q])
          /\ \A i \in DOMAIN recent[q] : recent[q][i] \in Entries
      BY NumberFacts DEF OrderInv, Entries
    <3>2. CASE q # p
      <4>1. recent'[q] = recent[q]
        BY <2>1, <3>2 DEF StreamTypeOK
      <4>. QED  BY <2>5, <3>1, <4>1 DEF InOrder, UpToDate
    <3>3. CASE q = p
      <4>. DEFINE s == Append(recent[p], msg)
      <4>1. recent'[q] = Keep(s)
        BY <2>1, <3>3 DEF StreamTypeOK
      <4>2. \A i \in DOMAIN recent[p] : recent[p][i].by = msg.by => recent[p][i].n < msg.n
        BY <2>1, <2>5, <3>1, <3>3
      <4>3. /\ s \in Seq(Published) /\ InOrder(s)
            /\ \A i \in DOMAIN s : s[i] = msg \/ \E k \in DOMAIN recent[p] : s[i] = recent[p][k]
        BY <3>1, <3>3, <4>2, AppendInOrder
      <4>. HIDE DEF s
      <4>4. PICK d \in Nat : \A i \in DOMAIN Keep(s) : i + d \in DOMAIN s /\ Keep(s)[i] = s[i + d]
        BY <4>3, KeepFacts
      <4>5. Keep(s) \in Seq(Published)
        BY <4>3, KeepFacts
      <4>6. InOrder(Keep(s))
        BY <4>3, <4>4, <4>5, SuffixInOrder
      <4>7. \A i \in DOMAIN Keep(s) : Keep(s)[i].by \in Threads => Keep(s)[i].n <= thread'[Keep(s)[i].by].n
        <5>1. msg.n <= thread'[t].n
          BY <2>1, <2>3, <2>4, <1>tn
        <5>. QED  BY <2>1, <2>5, <3>1, <3>3, <4>3, <4>4, <5>1
      <4>. QED  BY <4>1, <4>6, <4>7 DEF InOrder, UpToDate
    <3>. QED  BY <3>2, <3>3
  <2>7. InOrder(logs)' /\ UpToDate(logs)'
    <3>1. InOrder(logs) /\ UpToDate(logs) /\ \A i \in DOMAIN logs : logs[i] \in Entries
      BY NumberFacts DEF OrderInv
    <3>. QED  BY <2>2, <2>5, <3>1 DEF InOrder, UpToDate
  <2>8. \A v \in Viewers : InOrder(viewer[v].got)' /\ UpToDate(viewer[v].got)'
    <3>1. \A v \in Viewers : /\ InOrder(viewer[v].got) /\ UpToDate(viewer[v].got)
                             /\ \A i \in DOMAIN viewer[v].got : viewer[v].got[i] \in Entries
      BY NumberFacts DEF OrderInv
    <3>. QED  BY <2>2, <2>5, <3>1 DEF InOrder, UpToDate
  <2>9. \A v \in Viewers : Live(v)' =>
           /\ InOrder(queue[v])' /\ UpToDate(queue[v])'
           /\ \A i \in DOMAIN viewer'[v].got, j \in DOMAIN queue'[v] :
                  viewer'[v].got[i].by = queue'[v][j].by => viewer'[v].got[i].n < queue'[v][j].n
    <3>1. \A v \in Viewers : Live(v) =>
           /\ InOrder(queue[v]) /\ UpToDate(queue[v])
           /\ \A i \in DOMAIN queue[v] : queue[v][i] \in Entries
           /\ \A i \in DOMAIN viewer[v].got, j \in DOMAIN queue[v] :
                  viewer[v].got[i].by = queue[v][j].by => viewer[v].got[i].n < queue[v][j].n
      BY NumberFacts DEF OrderInv
    <3>. QED  BY <2>2, <2>5, <3>1 DEF InOrder, UpToDate
  <2>10. ASSUME NEW s \in Threads, thread'[s].point = "deliver"
         PROVE  /\ thread'[s].msg \in Published /\ thread'[s].msg.by = s /\ thread'[s].msg.n = thread'[s].n
                /\ Before(logs, s)'
                /\ \A v \in thread'[s].to : Before(viewer[v].got, s)' /\ Before(queue[v], s)'
    <3>1. CASE s # t
      BY <2>2, <2>3, <2>10, <3>1 DEF OrderInv, Before
    <3>2. CASE s = t
      <4>1. Before(logs, s)'
        <5>1. UpToDate(logs) /\ \A i \in DOMAIN logs : logs[i] \in Entries
          BY NumberFacts DEF OrderInv
        <5>. QED  BY <2>2, <2>3, <2>5, <3>2, <5>1 DEF Before
      <4>2. ASSUME NEW v \in thread'[s].to PROVE Before(viewer[v].got, s)' /\ Before(queue[v], s)'
        <5>1. v \in subscribers["api"]
          BY <2>3, <3>2, <4>2 DEF SubscriberInv, Processes
        <5>2. v \in Viewers /\ Live(v)
          BY <5>1 DEF SubscriberInv, StreamTypeOK, Processes
        <5>3. /\ UpToDate(viewer[v].got) /\ \A i \in DOMAIN viewer[v].got : viewer[v].got[i] \in Entries
              /\ UpToDate(queue[v]) /\ \A i \in DOMAIN queue[v] : queue[v][i] \in Entries
          BY <5>2, NumberFacts DEF OrderInv
        <5>. QED  BY <2>2, <2>3, <2>5, <3>2, <5>3 DEF Before
      <4>3. thread'[s].msg \in Published /\ thread'[s].msg.by = s /\ thread'[s].msg.n = thread'[s].n
        BY <2>1, <2>3, <3>2
      <4>. QED  BY <4>1, <4>2, <4>3
    <3>. QED  BY <3>1, <3>2
  <2>. QED  BY <2>6, <2>7, <2>8, <2>9, <2>10 DEF OrderInv
<1>5. ASSUME NEW t \in Threads, Deliver(t) \/ PutSentinel(t) PROVE OrderInv'
  <2>1. PICK v \in thread[t].to, m \in {thread[t].msg, Sentinel} :
            /\ queue' = [queue EXCEPT ![v] = Append(@, m)]
            /\ thread' = [thread EXCEPT ![t].to = @ \ {v}]
            /\ m = Sentinel \/ thread[t].point = "deliver"
    <3>1. CASE Deliver(t)
      BY <3>1 DEF Deliver
    <3>2. CASE PutSentinel(t)
      BY <3>2 DEF PutSentinel
    <3>. QED  BY <1>5, <3>1, <3>2
  <2>2. UNCHANGED <<logs, recent, viewer>>
    BY <1>5 DEF Deliver, PutSentinel, service
  <2>3. /\ \A s \in Threads : thread'[s].n = thread[s].n /\ thread'[s].msg = thread[s].msg
                            /\ thread'[s].point = thread[s].point
        /\ thread'[t].to = thread[t].to \ {v}
        /\ \A s \in Threads \ {t} : thread'[s].to = thread[s].to
    BY <1>th, <2>1 DEF Thread
  <2>4. v \in Viewers /\ Live(v) /\ queue[v] \in Seq(Published \cup {Sentinel})
    BY <1>th, NumberFacts DEF SubscriberInv, Thread
  <2>5. /\ queue'[v] = Append(queue[v], m)
        /\ \A w \in Viewers \ {v} : queue'[w] = queue[w]
    BY <2>1, <2>4 DEF StreamTypeOK
  <2>6. \/ m.by \notin Threads /\ m = Sentinel
        \/ /\ m \in Published /\ m.by = t /\ m.n = thread[t].n
           /\ Before(viewer[v].got, t) /\ Before(queue[v], t)
    BY <2>1, NumberFacts DEF OrderInv
  <2>7. /\ InOrder(queue'[v])
        /\ \A i \in DOMAIN queue'[v] :
               queue'[v][i] = m \/ \E k \in DOMAIN queue[v] : queue'[v][i] = queue[v][k]
    <3>1. InOrder(queue[v]) /\ m \in Published \cup {Sentinel}
      BY <2>4, <2>6 DEF OrderInv
    <3>2. \A i \in DOMAIN queue[v] :
              queue[v][i].by = m.by /\ queue[v][i].by \in Threads => queue[v][i].n < m.n
      BY <2>6 DEF Before
    <3>. QED  BY <2>4, <2>5, <3>1, <3>2, AppendInOrder
  <2>8. UpToDate(queue[v])'
    <3>1. UpToDate(queue[v])
      BY <2>4 DEF OrderInv
    <3>. QED  BY <1>tn, <2>3, <2>6, <2>7, <3>1 DEF UpToDate
  <2>9. \A i \in DOMAIN viewer[v].got, j \in DOMAIN queue'[v] :
            viewer[v].got[i].by = queue'[v][j].by => viewer[v].got[i].n < queue'[v][j].n
    <3>1. \A i \in DOMAIN viewer[v].got, j \in DOMAIN queue[v] :
            viewer[v].got[i].by = queue[v][j].by => viewer[v].got[i].n < queue[v][j].n
      BY <2>4 DEF OrderInv
    <3>2. \A i \in DOMAIN viewer[v].got : viewer[v].got[i].by \in Threads
      <4>1. viewer[v].got \in Seq(Published)
        BY <2>4, NumberFacts
      <4>2. \A e \in Published : e.by \in Threads
        BY DEF Published
      <4>. QED  BY <4>1, <4>2
    <3>3. \A i \in DOMAIN viewer[v].got : viewer[v].got[i].by = m.by => viewer[v].got[i].n < m.n
      BY <2>6, <3>2 DEF Before
    <3>. QED  BY <2>7, <3>1, <3>3
  <2>10. \A p \in Processes : InOrder(recent[p])' /\ UpToDate(recent[p])'
    BY <2>2, <2>3 DEF OrderInv, InOrder, UpToDate
  <2>11. InOrder(logs)' /\ UpToDate(logs)'
    BY <2>2, <2>3 DEF OrderInv, InOrder, UpToDate
  <2>12. \A w \in Viewers : InOrder(viewer[w].got)' /\ UpToDate(viewer[w].got)'
    BY <2>2, <2>3 DEF OrderInv, InOrder, UpToDate
  <2>13. ASSUME NEW w \in Viewers, Live(w)'
         PROVE  /\ InOrder(queue[w])' /\ UpToDate(queue[w])'
                /\ \A i \in DOMAIN viewer'[w].got, j \in DOMAIN queue'[w] :
                       viewer'[w].got[i].by = queue'[w][j].by => viewer'[w].got[i].n < queue'[w][j].n
    <3>1. CASE w = v
      BY <2>2, <2>7, <2>8, <2>9, <3>1 DEF InOrder
    <3>2. CASE w # v
      <4>1. queue'[w] = queue[w] /\ viewer'[w] = viewer[w] /\ Live(w)
        BY <2>2, <2>5, <2>13, <3>2
      <4>2. /\ InOrder(queue[w]) /\ UpToDate(queue[w])
            /\ \A i \in DOMAIN viewer[w].got, j \in DOMAIN queue[w] :
                   viewer[w].got[i].by = queue[w][j].by => viewer[w].got[i].n < queue[w][j].n
        BY <4>1 DEF OrderInv
      <4>. QED  BY <2>3, <4>1, <4>2 DEF InOrder, UpToDate
    <3>. QED  BY <3>1, <3>2
  <2>14. ASSUME NEW s \in Threads, thread'[s].point = "deliver"
         PROVE  /\ thread'[s].msg \in Published /\ thread'[s].msg.by = s /\ thread'[s].msg.n = thread'[s].n
                /\ Before(logs, s)'
                /\ \A w \in thread'[s].to : Before(viewer[w].got, s)' /\ Before(queue[w], s)'
    <3>1. /\ thread[s].msg \in Published /\ thread[s].msg.by = s /\ thread[s].msg.n = thread[s].n
          /\ Before(logs, s)
          /\ \A w \in thread[s].to : Before(viewer[w].got, s) /\ Before(queue[w], s)
      BY <2>3, <2>14 DEF OrderInv
    <3>2. Before(logs, s)'
      BY <2>2, <2>3, <3>1 DEF Before
    <3>3. ASSUME NEW w \in thread'[s].to PROVE Before(viewer[w].got, s)' /\ Before(queue[w], s)'
      <4>1. w \in thread[s].to /\ w \in Viewers
        BY <1>th, <2>3, <3>3 DEF Thread
      <4>2. Before(viewer[w].got, s)'
        BY <2>2, <2>3, <3>1, <4>1 DEF Before
      <4>3. CASE w # v
        BY <2>3, <2>5, <3>1, <4>1, <4>2, <4>3 DEF Before
      <4>4. CASE w = v
        <5>1. m.by # s
          BY <2>3, <2>6, <3>3, <4>4
        <5>. QED  BY <2>3, <2>7, <3>1, <4>1, <4>2, <4>4, <5>1 DEF Before
      <4>. QED  BY <4>3, <4>4
    <3>. QED  BY <2>3, <3>1, <3>2, <3>3
  <2>. QED  BY <2>8, <2>10, <2>11, <2>12, <2>13, <2>14 DEF OrderInv
<1>. QED  BY <1>1, <1>2, <1>3, <1>4, <1>5

\* A reader takes messages from the front of its queue, and starts with an empty one.
LEMMA OrderViewer ==
    ASSUME StreamTypeOK, SubscriberInv, OrderInv, NEW v \in Viewers, Read(v) \/ Drop(v)
    PROVE  OrderInv'
<1>. USE DEF Live
<1>th. thread \in [Threads -> Thread]
  BY DEF StreamTypeOK
<1>1. /\ UNCHANGED <<mode, status, logs, recent, closed>>
      /\ \A w \in Viewers \ {v} : viewer'[w] = viewer[w] /\ queue'[w] = queue[w]
      /\ viewer'[v].got \in {<<>>, viewer[v].got, ReplayRecent("api")} \/ Receipt(v)
  BY ViewerSteps
<1>2. /\ \A t \in Threads : /\ thread'[t].n = thread[t].n /\ thread'[t].msg = thread[t].msg
                            /\ thread'[t].point = thread[t].point
                            /\ thread'[t].to \subseteq thread[t].to
      /\ ~Live(v)' => \A t \in Threads : v \notin thread'[t].to
  <2>1. CASE UNCHANGED thread /\ (Live(v) <=> Live(v)')
    BY <2>1 DEF SubscriberInv
  <2>2. CASE UNCHANGED thread /\ Live(v)'
    BY <2>2
  <2>3. CASE Unsubscribe(v)
    BY <1>th, <2>3 DEF Unsubscribe, Thread
  <2>. QED  BY <2>1, <2>2, <2>3, ViewerSteps
<1>3. Live(v)' => \/ queue'[v] = <<>> /\ ~Live(v) /\ viewer'[v].got = viewer[v].got
                  \/ Receipt(v) /\ queue'[v] = Tail(queue[v])
  BY ViewerSteps
<1>4. ASSUME Receipt(v)
      PROVE  /\ InOrder(viewer'[v].got)
             /\ \A i \in DOMAIN viewer'[v].got :
                    \/ \E k \in DOMAIN viewer[v].got : viewer'[v].got[i] = viewer[v].got[k]
                    \/ viewer'[v].got[i] = queue[v][1]
             /\ 1 \in DOMAIN queue[v]
             /\ \A j \in DOMAIN Tail(queue[v]) :
                    j + 1 \in DOMAIN queue[v] /\ 1 < j + 1 /\ Tail(queue[v])[j] = queue[v][j + 1]
             /\ Tail(queue[v]) \in Seq(Published \cup {Sentinel})
             /\ queue[v][1] \in Published
  <2>1. /\ queue[v] \in Seq(Published \cup {Sentinel}) /\ queue[v] # <<>>
        /\ Head(queue[v]) # Sentinel /\ viewer[v].got \in Seq(Published)
        /\ viewer'[v].got = Append(viewer[v].got, Head(queue[v]))
    BY <1>4, NumberFacts DEF Receipt
  <2>2. /\ Head(queue[v]) = queue[v][1] /\ 1 \in DOMAIN queue[v]
        /\ Tail(queue[v]) \in Seq(Published \cup {Sentinel})
        /\ \A j \in DOMAIN Tail(queue[v]) :
               j + 1 \in DOMAIN queue[v] /\ 1 < j + 1 /\ Tail(queue[v])[j] = queue[v][j + 1]
    BY <2>1
  <2>3. queue[v][1] \in Published
    BY <2>1, <2>2
  <2>4. /\ InOrder(viewer[v].got)
        /\ \A i \in DOMAIN viewer[v].got : viewer[v].got[i].by = queue[v][1].by =>
                                           viewer[v].got[i].n < queue[v][1].n
    BY <1>4, <2>2 DEF OrderInv, Receipt
  <2>5. /\ InOrder(Append(viewer[v].got, queue[v][1]))
        /\ \A i \in DOMAIN Append(viewer[v].got, queue[v][1]) :
              \/ Append(viewer[v].got, queue[v][1])[i] = queue[v][1]
              \/ \E k \in DOMAIN viewer[v].got :
                    Append(viewer[v].got, queue[v][1])[i] = viewer[v].got[k]
    <3>1. \A i \in DOMAIN viewer[v].got :
              viewer[v].got[i].by = queue[v][1].by /\ viewer[v].got[i].by \in Threads =>
                  viewer[v].got[i].n < queue[v][1].n
      BY <2>4
    <3>. QED  BY <2>1, <2>3, <2>4, <3>1, AppendInOrder
  <2>. QED  BY <2>1, <2>2, <2>3, <2>5
<1>5. InOrder(viewer[v].got)' /\ UpToDate(viewer[v].got)'
  <2>1. CASE viewer'[v].got = <<>>
    BY <2>1 DEF InOrder, UpToDate
  <2>2. CASE viewer'[v].got = viewer[v].got
    BY <1>2, <2>2 DEF OrderInv, InOrder, UpToDate
  <2>3. CASE viewer'[v].got = ReplayRecent("api")
    <3>. DEFINE r == ReplayRecent("api")
    <3>1. InOrder(r) /\ UpToDate(r)
      BY ReplayFacts
    <3>. HIDE DEF r
    <3>. QED  BY <1>2, <2>3, <3>1 DEF InOrder, UpToDate, r
  <2>4. CASE Receipt(v)
    <3>1. UpToDate(viewer[v].got) /\ UpToDate(queue[v])
      BY <2>4 DEF Receipt, OrderInv
    <3>2. UpToDate(viewer[v].got)'
      BY <1>2, <1>4, <2>4, <3>1 DEF UpToDate
    <3>. QED  BY <1>4, <2>4, <3>2 DEF InOrder
  <2>. QED  BY <1>1, <2>1, <2>2, <2>3, <2>4
<1>6. \A p \in Processes : InOrder(recent[p])' /\ UpToDate(recent[p])'
  BY <1>1, <1>2 DEF OrderInv, InOrder, UpToDate
<1>7. InOrder(logs)' /\ UpToDate(logs)'
  BY <1>1, <1>2 DEF OrderInv, InOrder, UpToDate
<1>8. \A w \in Viewers : InOrder(viewer[w].got)' /\ UpToDate(viewer[w].got)'
  <2>1. \A w \in Viewers \ {v} : InOrder(viewer[w].got)' /\ UpToDate(viewer[w].got)'
    BY <1>1, <1>2 DEF OrderInv, InOrder, UpToDate
  <2>. QED  BY <1>5, <2>1
<1>9. ASSUME NEW w \in Viewers, Live(w)'
      PROVE  /\ InOrder(queue[w])' /\ UpToDate(queue[w])'
             /\ \A i \in DOMAIN viewer'[w].got, j \in DOMAIN queue'[w] :
                    viewer'[w].got[i].by = queue'[w][j].by => viewer'[w].got[i].n < queue'[w][j].n
  <2>1. CASE w # v
    <3>1. /\ InOrder(queue[w]) /\ UpToDate(queue[w])
          /\ \A i \in DOMAIN viewer[w].got, j \in DOMAIN queue[w] :
                 viewer[w].got[i].by = queue[w][j].by => viewer[w].got[i].n < queue[w][j].n
      BY <1>1, <1>9, <2>1 DEF OrderInv
    <3>. QED  BY <1>1, <1>2, <2>1, <3>1 DEF InOrder, UpToDate
  <2>2. CASE w = v /\ queue'[v] = <<>>
    BY <2>2 DEF InOrder, UpToDate
  <2>3. CASE w = v /\ Receipt(v) /\ queue'[v] = Tail(queue[v])
    <3>1. /\ InOrder(queue[v]) /\ UpToDate(queue[v])
          /\ \A i \in DOMAIN viewer[v].got, j \in DOMAIN queue[v] :
                 viewer[v].got[i].by = queue[v][j].by => viewer[v].got[i].n < queue[v][j].n
      BY <2>3 DEF OrderInv, Receipt
    <3>2. InOrder(Tail(queue[v]))
      <4>1. queue[v] \in Seq(Published \cup {Sentinel})
        BY NumberFacts
      <4>2. 1 \in Nat /\ Tail(queue[v]) \in Seq(Published \cup {Sentinel})
        BY <1>4, <2>3
      <4>3. \A j \in DOMAIN Tail(queue[v]) :
                j + 1 \in DOMAIN queue[v] /\ Tail(queue[v])[j] = queue[v][j + 1]
        BY <1>4, <2>3
      <4>. QED  BY <3>1, <4>1, <4>2, <4>3, SuffixInOrder
    <3>3. UpToDate(queue[v])'
      BY <1>2, <1>4, <2>3, <3>1 DEF UpToDate
    <3>4. ASSUME NEW i \in DOMAIN viewer'[v].got, NEW j \in DOMAIN queue'[v],
                 viewer'[v].got[i].by = queue'[v][j].by
          PROVE  viewer'[v].got[i].n < queue'[v][j].n
      <4>1. /\ j + 1 \in DOMAIN queue[v] /\ 1 < j + 1 /\ queue'[v][j] = queue[v][j + 1]
            /\ 1 \in DOMAIN queue[v] /\ queue[v][1] \in Published
        BY <1>4, <2>3, <3>4
      <4>2. CASE viewer'[v].got[i] = queue[v][1]
        <5>1. queue[v][1].by \in Threads
          BY <4>1 DEF Published
        <5>. QED  BY <3>1, <3>4, <4>1, <4>2, <5>1 DEF InOrder
      <4>3. CASE \E k \in DOMAIN viewer[v].got : viewer'[v].got[i] = viewer[v].got[k]
        BY <3>1, <3>4, <4>1, <4>3
      <4>. QED  BY <1>4, <2>3, <4>2, <4>3
    <3>. QED  BY <2>3, <3>2, <3>3, <3>4 DEF InOrder
  <2>. QED  BY <1>3, <1>9, <2>1, <2>2, <2>3
<1>10. ASSUME NEW t \in Threads, thread'[t].point = "deliver"
       PROVE  /\ thread'[t].msg \in Published /\ thread'[t].msg.by = t /\ thread'[t].msg.n = thread'[t].n
              /\ Before(logs, t)'
              /\ \A w \in thread'[t].to : Before(viewer[w].got, t)' /\ Before(queue[w], t)'
  <2>1. /\ thread[t].msg \in Published /\ thread[t].msg.by = t /\ thread[t].msg.n = thread[t].n
        /\ Before(logs, t)
        /\ \A w \in thread[t].to : Before(viewer[w].got, t) /\ Before(queue[w], t)
    BY <1>2, <1>10 DEF OrderInv
  <2>2. Before(logs, t)'
    BY <1>1, <1>2, <2>1 DEF Before
  <2>3. ASSUME NEW w \in thread'[t].to PROVE Before(viewer[w].got, t)' /\ Before(queue[w], t)'
    <3>1. w \in thread[t].to /\ w \in Viewers /\ Live(w)
      BY <1>th, <1>2, <2>3 DEF SubscriberInv, Thread
    <3>2. CASE w # v
      BY <1>1, <1>2, <2>1, <3>1, <3>2 DEF Before
    <3>3. CASE w = v
      <4>1. Receipt(v) /\ queue'[v] = Tail(queue[v])
        BY <1>2, <1>3, <2>3, <3>1, <3>3
      <4>2. Before(viewer[v].got, t) /\ Before(queue[v], t)
        BY <2>1, <3>1, <3>3
      <4>3. Before(queue[v], t)'
        BY <1>2, <1>4, <4>1, <4>2 DEF Before
      <4>4. Before(viewer[v].got, t)'
        BY <1>2, <1>4, <4>1, <4>2 DEF Before
      <4>. QED  BY <3>3, <4>3, <4>4
    <3>. QED  BY <3>2, <3>3
  <2>. QED  BY <1>2, <2>1, <2>2, <2>3
<1>. QED  BY <1>6, <1>7, <1>8, <1>9, <1>10 DEF OrderInv

\* A restart forgets; what it leaves was in order.
LEMMA OrderRestart ==
    ASSUME StreamTypeOK, SubscriberInv, SubscriberInv', OrderInv, Restart
    PROVE  OrderInv'
<1>. USE DEF Live
<1>th. thread \in [Threads -> Thread]
  BY DEF StreamTypeOK
<1>1. /\ logs' = logs /\ recent' = [recent EXCEPT !["api"] = <<>>]
      /\ viewer' = [v \in Viewers |-> IF viewer[v].point = "done" THEN viewer[v] ELSE NewViewer]
      /\ thread' = [t \in Threads |->
             IF Process(t) = "api" /\ thread[t].point \notin {"begin", "queued"}
             THEN [thread[t] EXCEPT !.point = "end", !.to = {}] ELSE thread[t]]
  BY Zenon DEF Restart
<1>2. \A t \in Threads : /\ thread'[t].n = thread[t].n
                         /\ thread'[t].point = "deliver" => thread'[t] = thread[t]
  BY <1>th, <1>1 DEF Thread
<1>3. \A v \in Viewers : ~Live(v)' /\ viewer'[v].got \in {<<>>, viewer[v].got}
  BY <1>1 DEF NewViewer
<1>4. \A p \in Processes : recent'[p] \in {<<>>, recent[p]}
  BY <1>1 DEF StreamTypeOK, Processes
<1>5. \A p \in Processes : InOrder(recent[p])' /\ UpToDate(recent[p])'
  BY <1>2, <1>4 DEF OrderInv, InOrder, UpToDate
<1>6. InOrder(logs)' /\ UpToDate(logs)'
  <2>1. logs' = logs
    BY <1>1
  <2>. QED  BY <1>2, <2>1 DEF OrderInv, InOrder, UpToDate
<1>7. \A v \in Viewers : InOrder(viewer[v].got)' /\ UpToDate(viewer[v].got)'
  BY <1>2, <1>3 DEF OrderInv, InOrder, UpToDate
<1>8. ASSUME NEW t \in Threads, thread'[t].point = "deliver"
      PROVE  /\ thread'[t].msg \in Published /\ thread'[t].msg.by = t /\ thread'[t].msg.n = thread'[t].n
             /\ Before(logs, t)'
             /\ \A w \in thread'[t].to : Before(viewer[w].got, t)' /\ Before(queue[w], t)'
  <2>1. \A w \in thread'[t].to : w \in Viewers /\ Live(w)'
    BY <1>th, <1>2, <1>8 DEF SubscriberInv, Thread
  <2>2. thread'[t].to = {}
    BY <1>3, <2>1
  <2>3. /\ thread[t].msg \in Published /\ thread[t].msg.by = t /\ thread[t].msg.n = thread[t].n
        /\ Before(logs, t)
    BY <1>2, <1>8 DEF OrderInv
  <2>. QED  BY <1>1, <1>2, <1>8, <2>2, <2>3 DEF Before
<1>. QED  BY <1>3, <1>5, <1>6, <1>7, <1>8 DEF OrderInv

-----------------------------------------------------------------------------
(* The end of a run that the API process executes.                         *)

\* What is published to the readers of such a run.
LEMMA SyncPath ==
    ASSUME StreamTypeOK, mode = "sync", PathInv, Next
    PROVE  PathInv'
<1>. USE DEF PathInv, EndCategories, Threads
<1>th. /\ thread \in [Threads -> Thread] /\ Steps \in Nat
       /\ \A t \in Threads : thread[t].n \in Nat
  BY StreamBounds DEF StreamTypeOK, Thread
<1>1. CASE CreateRun \/ StartRun \/ FinishRun("completed") \/ FinishRun("failed")
  BY <1>1, <1>th DEF CreateRun, StartRun, FinishRun, Goto, Thread
<1>2. CASE PublishQueued \/ ClaimQueued
  BY <1>2, <1>th DEF PublishQueued, ClaimQueued
<1>3. CASE PublishStarted \/ PublishProgress \/ PublishEnd
  BY <1>3, <1>th DEF PublishStarted, PublishProgress, PublishEnd, Publish, Thread
<1>4. CASE PublishCanceled
  BY <1>4, <1>th DEF PublishCanceled, Publish, Thread
<1>5. CASE CancelRead \/ CancelWrite \/ DeleteRun
  BY <1>5, <1>th DEF CancelRead, CancelWrite, DeleteRun, Goto, Thread
<1>6. CASE CloseRun \/ CloseCanceled \/ CloseDeleted
  BY <1>6, <1>th DEF CloseRun, CloseCanceled, CloseDeleted, Close, Thread
<1>7. ASSUME NEW t \in Threads, Deliver(t) \/ PutSentinel(t) PROVE PathInv'
  BY <1>7, <1>th DEF Deliver, PutSentinel, Thread
<1>8. ASSUME NEW t \in Threads, LogMessage(t) PROVE PathInv'
  BY <1>8, <1>th DEF LogMessage, Goto, Thread
<1>9. ASSUME NEW v \in Viewers, Read(v) \/ Drop(v) PROVE PathInv'
  BY <1>9, <1>th DEF Read, Connect, Replay, CheckEnd, Subscribe, Receive, Drop, Unsubscribe, Thread
<1>10. CASE Restart
  BY <1>10, <1>th DEF Restart, Thread
<1>. QED
  BY <1>1, <1>2, <1>3, <1>4, <1>5, <1>6, <1>7, <1>8, <1>9, <1>10 DEF Next, Advance, Execute

\* Nothing is stored but what was published, once, and the entry of the cancel.
LEMMA SyncCount ==
    ASSUME StreamTypeOK, mode = "sync", PathInv, LogCount, Next
    PROVE  LogCount'
<1>. DEFINE free == IF thread["cancel"].point \in {"begin", "write"} THEN 0 ELSE 1
<1>. USE DEF Threads
<1>th. /\ thread \in [Threads -> Thread] /\ Len(logs) \in Nat
       /\ \A t \in Threads : thread[t].n \in Nat /\ thread[t] \in Thread
  BY DEF StreamTypeOK, Thread
<1>n. thread["exec"].n \in Nat /\ thread["cancel"].n \in Nat
  BY <1>th
<1>0. /\ Pending("exec") \in {0, 1} /\ Pending("cancel") \in {0, 1} /\ free \in {0, 1}
      /\ Len(logs) + Pending("exec") + Pending("cancel")
             <= thread["exec"].n + thread["cancel"].n + free
  BY DEF Pending, LogCount
<1>a. ASSUME NEW entry, AppendLog(entry)
      PROVE  Len(logs') \in {Len(logs), Len(logs) + 1}
  BY <1>a DEF AppendLog, StreamTypeOK
\* It is enough that the sum of a step is right.
<1>b. ASSUME Len(logs') \in Nat,
             Len(logs') - Len(logs)
                 + (Pending("exec")' - Pending("exec")) + (Pending("cancel")' - Pending("cancel"))
             <= (thread'["exec"].n - thread["exec"].n) + (thread'["cancel"].n - thread["cancel"].n)
                    + (free' - free),
             thread'["exec"].n \in Nat, thread'["cancel"].n \in Nat
      PROVE  LogCount'
  <2>1. Pending("exec")' \in {0, 1} /\ Pending("cancel")' \in {0, 1} /\ free' \in {0, 1}
    BY DEF Pending
  <2>2. Len(logs') + Pending("exec")' + Pending("cancel")'
            <= thread'["exec"].n + thread'["cancel"].n + free'
    <3>2. /\ Pending("exec") \in Int /\ Pending("cancel") \in Int /\ free \in Int
          /\ Pending("exec")' \in Int /\ Pending("cancel")' \in Int /\ free' \in Int
      BY <1>0, <2>1
    <3>. HIDE DEF free
    <3>3. Len(logs) \in Int /\ Len(logs') \in Int /\ thread["exec"].n \in Int
          /\ thread["cancel"].n \in Int /\ thread'["exec"].n \in Int /\ thread'["cancel"].n \in Int
      BY <1>th, <1>n, <1>b
    <3>4. /\ Len(logs) + Pending("exec") + Pending("cancel")
                 <= thread["exec"].n + thread["cancel"].n + free
          /\ Len(logs') - Len(logs)
                 + (Pending("exec")' - Pending("exec")) + (Pending("cancel")' - Pending("cancel"))
             <= (thread'["exec"].n - thread["exec"].n) + (thread'["cancel"].n - thread["cancel"].n)
                    + (free' - free)
      BY <1>0, <1>b
    <3>. DEFINE before == Len(logs) + Pending("exec") + Pending("cancel")
                after == Len(logs') + Pending("exec")' + Pending("cancel")'
                owed == thread["exec"].n + thread["cancel"].n + free
                due == thread'["exec"].n + thread'["cancel"].n + free'
    <3>5. before \in Int /\ after \in Int /\ owed \in Int /\ due \in Int
      <4>1. before \in Int
        BY <3>2, <3>3
      <4>2. after \in Int
        BY <3>2, <3>3
      <4>3. owed \in Int
        BY <3>2, <3>3
      <4>4. due \in Int
        BY <3>2, <3>3
      <4>. QED  BY <4>1, <4>2, <4>3, <4>4
    <3>6. /\ Len(logs') - Len(logs) + (Pending("exec")' - Pending("exec"))
                 + (Pending("cancel")' - Pending("cancel")) = after - before
      BY <3>2, <3>3
    <3>7. (thread'["exec"].n - thread["exec"].n) + (thread'["cancel"].n - thread["cancel"].n)
              + (free' - free) = due - owed
      BY <3>2, <3>3
    <3>8. before <= owed /\ after - before <= due - owed
      BY <3>4, <3>6, <3>7
    <3>. HIDE DEF before, after, owed, due
    <3>9. after <= due
      BY <3>5, <3>8
    <3>. QED  BY <3>9 DEF after, due
  <2>. QED  BY <2>2 DEF LogCount, Pending
<1>1. CASE CreateRun \/ StartRun \/ FinishRun("completed") \/ FinishRun("failed") \/ CancelRead
  <2>1. /\ logs' = logs /\ thread'["exec"].n = thread["exec"].n
        /\ thread'["cancel"].n = thread["cancel"].n
        /\ \/ thread["exec"].point # "deliver" /\ thread'["exec"].point # "deliver"
           \/ thread'["exec"] = thread["exec"]
        /\ \/ thread["cancel"] = thread'["cancel"]
           \/ thread["cancel"].point = "begin" /\ thread'["cancel"].point = "write"
    <3>1. CASE CreateRun
      BY <1>th, <3>1 DEF CreateRun, Thread
    <3>2. CASE StartRun
      BY <1>th, <3>2 DEF StartRun, Goto, Thread
    <3>3. CASE FinishRun("completed") \/ FinishRun("failed")
      BY <1>th, <3>3 DEF FinishRun, Goto, Thread
    <3>4. CASE CancelRead
      BY <1>th, <3>4 DEF CancelRead, Thread
    <3>. QED  BY <1>1, <3>1, <3>2, <3>3, <3>4
  <2>2. Pending("exec")' = Pending("exec") /\ Pending("cancel")' = Pending("cancel") /\ free' = free
    BY <2>1 DEF Pending
  <2>. QED  BY <1>th, <1>0, <1>b, <2>1, <2>2
<1>2. CASE PublishQueued \/ ClaimQueued
  BY <1>2 DEF PublishQueued, ClaimQueued, PathInv
<1>3. ASSUME NEW t \in {"exec", "cancel"}, NEW p, NEW category, NEW after,
             Publish(t, p, category, after), thread[t].point # "deliver",
             t = "cancel" => thread[t].point = "publish"
      PROVE  LogCount'
  <2>1. /\ logs' = logs /\ thread'[t].n = thread[t].n + 1 /\ thread'[t].point = "deliver"
        /\ \A u \in Threads \ {t} : thread'[u] = thread[u]
    BY <1>th, <1>3 DEF Publish
  <2>2. Pending(t)' = 1 /\ Pending(t) = 0 /\ free' = free
        /\ \A u \in Threads \ {t} : Pending(u)' = Pending(u)
    BY <1>3, <2>1 DEF Pending
  <2>. HIDE DEF free
  <2>3. CASE t = "exec"
    <3>1. thread'["exec"].n = thread["exec"].n + 1 /\ thread'["cancel"].n = thread["cancel"].n
          /\ Pending("exec")' = 1 /\ Pending("exec") = 0 /\ Pending("cancel")' = Pending("cancel")
      BY <2>1, <2>2, <2>3
    <3>. QED  BY <1>th, <1>n, <1>0, <1>b, <2>1, <2>2, <3>1
  <2>4. CASE t = "cancel"
    <3>1. thread'["cancel"].n = thread["cancel"].n + 1 /\ thread'["exec"].n = thread["exec"].n
          /\ Pending("cancel")' = 1 /\ Pending("cancel") = 0 /\ Pending("exec")' = Pending("exec")
      BY <2>1, <2>2, <2>4
    <3>. QED  BY <1>th, <1>n, <1>0, <1>b, <2>1, <2>2, <3>1
  <2>. QED  BY <1>3, <2>3, <2>4
<1>4. CASE PublishStarted \/ PublishProgress \/ PublishEnd \/ PublishCanceled
  BY <1>3, <1>4 DEF PublishStarted, PublishProgress, PublishEnd, PublishCanceled
<1>5. CASE CancelWrite
  <2>1. /\ Len(logs') <= Len(logs) + 1 /\ Len(logs') \in Nat
        /\ thread'["exec"] = thread["exec"] /\ thread'["cancel"].n = thread["cancel"].n
        /\ thread["cancel"].point = "write" /\ thread'["cancel"].point \in {"publish", "end"}
    BY <1>th, <1>a, <1>5 DEF CancelWrite, Goto, Thread
  <2>2. Pending("exec")' = Pending("exec") /\ Pending("cancel")' = Pending("cancel")
        /\ free = 0 /\ free' = 1
    BY <2>1 DEF Pending
  <2>. QED  BY <1>th, <1>0, <1>b, <2>1, <2>2
<1>6. CASE DeleteRun
  <2>1. Len(logs') = 0 /\ thread'["exec"] = thread["exec"] /\ thread'["cancel"] = thread["cancel"]
    BY <1>th, <1>6 DEF DeleteRun, Goto
  <2>2. Pending("exec")' = Pending("exec") /\ Pending("cancel")' = Pending("cancel") /\ free' = free
    BY <2>1 DEF Pending
  <2>. QED  BY <1>th, <1>0, <1>b, <2>1, <2>2
<1>7. ASSUME NEW t \in Threads, NEW p, Close(t, p), thread[t].point = "close" PROVE LogCount'
  <2>1. /\ logs' = logs /\ thread'[t].n = thread[t].n /\ thread'[t].point = "sentinel"
        /\ \A u \in Threads \ {t} : thread'[u] = thread[u]
    BY <1>th, <1>7 DEF Close, Thread
  <2>2. \A u \in Threads : Pending(u)' = Pending(u) /\ thread'[u].n = thread[u].n
    BY <1>7, <2>1 DEF Pending
  <2>3. free' = free
    BY <1>7, <2>1
  <2>. QED  BY <1>th, <1>0, <1>b, <2>1, <2>2, <2>3
<1>8. CASE CloseRun \/ CloseCanceled \/ CloseDeleted
  BY <1>7, <1>8 DEF CloseRun, CloseCanceled, CloseDeleted
\* What a step leaves alone.
<1>9. ASSUME Len(logs') = Len(logs), \A t \in Threads : thread'[t].n = thread[t].n,
             \A t \in Threads : \/ thread'[t].point = thread[t].point
                                \/ thread'[t].point = "end" /\ thread[t].point # "begin"
      PROVE  LogCount'
  <2>1. Pending("exec")' <= Pending("exec") /\ Pending("cancel")' <= Pending("cancel")
    BY <1>9 DEF Pending
  <2>2. free' >= free
    BY <1>9
  <2>3. Pending("exec")' \in {0, 1} /\ Pending("cancel")' \in {0, 1} /\ free' \in {0, 1}
    BY DEF Pending
  <2>4. /\ Len(logs') \in Nat /\ thread'["exec"].n \in Nat /\ thread'["cancel"].n \in Nat
        /\ thread'["exec"].n = thread["exec"].n /\ thread'["cancel"].n = thread["cancel"].n
    BY <1>th, <1>9
  <2>. HIDE DEF free
  <2>5. Len(logs') - Len(logs)
            + (Pending("exec")' - Pending("exec")) + (Pending("cancel")' - Pending("cancel")) <= 0
    BY <1>th, <1>0, <1>9, <2>1, <2>3
  <2>6. (thread'["exec"].n - thread["exec"].n) + (thread'["cancel"].n - thread["cancel"].n)
            + (free' - free) >= 0
    BY <1>n, <1>0, <2>2, <2>3, <2>4
  <2>. DEFINE added == Len(logs') - Len(logs)
                           + (Pending("exec")' - Pending("exec")) + (Pending("cancel")' - Pending("cancel"))
              allowed == (thread'["exec"].n - thread["exec"].n) + (thread'["cancel"].n - thread["cancel"].n)
                             + (free' - free)
  <2>7. added \in Int /\ allowed \in Int
    <3>1. Len(logs) \in Int /\ Len(logs') \in Int
      BY <1>th, <2>4
    <3>2. added \in Int
      BY <1>0, <2>3, <3>1
    <3>3. allowed \in Int
      BY <1>n, <1>0, <2>3, <2>4
    <3>. QED  BY <3>2, <3>3
  <2>8. added <= 0 /\ allowed >= 0
    BY <2>5, <2>6
  <2>9. added <= allowed
    <3>. HIDE DEF added, allowed
    <3>. QED  BY <2>7, <2>8
  <2>10. Len(logs') \in Nat /\ thread'["exec"].n \in Nat /\ thread'["cancel"].n \in Nat
    BY <2>4
  <2>. QED  BY <1>b, <2>9, <2>10
<1>10. ASSUME NEW t \in Threads, Deliver(t) \/ PutSentinel(t) PROVE LogCount'
  BY <1>th, <1>9, <1>10 DEF Deliver, PutSentinel, Thread
<1>11. ASSUME NEW v \in Viewers, Read(v) \/ Drop(v) PROVE LogCount'
  <2>1. logs' = logs /\ (thread' = thread \/ Unsubscribe(v))
    BY <1>11 DEF Read, Connect, Replay, CheckEnd, Subscribe, Receive, Drop, ViewerStep
  <2>2. \A t \in Threads : thread'[t].n = thread[t].n /\ thread'[t].point = thread[t].point
    BY <1>th, <2>1 DEF Unsubscribe, Thread
  <2>3. Len(logs') = Len(logs)
    BY <2>1
  <2>. QED  BY <1>9, <2>2, <2>3, Zenon
<1>12. CASE Restart
  <2>1. Len(logs') = Len(logs)
    BY <1>12 DEF Restart
  <2>2. /\ \A t \in Threads : thread'[t].n = thread[t].n
        /\ \A t \in Threads : \/ thread'[t].point = thread[t].point
                              \/ thread'[t].point = "end" /\ thread[t].point # "begin"
    BY <1>th, <1>12 DEF Restart, Thread
  <2>. QED  BY <1>9, <2>1, <2>2, Zenon
<1>13. ASSUME NEW t \in Threads, LogMessage(t) PROVE LogCount'
  <2>1. /\ Len(logs') <= Len(logs) + 1 /\ Len(logs') \in Nat
        /\ thread'[t].n = thread[t].n /\ thread[t].point = "deliver"
        /\ thread'[t].point = thread[t].after
        /\ \A u \in Threads \ {t} : thread'[u] = thread[u]
    BY <1>th, <1>a, <1>13 DEF LogMessage, Goto, Thread
  <2>2. t \in {"exec", "cancel"} /\ thread[t].after \notin {"deliver", "begin", "write"}
    BY <2>1 DEF PathInv
  <2>3. Pending(t)' = 0 /\ Pending(t) = 1 /\ free' = free
        /\ \A u \in Threads \ {t} : Pending(u)' = Pending(u)
    BY <2>1, <2>2 DEF Pending
  <2>. HIDE DEF free
  <2>4. \A u \in Threads : thread'[u].n = thread[u].n
    BY <2>1
  <2>5. CASE t = "exec"
    <3>1. Pending("exec")' = 0 /\ Pending("exec") = 1 /\ Pending("cancel")' = Pending("cancel")
      BY <2>3, <2>5
    <3>. QED  BY <1>th, <1>n, <1>0, <1>b, <2>1, <2>3, <2>4, <3>1
  <2>6. CASE t = "cancel"
    <3>1. Pending("cancel")' = 0 /\ Pending("cancel") = 1 /\ Pending("exec")' = Pending("exec")
      BY <2>3, <2>6
    <3>. QED  BY <1>th, <1>n, <1>0, <1>b, <2>1, <2>3, <2>4, <3>1
  <2>. QED  BY <2>2, <2>5, <2>6
<1>. QED
  BY <1>1, <1>2, <1>4, <1>5, <1>6, <1>8, <1>10, <1>11, <1>12, <1>13 DEF Next, Advance, Execute

\* Whatever such a process remembers, or if it remembers nothing all that is stored, holds
\* the end of a run that is over.
LEMMA ReplayHasEnd ==
    ASSUME StreamTypeOK, OrderInv, mode = "sync", PathInv, LogCount, EndInv, EndLogged, IsOver,
           ReplayLimit >= 2, faults > 0 => ReplayLimit >= Steps + 4
    PROVE  HasEnd(ReplayRecent("api"))
<1>0. /\ recent["api"] \in Seq(Published) /\ logs \in Seq(Published \cup {Other})
      /\ Len(recent["api"]) \in Nat /\ Len(logs) \in Nat /\ ReplayLimit \in Nat /\ Steps \in Nat
  BY LimitsAssumption, StreamBounds DEF StreamTypeOK, Processes
<1>1. CASE EndNear
  <2>. DEFINE s == recent["api"]
              d == Max({0, Len(s) - ReplayLimit})
  <2>1. PICK i \in DOMAIN s : s[i].category \in EndCategories /\ i >= Len(s) - 1
    BY <1>0, <1>1 DEF EndNear
  <2>2. d \in {0, Len(s) - ReplayLimit} /\ d >= 0
    <3>1. \E x \in {0, Len(s) - ReplayLimit} : \A y \in {0, Len(s) - ReplayLimit} : x >= y
      BY <1>0
    <3>. QED  BY <1>0, <3>1 DEF Max
  <2>3. d \in Nat /\ d <= Len(s) /\ i \in Nat /\ i - d \in Nat \ {0}
    BY <1>0, <2>1, <2>2
  <2>4. s # <<>>
    BY <2>1
  <2>5. ReplayRecent("api") = SubSeq(s, d + 1, Len(s))
    BY <2>4, Zenon DEF ReplayRecent
  <2>. HIDE DEF d, s
  <2>6. s \in Seq(Published) /\ Len(s) \in Nat
    BY <1>0 DEF s
  <2>. DEFINE r == SubSeq(s, d + 1, Len(s))
  <2>7. r \in Seq(Published) /\ Len(r) = Len(s) - d /\ i - d \in 1..(Len(s) - d) /\ r[i - d] = s[i]
    BY <2>1, <2>3, <2>6
  <2>. HIDE DEF r
  <2>8. i - d \in DOMAIN ReplayRecent("api") /\ ReplayRecent("api")[i - d] = s[i]
    <3>1. DOMAIN r = 1..Len(r)
      BY <2>7
    <3>2. i - d \in DOMAIN r
      BY <2>7, <3>1
    <3>3. ReplayRecent("api") = r
      BY <2>5 DEF r
    <3>. QED  BY <2>7, <3>2, <3>3
  <2>. QED  BY <2>1, <2>8 DEF HasEnd
<1>2. CASE recent["api"] = <<>> /\ faults > 0
  <2>1. Len(logs) <= ReplayLimit
    <3>1. thread["exec"].n \in Nat /\ thread["cancel"].n \in Nat
      BY DEF StreamTypeOK, Threads, Thread
    <3>2. thread["exec"].n <= Steps + 2 /\ thread["cancel"].n <= 1
      BY <1>0, <3>1 DEF PathInv
    <3>3. Len(logs) <= thread["exec"].n + thread["cancel"].n + 1
      <4>1. Pending("exec") \in {0, 1} /\ Pending("cancel") \in {0, 1}
        BY DEF Pending
      <4>2. \A f \in {0, 1} :
                Len(logs) + Pending("exec") + Pending("cancel")
                    <= thread["exec"].n + thread["cancel"].n + f
                => Len(logs) <= thread["exec"].n + thread["cancel"].n + 1
        BY <1>0, <3>1, <4>1
      <4>3. (IF thread["cancel"].point \in {"begin", "write"} THEN 0 ELSE 1) \in {0, 1}
        OBVIOUS
      <4>. QED  BY <4>2, <4>3 DEF LogCount
    <3>. QED  BY <1>0, <1>2, <3>1, <3>2, <3>3
  <2>2. Min({ReplayLimit, Len(logs)}) = Len(logs)
    <3>1. \A x \in {ReplayLimit, Len(logs)} : (\A y \in {ReplayLimit, Len(logs)} : x =< y) => x = Len(logs)
      BY <1>0, <2>1
    <3>2. \A y \in {ReplayLimit, Len(logs)} : Len(logs) =< y
      BY <1>0, <2>1
    <3>. QED  BY <1>0, <3>1, <3>2 DEF Min
  <2>3. SubSeq(logs, 1, Len(logs)) = logs
    BY <1>0
  <2>4. ReplayRecent("api") = StreamMessages(logs)
    BY <1>2, <2>2, <2>3 DEF ReplayRecent
  <2>5. PICK k \in DOMAIN logs : logs[k].category \in EndCategories
    BY DEF EndLogged
  <2>6. logs[k] # Other
    BY <2>5 DEF Other, EndCategories
  <2>7. \E i \in DOMAIN StreamMessages(logs) : StreamMessages(logs)[i] = logs[k]
    BY <1>0, <2>6, FilterFacts DEF OrderInv
  <2>. QED  BY <2>4, <2>5, <2>7 DEF HasEnd
<1>. QED  BY <1>1, <1>2 DEF EndInv

Final == {"close", "sentinel", "end"}

\* A step that neither remembers nor shows anything.
LEMMA EndKept ==
    ASSUME EndInv, UNCHANGED <<recent, viewer, faults>>,
           EndLogged' => EndLogged,  EndLogged => EndLogged' \/ ~IsOver',
           IsOver' => IsOver \/ thread["exec"].point \notin Final,
           thread["exec"].point \in Final => thread'["exec"].point \in Final,
           thread'["exec"].point = "deliver" =>
               thread["exec"].point = "deliver" /\ thread'["exec"].msg = thread["exec"].msg,
           thread'["cancel"].n = thread["cancel"].n,
           thread'["cancel"].point = "publish" => thread["cancel"].point = "publish" \/ ~IsOver'
    PROVE  EndInv'
<1>. USE DEF EndInv, Final
<1>1. EndNear => EndNear'
  BY DEF EndNear
<1>2. EndLogged \/ (\E v \in Viewers : viewer[v].late) => (IsOver' => IsOver)
  OBVIOUS
<1>3. (\A v \in Viewers : viewer[v].late => EndLogged \/ ~IsOver)'
  BY <1>2
<1>4. OverIsReplayed'
  BY <1>2 DEF OverIsReplayed, IsOver
<1>5. (EndLogged =>
          \/ EndNear \/ ~IsOver
          \/ recent["api"] = <<>> /\ thread["cancel"].point # "publish" /\ faults > 0)'
  BY <1>1, <1>2
<1>. QED  BY <1>1, <1>3, <1>4, <1>5

\* A publication puts a message behind what is remembered.
LEMMA EndPublished ==
    ASSUME StreamTypeOK, RecentLimit >= 2, NEW t \in {"exec", "cancel"}, NEW category \in Categories,
           NEW after, Publish(t, "api", category, after)
    PROVE  /\ category \in EndCategories => EndNear'
           /\ t = "cancel" /\ thread[t].n = 0 /\ EndNear => EndNear'
<1>. DEFINE msg == [category |-> category, by |-> t, n |-> thread[t].n + 1]
            s == Append(recent["api"], msg)
<1>0. /\ recent["api"] \in Seq(Published) /\ msg \in Published /\ thread[t].n \in Nat
      /\ recent \in [Processes -> Seq(Published)] /\ thread \in [Threads -> Thread]
  BY DEF StreamTypeOK, Processes, Published, Thread, Threads, Categories
<1>1. s \in Seq(Published) /\ Len(s) = Len(recent["api"]) + 1 /\ s[Len(s)] = msg
      /\ \A i \in DOMAIN recent["api"] : i \in DOMAIN s /\ s[i] = recent["api"][i]
  BY <1>0
<1>2. recent'["api"] = Keep(s)
  BY <1>0 DEF Publish, Processes
<1>3. t = "cancel" => thread'["cancel"].n = thread[t].n + 1
  BY <1>0 DEF Publish, Threads
<1>. HIDE DEF s
<1>4. /\ Len(s) \in Nat /\ Len(Keep(s)) \in Nat /\ Len(recent["api"]) \in Nat
      /\ DOMAIN Keep(s) \subseteq Nat /\ DOMAIN s \subseteq Nat
  BY <1>0, <1>1, KeepFacts
<1>5. ASSUME category \in EndCategories PROVE EndNear'
  <2>1. Len(s) \in DOMAIN s /\ Len(s) >= Len(s) - 1
    BY <1>1, <1>4
  <2>2. PICK j \in DOMAIN Keep(s) : Keep(s)[j] = s[Len(s)] /\ Len(Keep(s)) - j = Len(s) - Len(s)
    BY <1>1, <2>1, KeepNewest
  <2>3. j = Len(Keep(s)) /\ Keep(s)[j].category \in EndCategories
    BY <1>1, <1>4, <1>5, <2>2
  <2>. QED  BY <1>2, <2>3 DEF EndNear
<1>6. ASSUME t = "cancel", thread[t].n = 0, EndNear PROVE EndNear'
  <2>1. PICK i \in DOMAIN recent["api"] :
            recent["api"][i].category \in EndCategories /\ i = Len(recent["api"])
    BY <1>6 DEF EndNear
  <2>2. i \in DOMAIN s /\ i = Len(s) - 1 /\ s[i].category \in EndCategories /\ i >= Len(s) - 1
    BY <1>1, <1>4, <2>1
  <2>3. PICK j \in DOMAIN Keep(s) : Keep(s)[j] = s[i] /\ Len(Keep(s)) - j = Len(s) - i
    BY <1>1, <2>2, KeepNewest
  <2>4. j = Len(Keep(s)) - 1 /\ Keep(s)[j].category \in EndCategories
    BY <1>4, <2>2, <2>3
  <2>5. thread'["cancel"].n = 1
    BY <1>3, <1>6
  <2>. QED  BY <1>2, <2>4, <2>5 DEF EndNear
<1>. QED  BY <1>5, <1>6

\* The end of a run stays where a reader who comes later finds it.
LEMMA EndStep ==
    ASSUME StreamTypeOK, OrderInv, mode = "sync", PathInv, LogCount, EndInv, Next,
           RecentLimit >= 2, ReplayLimit >= 2, faults > 0 => ReplayLimit >= Steps + 4
    PROVE  EndInv'
<1>. USE DEF Final, EndCategories
<1>th. /\ thread \in [Threads -> Thread] /\ viewer \in [Viewers -> Viewer]
       /\ logs \in Seq(Published \cup {Other}) /\ recent \in [Processes -> Seq(Published)]
       /\ \A t \in Threads : thread[t].n \in Nat
       /\ faults \in Nat
  BY DEF StreamTypeOK, Thread
\* Entries other than a last message.
<1>a. ASSUME NEW entry, entry \in Published \cup {Other}, entry.category \notin EndCategories,
             AppendLog(entry)
      PROVE  EndLogged' = EndLogged
  <2>1. CASE logs' = logs
    BY <2>1 DEF EndLogged
  <2>2. CASE logs' = Append(logs, entry)
    <3>1. DOMAIN logs' = 1..(Len(logs) + 1) /\ logs'[Len(logs) + 1] = entry
          /\ \A i \in 1..Len(logs) : logs'[i] = logs[i]
      BY <1>th, <1>a, <2>2
    <3>2. DOMAIN logs = 1..Len(logs) /\ Len(logs) \in Nat
      BY <1>th
    <3>. QED  BY <1>a, <3>1, <3>2 DEF EndLogged
  <2>. QED  BY <1>a, <2>1, <2>2 DEF AppendLog
<1>b. Other \in Published \cup {Other} /\ Other.category \notin EndCategories
  BY DEF Other
\* The executing thread.
<1>1. CASE CreateRun \/ StartRun
  <2>1. /\ UNCHANGED <<recent, viewer, logs, faults>> /\ thread'["cancel"] = thread["cancel"]
        /\ thread'["exec"].point # "deliver" /\ thread["exec"].point \notin Final
        /\ ~IsOver' \/ IsOver' = IsOver
    BY <1>th, <1>1 DEF CreateRun, StartRun, SetStatus, Goto, service, IsOver, Threads, Thread
  <2>2. EndLogged' = EndLogged
    BY <2>1 DEF EndLogged
  <2>. QED  BY <2>1, <2>2, EndKept
<1>2. CASE FinishRun("completed") \/ FinishRun("failed")
  <2>1. /\ UNCHANGED <<recent, viewer, logs, faults>> /\ thread'["cancel"] = thread["cancel"]
        /\ thread'["exec"].point # "deliver" /\ thread["exec"].point \notin Final
    BY <1>th, <1>2 DEF FinishRun, Goto, service, Threads, Thread
  <2>2. EndLogged' = EndLogged /\ ~EndLogged
    BY <2>1 DEF EndLogged, EndInv
  <2>. QED  BY <2>1, <2>2, EndKept
<1>3. CASE PublishQueued \/ ClaimQueued
  BY <1>3 DEF PublishQueued, ClaimQueued, PathInv
<1>4. CASE PublishStarted \/ PublishProgress \/ PublishEnd
  <2>1. PICK category \in Categories, after \in Afters : Publish("exec", "api", category, after)
    BY <1>4 DEF PublishStarted, PublishProgress, PublishEnd, Home, Categories, Afters
  <2>2. thread["exec"].point \notin Final
    BY <1>4 DEF PublishStarted, PublishProgress, PublishEnd
  <2>3. /\ UNCHANGED <<status, logs, viewer, faults>> /\ thread'["exec"].msg.category = category
    BY <1>th, <2>1 DEF Publish, Threads
  <2>4. ~EndLogged /\ EndLogged' = EndLogged /\ \A v \in Viewers : ~viewer[v].late
    BY <2>2, <2>3 DEF EndInv, EndLogged
  <2>5. category \in EndCategories => EndNear'
    BY <2>1, EndPublished
  <2>. QED  BY <2>3, <2>4, <2>5 DEF EndInv, OverIsReplayed
<1>5. CASE CloseRun \/ CloseCanceled \/ CloseDeleted
  <2>1. /\ UNCHANGED <<recent, viewer, logs, status, faults>> /\ thread'["cancel"].n = thread["cancel"].n
        /\ thread'["cancel"].point # "publish" \/ thread'["cancel"] = thread["cancel"]
        /\ thread'["exec"].point = "sentinel" \/ thread'["exec"] = thread["exec"]
    <3>1. PICK t \in Threads : thread[t].point = "close" /\ Close(t, "api")
      BY <1>5 DEF CloseRun, CloseCanceled, CloseDeleted, Home, Threads
    <3>2. \A u \in Threads \ {t} : thread'[u] = thread[u]
      BY <1>th, <3>1 DEF Close
    <3>3. thread'[t].n = thread[t].n /\ thread'[t].point = "sentinel"
      BY <1>th, <3>1 DEF Close, Thread
    <3>4. UNCHANGED <<recent, viewer, logs, status, faults>>
      BY <3>1 DEF Close
    <3>. QED  BY <3>2, <3>3, <3>4 DEF Threads
  <2>2. EndLogged' = EndLogged /\ IsOver' = IsOver
    BY <2>1 DEF EndLogged, IsOver
  <2>. QED  BY <2>1, <2>2, EndKept
\* The other requests.
<1>6. CASE CancelRead \/ CancelWrite
  <2>1. /\ UNCHANGED <<recent, viewer, faults>> /\ thread'["exec"] = thread["exec"]
        /\ thread'["cancel"].n = thread["cancel"].n
        /\ ~IsOver' \/ IsOver' = IsOver
        /\ thread'["cancel"].point = "publish" => ~IsOver'
    <3>1. CASE CancelRead
      BY <1>th, <3>1 DEF CancelRead, service, IsOver, Threads, Thread
    <3>2. CASE CancelWrite
      BY <1>th, <3>2 DEF CancelWrite, SetStatus, Goto, service, IsOver, Threads, Thread, Stored
    <3>. QED  BY <1>6, <3>1, <3>2
  <2>2. EndLogged' = EndLogged
    <3>1. logs' = logs \/ AppendLog(Other)
      BY <1>6 DEF CancelRead, CancelWrite
    <3>2. logs' = logs => EndLogged' = EndLogged
      BY DEF EndLogged
    <3>. QED  BY <1>a, <1>b, <3>1, <3>2
  <2>. QED  BY <2>1, <2>2, EndKept
<1>7. CASE PublishCanceled
  <2>1. Publish("cancel", "api", "status", thread["cancel"].after) /\ thread["cancel"].point = "publish"
    BY <1>7 DEF PublishCanceled
  <2>2. /\ UNCHANGED <<status, logs, viewer, faults>> /\ thread'["exec"] = thread["exec"]
    BY <1>th, <2>1 DEF Publish, Threads
  <2>3. EndLogged' = EndLogged /\ IsOver' = IsOver
    BY <2>2 DEF EndLogged, IsOver
  <2>4. thread["cancel"].n = 0
    BY <1>th, <2>1 DEF PathInv, Threads
  <2>5. EndNear => EndNear'
    BY <2>1, <2>4, EndPublished DEF Categories
  <2>. QED  BY <2>1, <2>2, <2>3, <2>5 DEF EndInv, OverIsReplayed, IsOver
<1>8. CASE DeleteRun
  <2>1. /\ UNCHANGED <<recent, viewer, faults>> /\ thread'["exec"] = thread["exec"]
        /\ thread'["cancel"] = thread["cancel"] /\ ~IsOver' /\ logs' = <<>>
    BY <1>th, <1>8 DEF DeleteRun, Goto, service, IsOver, Threads, Thread
  <2>2. ~EndLogged'
    BY <2>1 DEF EndLogged
  <2>. QED  BY <2>1, <2>2, EndKept
\* What a publication and a close do outside the lock.
<1>9. ASSUME NEW t \in Threads, Deliver(t) \/ PutSentinel(t) PROVE EndInv'
  <2>1. /\ UNCHANGED <<recent, viewer, logs, status, faults>>
        /\ \A u \in Threads : /\ thread'[u].n = thread[u].n /\ thread'[u].point = thread[u].point
                              /\ thread'[u].msg = thread[u].msg
    <3>1. UNCHANGED <<recent, viewer, logs, status, faults>>
      BY <1>9 DEF Deliver, PutSentinel, service
    <3>2. PICK v : thread' = [thread EXCEPT ![t].to = @ \ {v}]
      BY <1>9 DEF Deliver, PutSentinel
    <3>. QED  BY <1>th, <3>1, <3>2 DEF Thread
  <2>2. EndLogged' = EndLogged /\ IsOver' = IsOver
    BY <2>1 DEF EndLogged, IsOver
  <2>3. /\ thread'["exec"].point = thread["exec"].point /\ thread'["exec"].msg = thread["exec"].msg
        /\ thread'["cancel"].point = thread["cancel"].point /\ thread'["cancel"].n = thread["cancel"].n
    BY <2>1 DEF Threads
  <2>. QED  BY <2>1, <2>2, <2>3, EndKept
<1>10. ASSUME NEW t \in Threads, LogMessage(t) PROVE EndInv'
  <2>0. /\ UNCHANGED <<recent, viewer, status, faults>> /\ thread[t].point = "deliver"
        /\ thread'[t].point = thread[t].after /\ thread'[t].n = thread[t].n
        /\ \A u \in Threads \ {t} : thread'[u] = thread[u]
        /\ AppendLog(thread[t].msg) /\ IsOver' = IsOver
    BY <1>th, <1>10 DEF LogMessage, Goto, service, Thread, IsOver
  <2>1. thread[t].msg \in Published
    BY <2>0 DEF OrderInv
  <2>2. CASE thread[t].msg.category \in EndCategories
    <3>1. t = "exec" /\ thread'[t].point = "close" /\ thread'["cancel"] = thread["cancel"]
      BY <2>0, <2>2 DEF PathInv, Threads
    <3>2. EndNear'
      BY <2>0, <2>2, <3>1 DEF EndInv, EndNear
    <3>3. \A v \in Viewers : ~viewer'[v].late
      BY <2>0, <3>1 DEF EndInv
    <3>. QED  BY <3>1, <3>2, <3>3 DEF EndInv, OverIsReplayed
  <2>3. CASE thread[t].msg.category \notin EndCategories
    <3>1. EndLogged' = EndLogged
      BY <1>a, <2>0, <2>1, <2>3
    <3>2. t \in {"exec", "cancel"} /\ thread[t].after \notin {"deliver", "publish"}
      BY <2>0 DEF PathInv, Threads
    <3>. QED  BY <2>0, <3>1, <3>2, EndKept DEF Threads
  <2>. QED  BY <2>2, <2>3
\* Readers.
<1>11. ASSUME NEW v \in Viewers, Read(v) \/ Drop(v) PROVE EndInv'
  <2>1. /\ UNCHANGED <<recent, logs, status>>
        /\ thread'["exec"].point = thread["exec"].point /\ thread'["exec"].msg = thread["exec"].msg
        /\ thread'["cancel"].point = thread["cancel"].point /\ thread'["cancel"].n = thread["cancel"].n
        /\ faults' >= faults
    <3>1. ViewerStep /\ (thread' = thread \/ Unsubscribe(v))
      BY <1>11 DEF Read, Connect, Replay, CheckEnd, Subscribe, Receive, Drop
    <3>2. faults' = faults \/ faults' = faults + 1
      BY <1>11 DEF Read, Connect, Replay, CheckEnd, Subscribe, Receive, Drop
    <3>3. faults' >= faults
      BY <1>th, <3>2
    <3>. QED  BY <1>th, <3>1, <3>3 DEF ViewerStep, Unsubscribe, Threads, Thread
  <2>2. EndLogged' = EndLogged /\ IsOver' = IsOver /\ EndNear' = EndNear
    BY <2>1 DEF EndLogged, IsOver, EndNear
  <2>3. \A w \in Viewers \ {v} : viewer'[w] = viewer[w]
    <3>1. \E vw : viewer' = [viewer EXCEPT ![v] = vw]
      <4>1. CASE Connect(v)
        BY <4>1 DEF Connect
      <4>2. CASE Replay(v)
        BY <4>2 DEF Replay
      <4>3. CASE CheckEnd(v)
        BY <4>3 DEF CheckEnd
      <4>4. CASE Subscribe(v)
        BY <4>4 DEF Subscribe
      <4>5. CASE Receive(v)
        BY <4>5 DEF Receive
      <4>6. CASE Drop(v)
        BY <4>6 DEF Drop
      <4>. QED  BY <1>11, <4>1, <4>2, <4>3, <4>4, <4>5, <4>6 DEF Read
    <3>. QED  BY <1>th, <3>1
  <2>4. /\ viewer'[v].late => viewer[v].late \/ (IsOver /\ EndLogged)
        /\ viewer'[v].late /\ viewer'[v].point \in {"check", "subscribe", "live"} => ~IsOver
    <3>1. CASE Connect(v)
      BY <1>th, <3>1 DEF Connect, IsOver
    <3>2. CASE Replay(v)
      <4>1. viewer[v].late /\ IsOver => HasEnd(ReplayRecent("api"))
        BY ReplayHasEnd DEF EndInv
      <4>2. viewer'[v].late = viewer[v].late
            /\ (HasEnd(ReplayRecent("api")) => viewer'[v].point = "done")
        BY <1>th, <3>2 DEF Replay, Viewer
      <4>. QED  BY <4>1, <4>2
    <3>3. CASE CheckEnd(v) \/ Subscribe(v) \/ Receive(v) \/ Drop(v)
      <4>1. \/ ~viewer'[v].late
            \/ viewer'[v].late = viewer[v].late
               /\ viewer[v].point \in {"check", "subscribe", "live"}
        <5>1. CASE CheckEnd(v)
          BY <1>th, <5>1 DEF CheckEnd, NewViewer, Viewer
        <5>2. CASE Subscribe(v)
          BY <1>th, <5>2 DEF Subscribe, NewViewer, Viewer
        <5>3. CASE Receive(v)
          <6>1. viewer'[v] = NewViewer \/ viewer'[v].late = viewer[v].late
            <7>1. PICK got, point :
                      viewer'[v] \in {NewViewer, [viewer[v] EXCEPT !.got = got, !.point = point]}
              BY <1>th, <5>3 DEF Receive
            <7>. QED  BY <1>th, <7>1 DEF Viewer
          <6>2. viewer[v].point = "live" /\ viewer[v] \in Viewer
            BY <1>th, <5>3 DEF Receive
          <6>. QED  BY <6>1, <6>2 DEF NewViewer, Viewer
        <5>4. CASE Drop(v)
          BY <1>th, <5>4 DEF Drop, NewViewer, Viewer
        <5>. QED  BY <3>3, <5>1, <5>2, <5>3, <5>4
      <4>. QED  BY <4>1 DEF EndInv, OverIsReplayed, IsOver
    <3>. QED  BY <1>11, <3>1, <3>2, <3>3 DEF Read
  <2>5. OverIsReplayed'
    BY <2>2, <2>3, <2>4 DEF EndInv, OverIsReplayed, IsOver
  <2>6. \A w \in Viewers : viewer'[w].late => viewer[w].late \/ (IsOver /\ EndLogged)
    BY <2>3, <2>4
  <2>7. faults > 0 => faults' > 0
    <3>1. faults' \in Int
      BY <1>th, <1>11 DEF Read, Connect, Replay, CheckEnd, Subscribe, Receive, Drop
    <3>. QED  BY <1>th, <2>1, <3>1
  <2>. QED  BY <2>1, <2>2, <2>5, <2>6, <2>7 DEF EndInv
<1>12. CASE Restart
  <2>1. /\ recent'["api"] = <<>> /\ UNCHANGED <<logs, status>> /\ faults' > 0
        /\ viewer' = [v \in Viewers |-> IF viewer[v].point = "done" THEN viewer[v] ELSE NewViewer]
    <3>1. faults' > 0
      <4>1. faults \in Nat /\ faults' = faults + 1
        BY <1>th, <1>12 DEF Restart
      <4>. QED  BY <4>1
    <3>. QED  BY <1>th, <1>12, <3>1 DEF Restart, Processes
  <2>2. EndLogged' = EndLogged /\ IsOver' = IsOver
    BY <2>1 DEF EndLogged, IsOver
  <2>3. \A t \in {"exec", "cancel"} : thread'[t].point \in {"begin", "queued", "end"}
            /\ (thread[t].point \notin {"begin", "queued"} => thread'[t].point = "end")
    BY <1>th, <1>12 DEF Restart, Process, Home, Threads, Thread
  <2>4. \A v \in Viewers : viewer'[v].late => viewer[v].late /\ viewer'[v].point = "done"
    BY <2>1 DEF NewViewer
  <2>5. OverIsReplayed'
    BY <2>4 DEF OverIsReplayed
  <2>. QED  BY <2>1, <2>2, <2>3, <2>4, <2>5 DEF EndInv
<1>. QED
  BY <1>1, <1>2, <1>3, <1>4, <1>5, <1>6, <1>7, <1>8, <1>9, <1>10, <1>11, <1>12
     DEF Next, Advance, Execute

\* How a run is executed never changes; faults are counted.
LEMMA ModeKept == Next => mode' = mode
<1>1. \A t, p, category, after : Publish(t, p, category, after) => mode' = mode
  BY DEF Publish
<1>. QED
  BY <1>1 DEF Next, Advance, Execute, CreateRun, PublishQueued, ClaimQueued, StartRun, PublishStarted,
         PublishProgress, FinishRun, PublishEnd, CloseRun, CancelRead, CancelWrite, PublishCanceled,
         CloseCanceled, DeleteRun, CloseDeleted, Close, Publish, Deliver, LogMessage, PutSentinel,
         Read, Connect, Replay, CheckEnd, Subscribe, Receive, Drop, ViewerStep, Restart

LEMMA FaultsCounted ==
    Next => faults' = faults \/ (faults < MaxFaults /\ faults' = faults + 1)
<1>1. \A t, p, category, after : Publish(t, p, category, after) => faults' = faults
  BY DEF Publish
<1>. QED
  BY <1>1 DEF Next, Advance, Execute, CreateRun, PublishQueued, ClaimQueued, StartRun, PublishStarted,
         PublishProgress, FinishRun, PublishEnd, CloseRun, CancelRead, CancelWrite, PublishCanceled,
         CloseCanceled, DeleteRun, CloseDeleted, Close, Publish, Deliver, LogMessage, PutSentinel,
         Read, Connect, Replay, CheckEnd, Subscribe, Receive, Drop, ViewerStep, Restart

-----------------------------------------------------------------------------
(* The theorems.                                                           *)

StreamInv == StreamTypeOK /\ SubscriberInv /\ OrderInv /\ NobodyStranded

\* Types, subscriptions and order, of any number of readers and for any limits.
THEOREM StreamInvariant == Spec => []StreamInv
<1>1. Init => StreamInv
  <2>. SUFFICES ASSUME Init PROVE StreamInv
    OBVIOUS
  <2>. USE DEF Init
  <2>1. StreamTypeOK
    <3>1. NewThread \in Thread /\ NewViewer \in Viewer
      BY DEF NewThread, NewViewer, Thread, Viewer, ThreadPoints, ViewerPoints, Statuses
    <3>. QED  BY <3>1, ModesAssumption DEF StreamTypeOK, Statuses
  <2>2. SubscriberInv /\ NobodyStranded
    BY DEF SubscriberInv, NobodyStranded, Processes, NewThread, NewViewer, Live, Threads
  <2>3. OrderInv
    BY DEF OrderInv, InOrder, UpToDate, NewThread, NewViewer, Live
  <2>. QED  BY <2>1, <2>2, <2>3 DEF StreamInv
<1>2. StreamInv /\ [Next]_vars => StreamInv'
  <2>. SUFFICES ASSUME StreamInv, [Next]_vars PROVE StreamInv'
    OBVIOUS
  <2>. USE DEF StreamInv
  <2>1. CASE UNCHANGED vars
    BY <2>1 DEF vars, service, StreamTypeOK, SubscriberInv, OrderInv, NobodyStranded, InOrder,
                UpToDate, Before, Live
  <2>2. CASE Next
    <3>1. StreamTypeOK' /\ SubscriberInv' /\ NobodyStranded'
      BY <2>2, TypeStep, SubscriberStep, StrandedStep
    <3>2. OrderInv'
      BY <2>2, <3>1, StepKinds, OrderService, OrderViewer, OrderRestart
    <3>. QED  BY <3>1, <3>2
  <2>. QED  BY <2>1, <2>2
<1>. QED  BY <1>1, <1>2, PTL DEF Spec

\* Nobody waits for ever on a closed stream, however close, subscriptions, broken
\* connections and a restart interleave.
THEOREM NobodyIsStranded == Spec => []NobodyStranded
<1>1. StreamInv => NobodyStranded
  BY DEF StreamInv
<1>. QED  BY <1>1, StreamInvariant, PTL

\* Every reader gets the messages of each publisher once and in order, although they are
\* put to the queues outside the lock and a replay comes before the subscription.
THEOREM PublishersInOrder == Spec => []PublisherOrder
<1>1. StreamInv => PublisherOrder
  <2>. SUFFICES ASSUME StreamInv, NEW v \in Viewers,
                       NEW i \in DOMAIN viewer[v].got, NEW j \in DOMAIN viewer[v].got,
                       i < j, viewer[v].got[i].by = viewer[v].got[j].by
                PROVE  viewer[v].got[i].n < viewer[v].got[j].n
    BY DEF PublisherOrder
  <2>1. viewer[v].got \in Seq(Published) /\ InOrder(viewer[v].got)
    BY NumberFacts DEF StreamInv, OrderInv
  <2>2. viewer[v].got[i] \in Published
    BY <2>1
  <2>3. viewer[v].got[i].by \in Threads
    BY <2>2 DEF Published
  <2>. QED  BY <2>1, <2>3 DEF InOrder
<1>. QED  BY <1>1, StreamInvariant, PTL

\* A reader that connects to a run which the API process has executed to its end is replayed
\* that end before it could wait for it, whatever the deque has forgotten since, however the
\* cancel of a run races its end and also after a restart.  Only the deque and a replay must
\* have room for the end and the message of the cancel and, if there may be a restart, a
\* replay for all that is stored of a run.
THEOREM EndAlwaysReplayed ==
    ASSUME RecentLimit >= 2, ReplayLimit >= 2, MaxFaults > 0 => ReplayLimit >= Steps + 4
    PROVE  Spec => []EndIsReplayed
<1>1. Init => SyncInv
  <2>. SUFFICES ASSUME Init PROVE SyncInv
    OBVIOUS
  <2>. USE DEF Init, NewThread, NewViewer, Threads
  <2>1. PathInv
    BY StreamBounds DEF PathInv
  <2>2. LogCount
    BY DEF LogCount, Pending
  <2>3. EndInv
    BY DEF EndInv, EndLogged, OverIsReplayed
  <2>. QED  BY <2>1, <2>2, <2>3, StreamBounds DEF SyncInv
<1>2. StreamInv /\ SyncInv /\ [Next]_vars => SyncInv'
  <2>0. ASSUME StreamInv, SyncInv, [Next]_vars PROVE (faults <= MaxFaults)'
    <3>1. faults \in Nat /\ MaxFaults \in Nat /\ faults <= MaxFaults
      BY <2>0, StreamBounds DEF StreamInv, StreamTypeOK, SyncInv
    <3>2. faults' = faults \/ (faults < MaxFaults /\ faults' = faults + 1)
      <4>1. CASE UNCHANGED vars
        BY <4>1 DEF vars
      <4>2. CASE Next
        BY <4>2, FaultsCounted
      <4>. QED  BY <2>0, <4>1, <4>2
    <3>. QED  BY <3>1, <3>2
  <2>. SUFFICES ASSUME StreamInv, SyncInv, [Next]_vars, mode' = "sync"
                PROVE  (PathInv /\ LogCount /\ EndInv)'
    BY <2>0 DEF SyncInv
  <2>1. CASE UNCHANGED vars
    <3>0. mode = "sync" /\ PathInv /\ LogCount /\ EndInv
      BY <2>1 DEF vars, SyncInv
    <3>1. PathInv'
      BY <2>1, <3>0 DEF vars, PathInv
    <3>2. LogCount'
      BY <2>1, <3>0 DEF vars, service, LogCount, Pending
    <3>3. (EndNear <=> EndNear') /\ (EndLogged <=> EndLogged') /\ (IsOver <=> IsOver')
          /\ (OverIsReplayed <=> OverIsReplayed')
      BY <2>1 DEF vars, service, EndNear, EndLogged, IsOver, OverIsReplayed
    <3>4. EndInv'
      BY <2>1, <3>0, <3>3 DEF vars, service, EndInv
    <3>. QED  BY <3>1, <3>2, <3>4
  <2>2. CASE Next
    <3>1. mode = "sync"
      BY <2>2, ModeKept
    <3>2. faults > 0 => ReplayLimit >= Steps + 4
      <4>1. faults \in Nat /\ MaxFaults \in Nat /\ faults <= MaxFaults
        BY StreamBounds DEF StreamInv, StreamTypeOK, SyncInv
      <4>. QED  BY <4>1
    <3>. QED  BY <2>2, <3>1, <3>2, SyncPath, SyncCount, EndStep DEF SyncInv, StreamInv
  <2>. QED  BY <2>1, <2>2
<1>3. SyncInv => EndIsReplayed
  BY DEF SyncInv, EndInv, EndIsReplayed
<1>. QED  BY <1>1, <1>2, <1>3, StreamInvariant, PTL DEF Spec
=============================================================================
