-------------------------- MODULE WriteQueueProofs --------------------------
(***************************************************************************)
(* Theorems about WriteQueue, for any set of threads, any capacity and any *)
(* group size.                                                             *)
(***************************************************************************)
EXTENDS WriteQueue, SequenceTheorems, FiniteSetTheorems, TLAPS

USE DEF PCs, WPCs, Outcomes, Calls, NoCall

-----------------------------------------------------------------------------
(* Type correctness.                                                       *)

\* Every action keeps the state within its types.
LEMMA TypeStep ==
    ASSUME TypeOK, WriterShape, [Next]_vars
    PROVE  TypeOK'
<1>. USE DEF TypeOK
<1>1. ASSUME NEW t \in Threads, NEW c \in Calls, Push(t, c)
      PROVE  TypeOK'
  BY <1>1 DEF Push, Leave, PushDecision, Admission
<1>2. ASSUME NEW t \in Threads, Resume(t)
      PROVE  TypeOK'
  BY <1>2 DEF Resume, Leave, ResumeDecisions, PushDecision, Admission
<1>3. ASSUME NEW t \in Threads,
             \/ SpuriousWake(t) \/ PushTimeout(t) \/ Receive(t) \/ Return(t)
             \/ Close(t) \/ DropHandle(t) \/ \E u \in Threads : Clone(t, u)
      PROVE  TypeOK'
  BY <1>3 DEF SpuriousWake, PushTimeout, Receive, Return, Close, DropHandle, Clone
<1>4. ASSUME NEW t \in Threads, NotifyWriter(t)
      PROVE  TypeOK'
  BY <1>4 DEF NotifyWriter, WakeWriter
<1>5. CASE PopNothing
  BY <1>5, Zenon DEF PopNothing
<1>6. CASE PopExclusive
  <2>1. Head(jobs) \in Threads /\ Tail(jobs) \in Seq(Threads)
    BY <1>6, HeadTailProperties, Zenon DEF PopExclusive
  <2>. QED  BY <2>1, <1>6 DEF PopExclusive, WakeSubmitters
<1>7. CASE CollectGroup
  <2>1. PICK n \in 0 .. Len(jobs) :
          /\ batch' = batch \o SubSeq(jobs, 1, n)
          /\ jobs' = SubSeq(jobs, n + 1, Len(jobs))
          /\ IF n > 0 THEN WakeSubmitters ELSE UNCHANGED pc
          /\ wpc' \in AfterCollecting(n)
    BY <1>7, Zenon DEF CollectGroup
  <2>2. batch' \in Seq(Threads) /\ jobs' \in Seq(Threads)
    BY <2>1
  <2>3. pc' \in [Threads -> PCs]
    BY <2>1 DEF WakeSubmitters
  <2>4. wpc' \in WPCs
    BY <2>1, Zenon DEF AfterCollecting
  <2>. QED  BY <2>2, <2>3, <2>4, <1>7, Zenon DEF CollectGroup
<1>8. CASE Execute
  BY <1>8 DEF Execute
<1>11. CASE Respond
  <2>1. Head(batch) \in Threads /\ Tail(batch) \in Seq(Threads)
    BY <1>11, HeadTailProperties, Zenon DEF Respond, WriterShape
  <2>. QED  BY <2>1, <1>11, Zenon DEF Respond
<1>9. CASE SpuriousWriterWake \/ GroupDeadline
  BY <1>9, Zenon DEF SpuriousWriterWake, GroupDeadline, WakeWriter
<1>10. CASE Shutdown \/ Closed
  BY <1>10, ZenonT(30) DEF Shutdown, CloseQueue, JoinWriter, CloseReaders, Closed,
               WakeWriter, WakeSubmitters, vars
<1>12. CASE UNCHANGED vars
  BY <1>12, Zenon DEF vars
<1>. HIDE DEF TypeOK, PCs, WPCs, Outcomes, Calls, NoCall
<1>. QED
  BY <1>1, <1>2, <1>3, <1>4, <1>5, <1>6, <1>7, <1>8, <1>9, <1>10, <1>11, <1>12, Zenon
     DEF Next, Submitter, Writer, Pop

-----------------------------------------------------------------------------
(* The line of jobs, as a sequence.                                        *)

Distinct(line) == \A i, j \in DOMAIN line : line[i] = line[j] => i = j

OnePlace(line, answered, pending) ==
    /\ Distinct(line)
    /\ Elements(line) \intersect answered = {}
    /\ Elements(line) \union answered = pending

\* A job whose thread has none can join the line (push).
LEMMA OnePlaceAppend ==
    ASSUME NEW line \in Seq(Threads), NEW answered, NEW pending,
           NEW t \in Threads, t \notin pending,
           OnePlace(line, answered, pending)
    PROVE  OnePlace(Append(line, t), answered, pending \union {t})
<1>. DEFINE new == Append(line, t)
<1>1. /\ new \in Seq(Threads)
      /\ DOMAIN new = 1 .. Len(line) + 1
      /\ DOMAIN line = 1 .. Len(line)
      /\ Len(line) \in Nat
      /\ \A i \in 1 .. Len(line) : new[i] = line[i]
      /\ new[Len(line) + 1] = t
  BY AppendProperties, LenProperties
<1>. HIDE DEF new
<1>2. Elements(new) = Elements(line) \union {t}
  BY <1>1 DEF Elements
<1>3. t \notin Elements(line) /\ t \notin answered
  BY Zenon DEF OnePlace
<1>4. Distinct(new)
  BY <1>1, <1>3 DEF OnePlace, Distinct, Elements
<1>5. OnePlace(new, answered, pending \union {t})
  BY <1>2, <1>3, <1>4, Zenon DEF OnePlace
<1>. QED  BY <1>5, Zenon DEF new

\* Answering the head of the line moves it to the answered ones (Respond).
LEMMA OnePlaceAnswer ==
    ASSUME NEW line \in Seq(Threads), NEW answered, NEW pending,
           line # <<>>, OnePlace(line, answered, pending)
    PROVE  OnePlace(Tail(line), answered \union {Head(line)}, pending)
<1>. DEFINE new == Tail(line)
<1>1. /\ Len(line) \in Nat \ {0}
      /\ DOMAIN line = 1 .. Len(line)
      /\ Head(line) = line[1]
      /\ new \in Seq(Threads)
      /\ DOMAIN new = 1 .. Len(line) - 1
      /\ \A i \in 1 .. Len(line) - 1 : new[i] = line[i + 1]
  BY HeadTailProperties, LenProperties, EmptySeq
<1>. HIDE DEF new
<1>2. Elements(line) = Elements(new) \union {Head(line)}
  <2>1. ASSUME NEW i \in DOMAIN line, i # 1
        PROVE  line[i] \in Elements(new)
    <3>1. i - 1 \in DOMAIN new /\ new[i - 1] = line[i]
      BY <1>1, <2>1
    <3>. QED  BY <3>1, Zenon DEF Elements
  <2>2. ASSUME NEW i \in DOMAIN new
        PROVE  new[i] \in Elements(line)
    <3>1. i + 1 \in DOMAIN line /\ new[i] = line[i + 1]
      BY <1>1, <2>2
    <3>. QED  BY <3>1, Zenon DEF Elements
  <2>. QED  BY <1>1, <2>1, <2>2, SMTT(20) DEF Elements
<1>3. Head(line) \notin Elements(new)
  BY <1>1, SMTT(20) DEF OnePlace, Distinct, Elements
<1>4. Distinct(new)
  <2>1. ASSUME NEW i \in DOMAIN new, NEW j \in DOMAIN new, new[i] = new[j]
        PROVE  i = j
    <3>1. i + 1 \in DOMAIN line /\ j + 1 \in DOMAIN line
          /\ line[i + 1] = line[j + 1]
      BY <1>1, <2>1
    <3>2. i + 1 = j + 1
      BY <3>1, Zenon DEF OnePlace, Distinct
    <3>. QED  BY <1>1, <3>2
  <2>. QED  BY <2>1, Zenon DEF Distinct
<1>5. OnePlace(new, answered \union {Head(line)}, pending)
  BY <1>2, <1>3, <1>4, Zenon DEF OnePlace
<1>. QED  BY <1>5, Zenon DEF new

\* Receiving an answer ends the job (recv in write_internal).
LEMMA OnePlaceReceive ==
    ASSUME NEW line, NEW answered, NEW pending, NEW t \in answered,
           OnePlace(line, answered, pending)
    PROVE  OnePlace(line, answered \ {t}, pending \ {t})
  BY Zenon DEF OnePlace

\* The batch, what joins it from the queue and the rest of the queue are one line.
LEMMA LineJoins ==
    ASSUME NEW a \in Seq(Threads), NEW b \in Seq(Threads), NEW c \in Seq(Threads)
    PROVE  (a \o b) \o c = a \o (b \o c)
  BY ConcatAssociative, SMTT(30)

\* The three ways batch and jobs change keep the line or extend it.
LEMMA PipelineOfPush ==
    ASSUME TypeOK, NEW t \in Threads, jobs' = Append(jobs, t), batch' = batch
    PROVE  Pipeline' = Append(Pipeline, t)
<1>1. jobs' = jobs \o <<t>> /\ <<t>> \in Seq(Threads)
  BY AppendIsConcat DEF TypeOK
<1>2. Pipeline' = Pipeline \o <<t>>
  <2>1. batch \in Seq(Threads) /\ jobs \in Seq(Threads)
    BY Zenon DEF TypeOK
  <2>2. batch \o (jobs \o <<t>>) = (batch \o jobs) \o <<t>>
    BY <1>1, <2>1, LineJoins, Zenon
  <2>. QED  BY <1>1, <2>2, Zenon DEF Pipeline
<1>3. Pipeline \in Seq(Threads)
  BY ConcatProperties, Zenon DEF TypeOK, Pipeline
<1>. QED  BY <1>2, <1>3, AppendIsConcat, Zenon

\* Taking an exclusive job moves it from the queue to the batch, in line.
LEMMA PipelineOfPopExclusive ==
    ASSUME TypeOK, WriterShape, PopExclusive
    PROVE  Pipeline' = Pipeline
<1>1. batch = <<>> /\ jobs # <<>> /\ jobs \in Seq(Threads)
  BY Zenon DEF PopExclusive, WriterShape, TypeOK
<1>2. jobs = SubSeq(jobs, 1, Len(jobs)) /\ Len(jobs) \in Nat \ {0}
  BY <1>1, SubSeqFull, EmptySeq, Zenon
<1>3. SubSeq(jobs, 1, Len(jobs)) = <<jobs[1]>> \o SubSeq(jobs, 2, Len(jobs))
  BY <1>1, <1>2, SubSeqRecursiveFirst
<1>4. jobs = <<Head(jobs)>> \o Tail(jobs)
  BY <1>1, <1>2, <1>3, TailIsSubSeq
<1>5. Pipeline = jobs
  BY <1>1, ConcatEmptySeq, Zenon DEF Pipeline
<1>. QED  BY <1>4, <1>5, Zenon DEF PopExclusive, Pipeline

\* Collecting moves a prefix of the queue to the end of the batch, in line.
LEMMA PipelineOfCollectGroup ==
    ASSUME TypeOK, CollectGroup
    PROVE  Pipeline' = Pipeline
<1>1. PICK n \in 0 .. Len(jobs) :
        /\ batch' = batch \o SubSeq(jobs, 1, n)
        /\ jobs' = SubSeq(jobs, n + 1, Len(jobs))
  BY Zenon DEF CollectGroup
<1>2. Len(jobs) \in Nat /\ DOMAIN jobs = 1 .. Len(jobs)
      /\ \A i \in 1 .. Len(jobs) : jobs[i] \in Threads
  BY LenProperties, ElementOfSeq, Zenon DEF TypeOK
<1>3. SubSeq(jobs, 1, n) \in Seq(Threads)
      /\ SubSeq(jobs, n + 1, Len(jobs)) \in Seq(Threads)
  BY <1>2, SubSeqProperties
<1>4. SubSeq(jobs, 1, n) \o SubSeq(jobs, n + 1, Len(jobs)) = jobs
  <2>1. /\ jobs \in Seq(Threads)
        /\ 1 \in 1 .. Len(jobs) + 1 /\ n \in 1 - 1 .. Len(jobs)
        /\ Len(jobs) \in n .. Len(jobs)
    BY <1>2 DEF TypeOK
  <2>2. SubSeq(jobs, 1, n) \o SubSeq(jobs, n + 1, Len(jobs))
           = SubSeq(jobs, 1, Len(jobs))
    BY <2>1, ConcatAdjacentSubSeq, Zenon
  <2>. QED  BY <2>1, <2>2, SubSeqFull, Zenon
<1>. DEFINE front == SubSeq(jobs, 1, n)
            rest == SubSeq(jobs, n + 1, Len(jobs))
<1>5. front \in Seq(Threads) /\ rest \in Seq(Threads) /\ front \o rest = jobs
  BY <1>3, <1>4, Zenon
<1>6. Pipeline' = (batch \o front) \o rest
  BY <1>1, Zenon DEF Pipeline
<1>. HIDE DEF front, rest
<1>7. (batch \o front) \o rest = batch \o (front \o rest)
  <2>1. batch \in Seq(Threads) /\ front \in Seq(Threads) /\ rest \in Seq(Threads)
    BY <1>5, Zenon DEF TypeOK
  <2>. QED  BY <2>1, LineJoins, Zenon
<1>. QED  BY <1>5, <1>6, <1>7, Zenon DEF Pipeline

\* A response takes the head of the line.
LEMMA PipelineOfRespond ==
    ASSUME TypeOK, WriterShape, Respond
    PROVE  /\ Pipeline \in Seq(Threads)
           /\ Pipeline # <<>>
           /\ Head(Pipeline) = Head(batch)
           /\ Pipeline' = Tail(Pipeline)
<1>1. batch # <<>> /\ batch \in Seq(Threads) /\ jobs \in Seq(Threads)
  BY Zenon DEF Respond, WriterShape, TypeOK
<1>2. /\ Len(batch) \in Nat \ {0} /\ Len(jobs) \in Nat
      /\ Tail(batch) \in Seq(Threads)
      /\ Len(Tail(batch)) = Len(batch) - 1
      /\ \A i \in 1 .. Len(batch) - 1 : Tail(batch)[i] = batch[i + 1]
  BY <1>1, HeadTailProperties, LenProperties, EmptySeq, Zenon
<1>3. /\ Pipeline \in Seq(Threads)
      /\ Len(Pipeline) = Len(batch) + Len(jobs)
      /\ \A i \in 1 .. Len(batch) + Len(jobs) :
            Pipeline[i] = IF i =< Len(batch) THEN batch[i] ELSE jobs[i - Len(batch)]
  BY <1>1, ConcatProperties, Zenon DEF Pipeline
<1>4. Pipeline # <<>> /\ Head(Pipeline) = Head(batch)
  BY <1>1, <1>2, <1>3, EmptySeq
<1>5. /\ Tail(Pipeline) \in Seq(Threads)
      /\ Len(Tail(Pipeline)) = Len(batch) + Len(jobs) - 1
      /\ \A i \in 1 .. Len(batch) + Len(jobs) - 1 :
            Tail(Pipeline)[i] = Pipeline[i + 1]
  BY <1>3, <1>4, HeadTailProperties
<1>6. /\ Tail(batch) \o jobs \in Seq(Threads)
      /\ Len(Tail(batch) \o jobs) = Len(batch) - 1 + Len(jobs)
      /\ \A i \in 1 .. Len(batch) - 1 + Len(jobs) :
            (Tail(batch) \o jobs)[i] =
               IF i =< Len(batch) - 1 THEN Tail(batch)[i]
               ELSE jobs[i - (Len(batch) - 1)]
  BY <1>1, <1>2, ConcatProperties
<1>7. ASSUME NEW i \in 1 .. Len(batch) - 1 + Len(jobs)
      PROVE  (Tail(batch) \o jobs)[i] = Tail(Pipeline)[i]
  <2>1. i + 1 \in 1 .. Len(batch) + Len(jobs)
    BY <1>2
  <2>. QED  BY <1>2, <1>3, <1>5, <1>6, <2>1
<1>8. Tail(batch) \o jobs = Tail(Pipeline)
  BY <1>2, <1>5, <1>6, <1>7, SeqEqual, SMTT(20)
<1>. QED  BY <1>3, <1>4, <1>8, Zenon DEF Respond, Pipeline

-----------------------------------------------------------------------------
(* The shape of the writer and of the handles.                             *)

\* A thread in a call finds the queue open: it borrows a handle, and only the
\* end of the last handle starts shutdown.
LEMMA CallFindsQueueOpen ==
    ASSUME HandleShape, NEW t \in Threads, t \in handles \/ InCall(t)
    PROVE  t \in handles /\ shut = "open" /\ accepting
  BY Zenon DEF HandleShape

\* So a pass through push never decides for the closed exit.
LEMMA DecisionWhenOpen ==
    ASSUME accepting, NEW policy
    PROVE  /\ PushDecision(policy) \in {"pushed", "full", "waiting"}
           /\ PushDecision(policy) = "pushed" <=> ~Full
           /\ PushDecision(policy) = "waiting" => Full
  BY Zenon DEF PushDecision, Admission

\* What a submission does, the first time or after a wait: it decides without
\* taking the closed exit, and it admits exactly when the queue has room.
Submission(t, d) ==
    /\ d \in {"pushed", "full", "timedout", "waiting"}
    /\ d = "pushed" <=> ~Full
    /\ Leave(t, d)
    /\ UNCHANGED <<handles, accepting, wpc, batch, responses, unfinished, shut>>

\* A push is one of the outcomes of a submission: the queue is open during it.
LEMMA PushIsSubmission ==
    ASSUME HandleShape, NEW t \in Threads, NEW c \in Calls, Push(t, c)
    PROVE  \E d \in PCs : Submission(t, d)
<1>1. accepting
  BY CallFindsQueueOpen, Zenon DEF Push
<1>2. /\ PushDecision(c.policy) \in {"pushed", "full", "waiting"}
      /\ PushDecision(c.policy) = "pushed" <=> ~Full
  BY <1>1, DecisionWhenOpen, Zenon
<1>3. Submission(t, PushDecision(c.policy))
  BY <1>2, Zenon DEF Push, Submission
<1>. QED  BY <1>2, <1>3, Zenon

\* So is the next pass of a push that has waited.
LEMMA ResumeIsSubmission ==
    ASSUME HandleShape, NEW t \in Threads, Resume(t)
    PROVE  \E d \in PCs : Submission(t, d)
<1>1. accepting
  BY CallFindsQueueOpen, Zenon DEF Resume, InCall
<1>2. PICK d \in ResumeDecisions(t) : Leave(t, d)
  BY Zenon DEF Resume
<1>3. \A policy : /\ PushDecision(policy) \in {"pushed", "full", "waiting"}
                  /\ PushDecision(policy) = "pushed" <=> ~Full
  BY <1>1, DecisionWhenOpen, Zenon
<1>4. d \in {"pushed", "full", "timedout", "waiting"} /\ (d = "pushed" <=> ~Full)
  BY <1>2, <1>3, Zenon DEF ResumeDecisions
<1>5. Submission(t, d)
  BY <1>2, <1>4, Zenon DEF Resume, Submission
<1>. QED  BY <1>4, <1>5, Zenon

\* The writer holds a batch exactly between a pop and the last response.
LEMMA WriterShapeStep ==
    ASSUME TypeOK, WriterShape, HandleShape, [Next]_vars
    PROVE  WriterShape'
<1>. USE DEF WriterShape
<1>1. ASSUME NEW t \in Threads, NEW d \in PCs, Submission(t, d),
             t \in handles \/ InCall(t)
      PROVE  WriterShape'
  BY <1>1, CallFindsQueueOpen, Zenon DEF Submission
<1>2. ASSUME NEW t \in Threads, NEW c \in Calls, Push(t, c)
      PROVE  WriterShape'
  BY <1>1, <1>2, PushIsSubmission, Zenon DEF Push
<1>3. ASSUME NEW t \in Threads, Resume(t)
      PROVE  WriterShape'
  BY <1>1, <1>3, ResumeIsSubmission, Zenon DEF Resume, InCall
<1>4. ASSUME NEW t \in Threads,
             \/ SpuriousWake(t) \/ PushTimeout(t) \/ Receive(t) \/ Return(t)
             \/ Close(t) \/ DropHandle(t) \/ \E u \in Threads : Clone(t, u)
      PROVE  WriterShape'
  BY <1>4 DEF SpuriousWake, PushTimeout, Receive, Return, Close, DropHandle, Clone
<1>5. ASSUME NEW t \in Threads, NotifyWriter(t)
      PROVE  WriterShape'
  BY <1>5, Zenon DEF NotifyWriter, WakeWriter, TypeOK
<1>6. CASE PopNothing
  BY <1>6, Zenon DEF PopNothing
<1>7. CASE PopExclusive
  BY <1>7, Zenon DEF PopExclusive
<1>8. CASE CollectGroup
  <2>1. PICK n \in 0 .. Len(jobs) :
          /\ Collectable(n)
          /\ batch' = batch \o SubSeq(jobs, 1, n)
          /\ wpc' \in {"exec", "waitGroup"}
    BY <1>8, Zenon DEF CollectGroup, AfterCollecting
  <2>2. Len(jobs) \in Nat /\ jobs \in Seq(Threads) /\ batch \in Seq(Threads)
    BY DEF TypeOK
  <2>3. batch # <<>> \/ n > 0
    <3>1. CASE wpc = "pop"
      <4>1. batch = <<>> /\ jobs # <<>> /\ Groupable(jobs[1])
        BY <1>8, <3>1 DEF CollectGroup
      <4>2. Len(batch) = 0 /\ Len(jobs) > 0
        BY <4>1, <2>2
      <4>. QED  BY <2>1, <2>2, <4>1, <4>2, MaxJobsAssumption, SMTT(20) DEF Collectable
    <3>2. CASE wpc \in {"collect", "expired"}
      BY <3>2, Zenon
    <3>. QED  BY <1>8, <3>1, <3>2, Zenon DEF CollectGroup
  <2>4. SubSeq(jobs, 1, n) \in Seq(Threads) /\ Len(SubSeq(jobs, 1, n)) = n
    BY <2>2
  <2>5. Len(batch') = Len(batch) + n /\ Len(batch) \in Nat
    BY <2>1, <2>2, <2>4
  <2>6. Len(batch') # 0
    BY <2>2, <2>3, <2>5
  <2>7. batch' # <<>>
    BY <2>6
  <2>. QED  BY <2>1, <2>7, Zenon
<1>9. CASE Execute
  BY <1>9, Zenon DEF Execute
<1>10. CASE Respond
  <2>1. batch # <<>> /\ batch \in Seq(Threads)
    BY <1>10, Zenon DEF Respond, TypeOK
  <2>2. /\ Tail(batch) \in Seq(Threads) /\ Len(Tail(batch)) = Len(batch) - 1
        /\ Len(batch) \in Nat
    BY <2>1, HeadTailProperties
  <2>3. Len(batch) = 1 <=> Tail(batch) = <<>>
    BY <2>2, EmptySeq
  <2>. QED  BY <1>10, <2>3, Zenon DEF Respond
<1>11. CASE SpuriousWriterWake \/ GroupDeadline
  BY <1>11, Zenon DEF SpuriousWriterWake, GroupDeadline, WakeWriter
<1>12. CASE Shutdown
  BY <1>12 DEF Shutdown, CloseQueue, JoinWriter, CloseReaders, WakeWriter, TypeOK
<1>13. CASE Closed \/ UNCHANGED vars
  BY <1>13 DEF Closed, vars
<1>. HIDE DEF WriterShape
<1>. QED
  BY <1>2, <1>3, <1>4, <1>5, <1>6, <1>7, <1>8, <1>9, <1>10, <1>11, <1>12, <1>13, SMTT(20)
     DEF Next, Submitter, Writer, Pop

\* Every call holds a handle, and shutdown begins with the end of the last one.
LEMMA HandleShapeStep ==
    ASSUME TypeOK, HandleShape, [Next]_vars
    PROVE  HandleShape'
<1>. USE DEF HandleShape, TypeOK, InCall
<1>1. ASSUME NEW t \in Threads, NEW d \in PCs, Submission(t, d),
             t \in handles \/ InCall(t)
      PROVE  HandleShape'
  BY <1>1, CallFindsQueueOpen, Zenon DEF Submission, Leave
<1>2. ASSUME NEW t \in Threads, NEW c \in Calls, Push(t, c)
      PROVE  HandleShape'
  BY <1>1, <1>2, PushIsSubmission, Zenon DEF Push
<1>3. ASSUME NEW t \in Threads, Resume(t)
      PROVE  HandleShape'
  BY <1>1, <1>3, ResumeIsSubmission, ZenonT(30) DEF Resume
<1>4. ASSUME NEW t \in Threads,
             \/ SpuriousWake(t) \/ PushTimeout(t) \/ Receive(t) \/ Return(t)
             \/ NotifyWriter(t)
      PROVE  HandleShape'
  BY <1>4 DEF SpuriousWake, PushTimeout, Receive, Return, NotifyWriter
<1>5. ASSUME NEW t \in Threads, NEW u \in Threads, Clone(t, u)
      PROVE  HandleShape'
  BY <1>5, Zenon DEF Clone
<1>6. ASSUME NEW t \in Threads, Close(t)
      PROVE  HandleShape'
  BY <1>6, SMTT(20) DEF Close
<1>7. ASSUME NEW t \in Threads, DropHandle(t)
      PROVE  HandleShape'
  BY <1>7 DEF DropHandle
<1>8. CASE PopNothing \/ Execute \/ Respond
  BY <1>8 DEF PopNothing, Execute, Respond
<1>9. CASE PopExclusive \/ CollectGroup
  <2>1. UNCHANGED <<handles, accepting, shut>> /\ (WakeSubmitters \/ UNCHANGED pc)
    BY <1>9, Zenon DEF PopExclusive, CollectGroup
  <2>. QED  BY <2>1 DEF WakeSubmitters
<1>10. CASE SpuriousWriterWake \/ GroupDeadline
  BY <1>10 DEF SpuriousWriterWake, GroupDeadline
<1>11. CASE Shutdown
  BY <1>11 DEF Shutdown, CloseQueue, JoinWriter, CloseReaders, WakeSubmitters
<1>12. CASE Closed \/ UNCHANGED vars
  BY <1>12 DEF Closed, vars
<1>. HIDE DEF HandleShape, TypeOK, InCall, PCs, Calls, NoCall
<1>. QED
  BY <1>2, <1>3, <1>4, <1>5, <1>6, <1>7, <1>8, <1>9, <1>10, <1>11, <1>12, ZenonT(30)
     DEF Next, Submitter, Writer, Pop

-----------------------------------------------------------------------------
(* The bound of the queue.                                                 *)

\* Only an admission makes the queue longer, and it found room.
LEMMA QueueBoundedStep ==
    ASSUME TypeOK, HandleShape, QueueBounded, [Next]_vars
    PROVE  QueueBounded'
<1>. USE DEF QueueBounded
<1>1. jobs \in Seq(Threads) /\ Len(jobs) \in Nat /\ Capacity \in Nat
  BY CapacityAssumption DEF TypeOK
<1>2. ASSUME NEW t \in Threads, NEW d \in PCs, Submission(t, d)
      PROVE  QueueBounded'
  BY <1>1, <1>2 DEF Submission, Leave, Full
<1>3. ASSUME NEW t \in Threads, NEW c \in Calls, Push(t, c)
      PROVE  QueueBounded'
  BY <1>2, <1>3, PushIsSubmission, Zenon
<1>4. ASSUME NEW t \in Threads, Resume(t)
      PROVE  QueueBounded'
  BY <1>2, <1>4, ResumeIsSubmission, Zenon
<1>5. CASE PopExclusive
  <2>1. Len(Tail(jobs)) = Len(jobs) - 1
    BY <1>1, <1>5, HeadTailProperties, Zenon DEF PopExclusive
  <2>. QED  BY <1>1, <1>5, <2>1 DEF PopExclusive
<1>6. CASE CollectGroup
  <2>1. PICK n \in 0 .. Len(jobs) : jobs' = SubSeq(jobs, n + 1, Len(jobs))
    BY <1>6, Zenon DEF CollectGroup
  <2>2. Len(SubSeq(jobs, n + 1, Len(jobs))) =< Len(jobs)
    BY <1>1
  <2>. QED  BY <1>1, <2>1, <2>2
<1>7. CASE UNCHANGED jobs
  BY <1>7, Zenon
<1>8. ASSUME NEW t \in Threads,
             \/ SpuriousWake(t) \/ PushTimeout(t) \/ NotifyWriter(t) \/ Receive(t)
             \/ Return(t) \/ Close(t) \/ DropHandle(t)
             \/ \E u \in Threads : Clone(t, u)
      PROVE  UNCHANGED jobs
  BY <1>8, Zenon DEF SpuriousWake, PushTimeout, NotifyWriter, Receive, Return, Close,
              DropHandle, Clone
<1>9. ASSUME \/ PopNothing \/ Execute \/ Respond \/ SpuriousWriterWake
             \/ GroupDeadline \/ Shutdown \/ Closed \/ UNCHANGED vars
      PROVE  UNCHANGED jobs
  BY <1>9, Zenon DEF PopNothing, Execute, Respond, SpuriousWriterWake, GroupDeadline,
              Shutdown, CloseQueue, JoinWriter, CloseReaders, Closed, vars
<1>. HIDE DEF QueueBounded, Calls
<1>. QED
  BY <1>3, <1>4, <1>5, <1>6, <1>7, <1>8, <1>9, ZenonT(30) DEF Next, Submitter, Writer, Pop

-----------------------------------------------------------------------------
(* Wakeups.                                                                *)

\* A step that moves no job, changes no writer state and only moves threads
\* between places where they neither sleep nor owe a notification.
LEMMA QuietStep ==
    ASSUME TypeOK, NoLostWakeup, UNCHANGED <<jobs, accepting, wpc>>,
           \A t \in Threads : /\ pc[t] = "pushed" => pc'[t] = "pushed"
                              /\ pc'[t] = "waiting" => pc[t] = "waiting"
    PROVE  NoLostWakeup'
  BY Zenon DEF NoLostWakeup, Full

\* Whoever admits a job owes the notification, and whoever makes room gives it.
LEMMA NoLostWakeupStep ==
    ASSUME TypeOK, WriterShape, HandleShape, NoLostWakeup, [Next]_vars
    PROVE  NoLostWakeup'
<1>. USE DEF TypeOK
<1>1. ASSUME NEW t \in Threads, NEW d \in PCs, Submission(t, d),
             accepting, pc[t] # "pushed"
      PROVE  NoLostWakeup'
  <2>1. CASE d = "pushed"
    <3>1. ~Full /\ pc' = [pc EXCEPT ![t] = "pushed"]
      BY <1>1, <2>1, Zenon DEF Submission, Leave
    <3>2. \A u \in Threads : pc'[u] # "waiting"
      BY <3>1, Zenon DEF NoLostWakeup
    <3>3. pc'[t] = "pushed"
      BY <3>1, Zenon
    <3>. QED  BY <1>1, <3>2, <3>3, Zenon DEF Submission, NoLostWakeup
  <2>2. CASE d # "pushed"
    <3>1. Full /\ UNCHANGED <<jobs, accepting, wpc>> /\ pc' = [pc EXCEPT ![t] = d]
      BY <1>1, <2>2, Zenon DEF Submission, Leave
    <3>2. Full'
      BY <3>1, Zenon DEF Full
    <3>3. \A u \in Threads : pc[u] = "pushed" => pc'[u] = "pushed"
      BY <1>1, <3>1, Zenon
    <3>. QED  BY <1>1, <3>1, <3>2, <3>3, Zenon DEF NoLostWakeup
  <2>. QED  BY <2>1, <2>2, Zenon
<1>2. ASSUME NEW t \in Threads, NEW c \in Calls, Push(t, c)
      PROVE  NoLostWakeup'
  <2>1. accepting /\ pc[t] # "pushed"
    BY <1>2, CallFindsQueueOpen, Zenon DEF Push
  <2>. QED  BY <1>1, <1>2, <2>1, PushIsSubmission, Zenon
<1>3. ASSUME NEW t \in Threads, Resume(t)
      PROVE  NoLostWakeup'
  <2>1. accepting /\ pc[t] # "pushed"
    BY <1>3, CallFindsQueueOpen, Zenon DEF Resume, InCall
  <2>. QED  BY <1>1, <1>3, <2>1, ResumeIsSubmission, Zenon
<1>4. ASSUME NEW t \in Threads,
             \/ SpuriousWake(t) \/ PushTimeout(t) \/ Receive(t) \/ Return(t)
             \/ Close(t) \/ DropHandle(t) \/ \E u \in Threads : Clone(t, u)
      PROVE  NoLostWakeup'
  <2>1. /\ UNCHANGED <<jobs, accepting, wpc>>
        /\ \A u \in Threads : /\ pc[u] = "pushed" => pc'[u] = "pushed"
                              /\ pc'[u] = "waiting" => pc[u] = "waiting"
    BY <1>4, Zenon DEF SpuriousWake, PushTimeout, Receive, Return, Close, DropHandle, Clone
  <2>. QED  BY <2>1, QuietStep, Zenon
<1>5. ASSUME NEW t \in Threads, NotifyWriter(t)
      PROVE  NoLostWakeup'
  <2>1. wpc' \notin {"waitEmpty", "waitGroup"}
    BY <1>5, Zenon DEF NotifyWriter, WakeWriter
  <2>2. /\ UNCHANGED <<jobs, accepting>>
        /\ \A u \in Threads : pc'[u] = "waiting" => pc[u] = "waiting"
    BY <1>5, Zenon DEF NotifyWriter
  <2>. QED  BY <2>1, <2>2, Zenon DEF NoLostWakeup, Full
<1>6. CASE PopNothing
  BY <1>6, Zenon DEF PopNothing, NoLostWakeup, Full
<1>7. CASE PopExclusive
  BY <1>7, Zenon DEF PopExclusive, WakeSubmitters, NoLostWakeup
<1>8. CASE CollectGroup
  <2>1. PICK n \in 0 .. Len(jobs) :
          /\ jobs' = SubSeq(jobs, n + 1, Len(jobs))
          /\ IF n > 0 THEN WakeSubmitters ELSE UNCHANGED pc
          /\ wpc' \in AfterCollecting(n)
    BY <1>8, Zenon DEF CollectGroup
  <2>2. UNCHANGED accepting
    BY <1>8, Zenon DEF CollectGroup
  <2>3. ASSUME wpc' \in {"waitEmpty", "waitGroup"}
        PROVE  accepting /\ jobs' = <<>>
    <3>1. accepting /\ n = Len(jobs)
      BY <2>1, <2>3, Zenon DEF AfterCollecting
    <3>2. jobs' = SubSeq(jobs, Len(jobs) + 1, Len(jobs)) /\ Len(jobs) \in Nat
      BY <2>1, <3>1
    <3>. QED  BY <3>1, <3>2, SubSeqEmpty
  <2>4. ASSUME NEW u \in Threads, pc'[u] = "waiting"
        PROVE  accepting /\ Full'
    <3>1. n = 0
      BY <2>1, <2>4 DEF WakeSubmitters
    <3>2. UNCHANGED <<pc, jobs>>
      BY <2>1, <3>1, SubSeqFull
    <3>. QED  BY <2>4, <3>2, Zenon DEF NoLostWakeup, Full
  <2>. QED  BY <2>2, <2>3, <2>4, Zenon DEF NoLostWakeup
<1>9. CASE Execute \/ Respond \/ GroupDeadline \/ SpuriousWriterWake
  <2>1. /\ wpc' \notin {"waitEmpty", "waitGroup"}
        /\ UNCHANGED <<pc, jobs, accepting>>
    BY <1>9, Zenon DEF Execute, Respond, GroupDeadline, SpuriousWriterWake, WakeWriter
  <2>. QED  BY <2>1, Zenon DEF NoLostWakeup, Full
<1>10. CASE CloseQueue
  <2>1. wpc' \notin {"waitEmpty", "waitGroup"}
    BY <1>10, Zenon DEF CloseQueue, WakeWriter
  <2>2. \A u \in Threads : pc'[u] # "waiting"
    BY <1>10, Zenon DEF CloseQueue, WakeSubmitters
  <2>. QED  BY <2>1, <2>2, Zenon DEF NoLostWakeup
<1>11. CASE JoinWriter \/ CloseReaders \/ Closed \/ UNCHANGED vars
  <2>1. /\ UNCHANGED <<jobs, accepting, wpc>>
        /\ \A u \in Threads : /\ pc[u] = "pushed" => pc'[u] = "pushed"
                              /\ pc'[u] = "waiting" => pc[u] = "waiting"
    BY <1>11, Zenon DEF JoinWriter, CloseReaders, Closed, vars
  <2>. QED  BY <2>1, QuietStep, Zenon
<1>. HIDE DEF TypeOK, Calls, PCs
<1>. QED
  BY <1>2, <1>3, <1>4, <1>5, <1>6, <1>7, <1>8, <1>9, <1>10, <1>11, ZenonT(30)
     DEF Next, Submitter, Writer, Pop, Shutdown

-----------------------------------------------------------------------------
(* Where each job is.                                                      *)

Waiting == {t \in Threads : Pending(t)}

\* Where the jobs are, in terms of the line.
LEMMA OnePlaceOfPipeline ==
    /\ JobInOnePlace <=> OnePlace(Pipeline, responses, Waiting)
    /\ JobInOnePlace' <=> OnePlace(Pipeline', responses', Waiting')
  BY Zenon DEF JobInOnePlace, OnePlace, Distinct, Waiting, Elements

\* How each step moves the line, the answers and the threads that wait: it
\* leaves all three, admits a job at the end, answers the head, or delivers an
\* answer.  These are also the steps of SerialWriter.
LineKept == Pipeline' = Pipeline /\ responses' = responses /\ Waiting' = Waiting

LineAdmits(t) ==
    /\ t \notin Waiting
    /\ Pipeline' = Append(Pipeline, t)
    /\ responses' = responses
    /\ Waiting' = Waiting \union {t}

LineAnswers ==
    /\ Pipeline # <<>>
    /\ Pipeline' = Tail(Pipeline)
    /\ responses' = responses \union {Head(Pipeline)}
    /\ Waiting' = Waiting

LineDelivers(t) ==
    /\ t \in responses
    /\ Pipeline' = Pipeline
    /\ responses' = responses \ {t}
    /\ Waiting' = Waiting \ {t}

\* Every step keeps the line, admits a job, answers the head or delivers an answer.
LEMMA LineStep ==
    ASSUME TypeOK, WriterShape, HandleShape, [Next]_vars
    PROVE  \/ LineKept
           \/ \E t \in Threads : LineAdmits(t)
           \/ LineAnswers
           \/ \E t \in Threads : LineDelivers(t)
<1>. USE DEF TypeOK
<1>1. ASSUME NEW t \in Threads, NEW d \in PCs, Submission(t, d), ~Pending(t)
      PROVE  LineKept \/ LineAdmits(t)
  <2>1. CASE d = "pushed"
    <3>1. jobs' = Append(jobs, t) /\ UNCHANGED <<batch, responses>>
          /\ pc' = [pc EXCEPT ![t] = "pushed"]
      BY <1>1, <2>1, Zenon DEF Submission, Leave
    <3>2. Pipeline' = Append(Pipeline, t)
      BY <3>1, PipelineOfPush, Zenon
    <3>3. Waiting' = Waiting \union {t} /\ t \notin Waiting
      BY <1>1, <3>1, Zenon DEF Waiting, Pending
    <3>. QED  BY <3>1, <3>2, <3>3, Zenon DEF LineAdmits
  <2>2. CASE d # "pushed"
    <3>1. UNCHANGED <<jobs, batch, responses>> /\ pc' = [pc EXCEPT ![t] = d]
          /\ d # "recv"
      BY <1>1, <2>2, Zenon DEF Submission, Leave
    <3>2. Waiting' = Waiting
      BY <1>1, <2>2, <3>1, Zenon DEF Waiting, Pending
    <3>. QED  BY <3>1, <3>2, Zenon DEF LineKept, Pipeline
  <2>. QED  BY <2>1, <2>2, Zenon
<1>2. ASSUME NEW t \in Threads, NEW c \in Calls, Push(t, c)
      PROVE  LineKept \/ LineAdmits(t)
  <2>1. ~Pending(t)
    BY <1>2, Zenon DEF Push, Pending
  <2>. QED  BY <1>1, <1>2, <2>1, PushIsSubmission, Zenon
<1>3. ASSUME NEW t \in Threads, Resume(t)
      PROVE  LineKept \/ LineAdmits(t)
  <2>1. ~Pending(t)
    BY <1>3, Zenon DEF Resume, Pending
  <2>. QED  BY <1>1, <1>3, <2>1, ResumeIsSubmission, Zenon
<1>4. ASSUME NEW t \in Threads,
             \/ SpuriousWake(t) \/ PushTimeout(t) \/ NotifyWriter(t) \/ Return(t)
             \/ Close(t) \/ DropHandle(t) \/ \E u \in Threads : Clone(t, u)
      PROVE  LineKept
  <2>1. UNCHANGED <<jobs, batch, responses>>
    BY <1>4, Zenon DEF SpuriousWake, PushTimeout, NotifyWriter, Return, Close,
                DropHandle, Clone
  <2>2. \A u \in Threads : Pending(u)' <=> Pending(u)
    BY <1>4, Zenon DEF SpuriousWake, PushTimeout, NotifyWriter, Return, Close,
                DropHandle, Clone, Pending
  <2>. QED  BY <2>1, <2>2, Zenon DEF LineKept, Pipeline, Waiting
<1>5. ASSUME NEW t \in Threads, Receive(t)
      PROVE  LineDelivers(t)
  <2>1. \A u \in Threads : Pending(u)' <=> Pending(u) /\ u # t
    BY <1>5, Zenon DEF Receive, Pending
  <2>2. Waiting' = Waiting \ {t}
    BY <2>1, Zenon DEF Waiting
  <2>. QED  BY <1>5, <2>2, Zenon DEF Receive, LineDelivers, Pipeline
<1>6. CASE PopExclusive
  <2>1. Waiting' = Waiting
    BY <1>6, Zenon DEF PopExclusive, WakeSubmitters, Waiting, Pending
  <2>. QED  BY <1>6, <2>1, PipelineOfPopExclusive, Zenon DEF LineKept, PopExclusive
<1>7. CASE CollectGroup
  <2>1. WakeSubmitters \/ UNCHANGED pc
    BY <1>7, Zenon DEF CollectGroup
  <2>2. Waiting' = Waiting
    BY <2>1, Zenon DEF WakeSubmitters, Waiting, Pending
  <2>. QED  BY <1>7, <2>2, PipelineOfCollectGroup, Zenon DEF LineKept, CollectGroup
<1>8. CASE Respond
  BY <1>8, PipelineOfRespond, Zenon DEF LineAnswers, Respond, Waiting, Pending
<1>9. CASE \/ PopNothing \/ Execute \/ SpuriousWriterWake \/ GroupDeadline
           \/ JoinWriter \/ Closed \/ UNCHANGED vars
  BY <1>9, Zenon DEF PopNothing, Execute, SpuriousWriterWake, GroupDeadline, JoinWriter,
              Closed, vars, LineKept, Pipeline, Waiting, Pending
<1>10. CASE CloseQueue \/ CloseReaders
  <2>1. UNCHANGED <<jobs, batch, responses>>
    BY <1>10, Zenon DEF CloseQueue, CloseReaders
  <2>2. Waiting' = Waiting
    BY <1>10, Zenon DEF CloseQueue, CloseReaders, WakeSubmitters, Waiting, Pending
  <2>. QED  BY <2>1, <2>2, Zenon DEF LineKept, Pipeline
<1>. HIDE DEF TypeOK, Calls, PCs
<1>. QED
  BY <1>2, <1>3, <1>4, <1>5, <1>6, <1>7, <1>8, <1>9, <1>10, ZenonT(30)
     DEF Next, Submitter, Writer, Pop, Shutdown

\* None of these moves duplicates or loses a job.
LEMMA JobInOnePlaceStep ==
    ASSUME TypeOK, WriterShape, HandleShape, JobInOnePlace, [Next]_vars
    PROVE  JobInOnePlace'
<1>1. Pipeline \in Seq(Threads)
  BY ConcatProperties, Zenon DEF TypeOK, Pipeline
<1>2. OnePlace(Pipeline, responses, Waiting)
  BY OnePlaceOfPipeline, Zenon
<1>3. CASE LineKept
  BY <1>2, <1>3, OnePlaceOfPipeline, Zenon DEF LineKept
<1>4. ASSUME NEW t \in Threads, LineAdmits(t)
      PROVE  JobInOnePlace'
  BY <1>1, <1>2, <1>4, OnePlaceAppend, OnePlaceOfPipeline, ZenonT(30) DEF LineAdmits
<1>5. CASE LineAnswers
  BY <1>1, <1>2, <1>5, OnePlaceAnswer, OnePlaceOfPipeline, ZenonT(30) DEF LineAnswers
<1>6. ASSUME NEW t \in Threads, LineDelivers(t)
      PROVE  JobInOnePlace'
  BY <1>2, <1>6, OnePlaceReceive, OnePlaceOfPipeline, Zenon DEF LineDelivers
<1>. QED  BY <1>3, <1>4, <1>5, <1>6, LineStep, Zenon

-----------------------------------------------------------------------------
(* Exclusive jobs.                                                         *)

\* The call of a thread with a job in the line does not change.
LEMMA CallsKept ==
    ASSUME TypeOK, JobInOnePlace, [Next]_vars,
           NEW t \in Threads, t \in Elements(Pipeline)
    PROVE  call'[t] = call[t]
<1>1. Pending(t)
  BY Zenon DEF JobInOnePlace
<1>2. ASSUME NEW u \in Threads, NEW c \in Calls, Push(u, c)
      PROVE  call'[t] = call[t]
  BY <1>1, <1>2, Zenon DEF Push, Pending, TypeOK
<1>3. ASSUME NEW u \in Threads, Return(u)
      PROVE  call'[t] = call[t]
  BY <1>1, <1>3, Zenon DEF Return, Pending, TypeOK
<1>4. ASSUME NEW u \in Threads,
             \/ Resume(u) \/ SpuriousWake(u) \/ PushTimeout(u) \/ NotifyWriter(u)
             \/ Receive(u) \/ Close(u) \/ DropHandle(u)
             \/ \E w \in Threads : Clone(u, w)
      PROVE  UNCHANGED call
  BY <1>4, Zenon DEF Resume, SpuriousWake, PushTimeout, NotifyWriter, Receive, Close,
              DropHandle, Clone
<1>5. ASSUME \/ Writer \/ SpuriousWriterWake \/ GroupDeadline \/ Shutdown
             \/ Closed \/ UNCHANGED vars
      PROVE  UNCHANGED call
  BY <1>5, Zenon DEF Writer, Pop, PopNothing, PopExclusive, CollectGroup, Execute, Respond,
              SpuriousWriterWake, GroupDeadline, Shutdown, CloseQueue, JoinWriter,
              CloseReaders, Closed, vars
<1>. HIDE DEF Calls
<1>. QED  BY <1>2, <1>3, <1>4, <1>5, Zenon DEF Next, Submitter

\* The jobs of batch and queue are those of the line.
LEMMA PipelineElements ==
    ASSUME TypeOK
    PROVE  /\ \A i \in DOMAIN batch : batch[i] \in Elements(Pipeline)
           /\ \A i \in DOMAIN jobs : jobs[i] \in Elements(Pipeline)
<1>1. /\ batch \in Seq(Threads) /\ jobs \in Seq(Threads)
      /\ Len(batch) \in Nat /\ Len(jobs) \in Nat
      /\ DOMAIN batch = 1 .. Len(batch) /\ DOMAIN jobs = 1 .. Len(jobs)
  BY LenProperties, Zenon DEF TypeOK
<1>2. /\ DOMAIN Pipeline = 1 .. Len(batch) + Len(jobs)
      /\ \A i \in 1 .. Len(batch) + Len(jobs) :
            Pipeline[i] = IF i =< Len(batch) THEN batch[i] ELSE jobs[i - Len(batch)]
  BY <1>1, ConcatProperties, LenProperties DEF Pipeline
<1>3. ASSUME NEW i \in DOMAIN batch
      PROVE  batch[i] \in Elements(Pipeline)
  <2>1. i \in DOMAIN Pipeline /\ Pipeline[i] = batch[i]
    BY <1>1, <1>2
  <2>. QED  BY <2>1, Zenon DEF Elements
<1>4. ASSUME NEW i \in DOMAIN jobs
      PROVE  jobs[i] \in Elements(Pipeline)
  <2>1. Len(batch) + i \in DOMAIN Pipeline /\ Pipeline[Len(batch) + i] = jobs[i]
    BY <1>1, <1>2, SMTT(20)
  <2>. QED  BY <2>1, Zenon DEF Elements
<1>. QED  BY <1>3, <1>4, Zenon

Collecting == {"waitGroup", "collect", "expired"}

\* Every step but a pop and a response leaves the batch; none of those starts
\* collecting.
LEMMA BatchKept ==
    ASSUME [Next]_vars, ~PopExclusive, ~CollectGroup, ~Respond
    PROVE  batch' = batch /\ (wpc' \in Collecting => wpc \in Collecting)
<1>. USE DEF Collecting
<1>1. ASSUME NEW t \in Threads, Submitter(t)
      PROVE  batch' = batch /\ (wpc' \in Collecting => wpc \in Collecting)
  <2>1. CASE NotifyWriter(t)
    BY <2>1, Zenon DEF NotifyWriter, WakeWriter
  <2>2. CASE ~NotifyWriter(t)
    BY <1>1, <2>2, Zenon DEF Submitter, Push, Resume, SpuriousWake, PushTimeout, Receive,
                      Return, Clone, Close, DropHandle
  <2>. QED  BY <2>1, <2>2, Zenon
<1>2. CASE PopNothing \/ Execute \/ GroupDeadline \/ SpuriousWriterWake
  BY <1>2, Zenon DEF PopNothing, Execute, GroupDeadline, SpuriousWriterWake, WakeWriter
<1>3. CASE Shutdown \/ Closed \/ UNCHANGED vars
  BY <1>3, Zenon DEF Shutdown, CloseQueue, JoinWriter, CloseReaders, Closed, vars, WakeWriter
<1>. QED  BY <1>1, <1>2, <1>3, Zenon DEF Next, Writer, Pop

\* An exclusive job stays alone, and a group stays a group of at most MaxJobs.
LEMMA GroupStep ==
    ASSUME TypeOK, WriterShape, JobInOnePlace, GroupShape, ExclusiveAlone,
           [Next]_vars
    PROVE  GroupShape' /\ ExclusiveAlone'
<1>1. /\ batch \in Seq(Threads) /\ jobs \in Seq(Threads)
      /\ Len(batch) \in Nat /\ Len(jobs) \in Nat
      /\ DOMAIN batch = 1 .. Len(batch) /\ DOMAIN jobs = 1 .. Len(jobs)
      /\ \A i \in DOMAIN batch : batch[i] \in Threads
      /\ \A i \in DOMAIN jobs : jobs[i] \in Threads
      /\ MaxJobs \in Nat \ {0}
  BY LenProperties, ElementOfSeq, MaxJobsAssumption DEF TypeOK
<1>2. ASSUME NEW t \in Elements(Pipeline), t \in Threads
      PROVE  (call'[t].kind = "groupable") <=> Groupable(t)
  BY <1>2, CallsKept, Zenon DEF Groupable
<1>3. /\ \A i \in DOMAIN batch :
            (call'[batch[i]].kind = "groupable") <=> Groupable(batch[i])
      /\ \A i \in DOMAIN jobs :
            (call'[jobs[i]].kind = "groupable") <=> Groupable(jobs[i])
  BY <1>1, <1>2, PipelineElements, Zenon
<1>4. CASE ~PopExclusive /\ ~CollectGroup /\ ~Respond
  <2>1. batch' = batch /\ (wpc' \in Collecting => wpc \in Collecting)
    BY <1>4, BatchKept, Zenon
  <2>. QED  BY <1>3, <2>1, Zenon DEF GroupShape, ExclusiveAlone, Groupable, Collecting
<1>5. CASE PopExclusive
  BY <1>1, <1>5 DEF PopExclusive, GroupShape, ExclusiveAlone
<1>6. CASE CollectGroup
  <2>1. PICK n \in 0 .. Len(jobs) :
          /\ Collectable(n)
          /\ batch' = batch \o SubSeq(jobs, 1, n)
    BY <1>6, Zenon DEF CollectGroup
  <2>2. \A i \in DOMAIN batch : Groupable(batch[i])
    <3>1. CASE wpc = "pop"
      BY <3>1, <1>1, EmptySeq DEF WriterShape
    <3>2. CASE wpc \in Collecting
      BY <3>2, Zenon DEF GroupShape, Collecting
    <3>. QED  BY <1>6, <3>1, <3>2, Zenon DEF CollectGroup, Collecting
  <2>3. \A i \in 1 .. n : Groupable(jobs[i])
    BY <2>1, Zenon DEF Collectable
  <2>4. /\ SubSeq(jobs, 1, n) \in Seq(Threads)
        /\ Len(SubSeq(jobs, 1, n)) = n
        /\ \A i \in 1 .. n : SubSeq(jobs, 1, n)[i] = jobs[i]
    BY <1>1
  <2>. DEFINE front == SubSeq(jobs, 1, n)
  <2>. HIDE DEF front
  <2>5. /\ Len(batch') = Len(batch) + n
        /\ DOMAIN batch' = 1 .. Len(batch) + n
        /\ \A i \in 1 .. Len(batch) + n :
              batch'[i] = IF i =< Len(batch) THEN batch[i] ELSE front[i - Len(batch)]
    BY <1>1, <2>1, <2>4, ConcatProperties, LenProperties, SMTT(20) DEF front
  <2>6. ASSUME NEW i \in DOMAIN batch'
        PROVE  call'[batch'[i]].kind = "groupable"
    <3>1. CASE i =< Len(batch)
      BY <1>1, <1>3, <2>2, <2>5, <3>1, SMTT(20)
    <3>2. CASE i > Len(batch)
      <4>1. i - Len(batch) \in 1 .. n /\ i - Len(batch) \in DOMAIN jobs
        BY <1>1, <2>5, <3>2, SMTT(20)
      <4>2. batch'[i] = jobs[i - Len(batch)]
        BY <1>1, <2>4, <2>5, <3>2, <4>1, SMTT(20) DEF front
      <4>. QED  BY <1>3, <2>3, <4>1, <4>2, ZenonT(30)
    <3>. QED  BY <1>1, <2>5, <3>1, <3>2, SMTT(20)
  <2>7. Len(batch') =< MaxJobs
    BY <2>1, <2>5, Zenon DEF Collectable
  <2>. QED  BY <2>6, <2>7, Zenon DEF GroupShape, ExclusiveAlone, Groupable
<1>7. CASE Respond
  <2>1. batch # <<>> /\ batch' = Tail(batch) /\ wpc' \notin Collecting
    BY <1>7, Zenon DEF Respond, WriterShape, Collecting
  <2>2. /\ Len(batch') = Len(batch) - 1
        /\ DOMAIN batch' = 1 .. Len(batch) - 1
        /\ \A i \in 1 .. Len(batch) - 1 : batch'[i] = batch[i + 1]
    BY <1>1, <2>1, HeadTailProperties, LenProperties, Zenon
  <2>3. ASSUME NEW i \in DOMAIN batch', call'[batch'[i]].kind # "groupable"
        PROVE  FALSE
    <3>1. i + 1 \in DOMAIN batch /\ batch'[i] = batch[i + 1]
      BY <1>1, <2>2
    <3>2. Len(batch) = 1
      BY <1>3, <2>3, <3>1, ZenonT(30) DEF ExclusiveAlone
    <3>. QED  BY <2>2, <3>2
  <2>4. Len(batch') =< MaxJobs
    BY <1>1, <2>2 DEF ExclusiveAlone
  <2>. QED  BY <2>1, <2>3, <2>4, Zenon DEF GroupShape, ExclusiveAlone, Groupable, Collecting
<1>. QED  BY <1>4, <1>5, <1>6, <1>7, Zenon

-----------------------------------------------------------------------------
(* The counters of stats().                                                *)

Uncounted == {t \in Threads : pc[t] = "pushed"}

\* StatsBalance with lengths for cardinalities: the jobs that are not completed
\* yet, less those whose submitters have not counted them.
Balance ==
    unfinished = (IF wpc = "respond" THEN Len(jobs) ELSE Len(batch) + Len(jobs))
                 - Cardinality(Uncounted)

\* A line without repetitions has as many jobs as places.
LEMMA DistinctLength ==
    ASSUME NEW line \in Seq(Threads), Distinct(line)
    PROVE  Cardinality(Elements(line)) = Len(line)
<1>1. Len(line) \in Nat /\ DOMAIN line = 1 .. Len(line)
  BY LenProperties, Zenon
<1>2. line \in Bijection(1 .. Len(line), Elements(line))
  <2>1. line \in [1 .. Len(line) -> Elements(line)]
    BY <1>1 DEF Elements
  <2>2. \A i, j \in 1 .. Len(line) : line[i] = line[j] => i = j
    BY <1>1, Zenon DEF Distinct
  <2>3. \A t \in Elements(line) : \E i \in 1 .. Len(line) : line[i] = t
    BY <1>1, Zenon DEF Elements
  <2>. QED  BY <2>1, <2>2, <2>3, Zenon DEF Bijection, Injection, Surjection, IsInjective
<1>3. ExistsBijection(1 .. Len(line), Elements(line))
  BY <1>2, Zenon DEF ExistsBijection
<1>. QED  BY <1>1, <1>3, FS_CountingElements, Zenon

\* The submitters that have not counted their job are finitely many, and one
\* thread more or less changes their number by one.
LEMMA UncountedNumber ==
    /\ IsFiniteSet(Uncounted) /\ Cardinality(Uncounted) \in Nat
    /\ \A t \in Threads \ Uncounted : Cardinality(Uncounted \union {t}) = Cardinality(Uncounted) + 1
    /\ \A t \in Uncounted : Cardinality(Uncounted \ {t}) = Cardinality(Uncounted) - 1
<1>1. IsFiniteSet(Uncounted)
  BY ThreadsAssumption, FS_Subset, Zenon DEF Uncounted
<1>. QED  BY <1>1, FS_CardinalityType, FS_AddElement, FS_RemoveElement, ZenonT(30)

\* Admission appends the job and leaves its thread to be counted.
LEMMA LeaveBalance ==
    ASSUME TypeOK, Balance, NEW t \in Threads, pc[t] \in {"idle", "woken", "expired"},
           NEW d, Leave(t, d), UNCHANGED <<wpc, batch, unfinished>>
    PROVE  Balance'
<1>1. pc' = [pc EXCEPT ![t] = d] /\ t \notin Uncounted
  BY Zenon DEF Leave, Uncounted
<1>2. Len(jobs) \in Nat /\ Len(batch) \in Nat /\ unfinished \in Int
  BY LenProperties, Zenon DEF TypeOK
<1>3. CASE d = "pushed"
  <2>1. Uncounted' = Uncounted \union {t}
    BY <1>1, <1>3, Zenon DEF Uncounted, TypeOK
  <2>2. Len(jobs') = Len(jobs) + 1
    BY <1>3, AppendProperties DEF Leave, TypeOK
  <2>3. Cardinality(Uncounted') = Cardinality(Uncounted) + 1 /\ Cardinality(Uncounted) \in Nat
    BY <1>1, <2>1, UncountedNumber, Zenon
  <2>. QED  BY <1>2, <2>2, <2>3, SMTT(20) DEF Balance
<1>4. CASE d # "pushed"
  <2>1. Uncounted' = Uncounted
    BY <1>1, <1>4, Zenon DEF Uncounted, TypeOK
  <2>. QED  BY <1>4, <2>1, Zenon DEF Balance, Leave
<1>. QED  BY <1>3, <1>4, Zenon

\* Every step keeps the balance.
LEMMA BalanceStep ==
    ASSUME IInv, Balance, [Next]_vars
    PROVE  Balance'
<1>1. TypeOK /\ WriterShape
  BY Zenon DEF IInv
<1>2. Len(jobs) \in Nat /\ Len(batch) \in Nat /\ unfinished \in Int
  BY <1>1, LenProperties, Zenon DEF TypeOK
<1>3. ASSUME NEW t \in Threads, \/ \E c \in Calls : Push(t, c)
                                \/ Resume(t)
      PROVE  Balance'
  <2>1. PICK d : Leave(t, d)
    BY <1>3, Zenon DEF Push, Resume
  <2>2. pc[t] \in {"idle", "woken", "expired"} /\ UNCHANGED <<wpc, batch, unfinished>>
    BY <1>3, Zenon DEF Push, Resume
  <2>. QED  BY <1>1, <2>1, <2>2, LeaveBalance, Zenon
<1>4. ASSUME NEW t \in Threads, NotifyWriter(t)
      PROVE  Balance'
  <2>1. t \in Uncounted /\ Uncounted' = Uncounted \ {t}
    BY <1>1, <1>4, Zenon DEF NotifyWriter, Uncounted, TypeOK
  <2>2. Cardinality(Uncounted') = Cardinality(Uncounted) - 1 /\ Cardinality(Uncounted) \in Nat
    BY <2>1, UncountedNumber, Zenon
  <2>3. wpc' = "respond" <=> wpc = "respond"
    BY <1>1, <1>4, Zenon DEF NotifyWriter, WakeWriter, TypeOK
  <2>4. unfinished' = unfinished + 1 /\ UNCHANGED <<jobs, batch>>
    BY <1>4, Zenon DEF NotifyWriter
  <2>. QED  BY <1>2, <2>2, <2>3, <2>4, SMTT(20) DEF Balance
<1>5. ASSUME NEW t \in Threads,
             \/ SpuriousWake(t) \/ PushTimeout(t) \/ Receive(t) \/ Return(t)
             \/ Close(t) \/ DropHandle(t) \/ \E u \in Threads : Clone(t, u)
      PROVE  Balance'
  <2>1. Uncounted' = Uncounted
    BY <1>1, <1>5, ZenonT(30) DEF SpuriousWake, PushTimeout, Receive, Return, Close, DropHandle, Clone,
                      Uncounted, TypeOK
  <2>2. UNCHANGED <<jobs, batch, wpc, unfinished>>
    BY <1>5, Zenon DEF SpuriousWake, PushTimeout, Receive, Return, Close, DropHandle, Clone
  <2>. QED  BY <2>1, <2>2, Zenon DEF Balance
<1>6. CASE PopNothing \/ SpuriousWriterWake \/ GroupDeadline
  <2>1. Uncounted' = Uncounted
    BY <1>6, Zenon DEF PopNothing, SpuriousWriterWake, GroupDeadline, Uncounted
  <2>2. /\ wpc # "respond" /\ wpc' # "respond" /\ UNCHANGED <<jobs, batch, unfinished>>
    BY <1>1, <1>6, Zenon DEF PopNothing, SpuriousWriterWake, GroupDeadline, WakeWriter
  <2>. QED  BY <2>1, <2>2, Zenon DEF Balance
<1>7. CASE PopExclusive
  <2>1. Uncounted' = Uncounted
    BY <1>1, <1>7, Zenon DEF PopExclusive, WakeSubmitters, Uncounted, TypeOK
  <2>2. /\ Len(batch) = 0 /\ Len(batch') = 1 /\ Len(jobs') = Len(jobs) - 1
        /\ wpc # "respond" /\ wpc' # "respond" /\ unfinished' = unfinished
    BY <1>1, <1>7, HeadTailProperties, Zenon DEF PopExclusive, WriterShape, TypeOK
  <2>. QED  BY <1>2, <2>1, <2>2 DEF Balance
<1>8. CASE CollectGroup
  <2>1. PICK n \in 0 .. Len(jobs) :
          /\ batch' = batch \o SubSeq(jobs, 1, n)
          /\ jobs' = SubSeq(jobs, n + 1, Len(jobs))
          /\ IF n > 0 THEN WakeSubmitters ELSE UNCHANGED pc
          /\ wpc' \in AfterCollecting(n)
    BY <1>8, Zenon DEF CollectGroup
  <2>2. Uncounted' = Uncounted
    BY <1>1, <2>1, Zenon DEF WakeSubmitters, Uncounted, TypeOK
  <2>3. Len(batch') + Len(jobs') = Len(batch) + Len(jobs)
    <3>1. /\ SubSeq(jobs, 1, n) \in Seq(Threads) /\ Len(SubSeq(jobs, 1, n)) = n
          /\ Len(jobs') = Len(jobs) - n
      BY <1>1, <1>2, <2>1, SubSeqProperties, SMTT(20) DEF TypeOK
    <3>2. Len(batch') = Len(batch) + n
      BY <1>1, <2>1, <3>1, ConcatProperties, SMTT(20) DEF TypeOK
    <3>. QED  BY <1>2, <3>1, <3>2, SMTT(20)
  <2>4. wpc # "respond" /\ wpc' # "respond" /\ unfinished' = unfinished
    BY <1>8, <2>1, Zenon DEF CollectGroup, AfterCollecting
  <2>. QED  BY <1>2, <2>2, <2>3, <2>4, ZenonT(30) DEF Balance
<1>9. CASE Execute
  <2>1. /\ Uncounted' = Uncounted /\ wpc = "exec" /\ wpc' = "respond"
        /\ unfinished' = unfinished - Len(batch) /\ UNCHANGED <<jobs, batch>>
    BY <1>9, Zenon DEF Execute, Uncounted
  <2>2. Cardinality(Uncounted) \in Nat
    BY UncountedNumber, Zenon
  <2>. QED  BY <1>2, <2>1, <2>2, SMTT(20) DEF Balance
<1>10. CASE Respond
  <2>1. /\ Uncounted' = Uncounted /\ wpc = "respond" /\ UNCHANGED <<jobs, unfinished>>
        /\ batch' = Tail(batch) /\ wpc' = IF Len(batch) = 1 THEN "pop" ELSE "respond"
    BY <1>10, Zenon DEF Respond, Uncounted
  <2>2. batch # <<>>
    BY <1>1, <2>1, Zenon DEF WriterShape
  <2>3. Len(batch') = Len(batch) - 1
    BY <1>1, <2>1, <2>2, HeadTailProperties, Zenon DEF TypeOK
  <2>4. Len(batch) \in Nat /\ Len(jobs) \in Nat /\ Cardinality(Uncounted) \in Nat
    BY <1>1, LenProperties, UncountedNumber, Zenon DEF TypeOK
  <2>5. unfinished = Len(jobs) - Cardinality(Uncounted)
    BY <1>2, <2>1, Zenon DEF Balance
  <2>6. CASE Len(batch) = 1
    <3>1. ~(wpc' = "respond") /\ Len(batch') = 0
      BY <2>1, <2>3, <2>6
    <3>2. unfinished' = (Len(batch') + Len(jobs')) - Cardinality(Uncounted')
      BY <2>1, <2>4, <2>5, <3>1, SMTT(20)
    <3>. QED  BY <3>1, <3>2, Zenon DEF Balance
  <2>7. CASE Len(batch) # 1
    BY <2>1, <2>5, <2>7, Zenon DEF Balance
  <2>. QED  BY <2>6, <2>7, Zenon
<1>11. CASE Shutdown \/ Closed \/ UNCHANGED vars
  <2>1. Uncounted' = Uncounted
    BY <1>1, <1>11, ZenonT(30) DEF Shutdown, CloseQueue, JoinWriter, CloseReaders, Closed, vars,
                       WakeSubmitters, Uncounted, TypeOK
  <2>2. (wpc' = "respond" <=> wpc = "respond") /\ UNCHANGED <<jobs, batch, unfinished>>
    BY <1>1, <1>11, Zenon DEF Shutdown, CloseQueue, JoinWriter, CloseReaders, Closed, vars,
                       WakeWriter, TypeOK
  <2>. QED  BY <2>1, <2>2, Zenon DEF Balance
<1>. HIDE DEF PCs, WPCs, Outcomes, Calls, NoCall
<1>. QED
  BY <1>3, <1>4, <1>5, <1>6, <1>7, <1>8, <1>9, <1>10, <1>11, ZenonT(30)
     DEF Next, Submitter, Writer, Pop

-----------------------------------------------------------------------------
(* The theorems.                                                           *)

\* The invariant holds when the pool starts.
LEMMA Initially == Init => IInv
<1>. SUFFICES ASSUME Init PROVE IInv
  BY Zenon
<1>. USE DEF Init
<1>1. TypeOK /\ QueueBounded /\ WriterShape /\ HandleShape
  BY CapacityAssumption DEF TypeOK, QueueBounded, WriterShape, HandleShape, InCall
<1>2. NoLostWakeup /\ GroupShape
  BY Zenon DEF NoLostWakeup, GroupShape
<1>3. ExclusiveAlone
  BY MaxJobsAssumption DEF ExclusiveAlone
<1>4. JobInOnePlace
  <2>1. Pipeline = <<>>
    BY ConcatEmptySeq DEF Pipeline, TypeOK
  <2>2. DOMAIN Pipeline = {}
    BY <2>1
  <2>. QED  BY <2>2, Zenon DEF JobInOnePlace, Elements, Pending
<1>. QED  BY <1>1, <1>2, <1>3, <1>4, Zenon DEF IInv

\* Every step of the write path keeps it.
LEMMA Inductive == IInv /\ [Next]_vars => IInv'
  BY TypeStep, WriterShapeStep, HandleShapeStep, QueueBoundedStep, NoLostWakeupStep,
     JobInOnePlaceStep, GroupStep, ZenonT(30) DEF IInv

\* The strengthened invariant holds in every reachable state.
THEOREM Invariance == Spec => []IInv
  BY Initially, Inductive, PTL DEF Spec

\* The state of the write path stays within its types.
THEOREM TypeCorrect == Spec => []TypeOK
<1>1. IInv => TypeOK
  BY Zenon DEF IInv
<1>. QED  BY <1>1, Invariance, PTL

\* push never lets the queue grow past write_queue_capacity.
THEOREM BoundedQueue == Spec => []QueueBounded
<1>1. IInv => QueueBounded
  BY Zenon DEF IInv
<1>. QED  BY <1>1, Invariance, PTL

\* No thread sleeps on not_empty or not_full without somebody bound to wake it,
\* although notify_one is called after the mutex is released.
THEOREM Wakeups == Spec => []NoLostWakeup
<1>1. IInv => NoLostWakeup
  BY Zenon DEF IInv
<1>. QED  BY <1>1, Invariance, PTL

\* pop and the responses lose no job, duplicate none and answer none twice.
THEOREM EachJobOnce == Spec => []JobInOnePlace
<1>1. IInv => JobInOnePlace
  BY Zenon DEF IInv
<1>. QED  BY <1>1, Invariance, PTL

\* pop gives the writer an exclusive job alone and a group within max_jobs.
THEOREM Barriers == Spec => []ExclusiveAlone
<1>1. IInv => ExclusiveAlone
  BY Zenon DEF IInv
<1>. QED  BY <1>1, Invariance, PTL

\* shutdown finds no call in progress: the ConnectionManagerClosed exits of
\* push and recv are dead code behind a handle.
THEOREM QuietShutdown == Spec => []NoCallSeesShutdown
<1>1. ASSUME IInv PROVE NoCallSeesShutdown
  <2>. USE <1>1 DEF IInv
  <2>1. \A t \in Threads : pc[t] # "closed"
    BY Zenon DEF HandleShape, InCall
  <2>2. ASSUME shut # "open"
        PROVE  /\ handles = {} /\ Pipeline = <<>> /\ responses = {}
               /\ \A t \in Threads : ~InCall(t)
    <3>1. handles = {} /\ \A t \in Threads : ~InCall(t)
      BY <2>2, Zenon DEF HandleShape
    <3>2. \A t \in Threads : ~Pending(t)
      BY <3>1, Zenon DEF InCall, Pending
    <3>3. Elements(Pipeline) = {} /\ responses = {}
      BY <3>2, Zenon DEF JobInOnePlace
    <3>4. Pipeline \in Seq(Threads)
      BY ConcatProperties, Zenon DEF TypeOK, Pipeline
    <3>5. DOMAIN Pipeline = {}
      BY <3>3, Zenon DEF Elements
    <3>6. Pipeline = <<>>
      BY <3>4, <3>5, LenProperties, EmptySeq, SMTT(20)
    <3>. QED  BY <3>1, <3>3, <3>6, Zenon
  <2>3. wpc = "done" => shut # "open"
    BY Zenon DEF WriterShape, HandleShape
  <2>. QED  BY <2>1, <2>2, <2>3, ZenonT(30) DEF NoCallSeesShutdown
<1>. QED  BY <1>1, Invariance, PTL

\* The exported counters tell the jobs in flight, at every moment, up to the
\* submitters between their push and their count, although the writer may
\* complete a job before it was counted (write_internal, complete_batch).
THEOREM CountersBalance == Spec => []StatsBalance
<1>1. Init => Balance
  <2>. SUFFICES ASSUME Init PROVE Balance
    BY Zenon
  <2>1. Uncounted = {} /\ Len(batch) = 0 /\ Len(jobs) = 0 /\ unfinished = 0
    BY Zenon DEF Init, Uncounted
  <2>2. Cardinality(Uncounted) = 0
    BY <2>1, FS_EmptySet, Zenon
  <2>. QED  BY <2>1, <2>2 DEF Balance
<1>2. IInv /\ Balance /\ [Next]_vars => Balance'
  BY BalanceStep, Zenon
<1>3. IInv /\ Balance => StatsBalance
  <2>. SUFFICES ASSUME IInv, Balance PROVE StatsBalance
    BY Zenon
  <2>1. /\ batch \in Seq(Threads) /\ jobs \in Seq(Threads) /\ Pipeline \in Seq(Threads)
        /\ Len(Pipeline) = Len(batch) + Len(jobs)
        /\ \A i \in 1 .. Len(jobs) : /\ Len(batch) + i \in 1 .. Len(Pipeline)
                                     /\ Pipeline[Len(batch) + i] = jobs[i]
    BY DEF IInv, TypeOK, Pipeline
  <2>2. Distinct(Pipeline)
    BY Zenon DEF IInv, JobInOnePlace, Distinct
  <2>3. Distinct(jobs)
    <3>1. DOMAIN jobs = 1 .. Len(jobs) /\ DOMAIN Pipeline = 1 .. Len(Pipeline)
      BY <2>1, LenProperties, Zenon
    <3>2. ASSUME NEW i \in 1 .. Len(jobs), NEW j \in 1 .. Len(jobs), jobs[i] = jobs[j]
          PROVE  i = j
      <4>1. Len(batch) \in Nat
        BY <2>1, LenProperties, Zenon
      <4>2. Pipeline[Len(batch) + i] = Pipeline[Len(batch) + j]
        BY <2>1, <3>2, Zenon
      <4>3. Len(batch) + i = Len(batch) + j
        BY <2>1, <2>2, <3>1, <4>2, Zenon DEF Distinct
      <4>. QED  BY <4>1, <4>3
    <3>. QED  BY <3>1, <3>2, Zenon DEF Distinct
  <2>4. Cardinality(Elements(Pipeline)) = Len(batch) + Len(jobs)
        /\ Cardinality(Elements(jobs)) = Len(jobs)
    BY <2>1, <2>2, <2>3, DistinctLength, Zenon
  <2>. QED  BY <2>4, Zenon DEF Balance, StatsBalance, Uncounted
<1>. QED  BY <1>1, <1>2, <1>3, Invariance, PTL DEF Spec

\* The pool implements the serial writer: jobs are answered one at a time, in
\* the order of admission, each once.
THEOREM ImplementsSerialWriter == Spec => SW!Safety
<1>1. Init => SW!Init
  <2>1. <<>> \o <<>> = <<>>
    OBVIOUS
  <2>. QED  BY <2>1, Zenon DEF Init, SW!Init, Pipeline
<1>2. IInv /\ [Next]_vars => [SW!Next]_SW!vars
  <2>. SUFFICES ASSUME IInv, [Next]_vars PROVE [SW!Next]_SW!vars
    BY Zenon
  <2>1. CASE LineKept
    BY <2>1, Zenon DEF LineKept, SW!vars
  <2>2. ASSUME NEW t \in Threads, LineAdmits(t)
        PROVE  SW!Admit(t)
    <3>1. t \notin Elements(Pipeline) \union responses
      BY <2>2, Zenon DEF LineAdmits, IInv, JobInOnePlace, Waiting
    <3>. QED  BY <2>2, <3>1, Zenon DEF LineAdmits, SW!Admit, SW!InLine, Elements
  <2>3. CASE LineAnswers
    BY <2>3, Zenon DEF LineAnswers, SW!Answer, SW!Next
  <2>4. ASSUME NEW t \in Threads, LineDelivers(t)
        PROVE  SW!Receive(t)
    BY <2>4, Zenon DEF LineDelivers, SW!Receive
  <2>. QED  BY <2>1, <2>2, <2>3, <2>4, LineStep, Zenon DEF IInv, SW!Next
<1>. QED  BY <1>1, <1>2, Invariance, PTL DEF Spec, SW!Safety

=============================================================================
