------------------------ MODULE WebSocketHandlerProofs ------------------------
(***************************************************************************)
(* Proofs about WebSocketHandler, for any number of requests, any size of  *)
(* the control channel and of a batch: each request is answered once, by   *)
(* whoever holds its reply sender, and they are written in order.          *)
(*                                                                         *)
(* What is on its way to the wire is left out of the first invariant:      *)
(* nobody's answer depends on it.  The second one adds it, and the order.  *)
(***************************************************************************)
EXTENDS WebSocketHandler, QueueLemmas

Outcomes == {"idle", "pending"} \cup Answers

Types ==
    /\ outcome \in [Requests -> Outcomes]
    /\ timeout \in [Requests -> Timeouts]
    /\ control \in Seq(Requests)
    /\ batch \in Seq(Requests)
    /\ replyMap \subseteq Requests

\* Requests are sent in order, so that no request is twice in the queues.
SentInOrder ==
    /\ \A q, r \in Requests : outcome[q] = "idle" /\ q < r => outcome[r] = "idle"
    /\ Increasing(batch) /\ Increasing(control)
    /\ \A q \in Range(batch), r \in Range(control) : q < r

\* What is empty where the writer stands, and at the end.
EmptyWhere ==
    /\ writer \in {"select", "sending", "done"} => batch = <<>>
    /\ writer = "insert" => batch # <<>>
    /\ writer = "sending" => commands = <<>>
    /\ writer = "done" => control = <<>>
    /\ returned => writer = "done" /\ replyMap = {}

\* The inductive invariant.
IInv ==
    /\ Types
    /\ PendingIsHeld
    /\ SentInOrder
    /\ EmptyWhere
    /\ NothingStranded

Held == Range(control) \cup Range(batch) \cup replyMap

\* No request that reached the writer has been late.
NoneLate == \A r \in Requests : timeout[r] = "zero" => outcome[r] # "Timeout"

-----------------------------------------------------------------------------
(* The parts of the invariant, for most of the actions.                    *)

LEMMA RequestNumbers ==
  /\ Requests \subseteq Nat /\ Seq(Requests) \subseteq Seq(Nat)
<1>1. Requests \subseteq Nat
  BY BoundsAssumption DEF Requests
<1> QED
  BY <1>1, SeqMonotonic

LEMMA EmptyQueue == Range(<<>>) = {} /\ Increasing(<<>>) /\ \A S : <<>> \in Seq(S)
BY EmptySeq DEF Range, Increasing

LEMMA InitIInv == Init => IInv
<1> SUFFICES ASSUME Init PROVE IInv
  OBVIOUS
<1>1. Types
  BY EmptyQueue DEF Init, Types, Outcomes, Timeouts
<1>2. PendingIsHeld /\ SentInOrder
  BY EmptyQueue DEF Init, PendingIsHeld, SentInOrder
<1>3. EmptyWhere /\ NothingStranded
  BY DEF Init, EmptyWhere, NothingStranded
<1> QED
  BY <1>1, <1>2, <1>3 DEF IInv

\* The requests stay where they are, and so does the writer, but for its going
\* on with a batch that is not empty.
LEMMA NothingMoves ==
  ASSUME IInv,
         UNCHANGED <<outcome, timeout, control, batch, commands, replyMap, returned>>,
         UNCHANGED writer \/ (batch # <<>> /\ writer' = "insert")
  PROVE  IInv'
<1>1. Types' /\ PendingIsHeld' /\ SentInOrder'
  BY DEF IInv, Types, PendingIsHeld, SentInOrder
<1>2. EmptyWhere' /\ NothingStranded'
  BY DEF IInv, EmptyWhere, NothingStranded
<1> QED
  BY <1>1, <1>2 DEF IInv

LEMMA QuietStep ==
  ASSUME IInv,
         \/ SendersGone \/ ReaderCloses \/ RemoteEnds \/ ReadPing \/ WriterArms
         \/ \E m \in Verdicts \cup {"closed"} : CloserSpeaks(m)
  PROVE  IInv'
BY NothingMoves
   DEF SendersGone, ReaderCloses, RemoteEnds, ReadPing, WriterArms, CloserSpeaks,
       writerVars, channelVars

LEMMA SubmitStep ==
  ASSUME IInv, NEW r \in Requests, Submit(r)
  PROVE  IInv'
<1>1. /\ outcome[r] = "idle" /\ \A q \in 1..(r - 1) : outcome[q] # "idle"
      /\ UNCHANGED <<batch, commands, writer, replyMap, returned>>
  BY DEF Submit, writerVars
<1>2. \A q \in Requests : q < r => outcome[q] # "idle"
  BY <1>1 DEF Requests
<1>3. r \notin Range(control) \cup Range(batch) \cup replyMap
  BY <1>1 DEF IInv, PendingIsHeld
<1>4. ASSUME NEW a \in Outcomes \ {"idle"}, outcome' = Answered({r}, a)
      PROVE  /\ outcome' \in [Requests -> Outcomes]
             /\ outcome'[r] = a /\ \A q \in Requests : q # r => outcome'[q] = outcome[q]
             /\ \A p, q \in Requests : outcome'[p] = "idle" /\ p < q => outcome'[q] = "idle"
  <2>1. /\ outcome' \in [Requests -> Outcomes]
        /\ outcome'[r] = a /\ \A q \in Requests : q # r => outcome'[q] = outcome[q]
    BY <1>4 DEF Answered, IInv, Types
  <2>2. ASSUME NEW p \in Requests, NEW q \in Requests, outcome'[p] = "idle", p < q
        PROVE  outcome'[q] = "idle"
    <3>1. p # r /\ outcome[p] = "idle" /\ outcome[q] = "idle"
      BY <2>1, <2>2 DEF IInv, SentInOrder
    <3>2. q # r
      BY <1>2, <2>2, <3>1
    <3> QED
      BY <2>1, <3>1, <3>2
  <2> QED
    BY <2>1, <2>2
<1>5. CASE /\ writer # "done" /\ control' = Append(control, r)
           /\ \E t \in Timeouts : timeout' = [timeout EXCEPT ![r] = t]
           /\ outcome' = Answered({r}, "pending")
  <2>1. /\ outcome' \in [Requests -> Outcomes]
        /\ outcome'[r] = "pending" /\ \A q \in Requests : q # r => outcome'[q] = outcome[q]
        /\ \A p, q \in Requests : outcome'[p] = "idle" /\ p < q => outcome'[q] = "idle"
    BY <1>4, <1>5 DEF Outcomes
  <2>2. control' \in Seq(Requests) /\ Range(control') = Range(control) \cup {r}
    BY <1>5, AppendTo DEF IInv, Types
  <2>3. \A q \in Range(control) \cup Range(batch) : q < r
    <3>1. Range(control) \subseteq Requests /\ Range(batch) \subseteq Requests
      BY RangeOfSeq DEF IInv, Types
    <3>2. \A q \in Range(control) \cup Range(batch) : outcome[q] # "idle" /\ q # r
      BY <1>3, <3>1 DEF IInv, PendingIsHeld
    <3>3. \A q \in Requests : q < r \/ q = r \/ r < q
      BY RequestNumbers
    <3> QED
      BY <1>1, <3>1, <3>2, <3>3 DEF IInv, SentInOrder
  <2>4. Increasing(control')
    BY <1>5, <2>3, RequestNumbers, IncreasingAppend DEF IInv, Types, SentInOrder
  <2>5. Types'
    BY <1>1, <1>5, <2>1, <2>2 DEF IInv, Types
  <2>6. PendingIsHeld'
    BY <1>1, <1>3, <2>1, <2>2 DEF IInv, PendingIsHeld
  <2>7. SentInOrder'
    BY <1>1, <2>1, <2>2, <2>3, <2>4 DEF IInv, SentInOrder
  <2>8. EmptyWhere'
    BY <1>1, <1>5 DEF IInv, EmptyWhere
  <2>9. NothingStranded'
    <3>1. \A q \in Requests : timeout'[q] = timeout[q] \/ q = r
      BY <1>5 DEF IInv, Types
    <3>2. NoneLate' => NoneLate
      BY <1>1, <2>1, <3>1 DEF NoneLate
    <3> QED
      BY <1>1, <2>1, <3>2 DEF IInv, NothingStranded, NoneLate
  <2> QED
    BY <2>5, <2>6, <2>7, <2>8, <2>9 DEF IInv
<1>6. CASE /\ writer = "done" /\ outcome' = Answered({r}, "dropped")
           /\ UNCHANGED <<control, timeout>>
  <2>1. /\ outcome' \in [Requests -> Outcomes]
        /\ outcome'[r] = "dropped" /\ \A q \in Requests : q # r => outcome'[q] = outcome[q]
        /\ \A p, q \in Requests : outcome'[p] = "idle" /\ p < q => outcome'[q] = "idle"
    BY <1>4, <1>6 DEF Outcomes, Answers
  <2>2. Types' /\ SentInOrder' /\ EmptyWhere'
    BY <1>1, <1>6, <2>1 DEF IInv, Types, SentInOrder, EmptyWhere
  <2>3. PendingIsHeld'
    BY <1>1, <1>3, <1>6, <2>1 DEF IInv, PendingIsHeld
  <2>4. NothingStranded'
    BY <1>1, <1>6 DEF IInv, EmptyWhere, NothingStranded
  <2> QED
    BY <2>2, <2>3, <2>4 DEF IInv
<1> QED
  BY <1>5, <1>6 DEF Submit

\* Whoever takes entries out of the map answers them.
LEMMA EntriesAnswered ==
  ASSUME IInv, NEW S \in SUBSET replyMap, NEW a \in Answers \ {"dropped"},
         outcome' = Answered(S, a), replyMap' = replyMap \ S,
         UNCHANGED <<control, batch, timeout>>
  PROVE  /\ Types' /\ PendingIsHeld' /\ SentInOrder'
         /\ NoneLate' => NoneLate
         /\ \A r \in Requests : outcome'[r] = "dropped" => outcome[r] = "dropped"
<1>1. a # "pending" /\ a # "idle" /\ a # "dropped" /\ a \in Outcomes
  BY DEF Answers, Outcomes
<1>2. \A r \in Requests : outcome'[r] = IF r \in S THEN a ELSE outcome[r]
  BY DEF Answered
<1>3. \A r \in S : r \in Requests /\ outcome[r] = "pending"
  BY DEF IInv, Types, PendingIsHeld
<1>4. Types'
  BY <1>1 DEF Answered, IInv, Types
<1>5. PendingIsHeld'
  <2>1. S \cap (Range(control) \cup Range(batch)) = {}
    BY DEF IInv, PendingIsHeld
  <2> QED
    BY <1>1, <1>2, <2>1 DEF IInv, PendingIsHeld
<1>6. SentInOrder'
  <2>1. \A r \in Requests : outcome'[r] = "idle" <=> outcome[r] = "idle"
    BY <1>1, <1>2, <1>3
  <2> QED
    BY <2>1 DEF IInv, SentInOrder
<1>7. NoneLate' => NoneLate
  BY <1>2, <1>3 DEF NoneLate
<1> QED
  BY <1>1, <1>2, <1>4, <1>5, <1>6, <1>7

LEMMA AnswerStep ==
  ASSUME IInv, NEW r \in Requests, ReadReply(r) \/ TimerElapses(r)
  PROVE  IInv'
<1>1. UNCHANGED <<control, batch, timeout, commands, writer, returned>>
  BY DEF ReadReply, TimerElapses, channelVars, writerVars
<1>2. PICK S \in SUBSET replyMap, a \in {"reply", "Timeout"} :
        outcome' = Answered(S, a) /\ replyMap' = replyMap \ S
  <2>1. CASE ReadReply(r)
    <3>1. {r} \in SUBSET replyMap
      BY <2>1 DEF ReadReply
    <3> WITNESS {r} \in SUBSET replyMap, "reply" \in {"reply", "Timeout"}
    <3> QED
      BY <2>1 DEF ReadReply, Taken
  <2>2. CASE TimerElapses(r)
    <3>1. replyMap' = replyMap \ ({r} \cap replyMap)
      BY <2>2 DEF TimerElapses, Taken
    <3> WITNESS {r} \cap replyMap \in SUBSET replyMap, "Timeout" \in {"reply", "Timeout"}
    <3> QED
      BY <2>2, <3>1 DEF TimerElapses
  <2> QED
    BY <2>1, <2>2
<1>3. a \in Answers \ {"dropped"}
  BY DEF Answers
<1>4. /\ Types' /\ PendingIsHeld' /\ SentInOrder'
      /\ NoneLate' => NoneLate
      /\ \A q \in Requests : outcome'[q] = "dropped" => outcome[q] = "dropped"
  BY <1>1, <1>2, <1>3, EntriesAnswered
<1>5. EmptyWhere'
  BY <1>1, <1>2 DEF IInv, EmptyWhere
<1>6. NothingStranded'
  BY <1>1, <1>4 DEF IInv, NothingStranded, NoneLate
<1> QED
  BY <1>4, <1>5, <1>6 DEF IInv

-----------------------------------------------------------------------------
(* The writer.                                                             *)

LEMMA WriterDoneStep ==
  ASSUME IInv, writer \in {"select", "sending"}, WriterDone,
         UNCHANGED <<batch, replyMap, timeout, returned>>
  PROVE  IInv'
<1>1. /\ control' = <<>> /\ commands' = <<>> /\ writer' = "done"
      /\ outcome' = Answered(Range(control), "dropped") /\ batch = <<>>
  BY DEF WriterDone, IInv, EmptyWhere
<1>2. \A r \in Requests :
         outcome'[r] = IF r \in Range(control) THEN "dropped" ELSE outcome[r]
  BY <1>1 DEF Answered
<1>3. Types'
  BY <1>1, EmptyQueue DEF Answered, IInv, Types, Outcomes, Answers
<1>4. PendingIsHeld'
  BY <1>1, <1>2, EmptyQueue DEF IInv, PendingIsHeld
<1>5. SentInOrder'
  <2>1. \A r \in Requests : outcome'[r] = "idle" <=> outcome[r] = "idle"
    BY <1>2 DEF IInv, PendingIsHeld
  <2> QED
    BY <1>1, <2>1, EmptyQueue DEF IInv, SentInOrder
<1>6. EmptyWhere'
  BY <1>1 DEF IInv, EmptyWhere
<1>7. NothingStranded'
  BY <1>1 DEF NothingStranded
<1> QED
  BY <1>3, <1>4, <1>5, <1>6, <1>7 DEF IInv

LEMMA WriterReceivesStep == ASSUME IInv, WriterReceives PROVE IInv'
<1>1. CASE control = <<>> /\ ~senders /\ WriterDone /\ UNCHANGED batch
  BY <1>1, WriterDoneStep DEF WriterReceives
<1>2. ASSUME control # <<>>,
             NEW n, n = (IF Len(control) < BatchMax THEN Len(control) ELSE BatchMax),
             batch' = SubSeq(control, 1, n),
             control' = SubSeq(control, n + 1, Len(control)),
             writer' = "batch", UNCHANGED <<outcome, commands>>
      PROVE  IInv'
  <2>1. /\ control \in Seq(Requests) /\ control \in Seq(Nat) /\ Increasing(control)
        /\ batch = <<>>
    BY RequestNumbers DEF WriterReceives, IInv, Types, SentInOrder, EmptyWhere
  <2>2. n \in 0..Len(control)
    BY <1>2, <2>1, LenProperties, BoundsAssumption
  <2>3. /\ batch' \in Seq(Requests) /\ control' \in Seq(Requests)
        /\ Range(control) = Range(batch') \cup Range(control')
        /\ Increasing(batch') /\ Increasing(control')
        /\ \A q \in Range(batch'), r \in Range(control') : q < r
    BY <1>2, <2>1, <2>2, CutAt, IncreasingCut
  <2>4. Range(batch') \cap Range(control') = {}
    <3>1. Range(batch') \subseteq Nat
      BY <2>3, RangeOfSeq, RequestNumbers
    <3> QED
      BY <2>3, <3>1
  <2>5. UNCHANGED <<timeout, returned, replyMap>> /\ writer = "select"
    BY DEF WriterReceives
  <2>6. Types' /\ SentInOrder'
    BY <1>2, <2>3, <2>5 DEF IInv, Types, SentInOrder
  <2>7. PendingIsHeld'
    BY <1>2, <2>1, <2>3, <2>4, <2>5, EmptyQueue DEF IInv, PendingIsHeld
  <2>8. EmptyWhere' /\ NothingStranded'
    BY <1>2, <2>5 DEF IInv, EmptyWhere, NothingStranded
  <2> QED
    BY <2>6, <2>7, <2>8 DEF IInv
<1> QED
  BY <1>1, <1>2 DEF WriterReceives

\* What the writer knows of the message at the head of its batch.
LEMMA HeadOfBatch ==
  ASSUME IInv, batch # <<>>
  PROVE  /\ Head(batch) \in Requests /\ Tail(batch) \in Seq(Requests)
         /\ Range(batch) = {Head(batch)} \cup Range(Tail(batch))
         /\ Head(batch) \notin Range(Tail(batch)) /\ Increasing(Tail(batch))
<1>1. batch \in Seq(Requests) /\ batch \in Seq(Nat) /\ Increasing(batch)
  BY RequestNumbers DEF IInv, Types, SentInOrder
<1>2. \A r \in Range(Tail(batch)) : Head(batch) < r
  BY <1>1, IncreasingTail
<1>3. Head(batch) \in Nat
  BY <1>1, HeadTailProperties
<1> QED
  BY <1>1, <1>2, <1>3, TailOf, IncreasingTail

LEMMA WriterExpiredStep == ASSUME IInv, WriterExpired PROVE IInv'
<1> DEFINE h == Head(batch)
<1>1. /\ batch' = <<>> /\ writer' = "select" /\ timeout[h] = "zero"
      /\ UNCHANGED <<control, timeout, returned, replyMap, commands>>
      /\ writer = "batch" /\ batch # <<>>
  BY DEF WriterExpired, channelVars
<1>2. /\ h \in Requests /\ Range(batch) = {h} \cup Range(Tail(batch))
      /\ Range(Tail(batch)) \subseteq Requests
  BY <1>1, HeadOfBatch, RangeOfSeq
<1>3. /\ outcome' \in [Requests -> Outcomes]
      /\ outcome'[h] = "Timeout"
      /\ \A r \in Range(batch) : outcome'[r] \in {"Timeout", "dropped"}
      /\ \A r \in Requests : r \notin Range(batch) => outcome'[r] = outcome[r]
  <2>1. outcome' = [r \in Requests |->
                     CASE r = h                      -> "Timeout"
                       [] r \in Range(Tail(batch))   -> "dropped"
                       [] OTHER                      -> outcome[r]]
    BY DEF WriterExpired
  <2>2. h \notin Range(Tail(batch))
    BY <1>1, HeadOfBatch
  <2> HIDE DEF h
  <2>3. \A r \in Requests : outcome'[r] =
          IF r = h THEN "Timeout"
          ELSE IF r \in Range(Tail(batch)) THEN "dropped" ELSE outcome[r]
    BY <2>1, <2>2
  <2>4. outcome' \in [Requests -> Outcomes]
    BY <2>1, <2>2, <2>3 DEF IInv, Types, Outcomes, Answers
  <2> QED
    BY <1>2, <2>3, <2>4
<1> HIDE DEF h
<1>4. Types'
  BY <1>1, <1>3, EmptyQueue DEF IInv, Types
<1>5. PendingIsHeld'
  BY <1>1, <1>3, EmptyQueue DEF IInv, PendingIsHeld
<1>6. SentInOrder'
  <2>1. \A r \in Requests : outcome'[r] = "idle" <=> outcome[r] = "idle"
    BY <1>3 DEF IInv, PendingIsHeld
  <2> QED
    BY <1>1, <2>1, EmptyQueue DEF IInv, SentInOrder
<1>7. EmptyWhere' /\ NothingStranded'
  BY <1>1, <1>2, <1>3 DEF IInv, EmptyWhere, NothingStranded
<1> QED
  BY <1>4, <1>5, <1>6, <1>7 DEF IInv

LEMMA WriterInsertsStep == ASSUME IInv, WriterInserts PROVE IInv'
<1>1. /\ writer = "insert" /\ batch # <<>> /\ writer' = "batch"
      /\ replyMap' = replyMap \cup {Head(batch)} /\ batch' = Tail(batch)
      /\ UNCHANGED <<control, timeout, outcome, returned>>
  BY DEF WriterInserts, channelVars, IInv, EmptyWhere
<1>2. /\ Head(batch) \in Requests /\ batch' \in Seq(Requests)
      /\ Range(batch) = {Head(batch)} \cup Range(batch')
      /\ Head(batch) \notin Range(batch') /\ Increasing(batch')
  BY <1>1, HeadOfBatch
<1>3. Types'
  BY <1>1, <1>2 DEF IInv, Types
<1>4. PendingIsHeld'
  BY <1>1, <1>2 DEF IInv, PendingIsHeld
<1>5. SentInOrder'
  BY <1>1, <1>2 DEF IInv, SentInOrder
<1>6. EmptyWhere' /\ NothingStranded'
  BY <1>1 DEF IInv, EmptyWhere, NothingStranded
<1> QED
  BY <1>3, <1>4, <1>5, <1>6 DEF IInv

LEMMA WriterEncodesStep == ASSUME IInv, WriterEncodes PROVE IInv'
<1>1. /\ writer = "batch" /\ batch = <<>> /\ writer' \in {"select", "sending"}
      /\ commands' = <<>>
      /\ UNCHANGED <<control, timeout, returned, batch>>
  BY DEF WriterEncodes, channelVars
<1>2. PICK S \in SUBSET replyMap :
        outcome' = Answered(S, "InappropriateProtocol") /\ replyMap' = replyMap \ S
  <2>1. PICK bad :
          /\ outcome' = Answered(bad \cap replyMap, "InappropriateProtocol")
          /\ replyMap' = replyMap \ bad
    BY DEF WriterEncodes
  <2>2. replyMap \ bad = replyMap \ (bad \cap replyMap)
    OBVIOUS
  <2> WITNESS bad \cap replyMap \in SUBSET replyMap
  <2> QED
    BY <2>1, <2>2
<1>3. "InappropriateProtocol" \in Answers \ {"dropped"}
  BY DEF Answers
<1>4. /\ Types' /\ PendingIsHeld' /\ SentInOrder'
      /\ NoneLate' => NoneLate
      /\ \A q \in Requests : outcome'[q] = "dropped" => outcome[q] = "dropped"
  BY <1>1, <1>2, <1>3, EntriesAnswered
<1>5. EmptyWhere'
  BY <1>1, <1>2 DEF IInv, EmptyWhere
<1>6. NothingStranded'
  BY <1>1, <1>4 DEF IInv, NothingStranded, NoneLate
<1> QED
  BY <1>4, <1>5, <1>6 DEF IInv

\* A pong that is written, and a write that is: nothing moves.
LEMMA WriterWritesStep ==
  ASSUME IInv,
         WriterPong \/ WriterSends \/ WriterFollowsReader
  PROVE  IInv'
<1>1. UNCHANGED <<timeout, returned, replyMap, batch>> /\ writer \in {"select", "sending"}
  BY DEF WriterPong, WriterSends, WriterFollowsReader
<1>2. CASE WriterDone
  BY <1>1, <1>2, WriterDoneStep
<1>3. CASE UNCHANGED <<outcome, control, commands, writer>>
  BY <1>1, <1>3, NothingMoves
<1>4. CASE /\ writer = "sending" /\ writer' = "select"
           /\ UNCHANGED <<outcome, control, commands>>
  <2>1. Types' /\ PendingIsHeld' /\ SentInOrder'
    BY <1>1, <1>4 DEF IInv, Types, PendingIsHeld, SentInOrder
  <2>2. EmptyWhere' /\ NothingStranded'
    BY <1>1, <1>4 DEF IInv, EmptyWhere, NothingStranded
  <2> QED
    BY <2>1, <2>2 DEF IInv
<1> QED
  BY <1>2, <1>3, <1>4 DEF WriterPong, WriterSends, WriterFollowsReader

LEMMA HandlerReturnsStep == ASSUME IInv, HandlerReturns PROVE IInv'
<1>1. /\ writer = "done" /\ replyMap' = replyMap \ replyMap
      /\ outcome' = Answered(replyMap, "Closed")
      /\ UNCHANGED <<control, timeout, batch, commands, writer>>
  BY DEF HandlerReturns, Joined, channelVars, writerVars
<1>2. "Closed" \in Answers \ {"dropped"} /\ replyMap \in SUBSET replyMap
  BY DEF Answers
<1>3. Types' /\ PendingIsHeld' /\ SentInOrder'
  BY <1>1, <1>2, EntriesAnswered
<1>4. EmptyWhere' /\ NothingStranded'
  BY <1>1 DEF IInv, EmptyWhere, NothingStranded
<1> QED
  BY <1>3, <1>4 DEF IInv

LEMMA NextKeepsIInv == IInv /\ [Next]_vars => IInv'
<1> SUFFICES ASSUME IInv, [Next]_vars PROVE IInv'
  OBVIOUS
<1>1. CASE UNCHANGED vars
  BY <1>1, NothingMoves DEF vars
<1>2. CASE Next
  BY <1>2, SubmitStep, AnswerStep, QuietStep, WriterReceivesStep, WriterExpiredStep,
     WriterInsertsStep, WriterEncodesStep, WriterWritesStep, HandlerReturnsStep
     DEF Next, Writer
<1> QED
  BY <1>1, <1>2

LEMMA Invariance == Spec => []IInv
<1>1. Init => IInv
  BY InitIInv
<1>2. IInv /\ [Next]_vars => IInv'
  BY NextKeepsIInv
<1> QED
  BY <1>1, <1>2, PTL DEF Spec

-----------------------------------------------------------------------------
(* The theorems.                                                           *)

\* The reply sender of a request that is not answered is in one place: the
\* control channel, the writer's batch or reply_map; that of an answered one
\* is in none (websocket_handler).
THEOREM PendingHeld == Spec => []PendingIsHeld
<1>1. IInv => PendingIsHeld
  BY DEF IInv
<1> QED
  BY <1>1, Invariance, PTL

\* While no request reaches the writer after its time, the writer writes all
\* it is given and drops nothing as long as it runs (the writer's loop).
THEOREM NotStranded == Spec => []NothingStranded
<1>1. IInv => NothingStranded
  BY DEF IInv
<1> QED
  BY <1>1, Invariance, PTL

\* One step of the handler is a step of the promise.
LEMMA PromiseStep ==
  ASSUME IInv, [Next]_vars
  PROVE  [Promise!Next]_(Promise!vars)
<1> USE DEF Promise!vars
<1>1. /\ outcome \in [Requests -> Outcomes] /\ outcome' \in [Requests -> Outcomes]
      /\ \A r \in Held : outcome[r] = "pending"
  BY NextKeepsIInv, RangeOfSeq DEF IInv, Types, PendingIsHeld, Held
<1>2. ASSUME NEW S \in SUBSET Held, NEW a \in Answers,
             outcome' = Answered(S, a), UNCHANGED returned
      PROVE  Promise!Answer
  BY <1>1, <1>2 DEF Promise!Answer, Answered, Outcomes
<1>3. ASSUME NEW r \in Requests, Submit(r) PROVE Promise!Submit(r)
  <2>1. outcome[r] = "idle" /\ UNCHANGED returned
    BY <1>3 DEF Submit
  <2>2. CASE writer # "done" /\ outcome' = Answered({r}, "pending")
    <3>1. outcome' = [outcome EXCEPT ![r] = "pending"]
      BY <1>1, <2>2 DEF Answered
    <3>2. ~returned
      BY <2>2 DEF IInv, EmptyWhere
    <3> QED
      BY <2>1, <3>1, <3>2 DEF Promise!Submit
  <2>3. CASE outcome' = Answered({r}, "dropped")
    <3>1. outcome' = [outcome EXCEPT ![r] = "dropped"]
      BY <1>1, <2>3 DEF Answered
    <3> QED
      BY <2>1, <3>1 DEF Promise!Submit, Answers
  <2> QED
    BY <1>3, <2>2, <2>3 DEF Submit
<1>4. ASSUME NEW r \in Requests, ReadReply(r) \/ TimerElapses(r) PROVE Promise!Answer
  BY <1>2, <1>4 DEF ReadReply, TimerElapses, Held, Answers
<1>5. CASE WriterDone /\ UNCHANGED returned
  BY <1>2, <1>5 DEF WriterDone, Held, Answers, Promise!Next
<1>6. CASE WriterExpired
  <2>1. batch # <<>> /\ UNCHANGED returned
    BY <1>6 DEF WriterExpired
  <2>2. {Head(batch)} \cup Range(Tail(batch)) \subseteq Held
    BY <2>1, HeadOfBatch DEF Held
  <2>3. ASSUME NEW r \in Requests
        PROVE  \/ outcome'[r] = outcome[r]
               \/ outcome[r] = "pending" /\ outcome'[r] \in {"Timeout", "dropped"}
    <3>1. CASE r \in {Head(batch)} \cup Range(Tail(batch))
      <4>1. outcome[r] = "pending"
        BY <1>1, <2>2, <3>1
      <4>2. outcome'[r] = IF r = Head(batch) THEN "Timeout" ELSE "dropped"
        BY <1>6, <3>1, <2>1, HeadOfBatch DEF WriterExpired
      <4> QED
        BY <4>1, <4>2
    <3>2. CASE r \notin {Head(batch)} \cup Range(Tail(batch))
      BY <1>6, <3>2 DEF WriterExpired
    <3> QED
      BY <3>1, <3>2
  <2>4. Promise!Answer
    BY <1>1, <2>1, <2>3 DEF Promise!Answer, Outcomes, Answers
  <2> QED
    BY <2>4 DEF Promise!Next
<1>7. CASE WriterEncodes
  <2>1. PICK bad : outcome' = Answered(bad \cap replyMap, "InappropriateProtocol")
    BY <1>7 DEF WriterEncodes
  <2>2. bad \cap replyMap \in SUBSET Held /\ UNCHANGED returned
    BY <1>7 DEF WriterEncodes, Held
  <2> QED
    BY <1>2, <2>1, <2>2 DEF Answers, Promise!Next
<1>8. CASE HandlerReturns
  <2>1. /\ ~returned /\ returned' /\ writer = "done"
        /\ outcome' = Answered(replyMap, "Closed")
    BY <1>8 DEF HandlerReturns, Joined
  <2>2. control = <<>> /\ batch = <<>>
    BY <2>1 DEF IInv, EmptyWhere
  <2>3. \A r \in Requests : outcome[r] = "pending" <=> r \in replyMap
    BY <2>2, EmptyQueue DEF IInv, PendingIsHeld
  <2>4. \A r \in Requests : IF outcome[r] = "pending" THEN outcome'[r] = "Closed"
                                                     ELSE outcome'[r] = outcome[r]
    BY <2>1, <2>3 DEF Answered
  <2>5. returned' = TRUE
    BY <1>8 DEF HandlerReturns
  <2>6. Promise!End
    BY <1>1, <2>1, <2>4, <2>5 DEF Promise!End, Outcomes, Answers
  <2> QED
    BY <2>6 DEF Promise!Next
<1>9. CASE UNCHANGED <<outcome, returned>>
  BY <1>9
<1>10. CASE Writer
  <2>1. \/ WriterDone /\ UNCHANGED returned
        \/ UNCHANGED <<outcome, returned>>
        \/ WriterExpired \/ WriterEncodes
    BY <1>10 DEF Writer, WriterPong, WriterFollowsReader, WriterReceives, WriterArms,
       WriterInserts, WriterSends
  <2> QED
    BY <1>5, <1>6, <1>7, <1>9, <2>1 DEF Promise!Next
<1>11. CASE \/ SendersGone \/ ReaderCloses \/ RemoteEnds \/ ReadPing
            \/ \E m \in Verdicts \cup {"closed"} : CloserSpeaks(m)
  BY <1>9, <1>11 DEF SendersGone, ReaderCloses, RemoteEnds, ReadPing, CloserSpeaks
<1>12. CASE UNCHANGED vars
  BY <1>9, <1>12 DEF vars
<1> QED
  BY <1>3, <1>4, <1>8, <1>10, <1>11, <1>12 DEF Next, Promise!Next

\* Each request is answered once, and the handler does not return before the
\* last one is: the handler implements RequestReply.
THEOREM PromiseIsKept == Spec => PromiseKept
<1>1. Init => Promise!Init
  BY DEF Init, Promise!Init
<1>2. IInv /\ [Next]_vars => [Promise!Next]_(Promise!vars)
  BY PromiseStep
<1> QED
  BY <1>1, <1>2, Invariance, PTL DEF Spec, PromiseKept, Promise!Spec

-----------------------------------------------------------------------------
(* What is left of the commands when some are left out.                    *)

\* How many positions of a set there are up to one of them.
UpTo(K, i) == {j \in K : j <= i}
Place(K, i) == Cardinality(UpTo(K, i))

\* The places of a finite set of positions are 1, 2 and so on, in their order.
LEMMA Places ==
  ASSUME NEW K \in SUBSET Nat, IsFiniteSet(K)
  PROVE  /\ Cardinality(K) \in Nat
         /\ \A i \in K : Place(K, i) \in 1..Cardinality(K)
         /\ \A i, j \in K : i < j => Place(K, i) < Place(K, j)
         /\ \A k \in 1..Cardinality(K) : \E i \in K : Place(K, i) = k
<1>1. Cardinality(K) \in Nat
  BY FS_CardinalityType
<1>2. ASSUME NEW i \in K
      PROVE  /\ IsFiniteSet(UpTo(K, i)) /\ Place(K, i) \in Nat
             /\ Place(K, i) \in 1..Cardinality(K)
  <2>1. UpTo(K, i) \in SUBSET K /\ i \in UpTo(K, i)
    BY DEF UpTo
  <2>2. IsFiniteSet(UpTo(K, i)) /\ Place(K, i) <= Cardinality(K)
    BY <2>1, FS_Subset DEF Place
  <2>3. Place(K, i) \in Nat /\ Place(K, i) # 0
    BY <2>1, <2>2, FS_CardinalityType, FS_EmptySet DEF Place
  <2> QED
    BY <1>1, <2>2, <2>3
<1>3. ASSUME NEW i \in K, NEW j \in K, i < j PROVE Place(K, i) < Place(K, j)
  <2>1. UpTo(K, i) \in SUBSET UpTo(K, j)
    <3>1. \A l \in K : l <= i => l <= j
      BY <1>3
    <3> QED
      BY <3>1 DEF UpTo
  <2>2. j \in UpTo(K, j) /\ j \notin UpTo(K, i)
    BY <1>3 DEF UpTo
  <2>3. Place(K, i) <= Place(K, j) /\ Place(K, i) # Place(K, j)
    BY <1>2, <2>1, <2>2, FS_Subset DEF Place
  <2> QED
    BY <1>2, <2>3
<1>4. \A k \in 1..Cardinality(K) : \E i \in K : Place(K, i) = k
  <2> DEFINE f == [i \in K |-> Place(K, i)]
             n == Cardinality(K)
  <2>1. f \in [K -> 1..n]
    BY <1>2
  <2>2. \A i, j \in K : i # j => f[i] # f[j]
    <3>1. \A i, j \in K : i # j => i < j \/ j < i
      OBVIOUS
    <3>2. \A i \in K : f[i] = Place(K, i) /\ Place(K, i) \in Nat
      BY <1>2
    <3> QED
      BY <1>3, <3>1, <3>2
  <2>3. f \in Injection(K, 1..n)
    BY <2>1, <2>2 DEF Injection, IsInjective
  <2>4. IsFiniteSet(1..n) /\ Cardinality(1..n) = n
    BY <1>1, FS_Interval
  <2> HIDE DEF f, n
  <2>5. f \in Surjection(K, 1..n)
    BY <2>3, <2>4, FS_Injection DEF n
  <2>6. \A k \in 1..n : \E i \in K : f[i] = k
    BY <2>5 DEF Surjection
  <2> QED
    BY <2>6 DEF f, n
<1> QED
  BY <1>1, <1>2, <1>3, <1>4

\* The elements that are left stay in their order.
LEMMA WithoutKeeps ==
  ASSUME NEW S, S \subseteq Nat, NEW s \in Seq(S), NEW bad
  PROVE  /\ Without(s, bad) \in Seq(S)
         /\ Range(Without(s, bad)) \subseteq Range(s)
         /\ Increasing(s) => Increasing(Without(s, bad))
<1> DEFINE K == {i \in DOMAIN s : s[i] \notin bad}
           n == Cardinality(K)
           w == Without(s, bad)
           Nth(k) == CHOOSE i \in K : Place(K, i) = k
<1>1. /\ Len(s) \in Nat /\ DOMAIN s = 1..Len(s) /\ \A i \in DOMAIN s : s[i] \in S
      /\ K \in SUBSET Nat /\ K \subseteq DOMAIN s
  BY LenProperties, ElementOfSeq
<1>2. IsFiniteSet(K)
  <2>1. IsFiniteSet(1..Len(s))
    BY <1>1, FS_Interval
  <2>2. K \in SUBSET (1..Len(s))
    BY <1>1
  <2> HIDE DEF K
  <2> QED
    BY <2>1, <2>2, FS_Subset
<1>3. w = [k \in 1..n |-> s[Nth(k)]]
  BY DEF Without, Place, UpTo
<1> HIDE DEF K, n, w, Nth
<1>4. /\ n \in Nat
      /\ \A i, j \in K : i < j => Place(K, i) < Place(K, j)
      /\ \A i \in K : Place(K, i) \in Nat
      /\ \A k \in 1..n : \E i \in K : Place(K, i) = k
  BY <1>1, <1>2, Places DEF n
<1>5. \A k \in 1..n : Nth(k) \in K /\ Place(K, Nth(k)) = k
  BY <1>4 DEF Nth
<1>6. \A k \in 1..n : w[k] = s[Nth(k)] /\ Nth(k) \in DOMAIN s
  BY <1>1, <1>3, <1>5
<1>7. w \in [1..n -> S]
  BY <1>1, <1>3, <1>6
<1>8. w \in Seq(S) /\ DOMAIN w = 1..n
  BY <1>4, <1>7
<1>9. Range(w) \subseteq Range(s)
  BY <1>6, <1>8 DEF Range
<1>10. ASSUME Increasing(s), NEW k \in 1..n, NEW l \in 1..n, k < l
       PROVE  w[k] < w[l]
  <2>1. Nth(k) \in Nat /\ Nth(l) \in Nat /\ Nth(k) \in K /\ Nth(l) \in K
    BY <1>1, <1>5
  <2>2. ~(Nth(l) < Nth(k)) /\ Nth(l) # Nth(k)
    BY <1>4, <1>5, <1>10, <2>1
  <2>3. Nth(k) < Nth(l)
    BY <2>1, <2>2
  <2> QED
    BY <1>6, <1>10, <2>3 DEF Increasing
<1> QED
  BY <1>8, <1>9, <1>10 DEF Increasing, w

-----------------------------------------------------------------------------
(* The order in which requests reach the wire.                             *)

\* The variables that the first invariant leaves out.
OtherTypes ==
    /\ senders \in BOOLEAN
    /\ commands \in Seq(Requests)
    /\ flight \in Seq(Requests)
    /\ wire \in Seq(Requests)
    /\ timer \in [Requests -> {"none", "armed", "missed"}]
    /\ pingSlot \in BOOLEAN
    /\ closer \in Verdicts \cup {"empty", "closed"}
    /\ reader \in Verdicts \cup {"running"}
    /\ writer \in {"select", "batch", "insert", "sending", "done"}
    /\ returned \in BOOLEAN

\* What is written, being written, prepared and received: each increases, and
\* comes before what comes after it.
Received == Range(batch) \cup Range(control)

LineInOrder ==
    /\ Increasing(wire) /\ Increasing(flight) /\ Increasing(commands)
    /\ \A q \in Range(wire), r \in Range(flight) \cup Range(commands) \cup Received : q < r
    /\ \A q \in Range(flight), r \in Range(commands) \cup Received : q < r
    /\ \A q \in Range(commands), r \in Received : q < r
    /\ \A q \in Range(wire) \cup Range(flight) \cup Range(commands) : outcome[q] # "idle"

\* The types, but for the queues of the writer.
LEMMA OtherTypesStep ==
  ASSUME IInv, OtherTypes, [Next]_vars PROVE OtherTypes'
<1> USE DEF OtherTypes, channelVars, writerVars
<1>a. \A s : Without(commands, s) \in Seq(Requests)
  BY WithoutKeeps, RequestNumbers
<1>b. <<>> \in Seq(Requests)
  BY EmptyQueue
<1>1. ASSUME NEW r \in Requests, Submit(r) PROVE OtherTypes'
  BY <1>1 DEF Submit
<1>2. ASSUME NEW r \in Requests, ReadReply(r) PROVE OtherTypes'
  BY <1>2 DEF ReadReply
<1>3. ASSUME NEW r \in Requests, TimerElapses(r) PROVE OtherTypes'
  BY <1>3 DEF TimerElapses
<1>4. ASSUME SendersGone PROVE OtherTypes'
  BY <1>4 DEF SendersGone
<1>5. ASSUME NEW m \in Verdicts \cup {"closed"}, CloserSpeaks(m) PROVE OtherTypes'
  BY <1>5 DEF CloserSpeaks
<1>6. ASSUME ReaderCloses PROVE OtherTypes'
  BY <1>6 DEF ReaderCloses, CloserVerdict, Verdicts
<1>7. ASSUME RemoteEnds PROVE OtherTypes'
  BY <1>7 DEF RemoteEnds
<1>8. ASSUME ReadPing PROVE OtherTypes'
  BY <1>8 DEF ReadPing
<1>9. ASSUME WriterPong PROVE OtherTypes'
  BY <1>b, <1>9 DEF WriterPong, WriterDone
<1>10. ASSUME WriterFollowsReader PROVE OtherTypes'
  BY <1>b, <1>10 DEF WriterFollowsReader, WriterDone
<1>11. ASSUME WriterReceives PROVE OtherTypes'
  BY <1>b, <1>11 DEF WriterReceives, WriterDone
<1>12. ASSUME WriterExpired PROVE OtherTypes'
  BY <1>12 DEF WriterExpired
<1>13. ASSUME WriterArms PROVE OtherTypes'
  BY <1>13 DEF WriterArms, TimerOf
<1>14. ASSUME WriterInserts PROVE OtherTypes'
  <2>1. Append(commands, Head(batch)) \in Seq(Requests)
    BY <1>14, HeadOfBatch, AppendTo DEF WriterInserts, IInv, EmptyWhere
  <2> QED
    BY <1>14, <2>1 DEF WriterInserts
<1>15. ASSUME WriterEncodes PROVE OtherTypes'
  <2>1. PICK bad \in SUBSET Range(commands) :
          /\ timer' = [r \in Requests |-> IF r \in bad \cap replyMap
                                          THEN "none" ELSE timer[r]]
          /\ flight' = Without(commands, bad)
    BY <1>15 DEF WriterEncodes
  <2>2. flight' \in Seq(Requests) /\ timer' \in [Requests -> {"none", "armed", "missed"}]
    BY <1>a, <2>1
  <2> QED
    BY <1>15, <1>b, <2>2 DEF WriterEncodes
<1>16. ASSUME WriterSends PROVE OtherTypes'
  <2>1. wire \o flight \in Seq(Requests)
    BY ConcatProperties
  <2> QED
    BY <1>16, <1>b, <2>1 DEF WriterSends, WriterDone
<1>17. ASSUME HandlerReturns PROVE OtherTypes'
  BY <1>17 DEF HandlerReturns
<1>18. CASE UNCHANGED vars
  BY <1>18 DEF vars
<1> QED
  BY <1>1, <1>2, <1>3, <1>4, <1>5, <1>6, <1>7, <1>8, <1>9, <1>10, <1>11, <1>12,
     <1>13, <1>14, <1>15, <1>16, <1>17, <1>18 DEF Next, Writer

\* A step after which what was on its way still is, or is gone, and what waits
\* for the writer has not grown.
LEMMA LineKept ==
  ASSUME IInv, IInv', LineInOrder,
         wire' = wire, flight' \in {flight, <<>>}, commands' \in {commands, <<>>},
         Received' \subseteq Received,
         \A r \in Requests : outcome'[r] = "idle" => outcome[r] = "idle",
         Range(wire) \cup Range(flight) \cup Range(commands) \subseteq Requests
  PROVE  LineInOrder'
<1>1. /\ Increasing(wire') /\ Increasing(flight') /\ Increasing(commands')
      /\ Range(wire') = Range(wire) /\ Range(flight') \subseteq Range(flight)
      /\ Range(commands') \subseteq Range(commands)
  BY EmptyQueue DEF LineInOrder
<1> QED
  BY <1>1 DEF LineInOrder

\* The requests keep their order.
LEMMA LineInOrderStep ==
  ASSUME IInv, OtherTypes, LineInOrder, [Next]_vars PROVE LineInOrder'
<1> USE DEF channelVars, writerVars
<1>a. IInv'
  BY NextKeepsIInv
<1>b. /\ commands \in Seq(Requests) /\ flight \in Seq(Requests) /\ wire \in Seq(Requests)
      /\ commands \in Seq(Nat) /\ flight \in Seq(Nat) /\ wire \in Seq(Nat)
      /\ Range(wire) \cup Range(flight) \cup Range(commands) \subseteq Requests
      /\ Requests \subseteq Nat
  BY RequestNumbers, RangeOfSeq DEF OtherTypes
<1>c. ASSUME NEW S \in SUBSET Requests, NEW a, a # "idle", outcome' = Answered(S, a)
      PROVE  \A r \in Requests : outcome'[r] = "idle" => outcome[r] = "idle"
  BY <1>c DEF Answered
<1>d. ASSUME WriterDone, UNCHANGED <<wire, batch>> PROVE LineInOrder'
  <2>1. Range(control) \in SUBSET Requests
    BY RangeOfSeq DEF IInv, Types
  <2>2. Received' \subseteq Received
    BY <1>d, EmptyQueue DEF WriterDone, Received
  <2> QED
    BY <1>a, <1>b, <1>c, <1>d, <2>1, <2>2, LineKept DEF WriterDone
<1>1. ASSUME NEW r \in Requests, Submit(r) PROVE LineInOrder'
  <2>1. /\ outcome[r] = "idle" /\ UNCHANGED <<batch, wire, flight, commands>>
        /\ \A q \in 1..(r - 1) : outcome[q] # "idle"
    BY <1>1 DEF Submit
  <2>2. ASSUME NEW q \in Requests, outcome[q] # "idle" PROVE q < r
    <3>1. q # r /\ ~(r < q)
      BY <2>1, <2>2 DEF IInv, SentInOrder
    <3> QED
      BY <1>b, <3>1
  <2>3. \A q \in Range(wire) \cup Range(flight) \cup Range(commands) : q < r /\ q # r
    BY <1>b, <2>1, <2>2 DEF LineInOrder
  <2>4. Received' \subseteq Received \cup {r}
    <3>1. Range(Append(control, r)) = Range(control) \cup {r}
      BY AppendTo DEF IInv, Types
    <3>2. control' = control \/ control' = Append(control, r)
      BY <1>1 DEF Submit
    <3> QED
      BY <2>1, <3>1, <3>2 DEF Received
  <2>5. \A q \in Requests : q # r => outcome'[q] = outcome[q]
    BY <1>1 DEF Submit, Answered
  <2> QED
    BY <1>b, <2>1, <2>3, <2>4, <2>5 DEF LineInOrder
<1>2. ASSUME NEW r \in Requests, ReadReply(r) PROVE LineInOrder'
  BY <1>2, <1>a, <1>b, <1>c, LineKept DEF ReadReply, Received
<1>3. ASSUME NEW r \in Requests, TimerElapses(r) PROVE LineInOrder'
  <2>1. {r} \cap replyMap \in SUBSET Requests
    OBVIOUS
  <2> QED
    BY <1>3, <1>a, <1>b, <1>c, <2>1, LineKept DEF TimerElapses, Received
<1>4. CASE \/ SendersGone \/ ReaderCloses \/ RemoteEnds \/ ReadPing \/ WriterArms
           \/ \E m \in Verdicts \cup {"closed"} : CloserSpeaks(m)
  BY <1>4, <1>a, <1>b, LineKept DEF SendersGone, ReaderCloses, RemoteEnds, ReadPing,
     WriterArms, CloserSpeaks, Received
<1>5. CASE WriterPong \/ WriterFollowsReader
  <2>1. CASE WriterDone
    BY <1>5, <1>d, <2>1 DEF WriterPong, WriterFollowsReader
  <2>2. CASE UNCHANGED <<outcome, control, commands, flight, wire, batch>>
    BY <1>a, <1>b, <2>2, LineKept DEF Received
  <2> QED
    BY <1>5, <2>1, <2>2 DEF WriterPong, WriterFollowsReader
<1>6. ASSUME WriterReceives PROVE LineInOrder'
  <2>1. CASE WriterDone /\ UNCHANGED batch
    BY <1>6, <1>d, <2>1 DEF WriterReceives
  <2>2. ASSUME NEW n, n = (IF Len(control) < BatchMax THEN Len(control) ELSE BatchMax),
               batch' = SubSeq(control, 1, n),
               control' = SubSeq(control, n + 1, Len(control)),
               UNCHANGED <<outcome, commands, flight>>
        PROVE  LineInOrder'
    <3>1. control \in Seq(Requests) /\ n \in 0..Len(control)
      BY <2>2, LenProperties, BoundsAssumption DEF IInv, Types
    <3>2. Received' \subseteq Received
      BY <2>2, <3>1, CutAt DEF Received
    <3>3. UNCHANGED wire
      BY <1>6 DEF WriterReceives
    <3> QED
      BY <1>a, <1>b, <2>2, <3>2, <3>3, LineKept
  <2> QED
    BY <1>6, <2>1, <2>2 DEF WriterReceives
<1>7. ASSUME WriterExpired PROVE LineInOrder'
  <2>1. /\ UNCHANGED <<control, wire, flight, commands>> /\ batch' = <<>>
        /\ \A r \in Requests : outcome'[r] = "idle" => outcome[r] = "idle"
    BY <1>7 DEF WriterExpired
  <2>2. Received' \subseteq Received
    BY <2>1, EmptyQueue DEF Received
  <2> QED
    BY <1>a, <1>b, <2>1, <2>2, LineKept
<1>8. ASSUME WriterInserts PROVE LineInOrder'
  <2> DEFINE h == Head(batch)
  <2>1. /\ batch # <<>> /\ commands' = Append(commands, h) /\ batch' = Tail(batch)
        /\ UNCHANGED <<control, wire, flight, outcome>>
    BY <1>8 DEF WriterInserts, IInv, EmptyWhere
  <2>2. /\ h \in Requests /\ Range(batch) = {h} \cup Range(batch')
        /\ batch \in Seq(Nat) /\ Increasing(batch)
    BY <2>1, HeadOfBatch, RequestNumbers DEF IInv, Types, SentInOrder
  <2>3. \A r \in Range(batch') : h < r
    BY <2>1, <2>2, IncreasingTail
  <2>4. \A r \in Range(control) : h < r
    BY <2>2 DEF IInv, SentInOrder
  <2>5. \A q \in Range(wire) \cup Range(flight) \cup Range(commands) : q < h
    BY <2>2 DEF LineInOrder, Received
  <2> HIDE DEF h
  <2>6. Increasing(commands') /\ Range(commands') = Range(commands) \cup {h}
    BY <1>b, <2>1, <2>2, <2>5, AppendTo, IncreasingAppend DEF LineInOrder
  <2>7. outcome[h] # "idle"
    BY <2>2 DEF IInv, PendingIsHeld
  <2>8. Received' \subseteq Received /\ \A r \in Received' : h < r
    BY <2>1, <2>2, <2>3, <2>4 DEF Received
  <2> QED
    BY <2>1, <2>5, <2>6, <2>7, <2>8 DEF LineInOrder
<1>9. ASSUME WriterEncodes PROVE LineInOrder'
  <2>1. PICK bad \in SUBSET Range(commands) :
          /\ outcome' = Answered(bad \cap replyMap, "InappropriateProtocol")
          /\ flight' = Without(commands, bad)
    BY <1>9 DEF WriterEncodes
  <2>2. /\ commands' = <<>> /\ UNCHANGED <<wire, batch, control>>
    BY <1>9 DEF WriterEncodes
  <2>3. Increasing(flight') /\ Range(flight') \subseteq Range(commands)
    BY <1>b, <2>1, WithoutKeeps DEF LineInOrder
  <2>4. bad \cap replyMap \in SUBSET Requests
    BY <1>b
  <2>5. \A r \in Requests : outcome'[r] = "idle" => outcome[r] = "idle"
    BY <1>c, <2>1, <2>4
  <2> QED
    BY <1>b, <2>2, <2>3, <2>5, EmptyQueue DEF LineInOrder, Received
<1>10. ASSUME WriterSends PROVE LineInOrder'
  <2>1. CASE WriterDone /\ UNCHANGED wire
    BY <1>10, <1>d, <2>1 DEF WriterSends
  <2>2. CASE wire' = wire \o flight /\ flight' = <<>> /\ UNCHANGED <<outcome, control, commands>>
    <3>1. /\ Increasing(wire') /\ Range(wire') \subseteq Range(wire) \cup Range(flight)
      BY <1>b, <2>2, IncreasingConcat DEF LineInOrder, Range
    <3>2. UNCHANGED batch
      BY <1>10 DEF WriterSends
    <3> QED
      BY <2>2, <3>1, <3>2, EmptyQueue DEF LineInOrder, Received
  <2> QED
    BY <1>10, <2>1, <2>2 DEF WriterSends
<1>11. ASSUME HandlerReturns PROVE LineInOrder'
  <2>1. replyMap \in SUBSET Requests
    BY DEF IInv, Types
  <2> QED
    BY <1>11, <1>a, <1>b, <1>c, <2>1, LineKept DEF HandlerReturns, Received
<1>12. CASE UNCHANGED vars
  BY <1>12, <1>a, <1>b, LineKept DEF vars, Received
<1> QED
  BY <1>1, <1>2, <1>3, <1>4, <1>5, <1>6, <1>7, <1>8, <1>9, <1>10, <1>11, <1>12
     DEF Next, Writer

\* All three hold in every state.
LEMMA LineInvariance == Spec => [](IInv /\ OtherTypes /\ LineInOrder)
<1>1. Init => OtherTypes /\ LineInOrder
  BY EmptyQueue DEF Init, OtherTypes, LineInOrder, Received, Verdicts
<1>2. IInv /\ OtherTypes /\ [Next]_vars => OtherTypes'
  BY OtherTypesStep
<1>3. IInv /\ OtherTypes /\ LineInOrder /\ [Next]_vars => LineInOrder'
  BY LineInOrderStep
<1> QED
  BY <1>1, <1>2, <1>3, Invariance, PTL DEF Spec

\* The variables have their types: whatever is left out of a batch or a frame,
\* the channels and vectors of websocket_handler hold requests.
THEOREM TypeCorrect == Spec => []TypeOK
<1>1. IInv /\ OtherTypes => TypeOK
  BY DEF IInv, Types, OtherTypes, TypeOK, Outcomes
<1> QED
  BY <1>1, LineInvariance, PTL

\* Requests reach the wire in the order in which they were sent, for any size
\* of the channel and of a batch, whatever is dropped, expires or can't be
\* encoded on the way (the writer's loop and encode_frames).
THEOREM WrittenInOrder == Spec => []WireInOrder
<1>1. ASSUME IInv, OtherTypes, LineInOrder PROVE WireInOrder
  <2> DEFINE l1 == wire \o flight
             l2 == l1 \o commands
             l3 == l2 \o batch
             l4 == l3 \o control
  <2>1. /\ wire \in Seq(Nat) /\ flight \in Seq(Nat) /\ commands \in Seq(Nat)
        /\ batch \in Seq(Nat) /\ control \in Seq(Nat)
        /\ Increasing(batch) /\ Increasing(control)
        /\ \A q \in Range(batch), r \in Range(control) : q < r
    BY <1>1, RequestNumbers DEF OtherTypes, IInv, Types, SentInOrder
  <2>2. /\ l1 \in Seq(Nat) /\ Increasing(l1)
        /\ Range(l1) \subseteq Range(wire) \cup Range(flight)
    BY <1>1, <2>1, IncreasingConcat DEF LineInOrder
  <2> HIDE DEF l1
  <2>3. /\ l2 \in Seq(Nat) /\ Increasing(l2)
        /\ Range(l2) \subseteq Range(wire) \cup Range(flight) \cup Range(commands)
    <3>1. \A q \in Range(l1), r \in Range(commands) : q < r
      BY <1>1, <2>2 DEF LineInOrder
    <3> QED
      BY <1>1, <2>1, <2>2, <3>1, IncreasingConcat DEF LineInOrder
  <2> HIDE DEF l2
  <2>4. \A q \in Range(l2), r \in Received : q < r
    BY <1>1, <2>3 DEF LineInOrder
  <2>5. /\ l3 \in Seq(Nat) /\ Increasing(l3) /\ Range(l3) \subseteq Range(l2) \cup Range(batch)
    BY <2>1, <2>3, <2>4, IncreasingConcat DEF Received
  <2> HIDE DEF l3
  <2>6. Increasing(l4)
    <3>1. \A q \in Range(l3), r \in Range(control) : q < r
      BY <2>1, <2>4, <2>5 DEF Received
    <3> QED
      BY <2>1, <2>5, <3>1, IncreasingConcat
  <2> QED
    BY <2>6 DEF WireInOrder, Increasing, l1, l2, l3, l4
<1> QED
  BY <1>1, LineInvariance, PTL

=============================================================================
