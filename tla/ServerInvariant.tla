--------------------------- MODULE ServerInvariant ---------------------------
(***************************************************************************)
(* The inductive invariant of Server, and its proof but for what ties the  *)
(* parts together (ServerProofs): what the queues, the types and the       *)
(* limits have to do with each other.                                      *)
(***************************************************************************)
EXTENDS Server, QueueLemmas

(***************************************************************************)
(* The inductive invariant.  It follows a command on its way: it waits in  *)
(* one place of one queue, nothing is known of it before the reader gets   *)
(* to it, its task is the only one that may still answer it, and what was  *)
(* said is not said again.                                                 *)
(***************************************************************************)
Queue == Range(inbox) \cup Range(incoming)

\* The reader waits in the middle of the command at the head of the inbox.
Midway == reader \in {"on_connect", "permit"}

\* A command is queued once; pongs are all alike.
Once(s) == \A j, k \in DOMAIN s : s[j] = s[k] /\ s[j] # Pong => j = k

QueuedOnce ==
    /\ Once(inbox) /\ Once(incoming)
    /\ Range(inbox) \cap Range(incoming) \subseteq {Pong}

ReaderPlace ==
    /\ Midway => inbox # <<>> /\ Head(inbox) # Pong
    /\ reader = "permit" => kind[Head(inbox)] \in {"call", "subscribe"}
    /\ reader = "on_connect" => kind[Head(inbox)] = "connect"
    /\ reader = "done" => inbox = <<>> /\ incoming = <<>>
    /\ reader = "closing" => inbox = <<>> /\ \E code \in Codes : sending = Error(code)
    /\ reader \notin {"send", "closing"} => sending = Push

\* A command that is queued has no task and, but for the one the reader is
\* busy with, no kind yet.
QueuedIsFresh ==
    \A i \in Commands :
        /\ outcome[i] = "idle" => kind[i] = "none" /\ task[i] = "none"
        /\ i \in Queue =>
              /\ outcome[i] = "pending" /\ task[i] = "none"
              /\ kind[i] = "none" \/ (Midway /\ Head(inbox) = i)

\* Calls and subscriptions have tasks, and only subscriptions go on after
\* their answer or are aborted by the reader.
TaskKinds ==
    \A t \in Commands :
        /\ task[t] # "none" => kind[t] \in {"call", "subscribe"}
        /\ task[t] \notin {"none", "handler", "answer", "done"} => Subscribing(t)
        /\ t \in aborted /\ reader # "done" => Subscribing(t)

Said(i) ==
    \/ Answer(i) \in Range(replyCh) \cup Range(flight)
    \/ reader = "send" /\ sending = Answer(i)

Unanswered(i) == i \in Queue \/ HoldsPermit(i)

\* Who may still answer a command has not done so, and what was said has not
\* come to the client; nothing was said again.
AnsweredOnce ==
    \A i \in Commands :
        /\ Unanswered(i) =>
              /\ ~Said(i)
              /\ outcome[i] = "pending" \/ (returned /\ outcome[i] = "dropped")
        /\ Said(i) => outcome[i] = "pending"
        /\ outcome[i] # "again"

\* An answer is in one place.
Distinct(f) ==
    \A i \in Commands : \A j, k \in DOMAIN f :
        f[j] = Answer(i) /\ f[k] = Answer(i) => j = k

SaidOnce ==
    /\ Distinct(replyCh) /\ Distinct(flight)
    /\ \A i \in Commands :
          /\ Answer(i) \in Range(replyCh) => Answer(i) \notin Range(flight)
          /\ reader = "send" /\ sending = Answer(i) =>
                Answer(i) \notin Range(replyCh) \cup Range(flight)

\* What is over is empty, and the writer is over when it has the code of the
\* Close frame.
EndsEmpty ==
    /\ writer = "done" => replyCh = <<>>
    /\ writer # "sending" => flight = <<>> /\ failure = 0
    /\ returned => reader = "done" /\ writer = "done"
    /\ closeCode # 0 <=> writer \in {"closing", "done"}

\* The reader leaves an error behind.
EndIsTold == reader = "done" => Doomed

\* The ping comes before its pong is due.
PingFirst ==
    /\ ~(params.ping /\ params.pong) => pongIn = Far
    /\ session = "Connected" \/ reader = "on_connect" =>
          pinged \/ pingIn <= pongIn
    /\ reader = "send" /\ sending = Push => pinged

\* The limits of TypeOK, and the finite number of subscriptions.
Limits ==
    /\ Len(replyCh) <= ReplyCap
    /\ Cardinality(Permits) <= MaxRequests
    /\ IsFiniteSet(Entries) /\ Cardinality(Entries) <= MaxSubscriptions

IInv ==
    /\ Types
    /\ Limits
    /\ QueuedOnce
    /\ ReaderPlace
    /\ QueuedIsFresh
    /\ TaskKinds
    /\ AnsweredOnce
    /\ SaidOnce
    /\ EndsEmpty
    /\ EndIsTold
    /\ PingFirst
    /\ EntriesMatchTasks
    /\ NoSilentLoss
    /\ NoPongMeansSilence

-----------------------------------------------------------------------------
(* Messages, delays and batches.                                           *)

\* Messages and codes.
LEMMA Messages ==
  /\ Push \in Message
  /\ \A i \in Commands : Answer(i) \in Message
  /\ \A code \in Codes : Error(code) \in Message
  /\ {ConnectionClosed, ServerError, WriteError, NoPong, InvalidToken, BadRequest,
      Stale, InappropriateProtocol} \subseteq Codes
  /\ 0 \notin Codes /\ 0 \notin Commands /\ ConnectionClosed # NoPong /\ Stale # NoPong
BY ServerAssumption
   DEF Message, Push, Answer, Error, Commands, Codes, ConnectionClosed, ServerError,
       WriteError, NoPong, InvalidToken, BadRequest, Stale, InappropriateProtocol

\* Messages that are not the same.
LEMMA Different ==
  /\ \A code, other \in Codes : Error(code) = Error(other) => code = other
  /\ \A code \in Codes : Error(code) # Push
  /\ \A i \in Commands : Answer(i) # Push
  /\ \A i, j \in Commands : Answer(i) = Answer(j) => i = j
  /\ \A i \in Commands, code \in Codes : Answer(i) # Error(code)
BY Messages DEF Error, Push, Answer

\* Delays.
LEMMA Delays ==
  /\ Far \in Nat \ {0} /\ PingInterval \in Nat \ {0} /\ PongTimeout \in Nat \ {0}
  /\ PingDelay \in 0..Far /\ PongDelay \in 0..Far
  /\ PingDelay <= PongDelay
  /\ ~(params.ping /\ params.pong) => PongDelay = Far
  /\ \A n \in 0..Far : Elapsed(n) \in 0..Far
BY ServerAssumption DEF Far, PingDelay, PongDelay, Elapsed

\* A batch is not empty, and not more than there is.
LEMMA BatchSizes ==
  ASSUME QueueTypes, replyCh # <<>>
  PROVE  BatchSize \in 1..Len(replyCh)
BY ServerAssumption, EmptySeq, LenProperties DEF QueueTypes, BatchSize

\* What encode_frames makes of replies: some of them, or all.
LEMMA Encodings ==
  ASSUME NEW replies \in Seq(Message), NEW f \in Encoded(replies)
  PROVE  /\ DOMAIN f \subseteq DOMAIN replies /\ \A k \in DOMAIN f : f[k] = replies[k]
         /\ f \in [DOMAIN f -> Message] /\ Range(f) \subseteq Range(replies)
         /\ f = replies \/ params.json
<1>1. \A k \in DOMAIN replies : replies[k] \in Message
  BY LenProperties
<1>2. CASE f = replies
  BY <1>1, <1>2, LenProperties DEF Range
<1>3. ASSUME NEW kept \in SUBSET DOMAIN replies, f = [k \in kept |-> replies[k]]
      PROVE  /\ DOMAIN f \subseteq DOMAIN replies /\ \A k \in DOMAIN f : f[k] = replies[k]
             /\ f \in [DOMAIN f -> Message] /\ Range(f) \subseteq Range(replies)
  BY <1>1, <1>3 DEF Range
<1>4. CASE params.json
  <2>1. PICK kept \in SUBSET DOMAIN replies : f = [k \in kept |-> replies[k]]
    BY <1>4 DEF Encoded, Restrict
  <2> QED
    BY <1>3, <1>4, <2>1
<1>5. CASE ~params.json
  BY <1>2, <1>5 DEF Encoded
<1> QED
  BY <1>4, <1>5

-----------------------------------------------------------------------------
(* Types.                                                                  *)

\* Tasks and entries.
LEMMA TaskTypesStep ==
  ASSUME Types, [Next]_vars PROVE TaskTypes'
<1> USE DEF Types, SessionTypes, TaskTypes, Running, Live, Entered, Awaiting,
   commandVars, taskVars, readerVars, timerVars, writerVars
<1>1. ASSUME NEW i \in Commands, ProcessCall(i) PROVE TaskTypes'
  BY <1>1 DEF ProcessCall, Permitted, Spawned, Replies
<1>2. ASSUME NEW i \in Commands, ProcessSubscribe(i) PROVE TaskTypes'
  <2>1. CASE Spawned(i) /\ subscriptions' = [subscriptions EXCEPT ![chan[i]] = i]
    BY <1>2, <2>1 DEF ProcessSubscribe, Spawned
  <2>2. CASE UNCHANGED <<subscriptions, task>>
    BY <1>2, <2>2 DEF ProcessSubscribe
  <2> QED
    BY <1>2, <2>1, <2>2 DEF ProcessSubscribe
<1>3. ASSUME NEW i \in Commands, NEW c \in Channels, ProcessUnsubscribe(i, c)
      PROVE  TaskTypes'
  BY <1>3 DEF ProcessUnsubscribe, Processing, Known, Replies, EntryRemoved,
     Aborted
<1>4. ASSUME ReaderEnds PROVE TaskTypes'
  BY <1>4 DEF ReaderEnds, Sent, Aborted
<1>5. ASSUME NEW t \in Commands, HandlerEnds(t) PROVE TaskTypes'
  BY <1>5 DEF HandlerEnds
<1>6. ASSUME NEW t \in Commands, TaskRemovesEntry(t) PROVE TaskTypes'
  BY <1>6 DEF TaskRemovesEntry, EntryRemoved, Aborted
<1>7. ASSUME NEW t \in Commands, TaskCancelled(t) PROVE TaskTypes'
  BY <1>7 DEF TaskCancelled, Gone
<1>8. ASSUME NEW t \in Commands, StreamYields(t) PROVE TaskTypes'
  BY <1>8 DEF StreamYields
<1>9. ASSUME NEW t \in Commands, TaskSends(t) PROVE TaskTypes'
  BY <1>9 DEF TaskSends, Sent, Gone
<1>10. CASE CloserFires \/ PingFires \/ ReadMessage \/ PongTimerFires \/
            ProcessPong \/ (\E i \in Commands : ProcessConnect(i)) \/
            (\E i \in Commands : ConnectSettled(i)) \/
            (\E i \in Commands : ProcessUnexpected(i)) \/
            (\E i \in Commands : ProcessLimited(i)) \/
            (\E i \in Commands : ProcessOther(i))
  BY <1>10 DEF CloserFires, PingFires, ReadMessage, PongTimerFires,
     ProcessPong, ProcessConnect, ConnectSettled, ProcessUnexpected,
     ProcessLimited, ProcessOther
<1>11. CASE ReaderSends \/ RemoteEnds \/ WriterReceives \/ WriterSends \/
            WriterEnds \/ Arrives \/ Tick \/ ServeReturns
  BY <1>11 DEF ReaderSends, RemoteEnds, WriterReceives, WriterSends,
     WriterEnds, Arrives, Tick, ServeReturns
<1>12. CASE UNCHANGED vars
  BY <1>12 DEF vars
<1> QED
  BY <1>1, <1>2, <1>3, <1>4, <1>5, <1>6, <1>7, <1>8, <1>9, <1>10, <1>11, <1>12
     DEF Next, Reader, Select, Process, Writer, TaskStep, TaskAdvances

\* The session and the commands.
LEMMA SessionTypesStep ==
  ASSUME Types, [Next]_vars PROVE SessionTypes'
<1> USE DEF Types, SessionTypes, commandVars, taskVars, readerVars, timerVars,
   writerVars
<1>1. ASSUME ReadMessage PROVE SessionTypes'
  BY <1>1 DEF ReadMessage, Selecting, Decoded
<1>2. ASSUME NEW i \in Commands, ProcessConnect(i) PROVE SessionTypes'
  BY <1>2 DEF ProcessConnect, Processing, Known, ResetTimers, PingDelay,
     PongDelay
<1>3. ASSUME NEW i \in Commands, ConnectSettled(i) PROVE SessionTypes'
  BY <1>3 DEF ConnectSettled, Replies, RepliesError
<1>4. ASSUME NEW i \in Commands, ProcessUnexpected(i) PROVE SessionTypes'
  BY <1>4 DEF ProcessUnexpected, Processing, Known, Replies, RepliesError
<1>5. ASSUME NEW i \in Commands, ProcessLimited(i) PROVE SessionTypes'
  BY <1>5 DEF ProcessLimited, Processing, Known
<1>6. ASSUME NEW i \in Commands, NEW c \in Channels, ProcessUnsubscribe(i, c)
      PROVE  SessionTypes'
  BY <1>6 DEF ProcessUnsubscribe, Processing, Known, Replies, EntryRemoved,
     Aborted
<1>7. ASSUME NEW i \in Commands, ProcessOther(i) PROVE SessionTypes'
  BY <1>7 DEF ProcessOther, Processing, Known, Replies
<1>8. ASSUME WriterSends PROVE SessionTypes'
  BY <1>8 DEF WriterSends, Discarded
<1>9. ASSUME NEW t \in Commands, TaskCancelled(t) PROVE SessionTypes'
  BY <1>9 DEF TaskCancelled, Gone
<1>10. ASSUME Arrives PROVE SessionTypes'
  BY <1>10 DEF Arrives
<1>11. ASSUME ServeReturns PROVE SessionTypes'
  BY <1>11 DEF ServeReturns
<1>12. CASE CloserFires \/ PingFires \/ PongTimerFires \/ ProcessPong \/
            (\E i \in Commands : ProcessCall(i)) \/
            (\E i \in Commands : ProcessSubscribe(i)) \/ RemoteEnds
  BY <1>12 DEF CloserFires, PingFires, PongTimerFires, ProcessPong,
     ProcessCall, ProcessSubscribe, RemoteEnds
<1>13. CASE (\E t \in Commands : HandlerEnds(t)) \/
            (\E t \in Commands : TaskRemovesEntry(t)) \/
            (\E t \in Commands : StreamYields(t)) \/ Tick
  BY <1>13 DEF HandlerEnds, TaskRemovesEntry, StreamYields, Tick
<1>14. CASE UNCHANGED vars
  BY <1>14 DEF vars
<1>15. ASSUME ReaderSends \/ ReaderEnds PROVE SessionTypes'
  BY <1>15 DEF ReaderSends, ReaderEnds, Sent, Discarded
<1>16. ASSUME NEW t \in Commands, TaskSends(t) PROVE SessionTypes'
  <2>1. UNCHANGED <<params, session, kind, chan, returned>>
    BY <1>16 DEF TaskSends
  <2>2. \E m \in Message : Sent(m)
    BY <1>16, Messages DEF TaskSends
  <2> QED
    BY <2>1, <2>2 DEF Sent, Discarded
<1>17. ASSUME WriterReceives \/ WriterEnds PROVE SessionTypes'
  BY <1>17 DEF WriterReceives, WriterEnds, Discarded
<1> QED
  BY <1>1, <1>2, <1>3, <1>4, <1>5, <1>6, <1>7, <1>8, <1>9, <1>10, <1>11, <1>12,
     <1>13, <1>14, <1>15, <1>16, <1>17 DEF Next, Reader, Select, Process, Writer, TaskStep,
     TaskAdvances

\* The writer.
LEMMA WriterTypesStep ==
  ASSUME Types, [Next]_vars PROVE WriterTypes'
<1> USE DEF Types, WriterTypes, commandVars, taskVars, readerVars, timerVars,
   writerVars
<1>1. ASSUME WriterReceives PROVE WriterTypes'
  <2>1. BatchSize \in 0..Len(replyCh) /\ replyCh \in Seq(Message)
    BY <1>1, BatchSizes DEF WriterReceives, QueueTypes
  <2> DEFINE batch == SubSeq(replyCh, 1, BatchSize)
  <2>2. batch \in Seq(Message)
    BY <2>1, CutAt
  <2>3. PICK n \in 0..Len(batch) :
          /\ flight' \in Encoded(SubSeq(batch, 1, n))
          /\ failure' = Verdict(batch, n, flight')
    BY <1>1 DEF WriterReceives
  <2> HIDE DEF batch
  <2>4. SubSeq(batch, 1, n) \in Seq(Message)
    BY <2>2, CutAt
  <2>5. flight' \in [DOMAIN flight' -> Message]
    BY <2>3, <2>4, Encodings
  <2>6. Failed(batch, n) \in Codes \cup {0}
    <3>1. n # Len(batch) => batch[n + 1] \in Message
      BY <2>2, LenProperties, ElementOfSeq
    <3> QED
      BY <3>1 DEF Failed, Message
  <2> QED
    BY <1>1, <2>3, <2>5, <2>6, Messages DEF WriterReceives, Verdict
<1>2. ASSUME WriterSends PROVE WriterTypes'
  <2>1. <<>> \in [DOMAIN <<>> -> Message]
    OBVIOUS
  <2> QED
    BY <1>2, <2>1, Messages DEF WriterSends
<1>3. ASSUME WriterEnds PROVE WriterTypes'
  BY <1>3 DEF WriterEnds
<1>4. CASE CloserFires \/ PingFires \/ ReadMessage \/ PongTimerFires \/
           ProcessPong \/ (\E i \in Commands : ProcessConnect(i)) \/
           (\E i \in Commands : ConnectSettled(i)) \/
           (\E i \in Commands : ProcessUnexpected(i)) \/
           (\E i \in Commands : ProcessLimited(i)) \/
           (\E i \in Commands : ProcessCall(i))
  BY <1>4 DEF CloserFires, PingFires, ReadMessage, PongTimerFires, ProcessPong,
     ProcessConnect, ConnectSettled, ProcessUnexpected, ProcessLimited,
     ProcessCall
<1>5. CASE (\E i \in Commands : ProcessSubscribe(i)) \/
           (\E i \in Commands, c \in Channels : ProcessUnsubscribe(i, c)) \/
           (\E i \in Commands : ProcessOther(i)) \/ ReaderSends \/
           ReaderEnds \/ RemoteEnds \/ (\E t \in Commands : HandlerEnds(t)) \/
           (\E t \in Commands : TaskRemovesEntry(t)) \/
           (\E t \in Commands : TaskCancelled(t)) \/
           (\E t \in Commands : StreamYields(t))
  BY <1>5 DEF ProcessSubscribe, ProcessUnsubscribe, ProcessOther, ReaderSends,
     ReaderEnds, RemoteEnds, HandlerEnds, TaskRemovesEntry, TaskCancelled,
     StreamYields
<1>6. CASE (\E t \in Commands : TaskSends(t)) \/ Arrives \/ Tick \/
           ServeReturns
  BY <1>6 DEF TaskSends, Arrives, Tick, ServeReturns
<1>7. CASE UNCHANGED vars
  BY <1>7 DEF vars
<1> QED
  BY <1>1, <1>2, <1>3, <1>4, <1>5, <1>6, <1>7 DEF Next, Reader, Select,
     Process, Writer, TaskStep, TaskAdvances

\* The reader and its timers.
LEMMA ReaderTypesStep ==
  ASSUME Types, [Next]_vars PROVE ReaderTypes'
<1> USE Messages, Delays DEF Types, ReaderTypes, commandVars, taskVars,
   readerVars, timerVars, writerVars
<1>1. ASSUME CloserFires PROVE ReaderTypes'
  BY <1>1 DEF CloserFires, Selecting, Break
<1>2. ASSUME PingFires PROVE ReaderTypes'
  BY <1>2 DEF PingFires, Selecting
<1>3. ASSUME PongTimerFires PROVE ReaderTypes'
  BY <1>3 DEF PongTimerFires, Selecting, Break, TimeoutCode
<1>4. ASSUME ProcessPong PROVE ReaderTypes'
  BY <1>4 DEF ProcessPong, Processing, ResetTimers, PingDelay, PongDelay
<1>5. ASSUME NEW i \in Commands, ProcessConnect(i) PROVE ReaderTypes'
  BY <1>5 DEF ProcessConnect, Processing, Known, ResetTimers, PingDelay,
     PongDelay
<1>6. ASSUME NEW i \in Commands, ConnectSettled(i) PROVE ReaderTypes'
  BY <1>6 DEF ConnectSettled, Replies, RepliesError
<1>7. ASSUME NEW i \in Commands, ProcessUnexpected(i) PROVE ReaderTypes'
  BY <1>7 DEF ProcessUnexpected, Processing, Known, Replies, RepliesError
<1>8. ASSUME NEW i \in Commands, ProcessLimited(i) PROVE ReaderTypes'
  BY <1>8 DEF ProcessLimited, Processing, Known
<1>9. ASSUME NEW i \in Commands, ProcessCall(i) PROVE ReaderTypes'
  BY <1>9 DEF ProcessCall, Permitted, Spawned, Replies
<1>10. ASSUME NEW i \in Commands, ProcessSubscribe(i) PROVE ReaderTypes'
  BY <1>10 DEF ProcessSubscribe, Permitted, Spawned, Replies, MaySubscribe
<1>11. ASSUME NEW i \in Commands, NEW c \in Channels, ProcessUnsubscribe(i, c)
       PROVE  ReaderTypes'
  BY <1>11 DEF ProcessUnsubscribe, Processing, Known, Replies, EntryRemoved,
     Aborted
<1>12. ASSUME NEW i \in Commands, ProcessOther(i) PROVE ReaderTypes'
  BY <1>12 DEF ProcessOther, Processing, Known, Replies
<1>13. ASSUME ReaderSends PROVE ReaderTypes'
  BY <1>13 DEF ReaderSends, Sent, PongDelay
<1>14. ASSUME ReaderEnds PROVE ReaderTypes'
  <2>1. Far \in 0..Far
    BY Delays
  <2>2. /\ reader' = "done" /\ sending' = Push /\ pingIn' = Far /\ pongIn' = Far
        /\ pinged' = FALSE
    BY <1>14 DEF ReaderEnds
  <2> QED
    BY <2>1, <2>2
<1>15. ASSUME RemoteEnds PROVE ReaderTypes'
  BY <1>15 DEF RemoteEnds, Selecting, Break
<1>16. ASSUME Tick PROVE ReaderTypes'
  BY <1>16 DEF Tick, Elapsed
<1>17. CASE ReadMessage \/ WriterReceives \/ WriterSends \/ WriterEnds \/
            (\E t \in Commands : HandlerEnds(t)) \/
            (\E t \in Commands : TaskRemovesEntry(t)) \/
            (\E t \in Commands : TaskCancelled(t)) \/
            (\E t \in Commands : StreamYields(t)) \/
            (\E t \in Commands : TaskSends(t)) \/ Arrives
  BY <1>17 DEF ReadMessage, WriterReceives, WriterSends, WriterEnds,
     HandlerEnds, TaskRemovesEntry, TaskCancelled, StreamYields, TaskSends,
     Arrives
<1>18. CASE ServeReturns
  BY <1>18 DEF ServeReturns
<1>19. CASE UNCHANGED vars
  BY <1>19 DEF vars
<1> QED
  BY <1>1, <1>2, <1>3, <1>4, <1>5, <1>6, <1>7, <1>8, <1>9, <1>10, <1>11, <1>12,
     <1>13, <1>14, <1>15, <1>16, <1>17, <1>18, <1>19 DEF Next, Reader, Select,
     Process, Writer, TaskStep, TaskAdvances

\* The queues.
LEMMA QueueTypesStep ==
  ASSUME Types, ReaderPlace, [Next]_vars PROVE QueueTypes'
<1> USE DEF Types, QueueTypes, ReaderTypes, commandVars, taskVars, readerVars,
   timerVars, writerVars
<1>a. \A m \in Message : Append(replyCh, m) \in Seq(Message)
  BY AppendTo
<1>b. \A i \in Commands \cup {Pong} : Append(incoming, i) \in Seq(Commands \cup {Pong})
  BY AppendTo
<1>c. inbox # <<>> => Tail(inbox) \in Seq(Commands \cup {Pong})
  BY TailOf
<1>d. reader \in {"permit", "on_connect"} => inbox # <<>>
  BY DEF ReaderPlace, Midway
<1>e. <<>> \in Seq(Commands \cup {Pong}) /\ <<>> \in Seq(Message)
  BY EmptySeq
<1>1. ASSUME ReadMessage PROVE QueueTypes'
  <2>1. PICK n \in 1..Len(incoming) :
          /\ inbox' \in Decoded(SubSeq(incoming, 1, n))
          /\ incoming' = SubSeq(incoming, n + 1, Len(incoming))
    BY <1>1 DEF ReadMessage
  <2>2. n \in 0..Len(incoming)
    OBVIOUS
  <2>3. /\ SubSeq(incoming, 1, n) \in Seq(Commands \cup {Pong})
        /\ incoming' \in Seq(Commands \cup {Pong})
    BY <2>1, <2>2, CutAt
  <2>4. inbox' \in Seq(Commands \cup {Pong})
    BY <2>1, <2>3, CutAt DEF Decoded
  <2> QED
    BY <1>1, <2>3, <2>4 DEF ReadMessage
<1>2. ASSUME ProcessPong PROVE QueueTypes'
  BY <1>2, <1>c DEF ProcessPong, Processing, ResetTimers, PingDelay, PongDelay
<1>3. ASSUME NEW i \in Commands, ConnectSettled(i) PROVE QueueTypes'
  BY <1>3, <1>c, <1>d DEF ConnectSettled, Replies, RepliesError
<1>4. ASSUME NEW i \in Commands, ProcessUnexpected(i) PROVE QueueTypes'
  BY <1>4, <1>c DEF ProcessUnexpected, Processing, Known, Replies, RepliesError
<1>5. ASSUME NEW i \in Commands, ProcessCall(i) PROVE QueueTypes'
  BY <1>5, <1>c, <1>d DEF ProcessCall, Permitted, Spawned, Replies
<1>6. ASSUME NEW i \in Commands, ProcessSubscribe(i) PROVE QueueTypes'
  BY <1>6, <1>c, <1>d DEF ProcessSubscribe, Permitted, Spawned, Replies
<1>7. ASSUME NEW i \in Commands, NEW c \in Channels, ProcessUnsubscribe(i, c)
      PROVE  QueueTypes'
  BY <1>7, <1>c DEF ProcessUnsubscribe, Processing, Known, Replies,
     EntryRemoved, Aborted
<1>8. ASSUME NEW i \in Commands, ProcessOther(i) PROVE QueueTypes'
  BY <1>8, <1>c DEF ProcessOther, Processing, Known, Replies
<1>9. ASSUME ReaderSends PROVE QueueTypes'
  BY <1>9, <1>a DEF ReaderSends, Sent
<1>10. ASSUME ReaderEnds PROVE QueueTypes'
  BY <1>10, <1>a, <1>e DEF ReaderEnds, Sent
<1>11. ASSUME WriterReceives PROVE QueueTypes'
  <2>1. BatchSize \in 0..Len(replyCh)
    BY <1>11, BatchSizes DEF WriterReceives
  <2>2. replyCh' \in Seq(Message)
    BY <1>11, <2>1, CutAt DEF WriterReceives, Remaining
  <2> QED
    BY <1>11, <2>2 DEF WriterReceives
<1>12. ASSUME WriterEnds PROVE QueueTypes'
  BY <1>12, <1>e DEF WriterEnds
<1>13. ASSUME NEW t \in Commands, TaskSends(t) PROVE QueueTypes'
  BY <1>13, <1>a, Messages DEF TaskSends, Sent
<1>14. ASSUME Arrives PROVE QueueTypes'
  BY <1>14, <1>b DEF Arrives
<1>15. CASE CloserFires \/ PingFires \/ PongTimerFires \/
            (\E i \in Commands : ProcessConnect(i)) \/
            (\E i \in Commands : ProcessLimited(i)) \/ RemoteEnds \/
            WriterSends \/ (\E t \in Commands : HandlerEnds(t)) \/
            (\E t \in Commands : TaskRemovesEntry(t)) \/
            (\E t \in Commands : TaskCancelled(t))
  BY <1>15 DEF CloserFires, PingFires, PongTimerFires, ProcessConnect,
     ProcessLimited, RemoteEnds, WriterSends, HandlerEnds, TaskRemovesEntry,
     TaskCancelled
<1>16. CASE (\E t \in Commands : StreamYields(t)) \/ Tick \/ ServeReturns
  BY <1>16 DEF StreamYields, Tick, ServeReturns
<1>17. CASE UNCHANGED vars
  BY <1>17 DEF vars
<1> QED
  BY <1>1, <1>2, <1>3, <1>4, <1>5, <1>6, <1>7, <1>8, <1>9, <1>10, <1>11, <1>12,
     <1>13, <1>14, <1>15, <1>16, <1>17 DEF Next, Reader, Select, Process,
     Writer, TaskStep, TaskAdvances

-----------------------------------------------------------------------------
(* Limits.                                                                 *)

\* A finite set that grows by one element has at most one more.
LEMMA OneMore ==
  ASSUME NEW S, NEW T, NEW x, IsFiniteSet(S), T \subseteq S \cup {x}
  PROVE  /\ IsFiniteSet(T) /\ Cardinality(T) \in Nat /\ Cardinality(S) \in Nat
         /\ Cardinality(T) <= Cardinality(S) + 1
         /\ T \subseteq S => Cardinality(T) <= Cardinality(S)
<1>1. /\ IsFiniteSet(S \cup {x}) /\ Cardinality(S) \in Nat
      /\ Cardinality(S \cup {x}) = IF x \in S THEN Cardinality(S) ELSE Cardinality(S) + 1
  BY FS_AddElement, FS_CardinalityType
<1>2. Cardinality(S \cup {x}) <= Cardinality(S) + 1
  BY <1>1
<1>3. IsFiniteSet(T) /\ Cardinality(T) <= Cardinality(S \cup {x})
  BY <1>1, FS_Subset
<1>4. Cardinality(T) \in Nat /\ Cardinality(S \cup {x}) \in Nat
  BY <1>1, <1>3, FS_CardinalityType
<1>5. T \subseteq S => Cardinality(T) <= Cardinality(S)
  BY FS_Subset
<1> QED
  BY <1>1, <1>2, <1>3, <1>4, <1>5

\* There are as many permits as commands, at most.
LEMMA PermitsAreFinite == IsFiniteSet(Permits)
<1>1. IsFiniteSet(Commands)
  BY FS_Interval, ServerAssumption DEF Commands
<1> QED
  BY <1>1, FS_Subset DEF Permits

\* Permits are given back,
LEMMA PermitsWithin ==
  ASSUME Limits, Permits' \subseteq Permits
  PROVE  Cardinality(Permits') <= MaxRequests
<1>1. /\ Cardinality(Permits') <= Cardinality(Permits)
      /\ Cardinality(Permits') \in Nat /\ Cardinality(Permits) \in Nat
  BY PermitsAreFinite, OneMore
<1> QED
  BY <1>1, ServerAssumption DEF Limits

\* and taken while there are some.
LEMMA PermitTaken ==
  ASSUME Limits, NEW i \in Commands, Permits' \subseteq Permits \cup {i}, PermitFree
  PROVE  Cardinality(Permits') <= MaxRequests
<1>1. /\ Cardinality(Permits') <= Cardinality(Permits) + 1
      /\ Cardinality(Permits') \in Nat /\ Cardinality(Permits) \in Nat
  BY PermitsAreFinite, OneMore
<1> QED
  BY <1>1, ServerAssumption DEF Limits, PermitFree

\* Entries are removed,
LEMMA EntriesWithin ==
  ASSUME Limits, Entries' \subseteq Entries
  PROVE  IsFiniteSet(Entries') /\ Cardinality(Entries') <= MaxSubscriptions
<1>1. /\ Cardinality(Entries') <= Cardinality(Entries) /\ IsFiniteSet(Entries')
      /\ Cardinality(Entries') \in Nat /\ Cardinality(Entries) \in Nat
  BY OneMore DEF Limits
<1> QED
  BY <1>1, ServerAssumption DEF Limits

\* and added while there may be more.
LEMMA EntryAdded ==
  ASSUME Limits, NEW c \in Channels, Entries' \subseteq Entries \cup {c},
         Cardinality(Entries) < MaxSubscriptions
  PROVE  IsFiniteSet(Entries') /\ Cardinality(Entries') <= MaxSubscriptions
<1>1. /\ Cardinality(Entries') <= Cardinality(Entries) + 1 /\ IsFiniteSet(Entries')
      /\ Cardinality(Entries') \in Nat /\ Cardinality(Entries) \in Nat
  BY OneMore DEF Limits
<1> QED
  BY <1>1, ServerAssumption DEF Limits

\* A message is sent when there is room for it.
LEMMA SentWithinCap ==
  ASSUME Types, Limits, NEW m \in Message, Sent(m)
  PROVE  Len(replyCh') <= ReplyCap
<1>1. CASE UNCHANGED replyCh
  BY <1>1 DEF Limits
<1>2. CASE Len(replyCh) < ReplyCap /\ replyCh' = Append(replyCh, m)
  <2>1. Len(replyCh') = Len(replyCh) + 1 /\ Len(replyCh) \in Nat
    BY <1>2, AppendProperties, LenProperties DEF Types, QueueTypes
  <2> QED
    BY <1>2, <2>1, ServerAssumption
<1> QED
  BY <1>1, <1>2 DEF Sent

\* What is left after a batch is not longer.
LEMMA ShorterWithout ==
  ASSUME NEW S, NEW s \in Seq(S), NEW n \in 0..Len(s)
  PROVE  Len(SubSeq(s, n + 1, Len(s))) <= Len(s)
<1>1. Len(s) \in Nat /\ n \in Nat /\ \A j \in 1..Len(s) : s[j] \in S
  BY LenProperties, ElementOfSeq
<1>2. Len(SubSeq(s, n + 1, Len(s))) =
         IF n + 1 <= Len(s) THEN Len(s) - (n + 1) + 1 ELSE 0
  BY <1>1, SubSeqProperties
<1>3. \A l \in Nat : \A k \in 0..l :
         (IF k + 1 <= l THEN l - (k + 1) + 1 ELSE 0) <= l
  OBVIOUS
<1> QED
  BY <1>1, <1>2, <1>3

\* The limits.
LEMMA LimitsStep ==
  ASSUME Types, Limits, [Next]_vars PROVE Limits'
<1> USE DEF commandVars, taskVars, readerVars, timerVars, writerVars
<1>a. \A m \in Message : Sent(m) => Len(replyCh') <= ReplyCap
  BY SentWithinCap
<1>1. ASSUME NEW i \in Commands, ProcessCall(i) PROVE Limits'
  <2>1. Permits' \subseteq Permits \cup {i} /\ PermitFree
    BY <1>1 DEF ProcessCall, Permitted, Spawned, Permits, HoldsPermit, Types,
       TaskTypes
  <2>2. UNCHANGED <<subscriptions, replyCh>>
    BY <1>1 DEF ProcessCall
  <2> QED
    BY <2>1, <2>2, PermitTaken DEF Limits, Entries
<1>2. ASSUME NEW i \in Commands, ProcessSubscribe(i) PROVE Limits'
  <2>1. Permits' \subseteq Permits \cup {i} /\ PermitFree
    BY <1>2 DEF ProcessSubscribe, Permitted, Spawned, Permits, HoldsPermit,
       Types, TaskTypes
  <2>2. UNCHANGED replyCh
    BY <1>2 DEF ProcessSubscribe
  <2>3. CASE UNCHANGED subscriptions
    BY <2>1, <2>2, <2>3, PermitTaken DEF Limits, Entries
  <2>4. CASE MaySubscribe(chan[i]) /\ subscriptions' = [subscriptions EXCEPT ![chan[i]] = i]
    <3>1. Entries' \subseteq Entries \cup {chan[i]} /\ chan[i] \in Channels
      BY <2>4 DEF Entries, Types, TaskTypes, SessionTypes
    <3>2. IsFiniteSet(Entries') /\ Cardinality(Entries') <= MaxSubscriptions
      BY <2>4, <3>1, EntryAdded DEF MaySubscribe
    <3> QED
      BY <2>1, <2>2, <3>2, PermitTaken DEF Limits
  <2> QED
    BY <1>2, <2>3, <2>4 DEF ProcessSubscribe
<1>3. ASSUME NEW i \in Commands, NEW c \in Channels, ProcessUnsubscribe(i, c)
      PROVE  Limits'
  <2>1. UNCHANGED <<task, replyCh>> /\ Entries' \subseteq Entries
    BY <1>3 DEF ProcessUnsubscribe, EntryRemoved, Entries, Types, TaskTypes
  <2> QED
    BY <2>1, EntriesWithin DEF Limits, Permits, HoldsPermit
<1>4. ASSUME ReaderSends PROVE Limits'
  <2>1. UNCHANGED <<task, subscriptions>>
    BY <1>4 DEF ReaderSends, taskVars
  <2>2. Len(replyCh') <= ReplyCap
    BY <1>4, <1>a DEF ReaderSends, Types, ReaderTypes
  <2> QED
    BY <2>1, <2>2 DEF Limits, Permits, HoldsPermit, Entries
<1>5. ASSUME ReaderEnds PROVE Limits'
  <2>1. UNCHANGED <<task, subscriptions>>
    BY <1>5 DEF ReaderEnds, taskVars
  <2>2. Len(replyCh') <= ReplyCap
    BY <1>5, <1>a DEF ReaderEnds, Types, ReaderTypes
  <2> QED
    BY <2>1, <2>2 DEF Limits, Permits, HoldsPermit, Entries
<1>6. ASSUME WriterReceives PROVE Limits'
  <2>1. UNCHANGED <<task, subscriptions>> /\ BatchSize \in 0..Len(replyCh)
    BY <1>6, BatchSizes DEF WriterReceives, taskVars, Types
  <2>2. replyCh' = SubSeq(replyCh, BatchSize + 1, Len(replyCh)) /\ replyCh \in Seq(Message)
    BY <1>6 DEF WriterReceives, Remaining, Types, QueueTypes
  <2>3. Len(replyCh') <= Len(replyCh)
    BY <2>1, <2>2, ShorterWithout
  <2>4. Len(replyCh') \in Nat /\ Len(replyCh) \in Nat /\ ReplyCap \in Nat
    BY <2>1, <2>2, CutAt, LenProperties, ServerAssumption
  <2>5. Len(replyCh') <= ReplyCap
    BY <2>3, <2>4 DEF Limits
  <2> QED
    BY <2>1, <2>5 DEF Limits, Permits, HoldsPermit, Entries
<1>7. ASSUME WriterEnds PROVE Limits'
  <2>1. UNCHANGED <<task, subscriptions>> /\ Len(replyCh') = 0
    BY <1>7 DEF WriterEnds, taskVars
  <2>2. 0 <= ReplyCap
    BY ServerAssumption
  <2> QED
    BY <2>1, <2>2 DEF Limits, Permits, HoldsPermit, Entries
<1>8. ASSUME NEW t \in Commands, HandlerEnds(t) PROVE Limits'
  <2>1. Permits' \subseteq Permits /\ UNCHANGED <<subscriptions, replyCh>>
    BY <1>8 DEF HandlerEnds, Permits, HoldsPermit, Types, TaskTypes
  <2> QED
    BY <2>1, PermitsWithin DEF Limits, Entries
<1>9. ASSUME NEW t \in Commands, TaskRemovesEntry(t) PROVE Limits'
  <2>1. UNCHANGED replyCh /\ Entries' \subseteq Entries
    BY <1>9 DEF TaskRemovesEntry, EntryRemoved, Entries, Types, TaskTypes
  <2>2. Permits' \subseteq Permits
    BY <1>9 DEF TaskRemovesEntry, Permits, HoldsPermit, Types, TaskTypes
  <2> QED
    BY <2>1, <2>2, EntriesWithin, PermitsWithin DEF Limits
<1>10. ASSUME NEW t \in Commands, TaskCancelled(t) PROVE Limits'
  <2>1. Permits' \subseteq Permits /\ UNCHANGED <<subscriptions, replyCh>>
    BY <1>10 DEF TaskCancelled, Gone, Permits, HoldsPermit, Types, TaskTypes
  <2> QED
    BY <2>1, PermitsWithin DEF Limits, Entries
<1>11. ASSUME NEW t \in Commands, StreamYields(t) PROVE Limits'
  <2>1. Permits' \subseteq Permits /\ UNCHANGED <<subscriptions, replyCh>>
    BY <1>11 DEF StreamYields, Permits, HoldsPermit, Types, TaskTypes
  <2> QED
    BY <2>1, PermitsWithin DEF Limits, Entries
<1>12. ASSUME NEW t \in Commands, TaskSends(t) PROVE Limits'
  <2>1. Permits' \subseteq Permits /\ UNCHANGED subscriptions
    BY <1>12 DEF TaskSends, Gone, Permits, HoldsPermit, Types, TaskTypes
  <2>2. \E m \in Message : Sent(m)
    BY <1>12, Messages DEF TaskSends
  <2>3. Len(replyCh') <= ReplyCap
    BY <2>2, <1>a
  <2> QED
    BY <2>1, <2>3, PermitsWithin DEF Limits, Entries
<1>13. CASE CloserFires \/ PingFires \/ ReadMessage \/ PongTimerFires \/
            ProcessPong \/ (\E i \in Commands : ProcessConnect(i)) \/
            (\E i \in Commands : ConnectSettled(i)) \/
            (\E i \in Commands : ProcessUnexpected(i)) \/
            (\E i \in Commands : ProcessLimited(i)) \/
            (\E i \in Commands : ProcessOther(i))
  BY <1>13 DEF CloserFires, PingFires, ReadMessage, PongTimerFires,
     ProcessPong, ProcessConnect, ConnectSettled, ProcessUnexpected,
     ProcessLimited, ProcessOther, Limits, Permits, HoldsPermit, Entries
<1>14. CASE RemoteEnds \/ WriterSends \/ Arrives \/ Tick \/ ServeReturns
  BY <1>14 DEF RemoteEnds, WriterSends, Arrives, Tick, ServeReturns, Limits,
     Permits, HoldsPermit, Entries
<1>15. CASE UNCHANGED vars
  BY <1>15 DEF vars, Limits, Permits, HoldsPermit, Entries
<1> QED
  BY <1>1, <1>2, <1>3, <1>4, <1>5, <1>6, <1>7, <1>8, <1>9, <1>10, <1>11, <1>12,
     <1>13, <1>14, <1>15 DEF Next, Reader, Select, Process, Writer, TaskStep,
     TaskAdvances

=============================================================================
