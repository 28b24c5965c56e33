----------------------------- MODULE ServerProofs -----------------------------
(***************************************************************************)
(* Theorems about Server, for any number of commands and channels and for  *)
(* any limits and intervals.  The invariant is that of ServerInvariant;    *)
(* its parts are proved one after the other, action by action, each from   *)
(* those parts that its lemma names.                                       *)
(***************************************************************************)
EXTENDS ServerInvariant

-----------------------------------------------------------------------------
(* The ends, the timers and the reader.                                    *)

\* What is over is empty, and stays so.
LEMMA EndsEmptyStep ==
  ASSUME EndsEmpty, [Next]_vars PROVE EndsEmpty'
<1> USE DEF EndsEmpty, commandVars, taskVars, readerVars, timerVars, writerVars
<1>1. ASSUME CloserFires PROVE EndsEmpty'
  BY <1>1 DEF CloserFires, Selecting
<1>2. ASSUME PingFires PROVE EndsEmpty'
  BY <1>2 DEF PingFires, Selecting
<1>3. ASSUME PongTimerFires PROVE EndsEmpty'
  BY <1>3 DEF PongTimerFires, Selecting
<1>4. ASSUME NEW i \in Commands, ProcessConnect(i) PROVE EndsEmpty'
  BY <1>4 DEF ProcessConnect, Processing, Known, ResetTimers, PingDelay,
     PongDelay
<1>5. ASSUME NEW i \in Commands, ConnectSettled(i) PROVE EndsEmpty'
  BY <1>5 DEF ConnectSettled, Replies, RepliesError
<1>6. ASSUME NEW i \in Commands, ProcessUnexpected(i) PROVE EndsEmpty'
  BY <1>6 DEF ProcessUnexpected, Processing, Known, Replies, RepliesError
<1>7. ASSUME NEW i \in Commands, ProcessLimited(i) PROVE EndsEmpty'
  BY <1>7 DEF ProcessLimited, Processing, Known
<1>8. ASSUME NEW i \in Commands, ProcessCall(i) PROVE EndsEmpty'
  BY <1>8 DEF ProcessCall, Permitted, Spawned, Replies
<1>9. ASSUME NEW i \in Commands, ProcessSubscribe(i) PROVE EndsEmpty'
  BY <1>9 DEF ProcessSubscribe, Permitted, Spawned, Replies, MaySubscribe
<1>10. ASSUME NEW i \in Commands, NEW c \in Channels, ProcessUnsubscribe(i, c)
       PROVE  EndsEmpty'
  BY <1>10 DEF ProcessUnsubscribe, Processing, Known, Replies, EntryRemoved,
     Aborted
<1>11. ASSUME NEW i \in Commands, ProcessOther(i) PROVE EndsEmpty'
  BY <1>11 DEF ProcessOther, Processing, Known, Replies
<1>12. ASSUME ReaderSends PROVE EndsEmpty'
  BY <1>12 DEF ReaderSends, Sent
<1>13. ASSUME ReaderEnds PROVE EndsEmpty'
  BY <1>13 DEF ReaderEnds, Sent
<1>14. ASSUME RemoteEnds PROVE EndsEmpty'
  BY <1>14 DEF RemoteEnds, Selecting
<1>15. ASSUME WriterReceives PROVE EndsEmpty'
  BY <1>15 DEF WriterReceives
<1>16. ASSUME WriterSends PROVE EndsEmpty'
  BY <1>16 DEF WriterSends
<1>17. ASSUME WriterEnds PROVE EndsEmpty'
  BY <1>17 DEF WriterEnds
<1>18. ASSUME NEW t \in Commands, TaskSends(t) PROVE EndsEmpty'
  BY <1>18 DEF TaskSends, Sent
<1>19. ASSUME ServeReturns PROVE EndsEmpty'
  BY <1>19 DEF ServeReturns
<1>20. CASE ReadMessage \/ ProcessPong \/
            (\E t \in Commands : HandlerEnds(t)) \/
            (\E t \in Commands : TaskRemovesEntry(t)) \/
            (\E t \in Commands : TaskCancelled(t)) \/
            (\E t \in Commands : StreamYields(t)) \/ Arrives \/ Tick
  BY <1>20 DEF ReadMessage, ProcessPong, HandlerEnds, TaskRemovesEntry,
     TaskCancelled, StreamYields, Arrives, Tick
<1>21. CASE UNCHANGED vars
  BY <1>21 DEF vars
<1> QED
  BY <1>1, <1>2, <1>3, <1>4, <1>5, <1>6, <1>7, <1>8, <1>9, <1>10, <1>11, <1>12,
     <1>13, <1>14, <1>15, <1>16, <1>17, <1>18, <1>19, <1>20, <1>21 DEF Next,
     Reader, Select, Process, Writer, TaskStep, TaskAdvances

\* The ping is due no later than its pong.
LEMMA PingFirstStep ==
  ASSUME Types, PingFirst, [Next]_vars PROVE PingFirst'
<1> USE DEF PingFirst, Types, SessionTypes, ReaderTypes, commandVars, taskVars,
   readerVars, timerVars, writerVars
<1>a. /\ \A i \in Commands : Answer(i) # Push
      /\ \A code \in Codes : Error(code) # Push
      /\ {BadRequest, ServerError, InvalidToken} \subseteq Codes
  BY Messages, Different
<1>1. ASSUME CloserFires PROVE PingFirst'
  BY <1>1 DEF CloserFires, Selecting, Break
<1>2. ASSUME PingFires PROVE PingFirst'
  BY <1>2, Delays DEF PingFires, Selecting
<1>3. ASSUME PongTimerFires PROVE PingFirst'
  BY <1>3 DEF PongTimerFires, Selecting, Break, TimeoutCode
<1>4. ASSUME ProcessPong PROVE PingFirst'
  BY <1>4, Delays DEF ProcessPong, Processing, ResetTimers
<1>5. ASSUME NEW i \in Commands, ProcessConnect(i) PROVE PingFirst'
  BY <1>5, Delays DEF ProcessConnect, ResetTimers
<1>6. ASSUME NEW i \in Commands, ConnectSettled(i) PROVE PingFirst'
  BY <1>6, <1>a DEF ConnectSettled, Replies, RepliesError
<1>7. ASSUME NEW i \in Commands, ProcessUnexpected(i) PROVE PingFirst'
  BY <1>7, <1>a DEF ProcessUnexpected, Processing, Known, Replies, RepliesError
<1>8. ASSUME NEW i \in Commands, ProcessLimited(i) PROVE PingFirst'
  BY <1>8 DEF ProcessLimited, Processing, Known
<1>9. ASSUME NEW i \in Commands, ProcessCall(i) PROVE PingFirst'
  BY <1>9, <1>a DEF ProcessCall, Permitted, Spawned, Replies
<1>10. ASSUME NEW i \in Commands, ProcessSubscribe(i) PROVE PingFirst'
  BY <1>10, <1>a DEF ProcessSubscribe, Permitted, Spawned, Replies,
     MaySubscribe
<1>11. ASSUME NEW i \in Commands, NEW c \in Channels, ProcessUnsubscribe(i, c)
       PROVE  PingFirst'
  BY <1>11, <1>a DEF ProcessUnsubscribe, Processing, Known, Replies,
     EntryRemoved, Aborted
<1>12. ASSUME NEW i \in Commands, ProcessOther(i) PROVE PingFirst'
  BY <1>12, <1>a DEF ProcessOther, Processing, Known, Replies
<1>13. ASSUME ReaderSends PROVE PingFirst'
  BY <1>13, Delays DEF ReaderSends
<1>14. ASSUME ReaderEnds PROVE PingFirst'
  BY <1>14, Delays DEF ReaderEnds
<1>15. ASSUME RemoteEnds PROVE PingFirst'
  BY <1>15 DEF RemoteEnds, Selecting, Break
<1>16. ASSUME Tick PROVE PingFirst'
  BY <1>16, Delays DEF Tick, Elapsed
<1>17. CASE ReadMessage \/ WriterReceives \/ WriterSends \/ WriterEnds \/
            (\E t \in Commands : HandlerEnds(t)) \/
            (\E t \in Commands : TaskRemovesEntry(t)) \/
            (\E t \in Commands : TaskCancelled(t)) \/
            (\E t \in Commands : StreamYields(t)) \/
            (\E t \in Commands : TaskSends(t)) \/ Arrives
  BY <1>17 DEF ReadMessage, WriterReceives, WriterSends, WriterEnds,
     HandlerEnds, TaskRemovesEntry, TaskCancelled, StreamYields, TaskSends,
     Arrives
<1>18. CASE ServeReturns
  BY <1>18 DEF ServeReturns
<1>19. CASE UNCHANGED vars
  BY <1>19 DEF vars
<1> QED
  BY <1>1, <1>2, <1>3, <1>4, <1>5, <1>6, <1>7, <1>8, <1>9, <1>10, <1>11, <1>12,
     <1>13, <1>14, <1>15, <1>16, <1>17, <1>18, <1>19 DEF Next, Reader, Select,
     Process, Writer, TaskStep, TaskAdvances

\* NoPong is only said of the silent.
LEMMA NoPongStep ==
  ASSUME Types, PingFirst, NoPongMeansSilence, [Next]_vars PROVE
    NoPongMeansSilence'
<1> USE DEF NoPongMeansSilence, commandVars, taskVars, readerVars, timerVars,
   writerVars
<1>1. ASSUME CloserFires PROVE NoPongMeansSilence'
  BY <1>1, Messages, Different DEF CloserFires, Break
<1>2. ASSUME PingFires PROVE NoPongMeansSilence'
  BY <1>2 DEF PingFires, Selecting, PongDelay
<1>3. ASSUME PongTimerFires PROVE NoPongMeansSilence'
  <2>1. CASE session = "Initial"
    BY <1>3, <2>1, Messages, Different DEF PongTimerFires, Break, TimeoutCode
  <2>2. CASE session = "Connected"
    <3>1. pongIn = 0 /\ pingIn # 0 /\ reader = "ready" /\ pingIn \in Nat
      BY <1>3 DEF PongTimerFires, PongOverdue, Selecting, Types, ReaderTypes
    <3>2. params.ping /\ params.pong
      BY <3>1, Delays DEF PingFirst
    <3>3. pinged
      BY <3>1, <2>2 DEF PingFirst
    <3> QED
      BY <1>3, <3>2, <3>3 DEF PongTimerFires
  <2> QED
    BY <2>1, <2>2 DEF Types, SessionTypes
<1>4. ASSUME ProcessPong PROVE NoPongMeansSilence'
  BY <1>4 DEF ProcessPong, Processing, ResetTimers, PingDelay, PongDelay
<1>5. ASSUME NEW i \in Commands, ProcessConnect(i) PROVE NoPongMeansSilence'
  BY <1>5 DEF ProcessConnect, Processing, Known, ResetTimers, PingDelay,
     PongDelay
<1>6. ASSUME NEW i \in Commands, ConnectSettled(i) PROVE NoPongMeansSilence'
  BY <1>6 DEF ConnectSettled, Replies, RepliesError
<1>7. ASSUME NEW i \in Commands, ProcessUnexpected(i) PROVE NoPongMeansSilence'
  BY <1>7 DEF ProcessUnexpected, Processing, Known, Replies, RepliesError
<1>8. ASSUME NEW i \in Commands, ProcessLimited(i) PROVE NoPongMeansSilence'
  BY <1>8 DEF ProcessLimited, Processing, Known
<1>9. ASSUME NEW i \in Commands, ProcessCall(i) PROVE NoPongMeansSilence'
  BY <1>9 DEF ProcessCall, Permitted, Spawned, Replies
<1>10. ASSUME NEW i \in Commands, ProcessSubscribe(i) PROVE NoPongMeansSilence'
  BY <1>10 DEF ProcessSubscribe, Permitted, Spawned, Replies, MaySubscribe
<1>11. ASSUME NEW i \in Commands, NEW c \in Channels, ProcessUnsubscribe(i, c)
       PROVE  NoPongMeansSilence'
  BY <1>11 DEF ProcessUnsubscribe, Processing, Known, Replies, EntryRemoved,
     Aborted
<1>12. ASSUME NEW i \in Commands, ProcessOther(i) PROVE NoPongMeansSilence'
  BY <1>12 DEF ProcessOther, Processing, Known, Replies
<1>13. ASSUME ReaderSends PROVE NoPongMeansSilence'
  BY <1>13 DEF ReaderSends, Sent, PongDelay
<1>14. ASSUME ReaderEnds PROVE NoPongMeansSilence'
  BY <1>14 DEF ReaderEnds, Sent, Aborted
<1>15. ASSUME RemoteEnds PROVE NoPongMeansSilence'
  BY <1>15, Messages, Different DEF RemoteEnds, Break
<1>16. CASE ReadMessage \/ WriterReceives \/ WriterSends \/ WriterEnds \/
            (\E t \in Commands : HandlerEnds(t)) \/
            (\E t \in Commands : TaskRemovesEntry(t)) \/
            (\E t \in Commands : TaskCancelled(t)) \/
            (\E t \in Commands : StreamYields(t)) \/
            (\E t \in Commands : TaskSends(t)) \/ Arrives
  BY <1>16 DEF ReadMessage, WriterReceives, WriterSends, WriterEnds,
     HandlerEnds, TaskRemovesEntry, TaskCancelled, StreamYields, TaskSends,
     Arrives
<1>17. CASE Tick \/ ServeReturns
  BY <1>17 DEF Tick, ServeReturns
<1>18. CASE UNCHANGED vars
  BY <1>18 DEF vars
<1> QED
  BY <1>1, <1>2, <1>3, <1>4, <1>5, <1>6, <1>7, <1>8, <1>9, <1>10, <1>11, <1>12,
     <1>13, <1>14, <1>15, <1>16, <1>17, <1>18 DEF Next, Reader, Select,
     Process, Writer, TaskStep, TaskAdvances

\* Where the reader is, it has something to do.
LEMMA ReaderPlaceStep ==
  ASSUME Types, ReaderPlace, [Next]_vars PROVE ReaderPlace'
<1> USE Messages DEF Pong, ReaderPlace, Midway, Types, SessionTypes,
   ReaderTypes, commandVars, taskVars, readerVars, timerVars, writerVars
<1>1. ASSUME CloserFires PROVE ReaderPlace'
  BY <1>1 DEF CloserFires, Selecting, Break
<1>2. ASSUME PingFires PROVE ReaderPlace'
  BY <1>2 DEF PingFires, Selecting, PongDelay
<1>3. ASSUME ReadMessage PROVE ReaderPlace'
  BY <1>3 DEF ReadMessage, Selecting, Decoded
<1>4. ASSUME PongTimerFires PROVE ReaderPlace'
  BY <1>4 DEF PongTimerFires, Selecting, Break, TimeoutCode
<1>5. ASSUME ProcessPong PROVE ReaderPlace'
  BY <1>5 DEF ProcessPong, Processing, ResetTimers, PingDelay, PongDelay
<1>6. ASSUME NEW i \in Commands, ProcessConnect(i) PROVE ReaderPlace'
  BY <1>6 DEF ProcessConnect, Processing, Known, ResetTimers, PingDelay,
     PongDelay
<1>7. ASSUME NEW i \in Commands, ConnectSettled(i) PROVE ReaderPlace'
  BY <1>7 DEF ConnectSettled, Replies, RepliesError
<1>8. ASSUME NEW i \in Commands, ProcessUnexpected(i) PROVE ReaderPlace'
  BY <1>8 DEF ProcessUnexpected, Processing, Known, Replies, RepliesError
<1>9. ASSUME NEW i \in Commands, ProcessLimited(i) PROVE ReaderPlace'
  BY <1>9 DEF ProcessLimited, Processing, Known
<1>10. ASSUME NEW i \in Commands, ProcessCall(i) PROVE ReaderPlace'
  BY <1>10 DEF ProcessCall, Permitted, Spawned, Replies
<1>11. ASSUME NEW i \in Commands, ProcessSubscribe(i) PROVE ReaderPlace'
  BY <1>11 DEF ProcessSubscribe, Permitted, Spawned, Replies, MaySubscribe
<1>12. ASSUME NEW i \in Commands, NEW c \in Channels, ProcessUnsubscribe(i, c)
       PROVE  ReaderPlace'
  BY <1>12 DEF ProcessUnsubscribe, Processing, Known, Replies, EntryRemoved,
     Aborted
<1>13. ASSUME NEW i \in Commands, ProcessOther(i) PROVE ReaderPlace'
  BY <1>13 DEF ProcessOther, Processing, Known, Replies
<1>14. ASSUME ReaderSends PROVE ReaderPlace'
  BY <1>14 DEF ReaderSends, Sent, PongDelay
<1>15. ASSUME ReaderEnds PROVE ReaderPlace'
  BY <1>15 DEF ReaderEnds, Sent, Aborted
<1>16. ASSUME RemoteEnds PROVE ReaderPlace'
  BY <1>16 DEF RemoteEnds, Selecting, Break
<1>17. ASSUME Arrives PROVE ReaderPlace'
  BY <1>17 DEF Arrives
<1>18. CASE WriterReceives \/ WriterSends \/ WriterEnds \/
            (\E t \in Commands : HandlerEnds(t)) \/
            (\E t \in Commands : TaskRemovesEntry(t)) \/
            (\E t \in Commands : TaskCancelled(t)) \/
            (\E t \in Commands : StreamYields(t)) \/
            (\E t \in Commands : TaskSends(t)) \/ Tick \/ ServeReturns
  BY <1>18 DEF WriterReceives, WriterSends, WriterEnds, HandlerEnds,
     TaskRemovesEntry, TaskCancelled, StreamYields, TaskSends, Tick,
     ServeReturns
<1>19. CASE UNCHANGED vars
  BY <1>19 DEF vars
<1> QED
  BY <1>1, <1>2, <1>3, <1>4, <1>5, <1>6, <1>7, <1>8, <1>9, <1>10, <1>11, <1>12,
     <1>13, <1>14, <1>15, <1>16, <1>17, <1>18, <1>19 DEF Next, Reader, Select,
     Process, Writer, TaskStep, TaskAdvances

-----------------------------------------------------------------------------
(* Commands, tasks and entries.                                            *)

\* The command at the head of the inbox is waiting for the reader, and has no
\* task.
LEMMA HeadIsFresh ==
  ASSUME Types, QueuedIsFresh, ReaderPlace, NEW i \in Commands,
         Processing(i) \/ (Midway /\ Head(inbox) = i)
  PROVE  /\ inbox # <<>> /\ Head(inbox) = i /\ i \in Range(inbox)
         /\ outcome[i] = "pending" /\ task[i] = "none"
         /\ Processing(i) => kind[i] = "none"
<1>1. inbox # <<>> /\ Head(inbox) = i
  BY DEF Processing, ReaderPlace
<1>2. inbox \in Seq(Commands \cup {Pong})
  BY DEF Types, QueueTypes
<1>3. i \in Range(inbox)
  BY <1>1, <1>2, TailOf
<1>4. Processing(i) => ~Midway
  BY DEF Processing, Midway
<1> QED
  BY <1>1, <1>3, <1>4 DEF QueuedIsFresh, Queue

\* Which kinds and channels stay as they are: those of the tasks.
KindsKept ==
    \A t \in Commands : task[t] # "none" => kind'[t] = kind[t] /\ chan'[t] = chan[t]

\* It is the only one whose kind and channel become known.
LEMMA TasksKeepKinds ==
  ASSUME Types, QueuedIsFresh, ReaderPlace, [Next]_vars PROVE KindsKept
<1> USE DEF KindsKept, Types, SessionTypes, commandVars, taskVars, readerVars,
      timerVars, writerVars
<1>1. ASSUME NEW i \in Commands, ProcessConnect(i) PROVE KindsKept
  BY <1>1, HeadIsFresh DEF ProcessConnect, Known
<1>2. ASSUME NEW i \in Commands, ProcessUnexpected(i) PROVE KindsKept
  BY <1>2, HeadIsFresh DEF ProcessUnexpected, Known
<1>3. ASSUME NEW i \in Commands, ProcessLimited(i) PROVE KindsKept
  BY <1>3, HeadIsFresh DEF ProcessLimited, Known
<1>4. ASSUME NEW i \in Commands, NEW c \in Channels, ProcessUnsubscribe(i, c)
      PROVE  KindsKept
  BY <1>4, HeadIsFresh DEF ProcessUnsubscribe, Known
<1>5. ASSUME NEW i \in Commands, ProcessOther(i) PROVE KindsKept
  BY <1>5, HeadIsFresh DEF ProcessOther, Known
<1>6. CASE CloserFires \/ PingFires \/ ReadMessage \/ PongTimerFires \/
           ProcessPong \/ (\E i \in Commands : ConnectSettled(i)) \/
           (\E i \in Commands : ProcessCall(i)) \/
           (\E i \in Commands : ProcessSubscribe(i)) \/ ReaderSends \/
           ReaderEnds
  BY <1>6 DEF CloserFires, PingFires, ReadMessage, PongTimerFires, ProcessPong,
     ConnectSettled, ProcessCall, ProcessSubscribe, ReaderSends, ReaderEnds
<1>7. CASE RemoteEnds \/ WriterReceives \/ WriterSends \/ WriterEnds \/
           (\E t \in Commands : HandlerEnds(t)) \/
           (\E t \in Commands : TaskRemovesEntry(t)) \/
           (\E t \in Commands : TaskCancelled(t)) \/
           (\E t \in Commands : StreamYields(t)) \/
           (\E t \in Commands : TaskSends(t)) \/ Arrives
  BY <1>7 DEF RemoteEnds, WriterReceives, WriterSends, WriterEnds, HandlerEnds,
     TaskRemovesEntry, TaskCancelled, StreamYields, TaskSends, Arrives
<1>8. CASE Tick \/ ServeReturns
  BY <1>8 DEF Tick, ServeReturns
<1>9. CASE UNCHANGED vars
  BY <1>9 DEF vars
<1> QED
  BY <1>1, <1>2, <1>3, <1>4, <1>5, <1>6, <1>7, <1>8, <1>9 DEF Next, Reader,
     Select, Process, Writer, TaskStep, TaskAdvances

\* A step that leaves the entries alone, and whose tasks stay in their place
\* or go on to the next one.
LEMMA EntriesKept ==
  ASSUME EntriesMatchTasks, KindsKept, Types, UNCHANGED subscriptions,
         reader = "done" => reader' = "done",
         \A t \in Commands : Subscribing(t) =>
            (task'[t] \in Entered /\ t \notin aborted' <=>
             task[t] \in Entered /\ t \notin aborted),
         \A t \in Commands : task[t] = "none" => task'[t] = "none"
  PROVE  EntriesMatchTasks'
<1>1. \A d \in Channels : subscriptions[d] \in Commands \cup {NoTask}
  BY DEF Types, TaskTypes
<1>2. "none" \notin Entered
  BY DEF Entered
<1>3. ASSUME NEW d \in Channels, subscriptions'[d] # NoTask, reader' # "done"
      PROVE  /\ chan'[subscriptions'[d]] = d /\ kind'[subscriptions'[d]] = "subscribe"
             /\ task'[subscriptions'[d]] \in Entered
             /\ subscriptions'[d] \notin aborted'
  BY <1>1, <1>2, <1>3 DEF EntriesMatchTasks, Subscribing, KindsKept
<1>4. ASSUME NEW t \in Commands, kind'[t] = "subscribe", task'[t] \in Entered,
             t \notin aborted'
      PROVE  subscriptions'[chan'[t]] = t
  BY <1>2, <1>4 DEF EntriesMatchTasks, Subscribing, KindsKept
<1> QED
  BY <1>3, <1>4 DEF EntriesMatchTasks, Subscribing

\* An entry is removed, by the reader or by a task that had it, or had had it.
LEMMA EntriesWithout ==
  ASSUME EntriesMatchTasks, KindsKept, Types, NEW c \in Channels, EntryRemoved(c),
         reader = "done" => reader' = "done",
         \A t \in Commands :
            \/ task'[t] = task[t]
            \/ chan[t] = c /\ task[t] \in Entered /\ task'[t] \in {"refused", "goodbye"}
  PROVE  EntriesMatchTasks'
<1>1. /\ subscriptions \in [Channels -> Commands \cup {NoTask}]
      /\ task \in [Commands -> Live \cup {"none", "done"}]
  BY DEF Types, TaskTypes
<1>2. subscriptions' = [subscriptions EXCEPT ![c] = NoTask]
  BY DEF EntryRemoved
<1>3. aborted' = aborted \cup {t \in {subscriptions[c]} \ {NoTask} : Running(t)}
  BY DEF EntryRemoved, Aborted
<1>4. ASSUME NEW d \in Channels, subscriptions'[d] # NoTask, reader' # "done"
      PROVE  /\ chan'[subscriptions'[d]] = d /\ kind'[subscriptions'[d]] = "subscribe"
             /\ task'[subscriptions'[d]] \in Entered
             /\ subscriptions'[d] \notin aborted'
  <2>1. PICK t \in Commands : t = subscriptions[d] /\ t = subscriptions'[d] /\ d # c
    BY <1>1, <1>2, <1>4
  <2>2. /\ chan[t] = d /\ Subscribing(t) /\ task[t] \in Entered /\ t \notin aborted
        /\ t # NoTask
    BY <1>4, <2>1 DEF EntriesMatchTasks
  <2>3. task'[t] = task[t]
    BY <2>1, <2>2
  <2>4. t # subscriptions[c]
    BY <2>1, <2>2, <1>4 DEF EntriesMatchTasks
  <2>5. t \notin aborted'
    BY <1>3, <2>2, <2>4
  <2>6. kind'[t] = kind[t] /\ chan'[t] = chan[t]
    BY <2>2 DEF KindsKept, Entered
  <2> QED
    BY <2>1, <2>2, <2>3, <2>5, <2>6 DEF Subscribing
<1>5. ASSUME NEW t \in Commands, kind'[t] = "subscribe", task'[t] \in Entered,
             t \notin aborted'
      PROVE  subscriptions'[chan'[t]] = t
  <2>1. task'[t] = task[t]
    BY <1>5 DEF Entered
  <2>2. kind'[t] = kind[t] /\ chan'[t] = chan[t]
    BY <1>5, <2>1 DEF KindsKept, Entered
  <2>3. t \notin aborted /\ Subscribing(t)
    BY <1>3, <1>5, <2>2 DEF Subscribing
  <2>4. subscriptions[chan[t]] = t
    BY <1>5, <2>1, <2>3 DEF EntriesMatchTasks
  <2>5. chan[t] # c
    BY <1>3, <1>5, <2>1, <2>4 DEF Running, Live, Commands, NoTask
  <2> QED
    BY <1>1, <1>2, <2>2, <2>4, <2>5
<1> QED
  BY <1>4, <1>5 DEF EntriesMatchTasks, Subscribing

\* Entries and tasks stay the same subscriptions.
LEMMA EntriesStep ==
  ASSUME Types, QueuedIsFresh, ReaderPlace, TaskKinds, EntriesMatchTasks,
    [Next]_vars PROVE EntriesMatchTasks'
<1>a. KindsKept
  BY TasksKeepKinds
<1> USE DEF commandVars, taskVars, readerVars, timerVars, writerVars
<1>1. ASSUME NEW i \in Commands, ProcessCall(i) PROVE EntriesMatchTasks'
  <2>1. task[i] = "none" /\ ~Subscribing(i) /\ reader # "done"
    BY <1>1, HeadIsFresh DEF ProcessCall, Permitted, Midway, Subscribing
  <2>2. \A t \in Commands : t # i => task'[t] = task[t]
    BY <1>1 DEF ProcessCall, Spawned, Types, TaskTypes
  <2>3. UNCHANGED <<subscriptions, aborted, kind, chan>>
    BY <1>1 DEF ProcessCall, commandVars
  <2> QED
    BY <2>1, <2>2, <2>3 DEF EntriesMatchTasks, Subscribing, Entered, NoTask,
       Types,
       TaskTypes
<1>2. ASSUME NEW i \in Commands, ProcessSubscribe(i) PROVE EntriesMatchTasks'
  <2> DEFINE c == chan[i]
  <2>1. /\ task[i] = "none" /\ Subscribing(i) /\ reader # "done" /\ reader' # "done"
        /\ c \in Channels
    BY <1>2, HeadIsFresh DEF ProcessSubscribe, Permitted, Midway, Subscribing,
       Spawned,
       Replies, Types, SessionTypes
  <2>2. UNCHANGED <<aborted, kind, chan>>
    BY <1>2 DEF ProcessSubscribe, commandVars
  <2>3. CASE UNCHANGED <<subscriptions, task>>
    BY <1>a, <2>1, <2>3, <2>2, EntriesKept
  <2>4. CASE /\ MaySubscribe(c) /\ Spawned(i)
             /\ subscriptions' = [subscriptions EXCEPT ![c] = i]
    <3>1. i \notin aborted /\ subscriptions[c] = NoTask /\ i # NoTask
      BY <2>1, <2>4 DEF Types, TaskTypes, Running, Live, Entered, Awaiting,
         MaySubscribe, Commands, NoTask
    <3>2. /\ task' = [task EXCEPT ![i] = "handler"]
          /\ task \in [Commands -> Live \cup {"none", "done"}]
      BY <2>4 DEF Spawned, Types, TaskTypes
    <3>3. \A d \in Channels : d # c => subscriptions'[d] = subscriptions[d]
      BY <2>4 DEF Types, TaskTypes
    <3>4. subscriptions'[c] = i
      BY <2>1, <2>4 DEF Types, TaskTypes
    <3>5. \A t \in Commands :
             Subscribing(t) /\ task[t] \in Entered /\ t \notin aborted => chan[t] # c
      BY <3>1 DEF EntriesMatchTasks, Commands, NoTask
    <3>6. \A d \in Channels :
             subscriptions[d] \in Commands \cup {NoTask} /\ subscriptions[d] # i
      BY <2>1 DEF EntriesMatchTasks, Types, TaskTypes, Entered, NoTask,
         Commands
    <3>7. \A t \in Commands : chan[t] \in Channels
      BY DEF Types, SessionTypes
    <3> QED
      BY <2>1, <2>2, <3>1, <3>2, <3>3, <3>4, <3>5, <3>6, <3>7
         DEF EntriesMatchTasks, Subscribing, Entered
  <2> QED
    BY <1>2, <2>3, <2>4 DEF ProcessSubscribe
<1>3. ASSUME NEW i \in Commands, NEW c \in Channels, ProcessUnsubscribe(i, c)
      PROVE  EntriesMatchTasks'
  <2>1. EntryRemoved(c) /\ UNCHANGED task /\ reader # "done"
    BY <1>3 DEF ProcessUnsubscribe, Processing
  <2> QED
    BY <1>a, <2>1, EntriesWithout
<1>4. ASSUME ReaderEnds PROVE EntriesMatchTasks'
  <2>1. /\ reader' = "done" /\ UNCHANGED <<subscriptions, task, kind, chan>>
        /\ aborted \subseteq aborted'
    BY <1>4 DEF ReaderEnds, Aborted, commandVars
  <2> QED
    BY <2>1 DEF EntriesMatchTasks, Subscribing
<1>5. ASSUME NEW t \in Commands, HandlerEnds(t) PROVE EntriesMatchTasks'
  BY <1>5, <1>a, EntriesKept DEF HandlerEnds, Entered, Types, TaskTypes
<1>6. ASSUME NEW t \in Commands, TaskRemovesEntry(t) PROVE EntriesMatchTasks'
  <2>1. EntryRemoved(chan[t]) /\ chan[t] \in Channels /\ UNCHANGED reader
    BY <1>6 DEF TaskRemovesEntry, Types, SessionTypes, readerVars
  <2>2. task[t] \in Entered
    BY <1>6 DEF TaskRemovesEntry, Entered
  <2>3. \A u \in Commands :
           \/ task'[u] = task[u]
           \/ u = t /\ task'[u] \in {"refused", "goodbye"}
    BY <1>6 DEF TaskRemovesEntry, Types, TaskTypes
  <2> QED
    BY <1>a, <2>1, <2>2, <2>3, EntriesWithout
<1>7. ASSUME NEW t \in Commands, TaskCancelled(t) PROVE EntriesMatchTasks'
  <2>1. /\ UNCHANGED <<subscriptions, reader>> /\ t \in aborted /\ task[t] # "none"
        /\ task'[t] = "done" /\ \A u \in Commands : u # t => task'[u] = task[u]
        /\ aborted' = aborted \ {t}
    BY <1>7 DEF TaskCancelled, Gone, Awaiting, Types, TaskTypes
  <2>2. "done" \notin Entered
    BY DEF Entered
  <2> QED
    BY <1>a, <2>1, <2>2, EntriesKept
<1>8. ASSUME NEW t \in Commands, StreamYields(t) PROVE EntriesMatchTasks'
  BY <1>8, <1>a, EntriesKept DEF StreamYields, Entered, Types, TaskTypes
<1>9. ASSUME NEW t \in Commands, TaskSends(t) PROVE EntriesMatchTasks'
  BY <1>9, <1>a, EntriesKept DEF TaskSends, Gone, Types, TaskTypes, Entered
<1>10. CASE CloserFires \/ PingFires \/ ReadMessage \/ PongTimerFires \/
            ProcessPong \/ (\E i \in Commands : ProcessConnect(i)) \/
            (\E i \in Commands : ConnectSettled(i)) \/
            (\E i \in Commands : ProcessUnexpected(i)) \/
            (\E i \in Commands : ProcessLimited(i)) \/
            (\E i \in Commands : ProcessOther(i))
  BY <1>10, <1>a, EntriesKept DEF CloserFires, PingFires, ReadMessage,
     PongTimerFires, ProcessPong, ProcessConnect, ConnectSettled,
     ProcessUnexpected, ProcessLimited, ProcessOther, Selecting, Processing
<1>11. CASE ReaderSends \/ RemoteEnds \/ WriterReceives \/ WriterSends \/
            WriterEnds \/ Arrives \/ Tick \/ ServeReturns
  BY <1>11, <1>a, EntriesKept DEF ReaderSends, RemoteEnds, WriterReceives,
     WriterSends, WriterEnds, Arrives, Tick, ServeReturns, Selecting,
     Processing
<1>12. CASE UNCHANGED vars
  BY <1>12, <1>a, EntriesKept DEF vars, Selecting, Processing
<1> QED
  BY <1>1, <1>2, <1>3, <1>4, <1>5, <1>6, <1>7, <1>8, <1>9, <1>10, <1>11, <1>12
     DEF Next, Reader, Select, Process, Writer, TaskStep, TaskAdvances

\* Whom the removal of an entry aborts.
LEMMA WhomItAborts ==
  ASSUME NEW c \in Channels, EntryRemoved(c)
  PROVE  \A t \in aborted' :
            t \in aborted \/ (t = subscriptions[c] /\ t # NoTask /\ task[t] # "none")
<1>1. aborted' = aborted \cup {t \in {subscriptions[c]} \ {NoTask} : Running(t)}
  BY DEF EntryRemoved, Aborted
<1>2. \A t : Running(t) => task[t] # "none"
  BY DEF Running, Live, Entered, Awaiting
<1> QED
  BY <1>1, <1>2

\* A step that leaves each task where it is, or sends it where its kind of
\* task may go.
LEMMA KindsFollow ==
  ASSUME TaskKinds, KindsKept, reader = "done" => reader' = "done",
         \A t \in Commands :
            \/ task'[t] = task[t]
            \/ /\ task[t] # "none"
               /\ task'[t] \in {"handler", "answer", "done"} \/ Subscribing(t),
         \A t \in aborted' : t \in aborted \/ reader = "done" \/ Subscribing(t),
         \A t \in aborted' : task[t] # "none",
         aborted' \subseteq Commands
  PROVE  TaskKinds'
<1>1. ASSUME NEW t \in Commands, task'[t] # "none"
      PROVE  task[t] # "none" /\ kind'[t] = kind[t]
  BY <1>1 DEF KindsKept
<1>2. ASSUME NEW t \in aborted', reader' # "done" PROVE kind'[t] = "subscribe"
  BY <1>2 DEF TaskKinds, KindsKept, Subscribing
<1> QED
  BY <1>1, <1>2 DEF TaskKinds, Subscribing

\* Tasks stay what they are.
LEMMA TaskKindsStep ==
  ASSUME Types, QueuedIsFresh, ReaderPlace, TaskKinds, EntriesMatchTasks,
    [Next]_vars PROVE TaskKinds'
<1>a. KindsKept
  BY TasksKeepKinds
<1>b. aborted \subseteq Commands /\ \A t \in aborted : task[t] # "none"
  BY DEF Types, TaskTypes, Running, Live, Entered, Awaiting
<1>c. \A d \in Channels : subscriptions[d] \in Commands \cup {NoTask}
  BY DEF Types, TaskTypes
<1> USE DEF commandVars, taskVars, readerVars, timerVars, writerVars
<1>1. ASSUME NEW i \in Commands, ProcessCall(i) PROVE TaskKinds'
  <2>1. task[i] = "none" /\ kind[i] = "call" /\ reader # "done"
    BY <1>1, HeadIsFresh DEF ProcessCall, Permitted, Midway
  <2>2. \A t \in Commands : task'[t] = task[t] \/ (t = i /\ task'[t] = "handler")
    BY <1>1 DEF ProcessCall, Spawned, Types, TaskTypes
  <2>3. UNCHANGED <<aborted, kind>>
    BY <1>1 DEF ProcessCall, commandVars
  <2> QED
    BY <2>1, <2>2, <2>3 DEF TaskKinds, Subscribing
<1>2. ASSUME NEW i \in Commands, ProcessSubscribe(i) PROVE TaskKinds'
  <2>1. task[i] = "none" /\ kind[i] = "subscribe" /\ reader # "done"
    BY <1>2, HeadIsFresh DEF ProcessSubscribe, Permitted, Midway
  <2>2. \A t \in Commands : task'[t] = task[t] \/ (t = i /\ task'[t] = "handler")
    BY <1>2 DEF ProcessSubscribe, Spawned, Types, TaskTypes
  <2>3. UNCHANGED <<aborted, kind>>
    BY <1>2 DEF ProcessSubscribe, commandVars
  <2> QED
    BY <2>1, <2>2, <2>3 DEF TaskKinds, Subscribing
<1>3. ASSUME NEW i \in Commands, NEW c \in Channels, ProcessUnsubscribe(i, c)
      PROVE  TaskKinds'
  <2>1. EntryRemoved(c) /\ UNCHANGED task /\ reader # "done"
    BY <1>3 DEF ProcessUnsubscribe, Processing
  <2>2. \A t \in aborted' :
           t \in aborted \/ (t = subscriptions[c] /\ t # NoTask /\ task[t] # "none")
    BY <2>1, WhomItAborts
  <2>3. subscriptions[c] # NoTask => Subscribing(subscriptions[c])
    BY <2>1 DEF EntriesMatchTasks
  <2> QED
    BY <1>a, <1>b, <1>c, <2>1, <2>2, <2>3, KindsFollow
<1>4. ASSUME ReaderEnds PROVE TaskKinds'
  <2>1. reader' = "done" /\ UNCHANGED <<task, kind>>
    BY <1>4 DEF ReaderEnds, commandVars
  <2> QED
    BY <2>1 DEF TaskKinds, Subscribing
<1>5. ASSUME NEW t \in Commands, HandlerEnds(t) PROVE TaskKinds'
  BY <1>5, <1>a, <1>b, KindsFollow DEF HandlerEnds, Types, TaskTypes
<1>6. ASSUME NEW t \in Commands, TaskRemovesEntry(t) PROVE TaskKinds'
  <2>1. /\ EntryRemoved(chan[t]) /\ chan[t] \in Channels /\ UNCHANGED reader
        /\ task[t] \in {"refuse", "closing"}
    BY <1>6 DEF TaskRemovesEntry, Types, SessionTypes, readerVars
  <2>2. \A u \in aborted' :
           \/ u \in aborted
           \/ u = subscriptions[chan[t]] /\ u # NoTask /\ task[u] # "none"
    BY <2>1, WhomItAborts
  <2>3. reader # "done" /\ subscriptions[chan[t]] # NoTask =>
           Subscribing(subscriptions[chan[t]])
    BY <2>1 DEF EntriesMatchTasks
  <2>4. \A u \in Commands :
           task'[u] = task[u] \/ (u = t /\ task'[u] \in {"refused", "goodbye"})
    BY <1>6 DEF TaskRemovesEntry, Types, TaskTypes
  <2>5. Subscribing(t)
    BY <2>1 DEF TaskKinds
  <2> QED
    BY <1>a, <1>b, <1>c, <2>1, <2>2, <2>3, <2>4, <2>5, KindsFollow
<1>7. ASSUME NEW t \in Commands, TaskCancelled(t) PROVE TaskKinds'
  <2>1. /\ UNCHANGED reader /\ task[t] # "none"
        /\ task'[t] = "done" /\ \A u \in Commands : u # t => task'[u] = task[u]
        /\ aborted' = aborted \ {t}
    BY <1>7 DEF TaskCancelled, Gone, Awaiting, Types, TaskTypes
  <2> QED
    BY <1>a, <1>b, <1>c, <2>1, KindsFollow
<1>8. ASSUME NEW t \in Commands, StreamYields(t) PROVE TaskKinds'
  <2>1. Subscribing(t) /\ task[t] # "none"
    BY <1>8 DEF StreamYields, TaskKinds
  <2>2. UNCHANGED <<reader, aborted>> /\ \A u \in Commands : u # t => task'[u] = task[u]
    BY <1>8 DEF StreamYields, Types, TaskTypes
  <2> QED
    BY <1>a, <1>b, <2>1, <2>2, KindsFollow
<1>9. ASSUME NEW t \in Commands, TaskSends(t) PROVE TaskKinds'
  <2>1. task[t] # "none" /\ (Subscribing(t) \/ task'[t] = "done")
    BY <1>9 DEF TaskSends, TaskKinds, Gone, Types, TaskTypes
  <2>2. /\ UNCHANGED reader /\ aborted' \subseteq aborted
        /\ \A u \in Commands : u # t => task'[u] = task[u]
    BY <1>9 DEF TaskSends, Gone, Types, TaskTypes
  <2> QED
    BY <1>a, <1>b, <2>1, <2>2, KindsFollow
<1>10. CASE CloserFires \/ PingFires \/ ReadMessage \/ PongTimerFires \/
            ProcessPong \/ (\E i \in Commands : ProcessConnect(i)) \/
            (\E i \in Commands : ConnectSettled(i)) \/
            (\E i \in Commands : ProcessUnexpected(i)) \/
            (\E i \in Commands : ProcessLimited(i)) \/
            (\E i \in Commands : ProcessOther(i))
  BY <1>10, <1>a, <1>b, KindsFollow DEF CloserFires, PingFires, ReadMessage,
     PongTimerFires, ProcessPong, ProcessConnect, ConnectSettled,
     ProcessUnexpected, ProcessLimited, ProcessOther, Selecting, Processing
<1>11. CASE ReaderSends \/ RemoteEnds \/ WriterReceives \/ WriterSends \/
            WriterEnds \/ Arrives \/ Tick \/ ServeReturns
  BY <1>11, <1>a, <1>b, KindsFollow DEF ReaderSends, RemoteEnds,
     WriterReceives, WriterSends, WriterEnds, Arrives, Tick, ServeReturns,
     Selecting, Processing
<1>12. CASE UNCHANGED vars
  BY <1>12, <1>a, <1>b, KindsFollow DEF vars, Selecting, Processing
<1> QED
  BY <1>1, <1>2, <1>3, <1>4, <1>5, <1>6, <1>7, <1>8, <1>9, <1>10, <1>11, <1>12
     DEF Next, Reader, Select, Process, Writer, TaskStep, TaskAdvances

-----------------------------------------------------------------------------
(* The queues and what is known of the commands in them.                   *)

\* A queue without repetitions has none when its head is taken,
LEMMA OnceTail ==
  ASSUME NEW S, NEW s \in Seq(S), s # <<>>, Once(s)
  PROVE  Once(Tail(s)) /\ (Head(s) # Pong => Head(s) \notin Range(Tail(s)))
<1>1. \A j, k \in DOMAIN Tail(s) : Tail(s)[j] = Tail(s)[k] /\ Tail(s)[j] # Pong => j = k
  <2>1. ASSUME NEW j \in DOMAIN Tail(s), NEW k \in DOMAIN Tail(s),
               Tail(s)[j] = Tail(s)[k], Tail(s)[j] # Pong
        PROVE  j = k
    <3>1. /\ j + 1 \in DOMAIN s /\ Tail(s)[j] = s[j + 1] /\ j \in Nat
          /\ k + 1 \in DOMAIN s /\ Tail(s)[k] = s[k + 1] /\ k \in Nat
      BY TailOf
    <3>2. j + 1 = k + 1
      BY <2>1, <3>1 DEF Once
    <3> QED
      BY <3>1, <3>2
  <2> QED
    BY <2>1
<1>2. ASSUME NEW j \in DOMAIN Tail(s), Head(s) # Pong
      PROVE  Tail(s)[j] # Head(s)
  <2>1. /\ j + 1 \in DOMAIN s /\ Tail(s)[j] = s[j + 1] /\ j \in Nat \ {0}
        /\ 1 \in DOMAIN s /\ Head(s) = s[1]
    BY TailOf
  <2>2. j + 1 # 1
    BY <2>1
  <2> QED
    BY <1>2, <2>1, <2>2 DEF Once
<1> QED
  BY <1>1, <1>2 DEF Once, Range

\* nor when something new is added,
LEMMA OnceAppend ==
  ASSUME NEW S, NEW s \in Seq(S), NEW e \in S, Once(s), e \notin Range(s) \/ e = Pong
  PROVE  Once(Append(s, e))
<1>1. \A j \in DOMAIN s : s[j] = e => e = Pong
  BY DEF Range
<1> QED
  BY <1>1, AppendTo DEF Once

\* nor when it is cut in two, which then have nothing in common.
LEMMA OnceCut ==
  ASSUME NEW S, NEW s \in Seq(S), NEW n \in 0..Len(s), Once(s)
  PROVE  /\ Once(SubSeq(s, 1, n)) /\ Once(SubSeq(s, n + 1, Len(s)))
         /\ Range(SubSeq(s, 1, n)) \cap Range(SubSeq(s, n + 1, Len(s))) \subseteq {Pong}
<1> DEFINE a == SubSeq(s, 1, n)
           b == SubSeq(s, n + 1, Len(s))
<1>1. /\ DOMAIN a = 1..n
      /\ \A j \in 1..n : a[j] = s[j] /\ j \in DOMAIN s
  BY CutAt
<1>2. \A j \in DOMAIN b :
         b[j] = s[n + j] /\ n + j \in DOMAIN s /\ n + j \notin 1..n /\ j \in Nat
  BY CutAt
<1> HIDE DEF a, b
<1>3. Once(a)
  BY <1>1 DEF Once
<1>4. Once(b)
  <2>1. ASSUME NEW j \in DOMAIN b, NEW k \in DOMAIN b, b[j] = b[k], b[j] # Pong
        PROVE  j = k
    <3>1. n + j = n + k
      BY <1>2, <2>1 DEF Once
    <3> QED
      BY <1>2, <3>1
  <2> QED
    BY <2>1 DEF Once
<1>5. Range(a) \cap Range(b) \subseteq {Pong}
  <2>1. ASSUME NEW j \in DOMAIN a, NEW k \in DOMAIN b, a[j] = b[k], a[j] # Pong
        PROVE  FALSE
    <3>1. j = n + k
      BY <1>1, <1>2, <2>1 DEF Once
    <3> QED
      BY <1>1, <1>2, <3>1
  <2> QED
    BY <2>1 DEF Range
<1> QED
  BY <1>3, <1>4, <1>5 DEF a, b

\* A message: its commands come from the queue, and are not queued twice.
LEMMA MessageTaken ==
  ASSUME Types, QueuedOnce, ReadMessage
  PROVE  /\ Once(inbox') /\ Once(incoming')
         /\ Range(inbox') \cap Range(incoming') \subseteq {Pong}
         /\ Queue' \subseteq Range(incoming)
         /\ \A i \in Commands :
               \/ outcome'[i] = outcome[i]
               \/ i \in Range(incoming) \ Queue' /\ outcome'[i] = "dropped"
<1>1. PICK n \in 1..Len(incoming) :
        /\ inbox' \in Decoded(SubSeq(incoming, 1, n))
        /\ incoming' = SubSeq(incoming, n + 1, Len(incoming))
        /\ outcome' = [i \in Commands |->
                         IF i \in Range(SubSeq(incoming, 1, n)) \ Range(inbox')
                         THEN "dropped" ELSE outcome[i]]
  BY DEF ReadMessage
<1> DEFINE message == SubSeq(incoming, 1, n)
<1>2. incoming \in Seq(Commands \cup {Pong}) /\ n \in 0..Len(incoming) /\ Once(incoming)
  BY DEF Types, QueueTypes, QueuedOnce
<1>3. /\ Once(message) /\ Once(incoming') /\ message \in Seq(Commands \cup {Pong})
      /\ Range(message) \cap Range(incoming') \subseteq {Pong}
      /\ Range(message) \subseteq Range(incoming)
      /\ Range(incoming') \subseteq Range(incoming)
  BY <1>1, <1>2, OnceCut, CutAt
<1>4. PICK m \in 0..Len(message) : inbox' = SubSeq(message, 1, m)
  BY <1>1 DEF Decoded
<1> HIDE DEF message
<1>5. Once(inbox') /\ Range(inbox') \subseteq Range(message)
  BY <1>3, <1>4, OnceCut, CutAt
<1>6. \A i \in Commands : i # Pong
  BY Messages DEF Pong
<1>7. \A i \in Commands :
         \/ outcome'[i] = outcome[i]
         \/ i \in Range(incoming) \ Queue' /\ outcome'[i] = "dropped"
  BY <1>1, <1>3, <1>6 DEF Queue, message
<1> QED
  BY <1>3, <1>5, <1>7 DEF Queue

\* Nothing is queued twice.
LEMMA QueuedOnceStep ==
  ASSUME Types, ReaderPlace, QueuedIsFresh, QueuedOnce, [Next]_vars PROVE
    QueuedOnce'
<1> USE DEF QueuedOnce, commandVars, taskVars, readerVars, timerVars,
   writerVars
<1>a. /\ incoming \in Seq(Commands \cup {Pong}) /\ inbox \in Seq(Commands \cup {Pong})
  BY DEF Types, QueueTypes
<1>b. inbox # <<>> => Once(Tail(inbox)) /\ Range(Tail(inbox)) \subseteq Range(inbox)
  BY <1>a, OnceTail, TailOf
<1>c. reader \in {"permit", "on_connect"} => inbox # <<>>
  BY DEF ReaderPlace, Midway
<1>1. ASSUME ReadMessage PROVE QueuedOnce'
  BY <1>1, MessageTaken
<1>2. ASSUME ProcessPong PROVE QueuedOnce'
  BY <1>2, <1>b, <1>c DEF ProcessPong, Processing
<1>3. ASSUME NEW i \in Commands, ConnectSettled(i) PROVE QueuedOnce'
  BY <1>3, <1>b, <1>c DEF ConnectSettled, Replies, RepliesError
<1>4. ASSUME NEW i \in Commands, ProcessUnexpected(i) PROVE QueuedOnce'
  BY <1>4, <1>b, <1>c DEF ProcessUnexpected, Processing, Known, Replies, RepliesError
<1>5. ASSUME NEW i \in Commands, ProcessCall(i) PROVE QueuedOnce'
  BY <1>5, <1>b, <1>c DEF ProcessCall, Permitted, Spawned, Replies
<1>6. ASSUME NEW i \in Commands, ProcessSubscribe(i) PROVE QueuedOnce'
  BY <1>6, <1>b, <1>c DEF ProcessSubscribe, Permitted, Spawned, Replies,
     MaySubscribe
<1>7. ASSUME NEW i \in Commands, NEW c \in Channels, ProcessUnsubscribe(i, c)
      PROVE  QueuedOnce'
  BY <1>7, <1>b, <1>c DEF ProcessUnsubscribe, Processing, Known, Replies,
     EntryRemoved, Aborted
<1>8. ASSUME NEW i \in Commands, ProcessOther(i) PROVE QueuedOnce'
  BY <1>8, <1>b, <1>c DEF ProcessOther, Processing, Known, Replies
<1>9. ASSUME ReaderEnds PROVE QueuedOnce'
  BY <1>9 DEF ReaderEnds, Once, Range
<1>10. ASSUME Arrives PROVE QueuedOnce'
  <2>1. CASE incoming' = Append(incoming, Pong)
    BY <1>10, <2>1, <1>a, AppendTo, OnceAppend DEF Arrives
  <2>2. ASSUME NEW i \in Commands, outcome[i] = "idle", incoming' = Append(incoming, i)
        PROVE  QueuedOnce'
    <3>1. i \notin Queue
      BY <2>2 DEF QueuedIsFresh
    <3> QED
      BY <1>10, <1>a, <2>2, <3>1, AppendTo, OnceAppend DEF Arrives, Queue
  <2> QED
    BY <1>10, <2>1, <2>2 DEF Arrives
<1>11. CASE CloserFires \/ PingFires \/ PongTimerFires \/
            (\E i \in Commands : ProcessConnect(i)) \/
            (\E i \in Commands : ProcessLimited(i)) \/ ReaderSends \/
            RemoteEnds \/ WriterReceives \/ WriterSends \/ WriterEnds
  BY <1>11 DEF CloserFires, PingFires, PongTimerFires, ProcessConnect,
     ProcessLimited, ReaderSends, RemoteEnds, WriterReceives, WriterSends,
     WriterEnds
<1>12. CASE (\E t \in Commands : HandlerEnds(t)) \/
            (\E t \in Commands : TaskRemovesEntry(t)) \/
            (\E t \in Commands : TaskCancelled(t)) \/
            (\E t \in Commands : StreamYields(t)) \/
            (\E t \in Commands : TaskSends(t)) \/ Tick \/ ServeReturns
  BY <1>12 DEF HandlerEnds, TaskRemovesEntry, TaskCancelled, StreamYields,
     TaskSends, Tick, ServeReturns
<1>13. CASE UNCHANGED vars
  BY <1>13 DEF vars
<1> QED
  BY <1>1, <1>2, <1>3, <1>4, <1>5, <1>6, <1>7, <1>8, <1>9, <1>10, <1>11, <1>12,
     <1>13 DEF Next, Reader, Select, Process, Writer, TaskStep, TaskAdvances

\* When the command at the head of the inbox is taken, those that remain are
\* other commands, of which nothing is known yet.
LEMMA HeadTaken ==
  ASSUME Types, QueuedOnce, QueuedIsFresh, ReaderPlace, NEW i \in Commands,
         Processing(i) \/ (Midway /\ Head(inbox) = i)
  PROVE  /\ i \notin Range(Tail(inbox)) \cup Range(incoming)
         /\ \A j \in Commands \cap (Range(Tail(inbox)) \cup Range(incoming)) :
               /\ j # i /\ j \in Queue
               /\ kind[j] = "none" /\ task[j] = "none" /\ outcome[j] = "pending"
<1>1. /\ inbox # <<>> /\ Head(inbox) = i /\ i \in Range(inbox)
      /\ inbox \in Seq(Commands \cup {Pong}) /\ i # Pong
  BY HeadIsFresh, Messages DEF Types, QueueTypes, Pong
<1>2. i \notin Range(Tail(inbox)) /\ Range(Tail(inbox)) \subseteq Range(inbox)
  BY <1>1, OnceTail, TailOf DEF QueuedOnce
<1>3. i \notin Range(incoming)
  BY <1>1 DEF QueuedOnce
<1> QED
  BY <1>1, <1>2, <1>3 DEF QueuedIsFresh, Queue

\* What is sent is in the channel, if it is anywhere.
LEMMA SentIsSaid ==
  ASSUME Types, NEW m \in Message, Sent(m)
  PROVE  Range(replyCh') \subseteq Range(replyCh) \cup {m}
<1>1. CASE UNCHANGED replyCh
  BY <1>1
<1>2. CASE replyCh' = Append(replyCh, m)
  BY <1>2, AppendTo DEF Types, QueueTypes
<1> QED
  BY <1>1, <1>2 DEF Sent

\* What the writer takes is written or lost, and if any is lost, there is an
\* error to end with.
LEMMA BatchTaken ==
  ASSUME Types, WriterReceives
  PROVE  /\ replyCh \in Seq(Message) /\ BatchSize \in 0..Len(replyCh)
         /\ \A k \in DOMAIN flight' : k \in DOMAIN replyCh /\ flight'[k] = replyCh[k]
         /\ Range(flight') \subseteq Range(SubSeq(replyCh, 1, BatchSize))
         /\ Range(flight') \subseteq Range(replyCh)
         /\ Range(replyCh') \subseteq Range(replyCh)
         /\ outcome' = [i \in Commands |->
                          IF Answer(i) \in Range(SubSeq(replyCh, 1, BatchSize))
                                             \ Range(flight')
                          THEN "dropped" ELSE outcome[i]]
         /\ failure' = 0 =>
               /\ Range(SubSeq(replyCh, 1, BatchSize)) = Range(flight')
               /\ \A m \in Range(flight') : m.code = 0
<1>1. replyCh \in Seq(Message) /\ BatchSize \in 0..Len(replyCh)
  BY BatchSizes DEF WriterReceives, Types, QueueTypes
<1> DEFINE batch == SubSeq(replyCh, 1, BatchSize)
<1>2. /\ batch \in Seq(Message) /\ Range(batch) \subseteq Range(replyCh)
      /\ DOMAIN batch = 1..BatchSize
      /\ \A k \in 1..BatchSize : batch[k] = replyCh[k] /\ k \in DOMAIN replyCh
  BY <1>1, CutAt
<1>3. Range(replyCh') \subseteq Range(replyCh)
  BY <1>1, CutAt DEF WriterReceives, Remaining
<1>4. PICK n \in 0..Len(batch) :
        /\ Replied(batch, n)
        /\ flight' \in Encoded(SubSeq(batch, 1, n))
        /\ failure' = Verdict(batch, n, flight')
        /\ Discarded(Range(batch) \ Range(flight'))
  BY DEF WriterReceives
<1> HIDE DEF batch
<1> DEFINE replies == SubSeq(batch, 1, n)
<1>5. /\ replies \in Seq(Message) /\ DOMAIN replies = 1..n
      /\ \A k \in 1..n : replies[k] = batch[k] /\ k \in DOMAIN batch
      /\ Range(replies) \subseteq Range(batch)
  BY <1>2, CutAt
<1> HIDE DEF replies
<1>6. /\ DOMAIN flight' \subseteq DOMAIN replies
      /\ \A k \in DOMAIN flight' : flight'[k] = replies[k]
      /\ Range(flight') \subseteq Range(replies)
  BY <1>4, <1>5, Encodings DEF replies
<1>7. ASSUME failure' = 0
      PROVE  Range(batch) = Range(flight') /\ \A m \in Range(flight') : m.code = 0
  <2>1. flight' = replies /\ Failed(batch, n) = 0
    BY <1>4, <1>7, Messages DEF Verdict, replies
  <2>2. n = Len(batch)
    <3>1. n \in 0..Len(batch) /\ Len(batch) \in Nat
      BY <1>2, LenProperties
    <3>2. n # Len(batch) => n < Len(batch)
      BY <3>1
    <3> QED
      BY <1>4, <2>1, <3>2 DEF Failed, Replied
  <2>3. DOMAIN batch = 1..n
    BY <1>2, <2>2, LenProperties
  <2>4. Range(batch) \subseteq Range(flight')
    BY <1>5, <2>1, <2>3 DEF Range
  <2>5. \A k \in 1..n : batch[k].code = 0
    BY <1>4 DEF Replied
  <2> QED
    BY <1>5, <1>6, <2>1, <2>4, <2>5 DEF Range
<1> QED
  BY <1>1, <1>2, <1>3, <1>4, <1>5, <1>6, <1>7 DEF Discarded, batch

\* An answer is in one place of a channel, also when the channel is cut,
LEMMA DistinctCut ==
  ASSUME NEW s \in Seq(Message), NEW n \in 0..Len(s), Distinct(s)
  PROVE  /\ Distinct(SubSeq(s, n + 1, Len(s)))
         /\ \A i \in Commands :
               Answer(i) \in Range(SubSeq(s, 1, n)) =>
                  Answer(i) \notin Range(SubSeq(s, n + 1, Len(s)))
<1> DEFINE a == SubSeq(s, 1, n)
           b == SubSeq(s, n + 1, Len(s))
<1>1. /\ DOMAIN a = 1..n
      /\ \A j \in 1..n : a[j] = s[j] /\ j \in DOMAIN s
  BY CutAt
<1>2. \A j \in DOMAIN b :
         b[j] = s[n + j] /\ n + j \in DOMAIN s /\ n + j \notin 1..n /\ j \in Nat
  BY CutAt
<1> HIDE DEF a, b
<1>3. Distinct(b)
  <2>1. ASSUME NEW i \in Commands, NEW j \in DOMAIN b, NEW k \in DOMAIN b,
               b[j] = Answer(i), b[k] = Answer(i)
        PROVE  j = k
    <3>1. n + j = n + k
      BY <1>2, <2>1 DEF Distinct
    <3> QED
      BY <1>2, <3>1
  <2> QED
    BY <2>1 DEF Distinct
<1>4. ASSUME NEW i \in Commands, NEW j \in DOMAIN a, NEW k \in DOMAIN b,
             a[j] = Answer(i), b[k] = Answer(i)
      PROVE  FALSE
  <2>1. j = n + k
    BY <1>1, <1>2, <1>4 DEF Distinct
  <2> QED
    BY <1>1, <1>2, <2>1
<1>5. \A i \in Commands : Answer(i) \in Range(a) => Answer(i) \notin Range(b)
  BY <1>4 DEF Range
<1> QED
  BY <1>3, <1>5 DEF a, b

\* or a new one added.
LEMMA DistinctAppend ==
  ASSUME NEW s \in Seq(Message), NEW m \in Message, Distinct(s),
         \A i \in Commands : m = Answer(i) => m \notin Range(s)
  PROVE  Distinct(Append(s, m))
<1>1. \A i \in Commands : \A j \in DOMAIN s : m = Answer(i) => s[j] # m
  BY DEF Range
<1> QED
  BY <1>1, AppendTo DEF Distinct

\* Command j comes to something, and nobody will answer it any more.
Settled(j) ==
    /\ outcome[j] = "pending" /\ outcome'[j] \in {"reply", "dropped"}
    /\ ~Unanswered(j)' /\ ~Said(j)'

OutcomesKept == \A j \in Commands : outcome'[j] = outcome[j] \/ Settled(j)

\* The actions that settle commands, but for the end of serve().
Settles ==
    \/ ReadMessage
    \/ \E i \in Commands : ConnectSettled(i) \/ ProcessUnexpected(i)
    \/ ReaderSends \/ ReaderEnds
    \/ WriterReceives \/ WriterSends \/ WriterEnds
    \/ \E t \in Commands : TaskCancelled(t) \/ TaskSends(t)

\* A command is settled once.
LEMMA Settling ==
  ASSUME Types, ReaderPlace, EndsEmpty, QueuedOnce, QueuedIsFresh, AnsweredOnce,
         SaidOnce, Settles
  PROVE  OutcomesKept
<1> USE DEF commandVars, taskVars, readerVars, timerVars, writerVars
<1>a. \A j \in Commands : Said(j) => outcome[j] = "pending" /\ ~Unanswered(j)
  BY DEF AnsweredOnce
<1>b. \A j \in Commands : j \in Queue =>
         outcome[j] = "pending" /\ ~HoldsPermit(j) /\ ~Said(j)
  BY DEF AnsweredOnce, Unanswered, QueuedIsFresh, HoldsPermit
<1>1. ASSUME ReadMessage PROVE OutcomesKept
  <2>1. UNCHANGED <<task, replyCh, flight, reader, sending>> /\ Range(incoming) \subseteq Queue
    BY <1>1 DEF ReadMessage, Queue
  <2>2. ASSUME NEW j \in Commands, outcome'[j] # outcome[j] PROVE Settled(j)
    <3>1. j \in Queue /\ j \notin Queue' /\ outcome'[j] = "dropped"
      BY <1>1, <2>1, <2>2, MessageTaken
    <3>2. ~HoldsPermit(j)' /\ ~Said(j)'
      BY <1>b, <2>1, <3>1 DEF HoldsPermit, Said
    <3> QED
      BY <1>b, <3>1, <3>2 DEF Settled, Unanswered
  <2> QED
    BY <2>2 DEF OutcomesKept
<1>2. ASSUME NEW i \in Commands, NEW code \in Codes, RepliesError(i, code),
             Processing(i) \/ (Midway /\ Head(inbox) = i),
             UNCHANGED <<task, replyCh, flight, incoming>>
      PROVE  OutcomesKept
  <2>1. /\ i \in Queue /\ i \notin Queue' /\ outcome'[i] = "dropped"
        /\ \A j \in Commands : j # i => outcome'[j] = outcome[j]
    BY <1>2, HeadIsFresh, HeadTaken DEF Queue, RepliesError, Replies, Types, SessionTypes
  <2>2. ~HoldsPermit(i)' /\ ~Said(i)'
    BY <1>b, <1>2, <2>1, Different DEF HoldsPermit, Said, RepliesError, Replies
  <2>3. Settled(i)
    BY <1>b, <2>1, <2>2 DEF Settled, Unanswered
  <2> QED
    BY <2>1, <2>3 DEF OutcomesKept
<1>3. ASSUME NEW i \in Commands, ConnectSettled(i) PROVE OutcomesKept
  <2>1. /\ Midway /\ Head(inbox) = i /\ UNCHANGED <<task, replyCh, flight, incoming>>
        /\ UNCHANGED outcome \/ \E code \in {ServerError, InvalidToken} : RepliesError(i, code)
    BY <1>3 DEF ConnectSettled, Midway
  <2> QED
    BY <1>2, <2>1, Messages DEF OutcomesKept
<1>4. ASSUME NEW i \in Commands, ProcessUnexpected(i) PROVE OutcomesKept
  <2>1. /\ Processing(i) /\ UNCHANGED <<task, replyCh, flight, incoming>>
        /\ RepliesError(i, BadRequest)
    BY <1>4 DEF ProcessUnexpected
  <2> QED
    BY <1>2, <2>1, Messages
<1>5. ASSUME ReaderSends PROVE OutcomesKept
  <2>1. /\ reader = "send" /\ reader' = "ready"
        /\ UNCHANGED <<task, inbox, incoming, flight>>
    BY <1>5 DEF ReaderSends
  <2>2. CASE writer = "done" /\ Discarded({sending}) /\ UNCHANGED replyCh
    <3>1. replyCh = <<>> /\ flight = <<>>
      BY <2>2 DEF EndsEmpty
    <3>2. ASSUME NEW j \in Commands, outcome'[j] # outcome[j] PROVE Settled(j)
      <4>1. Said(j) /\ outcome'[j] = "dropped"
        BY <2>1, <2>2, <3>2 DEF Discarded, Said
      <4>2. ~Unanswered(j)'
        BY <1>a, <2>1, <4>1 DEF Unanswered, Queue, HoldsPermit
      <4>3. ~Said(j)'
        BY <2>1, <2>2, <3>1 DEF Said, Range
      <4> QED
        BY <1>a, <4>1, <4>2, <4>3 DEF Settled
    <3> QED
      BY <3>2 DEF OutcomesKept
  <2> QED
    BY <1>5, <2>2 DEF ReaderSends, Sent, OutcomesKept
<1>6. ASSUME ReaderEnds PROVE OutcomesKept
  <2>1. \A j \in Commands : sending # Answer(j)
    BY <1>6, Different DEF ReaderEnds, ReaderPlace
  <2> QED
    BY <1>6, <2>1 DEF ReaderEnds, Sent, Discarded, OutcomesKept
<1>7. ASSUME WriterReceives PROVE OutcomesKept
  <2> DEFINE batch == SubSeq(replyCh, 1, BatchSize)
  <2>1. /\ UNCHANGED <<task, inbox, incoming, reader, sending>>
        /\ replyCh' = SubSeq(replyCh, BatchSize + 1, Len(replyCh))
    BY <1>7 DEF WriterReceives, Remaining
  <2>2. /\ replyCh \in Seq(Message) /\ BatchSize \in 0..Len(replyCh)
        /\ \A j \in Commands : outcome'[j] # outcome[j] =>
              Answer(j) \in Range(batch) \ Range(flight') /\ outcome'[j] = "dropped"
    BY <1>7, BatchTaken
  <2>3. Range(batch) \subseteq Range(replyCh) /\ Distinct(replyCh)
    BY <2>2, CutAt DEF SaidOnce
  <2>4. \A j \in Commands : Answer(j) \in Range(batch) => Answer(j) \notin Range(replyCh')
    BY <2>1, <2>2, <2>3, DistinctCut
  <2> HIDE DEF batch
  <2>5. ASSUME NEW j \in Commands, outcome'[j] # outcome[j] PROVE Settled(j)
    <3>1. Answer(j) \in Range(replyCh) /\ outcome'[j] = "dropped"
      BY <2>2, <2>3, <2>5
    <3>2. ~Unanswered(j)' /\ outcome[j] = "pending"
      BY <1>a, <2>1, <3>1 DEF Unanswered, Queue, HoldsPermit, Said
    <3>3. ~(reader = "send" /\ sending = Answer(j))
      BY <3>1 DEF SaidOnce
    <3>4. ~Said(j)'
      BY <2>1, <2>2, <2>4, <2>5, <3>3 DEF Said
    <3> QED
      BY <3>1, <3>2, <3>4 DEF Settled
  <2> QED
    BY <2>5 DEF OutcomesKept
<1>8. ASSUME WriterSends PROVE OutcomesKept
  <2>1. UNCHANGED <<task, inbox, incoming, reader, sending, replyCh>> /\ flight' = <<>>
    BY <1>8 DEF WriterSends
  <2>2. \A j \in Commands : Answer(j) \in Range(flight) => ~Repeated(j)
    BY <1>a DEF Repeated, SaidOnce, Distinct, Said
  <2>3. ASSUME NEW j \in Commands, outcome'[j] # outcome[j] PROVE Settled(j)
    <3>1. Answer(j) \in Range(flight) /\ outcome'[j] \in {"reply", "dropped"}
      BY <1>8, <2>2, <2>3 DEF WriterSends, Discarded
    <3>2. ~Unanswered(j)' /\ outcome[j] = "pending"
      BY <1>a, <2>1, <3>1 DEF Unanswered, Queue, HoldsPermit, Said
    <3>3. /\ ~(reader = "send" /\ sending = Answer(j))
          /\ Answer(j) \notin Range(replyCh)
      BY <3>1 DEF SaidOnce
    <3>4. ~Said(j)'
      BY <2>1, <3>3 DEF Said, Range
    <3> QED
      BY <3>1, <3>2, <3>4 DEF Settled
  <2> QED
    BY <2>3 DEF OutcomesKept
<1>9. ASSUME WriterEnds PROVE OutcomesKept
  <2>1. /\ UNCHANGED <<task, inbox, incoming, reader, sending, flight>> /\ replyCh' = <<>>
        /\ flight = <<>>
    BY <1>9 DEF WriterEnds, EndsEmpty
  <2>2. ASSUME NEW j \in Commands, outcome'[j] # outcome[j] PROVE Settled(j)
    <3>1. Answer(j) \in Range(replyCh) /\ outcome'[j] = "dropped"
      BY <1>9, <2>2 DEF WriterEnds, Discarded
    <3>2. ~Unanswered(j)' /\ outcome[j] = "pending"
      BY <1>a, <2>1, <3>1 DEF Unanswered, Queue, HoldsPermit, Said
    <3>3. ~(reader = "send" /\ sending = Answer(j))
      BY <3>1 DEF SaidOnce
    <3>4. ~Said(j)'
      BY <2>1, <3>3 DEF Said, Range
    <3> QED
      BY <3>1, <3>2, <3>4 DEF Settled
  <2> QED
    BY <2>2 DEF OutcomesKept
<1>10. ASSUME NEW t \in Commands, HoldsPermit(t), ~HoldsPermit(t)',
              UNCHANGED <<inbox, incoming, reader, sending, flight, replyCh>>,
              outcome'[t] \in {outcome[t], "dropped"},
              \A j \in Commands : j # t => outcome'[j] = outcome[j]
       PROVE  OutcomesKept
  <2>1. /\ ~Said(t) /\ t \notin Queue
        /\ outcome[t] \in {"pending", "dropped"}
    BY <1>b, <1>10 DEF AnsweredOnce, Unanswered
  <2>2. ~Unanswered(t)' /\ ~Said(t)'
    BY <1>10, <2>1 DEF Unanswered, Queue, Said
  <2> QED
    BY <1>10, <2>1, <2>2 DEF OutcomesKept, Settled
<1>11. ASSUME NEW t \in Commands, TaskCancelled(t) PROVE OutcomesKept
  <2>1. /\ UNCHANGED <<inbox, incoming, reader, sending, flight, replyCh>>
        /\ ~HoldsPermit(t)'
        /\ outcome'[t] \in {outcome[t], "dropped"}
        /\ ~HoldsPermit(t) => outcome'[t] = outcome[t]
        /\ \A j \in Commands : j # t => outcome'[j] = outcome[j]
    BY <1>11 DEF TaskCancelled, Gone, HoldsPermit, Types, TaskTypes, SessionTypes
  <2> QED
    BY <1>10, <2>1 DEF OutcomesKept
<1>12. ASSUME NEW t \in Commands, TaskSends(t) PROVE OutcomesKept
  <2>1. /\ UNCHANGED <<inbox, incoming, reader, sending, flight>> /\ ~HoldsPermit(t)'
    BY <1>12 DEF TaskSends, Gone, HoldsPermit, Types, TaskTypes
  <2>2. CASE Sent(Push)
    BY <2>2, Different DEF Sent, Discarded, OutcomesKept
  <2>3. CASE task[t] \in {"answer", "refused"} /\ Sent(Answer(t))
    <3>1. HoldsPermit(t)
      BY <2>3 DEF HoldsPermit
    <3>2. CASE UNCHANGED outcome
      BY <3>2 DEF OutcomesKept
    <3>3. CASE Discarded({Answer(t)}) /\ UNCHANGED replyCh
      <4>1. /\ outcome'[t] = "dropped"
            /\ \A j \in Commands : j # t => outcome'[j] = outcome[j]
        BY <3>3, Different DEF Discarded
      <4> QED
        BY <1>10, <2>1, <3>1, <3>3, <4>1
    <3> QED
      BY <2>3, <3>2, <3>3 DEF Sent
  <2> QED
    BY <1>12, <2>2, <2>3 DEF TaskSends
<1> QED
  BY <1>1, <1>3, <1>4, <1>5, <1>6, <1>7, <1>8, <1>9, <1>11, <1>12 DEF Settles

\* A step after which no more is queued, nor more known of what is.
LEMMA FreshKept ==
  ASSUME QueuedIsFresh, OutcomesKept,
         \A j \in Commands : outcome[j] = "idle" =>
            kind'[j] = kind[j] /\ task'[j] = task[j],
         \A j \in Commands : j \in Queue' =>
            /\ j \in Queue /\ task'[j] = task[j]
            /\ kind'[j] = "none" \/ (Midway' /\ Head(inbox') = j)
  PROVE  QueuedIsFresh'
<1>1. \A j \in Commands : outcome'[j] = "idle" => outcome[j] = "idle"
  BY DEF OutcomesKept, Settled
<1>2. \A j \in Commands : j \in Queue' => outcome'[j] = outcome[j]
  BY DEF OutcomesKept, Settled, Unanswered
<1> QED
  BY <1>1, <1>2 DEF QueuedIsFresh

\* What is queued stays unknown.
LEMMA QueuedIsFreshStep ==
  ASSUME Types, ReaderPlace, EndsEmpty, QueuedOnce, AnsweredOnce, SaidOnce,
    QueuedIsFresh, [Next]_vars PROVE QueuedIsFresh'
<1>a. Settles => OutcomesKept
  BY Settling
<1>b. UNCHANGED outcome => OutcomesKept
  BY DEF OutcomesKept
<1> USE DEF commandVars, taskVars, readerVars, timerVars, writerVars
<1>1. ASSUME ReadMessage PROVE QueuedIsFresh'
  <2>1. UNCHANGED <<kind, task>> /\ reader = "ready"
    BY <1>1 DEF ReadMessage, Selecting
  <2>2. \A j \in Commands : j \in Queue' => j \in Queue
    BY <1>1, MessageTaken DEF Queue
  <2>3. OutcomesKept
    BY <1>1, <1>a DEF Settles
  <2>4. \A j \in Commands : j \in Queue => kind[j] = "none"
    BY <2>1 DEF QueuedIsFresh, Midway
  <2> QED
    BY <2>1, <2>2, <2>3, <2>4, FreshKept
<1>2. ASSUME ProcessPong PROVE QueuedIsFresh'
  <2>1. Range(inbox') \subseteq Range(inbox) /\ reader = "ready"
    BY <1>2, TailOf DEF ProcessPong, Processing, Types, QueueTypes
  <2> QED
    BY <1>2, <1>b, <2>1, FreshKept DEF ProcessPong, QueuedIsFresh, Queue, Midway
<1>3. ASSUME NEW i \in Commands, ProcessConnect(i) PROVE QueuedIsFresh'
  <2>1. outcome[i] = "pending" /\ Head(inbox) = i /\ reader = "ready"
    BY <1>3, HeadIsFresh DEF ProcessConnect, Processing
  <2>2. /\ UNCHANGED <<outcome, task, inbox, incoming>> /\ Midway'
        /\ \A j \in Commands : j # i => kind'[j] = kind[j]
    BY <1>3 DEF ProcessConnect, Known, Midway, Types, SessionTypes
  <2> QED
    BY <1>b, <2>1, <2>2, FreshKept DEF QueuedIsFresh, Queue, Midway
<1>4. ASSUME NEW i \in Commands, ConnectSettled(i) PROVE QueuedIsFresh'
  <2>1. /\ outcome[i] = "pending" /\ task[i] = "none"
        /\ \A j \in Commands : j \in Queue' => j # i /\ j \in Queue /\ kind[j] = "none"
    BY <1>4, HeadIsFresh, HeadTaken DEF ConnectSettled, Replies, RepliesError, Midway, Queue
  <2>2. /\ OutcomesKept
        /\ \A j \in Commands : j # i => kind'[j] = kind[j] /\ task'[j] = task[j]
    BY <1>4, <1>a DEF Settles, ConnectSettled, Replies, RepliesError, Midway, Types, SessionTypes, TaskTypes
  <2> QED
    BY <2>1, <2>2, FreshKept
<1>5. ASSUME NEW i \in Commands, ProcessUnexpected(i) PROVE QueuedIsFresh'
  <2>1. /\ outcome[i] = "pending" /\ task[i] = "none"
        /\ \A j \in Commands : j \in Queue' => j # i /\ j \in Queue /\ kind[j] = "none"
    BY <1>5, HeadIsFresh, HeadTaken DEF ProcessUnexpected, Replies, RepliesError, Known,
       Queue
  <2>2. /\ OutcomesKept
        /\ \A j \in Commands : j # i => kind'[j] = kind[j] /\ task'[j] = task[j]
    BY <1>5, <1>a DEF Settles, ProcessUnexpected, Replies, RepliesError, Known, Types, SessionTypes,
       TaskTypes
  <2> QED
    BY <2>1, <2>2, FreshKept
<1>6. ASSUME NEW i \in Commands, ProcessLimited(i) PROVE QueuedIsFresh'
  <2>1. outcome[i] = "pending" /\ Head(inbox) = i /\ reader = "ready"
    BY <1>6, HeadIsFresh DEF ProcessLimited, Processing
  <2>2. /\ UNCHANGED <<outcome, task, inbox, incoming>> /\ Midway'
        /\ \A j \in Commands : j # i => kind'[j] = kind[j]
    BY <1>6 DEF ProcessLimited, Known, Midway, Types, SessionTypes
  <2> QED
    BY <1>b, <2>1, <2>2, FreshKept DEF QueuedIsFresh, Queue, Midway
<1>7. ASSUME NEW i \in Commands, ProcessCall(i) PROVE QueuedIsFresh'
  <2>1. /\ outcome[i] = "pending" /\ task[i] = "none"
        /\ \A j \in Commands : j \in Queue' => j # i /\ j \in Queue /\ kind[j] = "none"
    BY <1>7, HeadIsFresh, HeadTaken DEF ProcessCall, Permitted, Midway,
       Spawned, Replies, Queue
  <2>2. /\ UNCHANGED outcome
        /\ \A j \in Commands : j # i => kind'[j] = kind[j] /\ task'[j] = task[j]
    BY <1>7 DEF ProcessCall, Permitted, Midway, Spawned, Replies, Types,
       SessionTypes, TaskTypes
  <2> QED
    BY <1>b, <2>1, <2>2, FreshKept
<1>8. ASSUME NEW i \in Commands, ProcessSubscribe(i) PROVE QueuedIsFresh'
  <2>1. /\ outcome[i] = "pending" /\ task[i] = "none"
        /\ \A j \in Commands : j \in Queue' => j # i /\ j \in Queue /\ kind[j] = "none"
    BY <1>8, HeadIsFresh, HeadTaken DEF ProcessSubscribe, Permitted, Midway,
       Spawned, Replies, Queue
  <2>2. /\ UNCHANGED outcome
        /\ \A j \in Commands : j # i => kind'[j] = kind[j] /\ task'[j] = task[j]
    BY <1>8 DEF ProcessSubscribe, Permitted, Midway, Spawned, Replies, Types,
       SessionTypes, TaskTypes
  <2> QED
    BY <1>b, <2>1, <2>2, FreshKept
<1>9. ASSUME NEW i \in Commands, NEW c \in Channels, ProcessUnsubscribe(i, c)
      PROVE  QueuedIsFresh'
  <2>1. /\ outcome[i] = "pending" /\ task[i] = "none"
        /\ \A j \in Commands : j \in Queue' => j # i /\ j \in Queue /\ kind[j] = "none"
    BY <1>9, HeadIsFresh, HeadTaken DEF ProcessUnsubscribe, Replies, Known,
       Queue
  <2>2. /\ UNCHANGED outcome
        /\ \A j \in Commands : j # i => kind'[j] = kind[j] /\ task'[j] = task[j]
    BY <1>9 DEF ProcessUnsubscribe, Replies, Known, Types, SessionTypes,
       TaskTypes
  <2> QED
    BY <1>b, <2>1, <2>2, FreshKept
<1>10. ASSUME NEW i \in Commands, ProcessOther(i) PROVE QueuedIsFresh'
  <2>1. /\ outcome[i] = "pending" /\ task[i] = "none"
        /\ \A j \in Commands : j \in Queue' => j # i /\ j \in Queue /\ kind[j] = "none"
    BY <1>10, HeadIsFresh, HeadTaken DEF ProcessOther, Replies, Known, Queue
  <2>2. /\ UNCHANGED outcome
        /\ \A j \in Commands : j # i => kind'[j] = kind[j] /\ task'[j] = task[j]
    BY <1>10 DEF ProcessOther, Replies, Known, Types, SessionTypes, TaskTypes
  <2> QED
    BY <1>b, <2>1, <2>2, FreshKept
<1>11. ASSUME ReaderEnds PROVE QueuedIsFresh'
  <2>1. \A j \in Commands : j \notin Queue'
    BY <1>11, Messages DEF ReaderEnds, ReaderPlace, Queue, Range
  <2> QED
    BY <1>11, <1>a, <2>1, FreshKept DEF ReaderEnds, Settles
<1>12. ASSUME ReaderSends \/ WriterReceives \/ WriterSends \/ WriterEnds
       PROVE  QueuedIsFresh'
  <2>1. /\ UNCHANGED <<kind, task, inbox, incoming>>
        /\ ~Midway \/ UNCHANGED reader
    BY <1>12 DEF ReaderSends, WriterReceives, WriterSends, WriterEnds, Midway
  <2> QED
    BY <1>12, <1>a, <2>1, FreshKept DEF Settles, QueuedIsFresh, Queue, Midway
<1>13. ASSUME NEW t \in Commands, HandlerEnds(t) PROVE QueuedIsFresh'
  <2>1. /\ UNCHANGED <<kind, outcome, inbox, incoming, reader>> /\ task[t] # "none"
        /\ \A j \in Commands : j # t => task'[j] = task[j]
    BY <1>13 DEF HandlerEnds, Types, TaskTypes
  <2> QED
    BY <1>b, <2>1, FreshKept DEF QueuedIsFresh, Queue, Midway
<1>14. ASSUME NEW t \in Commands, TaskRemovesEntry(t) PROVE QueuedIsFresh'
  <2>1. /\ UNCHANGED <<kind, outcome, inbox, incoming, reader>> /\ task[t] # "none"
        /\ \A j \in Commands : j # t => task'[j] = task[j]
    BY <1>14 DEF TaskRemovesEntry, Types, TaskTypes
  <2> QED
    BY <1>b, <2>1, FreshKept DEF QueuedIsFresh, Queue, Midway
<1>15. ASSUME NEW t \in Commands, TaskCancelled(t) PROVE QueuedIsFresh'
  <2>1. /\ UNCHANGED <<kind, inbox, incoming, reader>> /\ task[t] # "none"
        /\ \A j \in Commands : j # t => task'[j] = task[j]
    BY <1>15 DEF TaskCancelled, Gone, Awaiting, Types, TaskTypes
  <2> QED
    BY <1>15, <1>a, <2>1, FreshKept DEF Settles, QueuedIsFresh, Queue, Midway
<1>16. ASSUME NEW t \in Commands, StreamYields(t) PROVE QueuedIsFresh'
  <2>1. /\ UNCHANGED <<kind, outcome, inbox, incoming, reader>> /\ task[t] # "none"
        /\ \A j \in Commands : j # t => task'[j] = task[j]
    BY <1>16 DEF StreamYields, Types, TaskTypes
  <2> QED
    BY <1>b, <2>1, FreshKept DEF QueuedIsFresh, Queue, Midway
<1>17. ASSUME NEW t \in Commands, TaskSends(t) PROVE QueuedIsFresh'
  <2>1. /\ UNCHANGED <<kind, inbox, incoming, reader>> /\ task[t] # "none"
        /\ \A j \in Commands : j # t => task'[j] = task[j]
    BY <1>17 DEF TaskSends, Gone, Types, TaskTypes
  <2> QED
    BY <1>17, <1>a, <2>1, FreshKept DEF Settles, QueuedIsFresh, Queue, Midway
<1>18. ASSUME Arrives PROVE QueuedIsFresh'
  <2>1. ASSUME NEW i \in Commands, outcome[i] = "idle",
               outcome' = [outcome EXCEPT ![i] = "pending"],
               incoming' = Append(incoming, i)
        PROVE  QueuedIsFresh'
    <3>1. Queue' = Queue \cup {i}
      <4>1. inbox' = inbox /\ incoming \in Seq(Commands \cup {Pong})
        BY <1>18 DEF Arrives, Types, QueueTypes
      <4>2. Range(incoming') = Range(incoming) \cup {i}
        BY <2>1, <4>1, AppendTo
      <4> QED
        BY <4>1, <4>2 DEF Queue
    <3>2. /\ outcome'[i] = "pending" /\ UNCHANGED <<kind, task, inbox, reader>>
          /\ \A j \in Commands : j # i => outcome'[j] = outcome[j]
      BY <1>18, <2>1 DEF Arrives, Types, SessionTypes
    <3>3. i \notin Queue
      BY <2>1 DEF QueuedIsFresh
    <3> QED
      BY <2>1, <3>1, <3>2, <3>3 DEF QueuedIsFresh, Midway
  <2>2. CASE UNCHANGED outcome /\ incoming' = Append(incoming, Pong)
    <3>1. Queue' = Queue \cup {Pong}
      BY <1>18, <2>2, AppendTo DEF Arrives, Queue, Types, QueueTypes
    <3>2. Pong \notin Commands
      BY Messages DEF Pong
    <3> QED
      BY <1>18, <2>2, <3>1, <3>2 DEF Arrives, QueuedIsFresh, Midway
  <2> QED
    BY <1>18, <2>1, <2>2 DEF Arrives
<1>19. ASSUME ServeReturns PROVE QueuedIsFresh'
  <2>1. \A j \in Commands : j \notin Queue
    BY <1>19, Messages DEF ServeReturns, ReaderPlace, Queue, Range
  <2>2. /\ UNCHANGED <<kind, task, inbox, incoming>>
        /\ \A j \in Commands : outcome'[j] = "idle" => outcome[j] = "idle"
    BY <1>19 DEF ServeReturns, Types, SessionTypes
  <2> QED
    BY <2>1, <2>2 DEF Queue, QueuedIsFresh
<1>20. CASE CloserFires \/ PingFires \/ PongTimerFires \/ RemoteEnds \/ Tick
  BY <1>20, <1>b, FreshKept DEF CloserFires, PingFires, PongTimerFires, RemoteEnds,
     Tick, Selecting, QueuedIsFresh, Queue, Midway
<1>21. CASE UNCHANGED vars
  BY <1>21, <1>b, FreshKept DEF vars, Selecting, QueuedIsFresh, Queue, Midway
<1> QED
  BY <1>1, <1>2, <1>3, <1>4, <1>5, <1>6, <1>7, <1>8, <1>9, <1>10, <1>11, <1>12,
     <1>13, <1>14, <1>15, <1>16, <1>17, <1>18, <1>19, <1>20, <1>21 DEF Next,
     Reader, Select, Process, Writer, TaskStep, TaskAdvances

-----------------------------------------------------------------------------
(* Answers.                                                                *)

\* A step after which nobody else may answer, and nothing more has been said.
LEMMA AnswersKept ==
  ASSUME AnsweredOnce, returned => returned', OutcomesKept,
         \A j \in Commands : Unanswered(j)' => Unanswered(j),
         \A j \in Commands : Said(j)' => Said(j)
  PROVE  AnsweredOnce'
BY DEF AnsweredOnce, OutcomesKept, Settled

\* The reader is done with a command, and its reply, if any, is yet to be sent.
LEMMA AnswerGiven ==
  ASSUME Types, QueuedOnce, QueuedIsFresh, ReaderPlace, AnsweredOnce,
         NEW i \in Commands, Processing(i) \/ (Midway /\ Head(inbox) = i),
         NEW m, Replies(m), OutcomesKept,
         (m = Answer(i) /\ UNCHANGED outcome) \/ \E code \in Codes : m = Error(code),
         UNCHANGED <<task, replyCh, incoming, flight, returned>>
  PROVE  AnsweredOnce'
<1>1. /\ i \in Queue /\ outcome[i] = "pending" /\ task[i] = "none"
      /\ reader # "send"
  BY HeadIsFresh DEF Processing, Midway, Queue
<1>2. /\ i \notin Queue'
      /\ \A j \in Commands : j \in Queue' => j \in Queue
  BY HeadTaken DEF Replies, Queue
<1>3. ~HoldsPermit(i)
  BY <1>1 DEF HoldsPermit
<1>4. \A j \in Commands : Unanswered(j)' => Unanswered(j) /\ j # i
  BY <1>2, <1>3 DEF Unanswered, HoldsPermit
<1>5. CASE m = Answer(i) /\ UNCHANGED outcome
  <2>1. \A j \in Commands : Said(j)' => Said(j) \/ (j = i /\ outcome[j] = "pending")
    BY <1>1, <1>5, Different DEF Replies, Said
  <2>2. \A j \in Commands : j # i /\ Said(j)' => Said(j)
    BY <2>1
  <2> QED
    BY <1>4, <1>5, <2>1, <2>2 DEF AnsweredOnce
<1>6. CASE \E code \in Codes : m = Error(code)
  <2>1. \A j \in Commands : Said(j)' => Said(j)
    BY <1>1, <1>6, Different DEF Replies, Said
  <2> QED
    BY <1>4, <2>1, AnswersKept
<1> QED
  BY <1>5, <1>6

\* Nobody answers twice.
LEMMA AnsweredOnceStep ==
  ASSUME Types, ReaderPlace, QueuedOnce, QueuedIsFresh, EndsEmpty, SaidOnce,
    AnsweredOnce, [Next]_vars PROVE AnsweredOnce'
<1>a. Settles => OutcomesKept
  BY Settling
<1>b. UNCHANGED outcome => OutcomesKept
  BY DEF OutcomesKept
<1>1. ASSUME CloserFires PROVE AnsweredOnce'
  <2>1. /\ UNCHANGED <<outcome, task, replyCh, inbox, incoming, flight, returned>>
        /\ reader' # "send"
    BY <1>1 DEF CloserFires, Break, commandVars, taskVars, writerVars
  <2> QED
    BY <1>b, <2>1, AnswersKept DEF Unanswered, HoldsPermit, Queue, Said
<1>2. ASSUME PingFires PROVE AnsweredOnce'
  <2>1. /\ UNCHANGED <<outcome, task, replyCh, inbox, incoming, flight, returned>>
        /\ reader' # "send" \/ sending' = Push
    BY <1>2 DEF PingFires, Selecting, commandVars, taskVars, writerVars
  <2> QED
    BY <1>b, <2>1, Different, AnswersKept DEF Unanswered, HoldsPermit, Queue, Said
<1>3. ASSUME ReadMessage PROVE AnsweredOnce'
  <2>1. /\ UNCHANGED <<task, replyCh, flight, reader, sending, returned>>
        /\ Range(incoming) \subseteq Queue
    BY <1>3 DEF ReadMessage, taskVars, writerVars, Queue
  <2>2. \A j \in Commands : j \in Queue' => j \in Queue
    BY <1>3, <2>1, MessageTaken
  <2>3. \A j \in Commands : Unanswered(j)' => Unanswered(j)
    BY <2>1, <2>2 DEF Unanswered, HoldsPermit
  <2>4. \A j \in Commands : Said(j)' => Said(j)
    BY <2>1 DEF Said
  <2> QED
    BY <1>3, <1>a, <2>1, <2>3, <2>4, AnswersKept DEF Settles
<1>4. ASSUME PongTimerFires PROVE AnsweredOnce'
  <2>1. /\ UNCHANGED <<outcome, task, replyCh, inbox, incoming, flight, returned>>
        /\ reader' # "send"
    BY <1>4 DEF PongTimerFires, Break, commandVars, taskVars, writerVars
  <2> QED
    BY <1>b, <2>1, AnswersKept DEF Unanswered, HoldsPermit, Queue, Said
<1>5. ASSUME ProcessPong PROVE AnsweredOnce'
  <2>1. /\ Range(inbox') \subseteq Range(inbox)
        /\ UNCHANGED <<outcome, task, replyCh, incoming, flight, reader, sending, returned>>
    BY <1>5, TailOf DEF ProcessPong, Processing, Types, QueueTypes,
       commandVars, taskVars,
       writerVars
  <2> QED
    BY <1>b, <2>1, AnswersKept DEF Unanswered, HoldsPermit, Queue, Said
<1>6. ASSUME NEW i \in Commands, ProcessConnect(i) PROVE AnsweredOnce'
  <2>1. /\ UNCHANGED <<outcome, task, replyCh, inbox, incoming, flight, returned>>
        /\ reader' # "send"
    BY <1>6 DEF ProcessConnect, taskVars, writerVars
  <2> QED
    BY <1>b, <2>1, AnswersKept DEF Unanswered, HoldsPermit, Queue, Said
<1>7. ASSUME NEW i \in Commands, ConnectSettled(i) PROVE AnsweredOnce'
  <2>1. /\ UNCHANGED <<task, replyCh, incoming, flight, returned>>
        /\ Midway /\ Head(inbox) = i /\ OutcomesKept
    BY <1>7, <1>a DEF ConnectSettled, commandVars, taskVars, writerVars, Midway, Settles
  <2>2. CASE Replies(Answer(i)) /\ UNCHANGED outcome
    BY <1>b, <2>1, <2>2, AnswerGiven
  <2>3. ASSUME NEW code \in {ServerError, InvalidToken}, Replies(Error(code))
        PROVE  AnsweredOnce'
    <3>1. code \in Codes
      BY Messages
    <3> QED
      BY <2>1, <2>3, <3>1, AnswerGiven
  <2> QED
    BY <1>7, <2>2, <2>3 DEF ConnectSettled, RepliesError
<1>8. ASSUME NEW i \in Commands, ProcessUnexpected(i) PROVE AnsweredOnce'
  <2>1. /\ Replies(Error(BadRequest)) /\ OutcomesKept
        /\ UNCHANGED <<task, replyCh, incoming, flight, returned>>
    BY <1>8, <1>a DEF ProcessUnexpected, RepliesError, commandVars, taskVars,
       writerVars, Settles
  <2> QED
    BY <1>8, <2>1, AnswerGiven, Messages DEF ProcessUnexpected
<1>9. ASSUME NEW i \in Commands, ProcessLimited(i) PROVE AnsweredOnce'
  <2>1. /\ UNCHANGED <<outcome, task, replyCh, inbox, incoming, flight, returned>>
        /\ reader' # "send"
    BY <1>9 DEF ProcessLimited, taskVars, writerVars
  <2> QED
    BY <1>b, <2>1, AnswersKept DEF Unanswered, HoldsPermit, Queue, Said
<1>10. ASSUME NEW i \in Commands, ProcessCall(i) PROVE AnsweredOnce'
  <2>1. /\ UNCHANGED <<outcome, replyCh, incoming, flight, returned>>
        /\ Midway /\ Head(inbox) = i /\ reader = "permit"
    BY <1>10 DEF ProcessCall, Permitted, commandVars, writerVars, Midway
  <2>2. CASE Replies(Answer(i)) /\ UNCHANGED task
    BY <1>b, <2>1, <2>2, AnswerGiven
  <2>3. CASE Spawned(i)
    <3>1. i \in Queue /\ \A j \in Commands : j \in Queue' => j \in Queue
      BY <2>1, <2>3, HeadIsFresh, HeadTaken DEF Spawned, Queue
    <3>2. \A j \in Commands : Unanswered(j)' => Unanswered(j)
      BY <2>3, <3>1 DEF Spawned, Unanswered, HoldsPermit, Types, TaskTypes
    <3>3. \A j \in Commands : Said(j)' => Said(j)
      BY <2>1, <2>3 DEF Spawned, Said
    <3> QED
      BY <1>b, <2>1, <3>2, <3>3, AnswersKept
  <2> QED
    BY <1>10, <2>2, <2>3 DEF ProcessCall
<1>11. ASSUME NEW i \in Commands, ProcessSubscribe(i) PROVE AnsweredOnce'
  <2>1. /\ UNCHANGED <<outcome, replyCh, incoming, flight, returned>>
        /\ Midway /\ Head(inbox) = i /\ reader = "permit"
    BY <1>11 DEF ProcessSubscribe, Permitted, commandVars, writerVars, Midway
  <2>2. CASE Replies(Answer(i)) /\ UNCHANGED task
    BY <1>b, <2>1, <2>2, AnswerGiven
  <2>3. CASE Spawned(i)
    <3>1. i \in Queue /\ \A j \in Commands : j \in Queue' => j \in Queue
      BY <2>1, <2>3, HeadIsFresh, HeadTaken DEF Spawned, Queue
    <3>2. \A j \in Commands : Unanswered(j)' => Unanswered(j)
      BY <2>3, <3>1 DEF Spawned, Unanswered, HoldsPermit, Types, TaskTypes
    <3>3. \A j \in Commands : Said(j)' => Said(j)
      BY <2>1, <2>3 DEF Spawned, Said
    <3> QED
      BY <1>b, <2>1, <3>2, <3>3, AnswersKept
  <2> QED
    BY <1>11, <2>2, <2>3 DEF ProcessSubscribe
<1>12. ASSUME NEW i \in Commands, NEW c \in Channels, ProcessUnsubscribe(i, c)
       PROVE  AnsweredOnce'
  <2>1. Replies(Answer(i)) /\ UNCHANGED <<outcome, task, replyCh, incoming, flight, returned>>
    BY <1>12 DEF ProcessUnsubscribe, commandVars, taskVars, writerVars
  <2> QED
    BY <1>12, <1>b, <2>1, AnswerGiven, Messages DEF ProcessUnsubscribe
<1>13. ASSUME NEW i \in Commands, ProcessOther(i) PROVE AnsweredOnce'
  <2>1. Replies(Answer(i)) /\ UNCHANGED <<outcome, task, replyCh, incoming, flight, returned>>
    BY <1>13 DEF ProcessOther, commandVars, taskVars, writerVars
  <2> QED
    BY <1>13, <1>b, <2>1, AnswerGiven, Messages DEF ProcessOther
<1>14. ASSUME ReaderSends PROVE AnsweredOnce'
  <2>1. /\ UNCHANGED <<task, inbox, incoming, flight, returned>>
        /\ reader = "send" /\ reader' = "ready" /\ OutcomesKept
    BY <1>14, <1>a DEF ReaderSends, commandVars, taskVars, writerVars, Settles
  <2>2. Range(replyCh') \subseteq Range(replyCh) \cup {sending}
    BY <1>14, SentIsSaid DEF ReaderSends, Types, ReaderTypes
  <2> QED
    BY <2>1, <2>2, AnswersKept DEF Unanswered, HoldsPermit, Queue, Said
<1>15. ASSUME ReaderEnds PROVE AnsweredOnce'
  <2>1. /\ UNCHANGED <<task, inbox, flight, returned>>
        /\ incoming' = <<>> /\ reader' = "done" /\ OutcomesKept
    BY <1>15, <1>a DEF ReaderEnds, commandVars, writerVars, Settles
  <2>2. Range(replyCh') \subseteq Range(replyCh) \cup {sending}
    BY <1>15, SentIsSaid DEF ReaderEnds, Types, ReaderTypes
  <2>3. \A j \in Commands : sending # Answer(j)
    BY <1>15, Different DEF ReaderEnds, ReaderPlace
  <2> QED
    BY <2>1, <2>2, <2>3, AnswersKept DEF Unanswered, HoldsPermit, Queue, Said,
       Range
<1>16. ASSUME RemoteEnds PROVE AnsweredOnce'
  <2>1. /\ UNCHANGED <<outcome, task, replyCh, inbox, incoming, flight, returned>>
        /\ reader' # "send"
    BY <1>16 DEF RemoteEnds, Break, commandVars, taskVars, writerVars
  <2> QED
    BY <1>b, <2>1, AnswersKept DEF Unanswered, HoldsPermit, Queue, Said
<1>17. ASSUME WriterReceives PROVE AnsweredOnce'
  <2>1. UNCHANGED <<task, inbox, incoming, reader, sending, returned>>
    BY <1>17 DEF WriterReceives, taskVars, readerVars
  <2>2. /\ Range(flight') \subseteq Range(replyCh)
        /\ Range(replyCh') \subseteq Range(replyCh)
    BY <1>17, BatchTaken
  <2> QED
    BY <1>17, <1>a, <2>1, <2>2, AnswersKept DEF Unanswered, HoldsPermit, Queue, Said,
       Settles
<1>18. ASSUME WriterSends PROVE AnsweredOnce'
  <2>1. /\ UNCHANGED <<task, replyCh, inbox, incoming, reader, sending, returned>>
        /\ flight' = <<>>
    BY <1>18 DEF WriterSends, taskVars, readerVars
  <2> QED
    BY <1>18, <1>a, <2>1, AnswersKept DEF Unanswered, HoldsPermit, Queue, Said, Range,
       Settles
<1>19. ASSUME WriterEnds PROVE AnsweredOnce'
  <2>1. /\ UNCHANGED <<task, inbox, incoming, reader, sending, flight, returned>>
        /\ replyCh' = <<>>
    BY <1>19 DEF WriterEnds, taskVars, readerVars
  <2> QED
    BY <1>19, <1>a, <2>1, AnswersKept DEF Unanswered, HoldsPermit, Queue, Said, Range,
       Settles
<1>20. ASSUME NEW t \in Commands, HandlerEnds(t) PROVE AnsweredOnce'
  <2>1. UNCHANGED <<outcome, replyCh, inbox, incoming, flight, reader, sending, returned>>
    BY <1>20 DEF HandlerEnds, commandVars, readerVars, writerVars
  <2>2. \A j \in Commands : HoldsPermit(j)' => HoldsPermit(j)
    BY <1>20 DEF HandlerEnds, HoldsPermit, Types, TaskTypes
  <2> QED
    BY <1>b, <2>1, <2>2, AnswersKept DEF Unanswered, Queue, Said
<1>21. ASSUME NEW t \in Commands, TaskRemovesEntry(t) PROVE AnsweredOnce'
  <2>1. UNCHANGED <<outcome, replyCh, inbox, incoming, flight, reader, sending, returned>>
    BY <1>21 DEF TaskRemovesEntry, commandVars, readerVars, writerVars
  <2>2. \A j \in Commands : HoldsPermit(j)' => HoldsPermit(j)
    BY <1>21 DEF TaskRemovesEntry, HoldsPermit, Types, TaskTypes
  <2> QED
    BY <1>b, <2>1, <2>2, AnswersKept DEF Unanswered, Queue, Said
<1>22. ASSUME NEW t \in Commands, TaskCancelled(t) PROVE AnsweredOnce'
  <2>1. UNCHANGED <<replyCh, inbox, incoming, flight, reader, sending, returned>>
    BY <1>22 DEF TaskCancelled, readerVars, writerVars
  <2>2. \A j \in Commands : HoldsPermit(j)' => HoldsPermit(j)
    BY <1>22 DEF TaskCancelled, Gone, HoldsPermit, Types, TaskTypes
  <2> QED
    BY <1>22, <1>a, <2>1, <2>2, AnswersKept DEF Unanswered, Queue, Said, Settles
<1>23. ASSUME NEW t \in Commands, StreamYields(t) PROVE AnsweredOnce'
  <2>1. UNCHANGED <<outcome, replyCh, inbox, incoming, flight, reader, sending, returned>>
    BY <1>23 DEF StreamYields, commandVars, readerVars, writerVars
  <2>2. \A j \in Commands : HoldsPermit(j)' => HoldsPermit(j)
    BY <1>23 DEF StreamYields, HoldsPermit, Types, TaskTypes
  <2> QED
    BY <1>b, <2>1, <2>2, AnswersKept DEF Unanswered, Queue, Said
<1>24. ASSUME NEW t \in Commands, TaskSends(t) PROVE AnsweredOnce'
  <2>1. /\ UNCHANGED <<inbox, incoming, flight, reader, sending, returned>>
        /\ OutcomesKept
    BY <1>24, <1>a DEF TaskSends, readerVars, writerVars, Settles
  <2>2. /\ ~HoldsPermit(t)' /\ task[t] # "none"
        /\ \A j \in Commands : j # t => task'[j] = task[j]
    BY <1>24 DEF TaskSends, Gone, HoldsPermit, Types, TaskTypes
  <2>3. t \notin Queue
    BY <2>2 DEF QueuedIsFresh
  <2>4. \A j \in Commands : Unanswered(j)' => Unanswered(j) /\ j # t
    BY <2>1, <2>2, <2>3 DEF Unanswered, HoldsPermit, Queue
  <2>5. CASE task[t] \in {"publish", "goodbye"}
    <3>1. Sent(Push)
      BY <1>24, <2>5 DEF TaskSends
    <3>2. Range(replyCh') \subseteq Range(replyCh) \cup {Push}
      BY <3>1, Messages, SentIsSaid
    <3>3. \A j \in Commands : Said(j)' => Said(j)
      BY <2>1, <3>2, Different DEF Said
    <3> QED
      BY <2>1, <2>4, <3>3, AnswersKept
  <2>6. CASE task[t] \in {"answer", "refused"}
    <3>1. Sent(Answer(t))
      BY <1>24, <2>6 DEF TaskSends
    <3>2. ~Said(t) /\ (returned \/ outcome[t] = "pending")
      BY <2>6 DEF AnsweredOnce, Unanswered, HoldsPermit
    <3>3. CASE writer = "done"
      <4>1. UNCHANGED replyCh
        BY <3>1, <3>3 DEF Sent
      <4>2. \A j \in Commands : Said(j)' => Said(j)
        BY <2>1, <4>1 DEF Said
      <4> QED
        BY <2>1, <2>4, <4>2, AnswersKept
    <3>4. CASE writer # "done"
      <4>1. UNCHANGED outcome /\ outcome[t] = "pending"
        BY <3>1, <3>2, <3>4 DEF Sent, EndsEmpty
      <4>2. Range(replyCh') \subseteq Range(replyCh) \cup {Answer(t)}
        BY <3>1, Messages, SentIsSaid
      <4>3. \A j \in Commands : Said(j)' => Said(j) \/ j = t
        BY <2>1, <4>2, Different DEF Said
      <4> QED
        BY <2>1, <2>4, <4>1, <4>3 DEF AnsweredOnce
    <3> QED
      BY <3>3, <3>4
  <2> QED
    BY <1>24, <2>5, <2>6 DEF TaskSends
<1>25. ASSUME Arrives PROVE AnsweredOnce'
  <2>1. /\ UNCHANGED <<task, replyCh, inbox, flight, reader, sending, returned>>
        /\ incoming \in Seq(Commands \cup {Pong})
    BY <1>25 DEF Arrives, taskVars, writerVars, Types, QueueTypes
  <2>2. ASSUME NEW i \in Commands, outcome[i] = "idle",
               outcome' = [outcome EXCEPT ![i] = "pending"],
               incoming' = Append(incoming, i)
        PROVE  AnsweredOnce'
    <3>1. Queue' = Queue \cup {i}
      BY <2>1, <2>2, AppendTo DEF Queue
    <3>2. /\ ~Said(i) /\ outcome'[i] = "pending"
          /\ \A j \in Commands : j # i => outcome'[j] = outcome[j]
      BY <2>2 DEF AnsweredOnce, Types, SessionTypes
    <3>3. \A j \in Commands : Said(j)' => Said(j)
      BY <2>1 DEF Said
    <3>4. \A j \in Commands : Unanswered(j)' => Unanswered(j) \/ j = i
      BY <2>1, <3>1 DEF Unanswered, HoldsPermit
    <3> QED
      BY <2>1, <3>2, <3>3, <3>4 DEF AnsweredOnce
  <2>3. CASE UNCHANGED outcome /\ incoming' = Append(incoming, Pong)
    <3>1. Queue' = Queue \cup {Pong} /\ Pong \notin Commands
      BY <2>1, <2>3, AppendTo, Messages DEF Queue, Pong
    <3> QED
      BY <1>b, <2>1, <2>3, <3>1, AnswersKept DEF Unanswered, HoldsPermit, Said
  <2> QED
    BY <1>25, <2>2, <2>3 DEF Arrives
<1>26. ASSUME ServeReturns PROVE AnsweredOnce'
  <2>1. /\ UNCHANGED <<task, replyCh, inbox, incoming, flight, reader, sending>>
        /\ returned' = TRUE
    BY <1>26 DEF ServeReturns, taskVars, readerVars, writerVars
  <2>2. \A j \in Commands : ~Said(j)'
    BY <1>26, <2>1 DEF ServeReturns, Said, EndsEmpty, Range
  <2>3. \A j \in Commands : Unanswered(j)' => Unanswered(j)
    BY <2>1 DEF Unanswered, HoldsPermit, Queue
  <2>4. \A j \in Commands : outcome[j] \in {"pending", "dropped"} => outcome'[j] = "dropped"
    BY <1>26 DEF ServeReturns
  <2>5. \A j \in Commands : outcome'[j] # "again"
    <3>1. \A j \in Commands : outcome'[j] \in {outcome[j], "dropped"}
      BY <1>26 DEF ServeReturns
    <3> QED
      BY <3>1 DEF AnsweredOnce
  <2> QED
    BY <2>1, <2>2, <2>3, <2>4, <2>5 DEF AnsweredOnce
<1>27. CASE Tick
  BY <1>27, <1>b, AnswersKept DEF Tick, commandVars, taskVars, readerVars,
     writerVars, Unanswered, HoldsPermit, Queue, Said
<1>28. CASE UNCHANGED vars
  BY <1>28, <1>b, AnswersKept DEF vars, commandVars, taskVars, readerVars,
     writerVars, Unanswered, HoldsPermit, Queue, Said
<1> QED
  BY <1>1, <1>2, <1>3, <1>4, <1>5, <1>6, <1>7, <1>8, <1>9, <1>10, <1>11, <1>12,
     <1>13, <1>14, <1>15, <1>16, <1>17, <1>18, <1>19, <1>20, <1>21, <1>22,
     <1>23, <1>24, <1>25, <1>26, <1>27, <1>28 DEF Next, Reader, Select,
     Process, Writer, TaskStep, TaskAdvances

\* A step of the reader that has nothing new to say, or something that nobody
\* has said before.
LEMMA SaidOnceKept ==
  ASSUME SaidOnce, UNCHANGED <<replyCh, flight>>,
         \/ reader' # "send"
         \/ reader = "send" /\ sending' = sending
         \/ \A i \in Commands : sending' = Answer(i) =>
               Answer(i) \notin Range(replyCh) \cup Range(flight)
  PROVE  SaidOnce'
BY DEF SaidOnce, Distinct

\* A step that sends what nobody has said before.
LEMMA SaidOnceSent ==
  ASSUME Types, SaidOnce, NEW m \in Message, Sent(m), UNCHANGED flight,
         \A i \in Commands : m = Answer(i) =>
            /\ Answer(i) \notin Range(replyCh) \cup Range(flight)
            /\ ~(reader' = "send" /\ sending' = m),
         reader' = "send" => reader = "send" /\ sending' = sending
  PROVE  SaidOnce'
<1>1. replyCh \in Seq(Message)
  BY DEF Types, QueueTypes
<1>2. CASE UNCHANGED replyCh
  BY <1>2, SaidOnceKept
<1>3. CASE replyCh' = Append(replyCh, m)
  <2>1. Distinct(replyCh') /\ Range(replyCh') = Range(replyCh) \cup {m}
    BY <1>1, <1>3, DistinctAppend, AppendTo DEF SaidOnce
  <2>2. Distinct(flight')
    BY DEF SaidOnce, Distinct
  <2> QED
    BY <2>1, <2>2 DEF SaidOnce
<1> QED
  BY <1>2, <1>3 DEF Sent

\* The answer to the command at the head of the inbox is new.
LEMMA AnswerIsNew ==
  ASSUME Types, QueuedIsFresh, ReaderPlace, AnsweredOnce, SaidOnce, NEW i \in Commands,
         Processing(i) \/ (Midway /\ Head(inbox) = i),
         NEW m, Replies(m), m = Answer(i) \/ \E code \in Codes : m = Error(code),
         UNCHANGED <<replyCh, flight>>
  PROVE  SaidOnce'
<1>1. i \in Queue
  BY HeadIsFresh DEF Queue
<1>2. Answer(i) \notin Range(replyCh) \cup Range(flight)
  BY <1>1 DEF AnsweredOnce, Unanswered, Said
<1> QED
  BY <1>2, Different, SaidOnceKept DEF Replies

\* What was said is in one place.
LEMMA SaidOnceStep ==
  ASSUME Types, ReaderPlace, QueuedIsFresh, EndsEmpty, AnsweredOnce, SaidOnce,
    [Next]_vars PROVE SaidOnce'
<1> USE DEF commandVars, taskVars, readerVars, timerVars, writerVars
<1>1. ASSUME NEW i \in Commands, ConnectSettled(i) PROVE SaidOnce'
  <2>1. /\ Midway /\ Head(inbox) = i /\ UNCHANGED <<replyCh, flight>>
        /\ \/ Replies(Answer(i))
           \/ \E code \in {ServerError, InvalidToken} : Replies(Error(code))
    BY <1>1 DEF ConnectSettled, RepliesError, Midway
  <2> QED
    BY <2>1, AnswerIsNew, Messages
<1>2. ASSUME NEW i \in Commands, ProcessUnexpected(i) PROVE SaidOnce'
  BY <1>2, AnswerIsNew, Messages DEF ProcessUnexpected, RepliesError
<1>3. ASSUME NEW i \in Commands, ProcessCall(i) PROVE SaidOnce'
  <2>1. Midway /\ Head(inbox) = i /\ UNCHANGED <<replyCh, flight>>
    BY <1>3 DEF ProcessCall, Permitted, Midway
  <2>2. CASE Replies(Answer(i))
    BY <2>1, <2>2, AnswerIsNew
  <2>3. CASE Spawned(i)
    BY <2>1, <2>3, SaidOnceKept DEF Spawned
  <2> QED
    BY <1>3, <2>2, <2>3 DEF ProcessCall
<1>4. ASSUME NEW i \in Commands, ProcessSubscribe(i) PROVE SaidOnce'
  <2>1. Midway /\ Head(inbox) = i /\ UNCHANGED <<replyCh, flight>>
    BY <1>4 DEF ProcessSubscribe, Permitted, Midway
  <2>2. CASE Replies(Answer(i))
    BY <2>1, <2>2, AnswerIsNew
  <2>3. CASE Spawned(i)
    BY <2>1, <2>3, SaidOnceKept DEF Spawned
  <2> QED
    BY <1>4, <2>2, <2>3 DEF ProcessSubscribe
<1>5. ASSUME NEW i \in Commands, NEW c \in Channels, ProcessUnsubscribe(i, c)
      PROVE  SaidOnce'
  BY <1>5, AnswerIsNew DEF ProcessUnsubscribe
<1>6. ASSUME NEW i \in Commands, ProcessOther(i) PROVE SaidOnce'
  BY <1>6, AnswerIsNew DEF ProcessOther
<1>7. ASSUME ReaderSends PROVE SaidOnce'
  <2>1. /\ Sent(sending) /\ sending \in Message /\ UNCHANGED flight
        /\ reader = "send" /\ reader' = "ready"
    BY <1>7 DEF ReaderSends, Types, ReaderTypes
  <2>2. \A i \in Commands : sending = Answer(i) =>
           Answer(i) \notin Range(replyCh) \cup Range(flight)
    BY <2>1 DEF SaidOnce
  <2> QED
    BY <2>1, <2>2, SaidOnceSent
<1>8. ASSUME ReaderEnds PROVE SaidOnce'
  <2>1. /\ Sent(sending) /\ sending \in Message /\ UNCHANGED flight
        /\ reader' = "done" /\ \A i \in Commands : sending # Answer(i)
    BY <1>8, Different DEF ReaderEnds, ReaderPlace, Types, ReaderTypes
  <2> QED
    BY <2>1, SaidOnceSent
<1>9. ASSUME WriterReceives PROVE SaidOnce'
  <2> DEFINE batch == SubSeq(replyCh, 1, BatchSize)
  <2>1. /\ UNCHANGED <<reader, sending>>
        /\ replyCh' = SubSeq(replyCh, BatchSize + 1, Len(replyCh))
    BY <1>9 DEF WriterReceives, Remaining
  <2>2. /\ replyCh \in Seq(Message) /\ BatchSize \in 0..Len(replyCh)
        /\ Range(flight') \subseteq Range(batch)
        /\ Range(flight') \subseteq Range(replyCh)
        /\ Range(replyCh') \subseteq Range(replyCh)
        /\ \A k \in DOMAIN flight' : k \in DOMAIN replyCh /\ flight'[k] = replyCh[k]
    BY <1>9, BatchTaken
  <2>3. /\ Distinct(replyCh')
        /\ \A i \in Commands : Answer(i) \in Range(batch) => Answer(i) \notin Range(replyCh')
    BY <2>1, <2>2, DistinctCut DEF SaidOnce
  <2>4. Distinct(flight')
    BY <2>2 DEF SaidOnce, Distinct
  <2> HIDE DEF batch
  <2> QED
    BY <2>1, <2>2, <2>3, <2>4 DEF SaidOnce
<1>10. ASSUME WriterSends PROVE SaidOnce'
  <2>1. UNCHANGED <<reader, sending, replyCh>> /\ flight' = <<>>
    BY <1>10 DEF WriterSends
  <2> QED
    BY <2>1 DEF SaidOnce, Distinct, Range
<1>11. ASSUME WriterEnds PROVE SaidOnce'
  <2>1. UNCHANGED <<reader, sending, flight>> /\ replyCh' = <<>>
    BY <1>11 DEF WriterEnds
  <2> QED
    BY <2>1 DEF SaidOnce, Distinct, Range
<1>12. ASSUME NEW t \in Commands, TaskSends(t) PROVE SaidOnce'
  <2>1. UNCHANGED <<reader, sending, flight>>
    BY <1>12 DEF TaskSends
  <2>2. CASE Sent(Push)
    BY <2>1, <2>2, Messages, Different, SaidOnceSent
  <2>3. CASE task[t] \in {"answer", "refused"} /\ Sent(Answer(t))
    <3>1. ~Said(t)
      BY <2>3 DEF AnsweredOnce, Unanswered, HoldsPermit
    <3> QED
      BY <2>1, <2>3, <3>1, Messages, Different, SaidOnceSent DEF Said
  <2> QED
    BY <1>12, <2>2, <2>3 DEF TaskSends
<1>13. ASSUME PingFires PROVE SaidOnce'
  <2>1. UNCHANGED <<replyCh, flight>> /\ (reader' = "send" => sending' = Push)
    BY <1>13 DEF PingFires, Selecting
  <2> QED
    BY <2>1, Different, SaidOnceKept
<1>14. CASE CloserFires \/ ReadMessage \/ PongTimerFires \/ ProcessPong \/
            (\E i \in Commands : ProcessConnect(i)) \/
            (\E i \in Commands : ProcessLimited(i)) \/ RemoteEnds \/
            Arrives \/ Tick \/ ServeReturns
  BY <1>14, SaidOnceKept DEF CloserFires, ReadMessage, PongTimerFires, ProcessPong,
     ProcessConnect, ProcessLimited, RemoteEnds, Arrives, Tick, ServeReturns, Break
<1>15. CASE (\E t \in Commands : HandlerEnds(t)) \/
            (\E t \in Commands : TaskRemovesEntry(t)) \/
            (\E t \in Commands : TaskCancelled(t)) \/
            (\E t \in Commands : StreamYields(t))
  BY <1>15, SaidOnceKept DEF HandlerEnds, TaskRemovesEntry, TaskCancelled, StreamYields
<1>16. CASE UNCHANGED vars
  BY <1>16, SaidOnceKept DEF vars
<1> QED
  BY <1>1, <1>2, <1>3, <1>4, <1>5, <1>6, <1>7, <1>8, <1>9, <1>10, <1>11, <1>12,
     <1>13, <1>14, <1>15, <1>16 DEF Next, Reader, Select, Process, Writer, TaskStep,
     TaskAdvances

-----------------------------------------------------------------------------
(* The error that the connection ends with.                                *)

\* Once there is an error, there is one until the end.
LEMMA DoomedStays ==
  ASSUME Types, ReaderPlace, EndsEmpty, Doomed, [Next]_vars PROVE Doomed'
<1> USE DEF commandVars, taskVars, readerVars, timerVars, writerVars
<1>a. Push.code = 0
  BY DEF Push
<1>1. CASE UNCHANGED <<closeCode, failure, replyCh, sending>>
  BY <1>1 DEF Doomed
<1>2. ASSUME reader \notin {"send", "closing"}, UNCHANGED <<closeCode, failure, replyCh>>
      PROVE  Doomed'
  BY <1>a, <1>2 DEF Doomed, ReaderPlace
<1>3. ASSUME NEW m \in Message, Sent(m), UNCHANGED <<closeCode, failure>>,
             m = sending \/ UNCHANGED sending
      PROVE  Doomed'
  <2>1. CASE writer = "done"
    BY <1>3, <2>1 DEF EndsEmpty, Doomed
  <2>2. CASE replyCh' = Append(replyCh, m)
    <3>1. Range(replyCh') = Range(replyCh) \cup {m}
      BY <2>2, AppendTo DEF Types, QueueTypes
    <3> QED
      BY <1>3, <3>1 DEF Doomed
  <2> QED
    BY <1>3, <2>1, <2>2 DEF Sent
<1>4. ASSUME ReaderSends \/ ReaderEnds PROVE Doomed'
  BY <1>3, <1>4 DEF ReaderSends, ReaderEnds, Types, ReaderTypes
<1>5. ASSUME NEW t \in Commands, TaskSends(t) PROVE Doomed'
  BY <1>3, <1>5, Messages DEF TaskSends
<1>6. ASSUME WriterReceives PROVE Doomed'
  <2>1. UNCHANGED <<closeCode, sending>> /\ failure = 0
    BY <1>6 DEF WriterReceives, EndsEmpty
  <2>2. ASSUME NEW m \in Range(replyCh), m.code # 0 PROVE Doomed'
    <3>1. /\ replyCh \in Seq(Message) /\ BatchSize \in 0..Len(replyCh)
          /\ failure' = 0 => \A x \in Range(SubSeq(replyCh, 1, BatchSize)) : x.code = 0
      BY <1>6, BatchTaken
    <3>2. m \in Range(SubSeq(replyCh, 1, BatchSize)) \cup Range(replyCh')
      BY <1>6, <3>1, CutAt DEF WriterReceives, Remaining
    <3> QED
      BY <2>2, <3>1, <3>2 DEF Doomed
  <2> QED
    BY <2>1, <2>2 DEF Doomed
<1>7. ASSUME WriterSends PROVE Doomed'
  <2>1. /\ UNCHANGED <<replyCh, sending>> /\ closeCode = 0
        /\ closeCode' \in {failure, WriteError}
    BY <1>7 DEF WriterSends, EndsEmpty
  <2> QED
    BY <2>1, Messages DEF Doomed
<1>8. ASSUME WriterEnds PROVE Doomed'
  BY <1>8 DEF WriterEnds, EndsEmpty, Doomed
<1>9. CASE CloserFires \/ PingFires \/ PongTimerFires \/ RemoteEnds \/
           (\E i \in Commands : ConnectSettled(i)) \/
           (\E i \in Commands : ProcessUnexpected(i)) \/
           (\E i \in Commands : ProcessCall(i)) \/
           (\E i \in Commands : ProcessSubscribe(i)) \/
           (\E i \in Commands, c \in Channels : ProcessUnsubscribe(i, c)) \/
           (\E i \in Commands : ProcessOther(i))
  BY <1>2, <1>9 DEF CloserFires, PingFires, PongTimerFires, RemoteEnds, Selecting,
     ConnectSettled, ProcessUnexpected, ProcessCall, ProcessSubscribe, Permitted,
     ProcessUnsubscribe, ProcessOther, Processing
<1>10. CASE ReadMessage \/ ProcessPong \/ (\E i \in Commands : ProcessConnect(i)) \/
            (\E i \in Commands : ProcessLimited(i)) \/ Arrives \/ Tick \/ ServeReturns
  BY <1>1, <1>10 DEF ReadMessage, ProcessPong, ProcessConnect, ProcessLimited, Arrives,
     Tick, ServeReturns
<1>11. CASE (\E t \in Commands : HandlerEnds(t)) \/
            (\E t \in Commands : TaskRemovesEntry(t)) \/
            (\E t \in Commands : TaskCancelled(t)) \/
            (\E t \in Commands : StreamYields(t))
  BY <1>1, <1>11 DEF HandlerEnds, TaskRemovesEntry, TaskCancelled, StreamYields
<1>12. CASE UNCHANGED vars
  BY <1>1, <1>12 DEF vars
<1> QED
  BY <1>4, <1>5, <1>6, <1>7, <1>8, <1>9, <1>10, <1>11, <1>12 DEF Next, Reader, Select,
     Process, Writer, TaskStep, TaskAdvances

\* The reader has had an error to leave behind.
LEMMA EndIsToldStep ==
  ASSUME Types, ReaderPlace, EndsEmpty, EndIsTold, [Next]_vars PROVE EndIsTold'
<1> USE DEF EndIsTold, commandVars, taskVars, readerVars, timerVars, writerVars
<1>1. reader \in {"closing", "done"} => Doomed
  BY Messages DEF ReaderPlace, Doomed, Error
<1>2. reader \in {"closing", "done"} => Doomed'
  BY <1>1, DoomedStays
<1>3. reader' = "done" => reader \in {"closing", "done"}
  <2>1. CASE CloserFires \/ PingFires \/ ReadMessage \/ PongTimerFires \/
             ProcessPong \/ (\E i \in Commands : ProcessConnect(i)) \/
             (\E i \in Commands : ConnectSettled(i)) \/
             (\E i \in Commands : ProcessUnexpected(i)) \/
             (\E i \in Commands : ProcessLimited(i))
    BY <2>1 DEF CloserFires, PingFires, ReadMessage, PongTimerFires, ProcessPong,
       ProcessConnect, ConnectSettled, ProcessUnexpected, ProcessLimited, Break,
       RepliesError, Replies
  <2>2. CASE (\E i \in Commands : ProcessCall(i)) \/
             (\E i \in Commands : ProcessSubscribe(i)) \/
             (\E i \in Commands, c \in Channels : ProcessUnsubscribe(i, c)) \/
             (\E i \in Commands : ProcessOther(i)) \/ ReaderSends \/ ReaderEnds \/
             RemoteEnds
    BY <2>2 DEF ProcessCall, ProcessSubscribe, ProcessUnsubscribe, ProcessOther,
       ReaderSends, ReaderEnds, RemoteEnds, Break, Replies, Spawned
  <2>3. CASE WriterReceives \/ WriterSends \/ WriterEnds \/
             (\E t \in Commands : HandlerEnds(t)) \/
             (\E t \in Commands : TaskRemovesEntry(t)) \/
             (\E t \in Commands : TaskCancelled(t)) \/
             (\E t \in Commands : StreamYields(t)) \/
             (\E t \in Commands : TaskSends(t)) \/ Arrives \/ Tick \/ ServeReturns
    BY <2>3 DEF WriterReceives, WriterSends, WriterEnds, HandlerEnds,
       TaskRemovesEntry, TaskCancelled, StreamYields, TaskSends, Arrives, Tick,
       ServeReturns
  <2>4. CASE UNCHANGED vars
    BY <2>4 DEF vars
  <2> QED
    BY <2>1, <2>2, <2>3, <2>4 DEF Next, Reader, Select, Process, Writer, TaskStep,
       TaskAdvances
<1> QED
  BY <1>2, <1>3

\* A step after which there is an error, or in which no command is lost but
\* Subscribes and those that are not decoded.
LEMMA LossTold ==
  ASSUME NoSilentLoss, Doomed => Doomed',
         \/ Doomed'
         \/ \A j \in Commands : outcome'[j] = "dropped" =>
               \/ kind'[j] \in {"none", "subscribe"}
               \/ outcome[j] = "dropped" /\ kind'[j] = kind[j]
  PROVE  NoSilentLoss'
BY DEF NoSilentLoss

\* No command is lost in silence.
LEMMA NoSilentLossStep ==
  ASSUME Types, ReaderPlace, QueuedOnce, QueuedIsFresh, TaskKinds, EndsEmpty,
    EndIsTold, NoSilentLoss, [Next]_vars PROVE NoSilentLoss'
<1> USE DEF commandVars, taskVars, readerVars, timerVars, writerVars
<1>a. Doomed => Doomed'
  BY DoomedStays
<1>b. writer \in {"closing", "done"} \/ reader = "done" => Doomed
  BY DEF EndsEmpty, EndIsTold, Doomed
<1>1. ASSUME ReadMessage PROVE NoSilentLoss'
  <2>1. UNCHANGED kind /\ reader = "ready"
    BY <1>1 DEF ReadMessage, Selecting
  <2>2. \A j \in Commands : outcome'[j] = outcome[j] \/ kind[j] = "none"
    BY <1>1, <2>1, MessageTaken DEF QueuedIsFresh, Queue, Midway
  <2> QED
    BY <1>a, <2>1, <2>2, LossTold
<1>2. ASSUME NEW i \in Commands, NEW k, Processing(i), Known(i, k), UNCHANGED outcome
      PROVE  NoSilentLoss'
  <2>1. outcome[i] = "pending"
    BY <1>2, HeadIsFresh
  <2>2. \A j \in Commands : j # i => kind'[j] = kind[j]
    BY <1>2 DEF Known, Types, SessionTypes
  <2> QED
    BY <1>a, <1>2, <2>1, <2>2, LossTold
<1>3. ASSUME NEW i \in Commands, ProcessConnect(i) PROVE NoSilentLoss'
  BY <1>2, <1>3 DEF ProcessConnect
<1>4. ASSUME NEW i \in Commands, ProcessLimited(i) PROVE NoSilentLoss'
  BY <1>2, <1>4 DEF ProcessLimited
<1>5. ASSUME NEW i \in Commands, NEW c \in Channels, ProcessUnsubscribe(i, c)
      PROVE  NoSilentLoss'
  BY <1>2, <1>5 DEF ProcessUnsubscribe
<1>6. ASSUME NEW i \in Commands, ProcessOther(i) PROVE NoSilentLoss'
  BY <1>2, <1>6 DEF ProcessOther
<1>7. ASSUME NEW code \in Codes, sending' = Error(code) PROVE Doomed'
  BY <1>7, Messages DEF Doomed, Error
<1>8. ASSUME NEW i \in Commands, ConnectSettled(i) PROVE NoSilentLoss'
  <2>1. CASE UNCHANGED outcome
    BY <1>a, <1>8, <2>1, LossTold DEF ConnectSettled
  <2>2. CASE \E code \in {ServerError, InvalidToken} : sending' = Error(code)
    BY <1>a, <1>7, <2>2, LossTold, Messages
  <2> QED
    BY <1>8, <2>1, <2>2 DEF ConnectSettled, RepliesError, Replies
<1>9. ASSUME NEW i \in Commands, ProcessUnexpected(i) PROVE NoSilentLoss'
  <2>1. sending' = Error(BadRequest)
    BY <1>9 DEF ProcessUnexpected, RepliesError, Replies
  <2> QED
    BY <1>a, <1>7, <2>1, LossTold, Messages
<1>10. ASSUME NEW m, Sent(m), UNCHANGED kind PROVE NoSilentLoss'
  BY <1>a, <1>b, <1>10, LossTold DEF Sent
<1>11. ASSUME ReaderSends \/ ReaderEnds PROVE NoSilentLoss'
  BY <1>10, <1>11 DEF ReaderSends, ReaderEnds
<1>12. ASSUME NEW t \in Commands, TaskSends(t) PROVE NoSilentLoss'
  BY <1>10, <1>12 DEF TaskSends
<1>13. ASSUME WriterReceives PROVE NoSilentLoss'
  <2>1. UNCHANGED kind
    BY <1>13 DEF WriterReceives
  <2>2. CASE failure' # 0
    BY <1>a, <2>2, LossTold DEF Doomed
  <2>3. CASE failure' = 0
    <3>1. \A j \in Commands : outcome'[j] = outcome[j]
      BY <1>13, <2>3, BatchTaken
    <3> QED
      BY <1>a, <2>1, <3>1, LossTold
  <2> QED
    BY <2>2, <2>3
<1>14. ASSUME WriterSends PROVE NoSilentLoss'
  <2>1. UNCHANGED kind
    BY <1>14 DEF WriterSends
  <2>2. CASE closeCode' = WriteError
    BY <1>a, <2>2, LossTold, Messages DEF Doomed
  <2>3. CASE \A j \in Commands : outcome'[j] \in {outcome[j], "reply", "again"}
    BY <1>a, <2>1, <2>3, LossTold
  <2> QED
    BY <1>14, <2>2, <2>3 DEF WriterSends
<1>15. ASSUME WriterEnds \/ ServeReturns PROVE NoSilentLoss'
  BY <1>a, <1>b, <1>15, LossTold DEF WriterEnds, ServeReturns
<1>16. ASSUME NEW t \in Commands, TaskCancelled(t) PROVE NoSilentLoss'
  <2>1. /\ UNCHANGED kind /\ t \in aborted
        /\ \A j \in Commands : j # t => outcome'[j] = outcome[j]
    BY <1>16 DEF TaskCancelled, Types, SessionTypes
  <2>2. reader # "done" => kind[t] = "subscribe"
    BY <2>1 DEF TaskKinds, Subscribing
  <2> QED
    BY <1>a, <1>b, <2>1, <2>2, LossTold
<1>17. ASSUME Arrives PROVE NoSilentLoss'
  <2>1. /\ UNCHANGED kind
        /\ \A j \in Commands : outcome'[j] \in {outcome[j], "pending"}
    BY <1>17 DEF Arrives, Types, SessionTypes
  <2> QED
    BY <1>a, <2>1, LossTold
<1>18. CASE CloserFires \/ PingFires \/ PongTimerFires \/ ProcessPong \/
            (\E i \in Commands : ProcessCall(i)) \/
            (\E i \in Commands : ProcessSubscribe(i)) \/ RemoteEnds \/
            (\E t \in Commands : HandlerEnds(t)) \/
            (\E t \in Commands : TaskRemovesEntry(t)) \/
            (\E t \in Commands : StreamYields(t)) \/ Tick
  BY <1>a, <1>18, LossTold DEF CloserFires, PingFires, PongTimerFires, ProcessPong,
     ProcessCall, ProcessSubscribe, RemoteEnds, HandlerEnds, TaskRemovesEntry,
     StreamYields, Tick
<1>19. CASE UNCHANGED vars
  BY <1>a, <1>19, LossTold DEF vars
<1> QED
  BY <1>1, <1>3, <1>4, <1>5, <1>6, <1>8, <1>9, <1>11, <1>12, <1>13, <1>14, <1>15,
     <1>16, <1>17, <1>18, <1>19 DEF Next, Reader, Select, Process, Writer, TaskStep,
     TaskAdvances

-----------------------------------------------------------------------------
(* The invariant.                                                          *)

\* It holds in the beginning,
LEMMA InitInv ==
  ASSUME Init PROVE IInv
<1> USE DEF Init
<1>1. Types
  <2>1. SessionTypes
    <3>1. (CHOOSE c \in Channels : TRUE) \in Channels
      BY ServerAssumption
    <3> QED
      BY <3>1 DEF SessionTypes
  <2>2. TaskTypes
    BY DEF TaskTypes
  <2>3. QueueTypes
    BY EmptySeq DEF QueueTypes
  <2>4. ReaderTypes
    <3>1. Far \in 0..Far
      BY Delays
    <3> QED
      BY <3>1, Messages DEF ReaderTypes
  <2>5. WriterTypes
    BY DEF WriterTypes
  <2> QED
    BY <2>1, <2>2, <2>3, <2>4, <2>5 DEF Types
<1>2. Limits
  <2>1. Permits = {} /\ Entries = {} /\ Len(replyCh) = 0
    BY DEF Permits, HoldsPermit, Entries
  <2> QED
    BY <2>1, FS_EmptySet, ServerAssumption DEF Limits
<1>3. Queue = {}
  BY DEF Queue, Range
<1>4. QueuedOnce /\ ReaderPlace
  BY <1>3 DEF QueuedOnce, Once, Queue, ReaderPlace, Midway
<1>5. QueuedIsFresh /\ TaskKinds
  BY <1>3 DEF QueuedIsFresh, TaskKinds
<1>6. AnsweredOnce /\ SaidOnce
  BY <1>3 DEF AnsweredOnce, SaidOnce, Distinct, Unanswered, HoldsPermit, Said, Range
<1>7. EndsEmpty /\ EndIsTold
  BY DEF EndsEmpty, EndIsTold
<1>8. PingFirst
  <2>1. Far <= Far
    BY Delays
  <2> QED
    BY <2>1 DEF PingFirst
<1>9. EntriesMatchTasks
  BY DEF EntriesMatchTasks, Entered
<1>10. NoSilentLoss /\ NoPongMeansSilence
  BY DEF NoSilentLoss, NoPongMeansSilence
<1> QED
  BY <1>1, <1>2, <1>4, <1>5, <1>6, <1>7, <1>8, <1>9, <1>10 DEF IInv

\* and every step keeps it.
LEMMA NextInv ==
  ASSUME IInv, [Next]_vars PROVE IInv'
<1> USE DEF IInv
<1>1. Types'
  BY TaskTypesStep, SessionTypesStep, WriterTypesStep, ReaderTypesStep,
     QueueTypesStep
     DEF Types
<1>2. Limits'
  BY LimitsStep
<1>3. QueuedOnce'
  BY QueuedOnceStep
<1>4. ReaderPlace'
  BY ReaderPlaceStep
<1>5. QueuedIsFresh'
  BY QueuedIsFreshStep
<1>6. TaskKinds'
  BY TaskKindsStep
<1>7. AnsweredOnce'
  BY AnsweredOnceStep
<1>8. EndsEmpty'
  BY EndsEmptyStep
<1>9. PingFirst'
  BY PingFirstStep
<1>10. EntriesMatchTasks'
  BY EntriesStep
<1>11. NoSilentLoss'
  BY NoSilentLossStep
<1>12. NoPongMeansSilence'
  BY NoPongStep
<1>13. SaidOnce'
  BY SaidOnceStep
<1>14. EndIsTold'
  BY EndIsToldStep
<1> QED
  BY <1>1, <1>2, <1>3, <1>4, <1>5, <1>6, <1>7, <1>8, <1>9, <1>10, <1>11, <1>12, <1>13,
     <1>14

\* The invariant that the theorems below follow from holds in every state.
THEOREM Invariance == Spec => []IInv
<1>1. Init => IInv
  BY InitInv
<1>2. IInv /\ [Next]_vars => IInv'
  BY NextInv
<1> QED
  BY <1>1, <1>2, PTL DEF Spec

\* The variables have their types; no more than MAX_CONCURRENT_REQUESTS
\* permits are held, no more than MAX_SUBSCRIPTION_COUNT channels subscribed,
\* and the reply channel is never overfull, for any of these limits.
THEOREM TypeCorrect == Spec => []TypeOK
<1>1. IInv => TypeOK
  BY DEF IInv, Limits, TypeOK
<1> QED
  BY <1>1, Invariance, PTL

\* The entries of `subscriptions' and the tasks that were not told to abort
\* are the same subscriptions, although a task removes the entry of its
\* channel without asking whose it is.
THEOREM EntriesAreTasks == Spec => []EntriesMatchTasks
<1>1. IInv => EntriesMatchTasks
  BY DEF IInv
<1> QED
  BY <1>1, Invariance, PTL

\* When a command that was decoded, and is not a Subscribe, is lost, wherever
\* that happens (in its batch, in the encoder, in the write, in its task or at
\* the end), the connection has an error to end with.
THEOREM CallsAreNotLost == Spec => []NoSilentLoss
<1>1. IInv => NoSilentLoss
  BY DEF IInv
<1> QED
  BY <1>1, Invariance, PTL

\* NoPong is said only of a client that was sent a ping and has been silent
\* since, whatever the two intervals are.
THEOREM NoPongIsDeserved == Spec => []NoPongMeansSilence
<1>1. IInv => NoPongMeansSilence
  BY DEF IInv
<1> QED
  BY <1>1, Invariance, PTL

-----------------------------------------------------------------------------
(* The promise of the server: RequestReply.                                *)

\* A step that answers pending commands, and no other, is one of the promise.
LEMMA AnswerIsPromised ==
  ASSUME IInv, [Next]_vars, UNCHANGED returned,
         OutcomesKept
  PROVE  Promise!Answer
<1>1. Types'
  BY NextInv DEF IInv
<1>2. outcome' \in [Commands -> {"idle", "pending", "reply", "dropped", "again"}]
  BY <1>1 DEF Types, SessionTypes
<1>3. \A j \in Commands : outcome'[j] # "again"
  BY DEF OutcomesKept, Settled, IInv, AnsweredOnce
<1>4. outcome' \in [Commands -> {"idle", "pending"} \cup {"reply", "dropped"}]
  BY <1>2, <1>3
<1> QED
  BY <1>4 DEF Promise!Answer, OutcomesKept, Settled

\* Every step of the server is a step of the promise, or none.
LEMMA PromiseStep ==
  ASSUME IInv, [Next]_vars PROVE [Promise!Next]_(Promise!vars)
<1> USE DEF Promise!vars, commandVars, taskVars, readerVars, timerVars,
   writerVars
<1>1. ASSUME Settles PROVE [Promise!Next]_(Promise!vars)
  <2>1. OutcomesKept
    BY <1>1, Settling DEF IInv
  <2>2. UNCHANGED returned
    BY <1>1 DEF Settles, ReadMessage, ConnectSettled, ProcessUnexpected, ReaderSends,
       ReaderEnds, WriterReceives, WriterSends, WriterEnds, TaskCancelled, TaskSends
  <2> QED
    BY <2>1, <2>2, AnswerIsPromised DEF Promise!Next
<1>2. ASSUME Arrives PROVE [Promise!Next]_(Promise!vars)
  <2>1. ASSUME NEW i \in Commands, outcome[i] = "idle",
               outcome' = [outcome EXCEPT ![i] = "pending"]
        PROVE  Promise!Submit(i)
    <3>1. reader # "done"
      BY <1>2 DEF Arrives
    <3>2. ~returned
      BY <3>1 DEF IInv, EndsEmpty
    <3> QED
      BY <1>2, <2>1, <3>2 DEF Arrives, Promise!Submit
  <2> QED
    BY <1>2, <2>1 DEF Arrives, Promise!Next
<1>3. ASSUME ServeReturns PROVE [Promise!Next]_(Promise!vars)
  <2>1. Promise!End
    <3>1. outcome' = [i \in Commands |->
                       IF outcome[i] = "pending" THEN "dropped" ELSE outcome[i]]
      BY <1>3 DEF ServeReturns
    <3>2. outcome \in [Commands -> {"idle", "pending", "reply", "dropped"}]
      BY DEF IInv, Types, SessionTypes, AnsweredOnce
    <3>3. outcome' \in [Commands -> {"idle", "pending"} \cup {"reply", "dropped"}]
      BY <3>1, <3>2
    <3> QED
      BY <1>3, <3>1, <3>2, <3>3 DEF ServeReturns, Promise!End
  <2> QED
    BY <2>1 DEF Promise!Next
<1>4. CASE CloserFires \/ PingFires \/ PongTimerFires \/ ProcessPong \/
           (\E i \in Commands : ProcessConnect(i)) \/
           (\E i \in Commands : ProcessLimited(i)) \/
           (\E i \in Commands : ProcessCall(i)) \/
           (\E i \in Commands : ProcessSubscribe(i))
  BY <1>4 DEF CloserFires, PingFires, PongTimerFires, ProcessPong,
     ProcessConnect, ProcessLimited, ProcessCall, ProcessSubscribe
<1>5. CASE (\E i \in Commands, c \in Channels : ProcessUnsubscribe(i, c)) \/
           (\E i \in Commands : ProcessOther(i)) \/ RemoteEnds \/
           (\E t \in Commands : HandlerEnds(t)) \/
           (\E t \in Commands : TaskRemovesEntry(t)) \/
           (\E t \in Commands : StreamYields(t)) \/ Tick
  BY <1>5 DEF ProcessUnsubscribe, ProcessOther, RemoteEnds, HandlerEnds,
     TaskRemovesEntry, StreamYields, Tick
<1>6. CASE UNCHANGED vars
  BY <1>6 DEF vars
<1> QED
  BY <1>1, <1>2, <1>3, <1>4, <1>5, <1>6 DEF Next, Reader,
     Select, Process, Writer, TaskStep, TaskAdvances, Settles

\* Each command is answered at most once (a second reply would be "again"),
\* none after it was given up and none after the end of serve(), whoever it is
\* that answers: the server implements RequestReply.
THEOREM PromiseIsKept == Spec => PromiseKept
<1>1. Init => Promise!Init
  BY DEF Init, Promise!Init
<1>2. IInv /\ [Next]_vars => [Promise!Next]_(Promise!vars)
  BY PromiseStep
<1> QED
  BY <1>1, <1>2, Invariance, PTL DEF Spec, PromiseKept, Promise!Spec

-----------------------------------------------------------------------------
(* The order of the commands.                                              *)

\* Commands as the client sent them, with pongs between them.
InOrder(s) ==
    \A j, k \in DOMAIN s : j < k /\ s[j] # Pong /\ s[k] # Pong => s[j] < s[k]

\* What is queued comes after what was processed, and what was not sent yet
\* comes last.
InTheOrderSent ==
    /\ InOrder(inbox) /\ InOrder(incoming)
    /\ \A i \in Range(inbox), j \in Range(incoming) :
          i # Pong /\ j # Pong => i < j
    /\ \A i, j \in Commands :
          /\ kind[i] # "none" /\ j \in Queue => i <= j
          /\ outcome[i] = "idle" /\ i < j => outcome[j] = "idle"

\* The head of such a queue comes first, also when it is taken,
LEMMA OrderTail ==
  ASSUME NEW S, NEW s \in Seq(S), s # <<>>, InOrder(s)
  PROVE  /\ InOrder(Tail(s))
         /\ \A x \in Range(Tail(s)) : Head(s) # Pong /\ x # Pong => Head(s) < x
         /\ \A x \in Range(s) : x = Head(s) \/ x \in Range(Tail(s))
<1>1. /\ 1 \in DOMAIN s /\ Head(s) = s[1]
      /\ \A j \in DOMAIN Tail(s) :
            j + 1 \in DOMAIN s /\ Tail(s)[j] = s[j + 1] /\ j \in Nat \ {0}
  BY TailOf
<1>2. InOrder(Tail(s))
  <2>1. ASSUME NEW j \in DOMAIN Tail(s), NEW k \in DOMAIN Tail(s), j < k,
               Tail(s)[j] # Pong, Tail(s)[k] # Pong
        PROVE  Tail(s)[j] < Tail(s)[k]
    <3>1. j + 1 < k + 1
      BY <1>1, <2>1
    <3> QED
      BY <1>1, <2>1, <3>1 DEF InOrder
  <2> QED
    BY <2>1 DEF InOrder
<1>3. ASSUME NEW j \in DOMAIN Tail(s), Head(s) # Pong, Tail(s)[j] # Pong
      PROVE  Head(s) < Tail(s)[j]
  <2>1. 1 < j + 1
    BY <1>1
  <2> QED
    BY <1>1, <1>3, <2>1 DEF InOrder
<1>4. ASSUME NEW k \in DOMAIN s, k # 1 PROVE \E j \in DOMAIN Tail(s) : Tail(s)[j] = s[k]
  <2>1. /\ Len(s) \in Nat /\ DOMAIN s = 1..Len(s) /\ Len(Tail(s)) = Len(s) - 1
        /\ DOMAIN Tail(s) = 1..Len(Tail(s))
    BY HeadTailProperties, LenProperties
  <2>2. k - 1 \in DOMAIN Tail(s) /\ (k - 1) + 1 = k
    BY <1>4, <2>1
  <2> QED
    BY <1>1, <2>2
<1> QED
  BY <1>1, <1>2, <1>3, <1>4 DEF Range

\* what comes later is added at the end,
LEMMA OrderAppend ==
  ASSUME NEW S, NEW s \in Seq(S), NEW e \in S, InOrder(s),
         \A x \in Range(s) : x # Pong /\ e # Pong => x < e
  PROVE  InOrder(Append(s, e))
<1>1. /\ DOMAIN Append(s, e) = DOMAIN s \cup {Len(s) + 1}
      /\ \A j \in DOMAIN s : Append(s, e)[j] = s[j] /\ j # Len(s) + 1
      /\ Append(s, e)[Len(s) + 1] = e
  BY AppendTo
<1>2. Len(s) \in Nat /\ DOMAIN s = 1..Len(s)
  BY LenProperties
<1>3. ASSUME NEW j \in DOMAIN Append(s, e), NEW k \in DOMAIN Append(s, e), j < k,
             Append(s, e)[j] # Pong, Append(s, e)[k] # Pong
      PROVE  Append(s, e)[j] < Append(s, e)[k]
  <2>1. j \in DOMAIN s
    BY <1>1, <1>2, <1>3
  <2>2. CASE k \in DOMAIN s
    BY <1>1, <1>3, <2>1, <2>2 DEF InOrder
  <2>3. CASE k = Len(s) + 1
    <3>1. s[j] \in Range(s)
      BY <2>1 DEF Range
    <3> QED
      BY <1>1, <1>3, <2>1, <2>3, <3>1
  <2> QED
    BY <1>1, <2>2, <2>3
<1> QED
  BY <1>3 DEF InOrder

\* and of its two parts the one comes before the other.
LEMMA OrderCut ==
  ASSUME NEW S, NEW s \in Seq(S), NEW n \in 0..Len(s), InOrder(s)
  PROVE  /\ InOrder(SubSeq(s, 1, n)) /\ InOrder(SubSeq(s, n + 1, Len(s)))
         /\ \A x \in Range(SubSeq(s, 1, n)), y \in Range(SubSeq(s, n + 1, Len(s))) :
               x # Pong /\ y # Pong => x < y
<1> DEFINE a == SubSeq(s, 1, n)
           b == SubSeq(s, n + 1, Len(s))
<1>1. /\ DOMAIN a = 1..n
      /\ \A j \in 1..n : a[j] = s[j] /\ j \in DOMAIN s
  BY CutAt
<1>2. \A j \in DOMAIN b :
         b[j] = s[n + j] /\ n + j \in DOMAIN s /\ n + j \notin 1..n /\ j \in Nat
  BY CutAt
<1>3. \A j \in 1..n, k \in DOMAIN b : j < n + k
  BY <1>2
<1> HIDE DEF a, b
<1>4. InOrder(a)
  BY <1>1 DEF InOrder
<1>5. InOrder(b)
  <2>1. ASSUME NEW j \in DOMAIN b, NEW k \in DOMAIN b, j < k, b[j] # Pong, b[k] # Pong
        PROVE  b[j] < b[k]
    <3>1. n + j < n + k
      BY <1>2, <2>1
    <3> QED
      BY <1>2, <2>1, <3>1 DEF InOrder
  <2> QED
    BY <2>1 DEF InOrder
<1>6. \A x \in Range(a), y \in Range(b) : x # Pong /\ y # Pong => x < y
  BY <1>1, <1>2, <1>3 DEF InOrder, Range
<1> QED
  BY <1>4, <1>5, <1>6 DEF a, b

\* The command that the reader works on comes before all that are queued.
LEMMA HeadIsFirst ==
  ASSUME Types, ReaderPlace, QueuedIsFresh, InTheOrderSent, NEW i \in Commands,
         Processing(i) \/ (Midway /\ Head(inbox) = i)
  PROVE  \A j \in Commands \cap Queue : i <= j
<1>1. /\ inbox # <<>> /\ Head(inbox) = i /\ i \in Range(inbox)
      /\ inbox \in Seq(Commands \cup {Pong}) /\ i \in Nat
      /\ \A j \in Commands : j # Pong
  BY HeadIsFresh, Messages, ServerAssumption DEF Types, QueueTypes, Pong, Commands
<1>2. \A j \in Commands \cap Range(inbox) : i <= j
  <2>1. \A j \in Commands \cap Range(inbox) : i = j \/ i < j
    BY <1>1, OrderTail DEF InTheOrderSent
  <2> QED
    BY <1>1, <2>1 DEF Commands
<1>3. \A j \in Commands \cap Range(incoming) : i < j
  BY <1>1 DEF InTheOrderSent
<1> QED
  BY <1>1, <1>2, <1>3 DEF Queue, Commands

\* A step that leaves the queues and the commands as they are keeps the order,
LEMMA OrderKept ==
  ASSUME InTheOrderSent, UNCHANGED <<inbox, incoming, kind>>, OutcomesKept
  PROVE  InTheOrderSent'
<1>1. \A j \in Commands : outcome'[j] = "idle" <=> outcome[j] = "idle"
  BY DEF OutcomesKept, Settled
<1> QED
  BY <1>1 DEF InTheOrderSent, InOrder, Queue

\* and so does one that works on the head of the inbox.
LEMMA OrderWithHead ==
  ASSUME Types, ReaderPlace, QueuedIsFresh, InTheOrderSent, NEW i \in Commands,
         Processing(i) \/ (Midway /\ Head(inbox) = i),
         inbox' \in {inbox, Tail(inbox)}, UNCHANGED incoming, OutcomesKept,
         \A j \in Commands : j # i => kind'[j] = kind[j]
  PROVE  InTheOrderSent'
<1>1. inbox # <<>> /\ inbox \in Seq(Commands \cup {Pong})
  BY HeadIsFresh DEF Types, QueueTypes
<1>2. /\ InOrder(Tail(inbox)) /\ Range(Tail(inbox)) \subseteq Range(inbox)
  BY <1>1, OrderTail, TailOf DEF InTheOrderSent
<1>3. Range(inbox') \subseteq Range(inbox) /\ InOrder(inbox')
  BY <1>2 DEF InTheOrderSent
<1>4. Queue' \subseteq Queue
  BY <1>3 DEF Queue
<1>5. InOrder(incoming')
  BY DEF InTheOrderSent
<1>6. \A x, y \in Commands : kind'[x] # "none" /\ y \in Queue' => x <= y
  BY <1>4, HeadIsFirst DEF InTheOrderSent
<1>7. \A j \in Commands : outcome'[j] = "idle" <=> outcome[j] = "idle"
  BY DEF OutcomesKept, Settled
<1> QED
  BY <1>3, <1>5, <1>6, <1>7 DEF InTheOrderSent

\* The commands keep their order.
LEMMA InTheOrderSentStep ==
  ASSUME IInv, InTheOrderSent, [Next]_vars PROVE InTheOrderSent'
<1> USE DEF IInv, commandVars, taskVars, readerVars, timerVars, writerVars
<1>a. /\ incoming \in Seq(Commands \cup {Pong}) /\ inbox \in Seq(Commands \cup {Pong})
      /\ \A j \in Commands : j # Pong /\ j \in Nat
  BY Messages, ServerAssumption DEF Types, QueueTypes, Pong, Commands
<1>b. Settles => OutcomesKept
  BY Settling
<1>c. UNCHANGED outcome => OutcomesKept
  BY DEF OutcomesKept
<1>1. ASSUME ReadMessage PROVE InTheOrderSent'
  <2>1. PICK n \in 1..Len(incoming) :
          /\ inbox' \in Decoded(SubSeq(incoming, 1, n))
          /\ incoming' = SubSeq(incoming, n + 1, Len(incoming))
    BY <1>1 DEF ReadMessage
  <2> DEFINE message == SubSeq(incoming, 1, n)
  <2>2. n \in 0..Len(incoming) /\ InOrder(incoming)
    BY DEF InTheOrderSent
  <2>3. /\ InOrder(message) /\ InOrder(incoming') /\ message \in Seq(Commands \cup {Pong})
        /\ \A x \in Range(message), y \in Range(incoming') : x # Pong /\ y # Pong => x < y
    BY <1>a, <2>1, <2>2, OrderCut, CutAt
  <2>4. PICK m \in 0..Len(message) : inbox' = SubSeq(message, 1, m)
    BY <2>1 DEF Decoded
  <2> HIDE DEF message
  <2>5. InOrder(inbox') /\ Range(inbox') \subseteq Range(message)
    BY <2>3, <2>4, OrderCut, CutAt
  <2>6. /\ UNCHANGED kind /\ Queue' \subseteq Queue
        /\ \A j \in Commands : outcome[j] = "idle" => outcome'[j] = outcome[j]
        /\ \A j \in Commands : outcome'[j] = "idle" => outcome[j] = "idle"
    BY <1>1, MessageTaken DEF ReadMessage, QueuedIsFresh, Queue
  <2> QED
    BY <2>3, <2>5, <2>6 DEF InTheOrderSent
<1>2. ASSUME ProcessPong PROVE InTheOrderSent'
  <2>1. /\ inbox # <<>> /\ inbox' = Tail(inbox)
        /\ UNCHANGED <<incoming, kind, outcome>>
    BY <1>2 DEF ProcessPong, Processing
  <2>2. InOrder(inbox') /\ Range(inbox') \subseteq Range(inbox)
    BY <1>a, <2>1, OrderTail, TailOf DEF InTheOrderSent
  <2>3. Queue' \subseteq Queue
    BY <2>1, <2>2 DEF Queue
  <2> QED
    BY <2>1, <2>2, <2>3 DEF InTheOrderSent
<1>3. ASSUME NEW i \in Commands, ProcessConnect(i) PROVE InTheOrderSent'
  BY <1>3, <1>c, OrderWithHead DEF ProcessConnect, Known, Types, SessionTypes
<1>4. ASSUME NEW i \in Commands, ConnectSettled(i) PROVE InTheOrderSent'
  BY <1>4, <1>b, OrderWithHead DEF ConnectSettled, Replies, RepliesError, Midway, Settles
<1>5. ASSUME NEW i \in Commands, ProcessUnexpected(i) PROVE InTheOrderSent'
  BY <1>5, <1>b, OrderWithHead DEF Settles, ProcessUnexpected, Known, Replies, RepliesError, Types, SessionTypes
<1>6. ASSUME NEW i \in Commands, ProcessLimited(i) PROVE InTheOrderSent'
  BY <1>6, <1>c, OrderWithHead DEF ProcessLimited, Known, Types, SessionTypes
<1>7. ASSUME NEW i \in Commands, ProcessCall(i) PROVE InTheOrderSent'
  BY <1>7, <1>c, OrderWithHead DEF ProcessCall, Permitted, Spawned, Replies, Midway
<1>8. ASSUME NEW i \in Commands, ProcessSubscribe(i) PROVE InTheOrderSent'
  BY <1>8, <1>c, OrderWithHead DEF ProcessSubscribe, Permitted, Spawned, Replies, Midway
<1>9. ASSUME NEW i \in Commands, NEW c \in Channels, ProcessUnsubscribe(i, c)
      PROVE  InTheOrderSent'
  BY <1>9, <1>c, OrderWithHead DEF ProcessUnsubscribe, Known, Replies, Types, SessionTypes
<1>10. ASSUME NEW i \in Commands, ProcessOther(i) PROVE InTheOrderSent'
  BY <1>10, <1>c, OrderWithHead DEF ProcessOther, Known, Replies, Types, SessionTypes
<1>11. ASSUME ReaderEnds PROVE InTheOrderSent'
  <2>1. incoming' = <<>> /\ UNCHANGED <<inbox, kind>> /\ OutcomesKept
    BY <1>11, <1>b DEF ReaderEnds, Settles
  <2>2. InOrder(incoming') /\ Range(incoming') = {} /\ Queue' \subseteq Queue
    BY <2>1 DEF InOrder, Range, Queue
  <2>3. \A j \in Commands : outcome'[j] = "idle" <=> outcome[j] = "idle"
    BY <2>1 DEF OutcomesKept, Settled
  <2> QED
    BY <2>1, <2>2, <2>3 DEF InTheOrderSent, InOrder
<1>12. ASSUME ReaderSends \/ WriterReceives \/ WriterSends \/ WriterEnds
       PROVE  InTheOrderSent'
  BY <1>12, <1>b, OrderKept DEF ReaderSends, WriterReceives, WriterSends, WriterEnds,
     Settles
<1>13. ASSUME NEW t \in Commands, TaskCancelled(t) \/ TaskSends(t)
       PROVE  InTheOrderSent'
  BY <1>13, <1>b, OrderKept DEF TaskCancelled, TaskSends, Settles
<1>14. ASSUME Arrives PROVE InTheOrderSent'
  <2>1. UNCHANGED <<inbox, kind>>
    BY <1>14 DEF Arrives
  <2>2. CASE incoming' = Append(incoming, Pong) /\ UNCHANGED outcome
    <3>1. InOrder(incoming') /\ Range(incoming') = Range(incoming) \cup {Pong}
      BY <1>a, <2>2, OrderAppend, AppendTo DEF InTheOrderSent
    <3> QED
      BY <1>a, <2>1, <2>2, <3>1 DEF InTheOrderSent, Queue
  <2>3. ASSUME NEW i \in Commands, outcome[i] = "idle",
               \A j \in 1..(i - 1) : outcome[j] # "idle",
               outcome' = [outcome EXCEPT ![i] = "pending"],
               incoming' = Append(incoming, i)
        PROVE  InTheOrderSent'
    <3>1. \A j \in Commands : outcome[j] # "idle" => j < i
      BY <1>a, <2>3 DEF InTheOrderSent, Commands
    <3>2. \A j \in Commands : j < i => outcome[j] # "idle"
      BY <1>a, <2>3 DEF Commands
    <3>3. \A j \in Queue : j # Pong => j \in Commands /\ outcome[j] # "idle"
      BY <1>a, ElementOfSeq DEF Queue, QueuedIsFresh, Range
    <3>4. /\ \A j \in Commands : kind[j] # "none" => j < i
          /\ \A j \in Queue : j # Pong => j < i
      BY <3>1, <3>3 DEF QueuedIsFresh
    <3>5. InOrder(incoming') /\ Range(incoming') = Range(incoming) \cup {i}
      BY <1>a, <2>3, <3>4, OrderAppend, AppendTo DEF InTheOrderSent, Queue
    <3>6. \A x, y \in Commands : x < y /\ outcome'[x] = "idle" => outcome'[y] = "idle"
      <4>1. \A x \in Commands : outcome'[x] = "idle" => x # i /\ outcome[x] = "idle"
        BY <2>3 DEF Types, SessionTypes
      <4>2. \A y \in Commands : y # i => outcome'[y] = outcome[y]
        BY <2>3
      <4>3. \A x, y \in Commands : x < y /\ y = i => outcome[x] # "idle"
        BY <3>2
      <4> QED
        BY <4>1, <4>2, <4>3 DEF InTheOrderSent
    <3>7. \A x, y \in Commands : kind'[x] # "none" /\ y \in Queue' => x <= y
      <4>1. Queue' = Queue \cup {i}
        BY <2>1, <3>5 DEF Queue
      <4>2. \A x \in Commands : x < i => x <= i
        BY <1>a
      <4> QED
        BY <2>1, <3>4, <4>1, <4>2 DEF InTheOrderSent
    <3> QED
      BY <2>1, <3>4, <3>5, <3>6, <3>7 DEF InTheOrderSent, Queue
  <2> QED
    BY <1>14, <2>2, <2>3 DEF Arrives
<1>15. ASSUME ServeReturns PROVE InTheOrderSent'
  <2>1. /\ UNCHANGED <<inbox, incoming, kind>>
        /\ \A j \in Commands : outcome'[j] = "idle" <=> outcome[j] = "idle"
    BY <1>15 DEF ServeReturns, Types, SessionTypes
  <2> QED
    BY <2>1 DEF InTheOrderSent, InOrder, Queue
<1>16. CASE CloserFires \/ PingFires \/ PongTimerFires \/ RemoteEnds \/ Tick
  BY <1>16, <1>c, OrderKept DEF CloserFires, PingFires, PongTimerFires, RemoteEnds, Tick
<1>17. CASE (\E t \in Commands : HandlerEnds(t)) \/
            (\E t \in Commands : TaskRemovesEntry(t)) \/
            (\E t \in Commands : StreamYields(t))
  BY <1>17, <1>c, OrderKept DEF HandlerEnds, TaskRemovesEntry, StreamYields
<1>18. CASE UNCHANGED vars
  BY <1>18, <1>c, OrderKept DEF vars
<1> QED
  BY <1>1, <1>2, <1>3, <1>4, <1>5, <1>6, <1>7, <1>8, <1>9, <1>10, <1>11, <1>12,
     <1>13, <1>14, <1>15, <1>16, <1>17, <1>18 DEF Next, Reader, Select, Process,
     Writer, TaskStep, TaskAdvances

-----------------------------------------------------------------------------
(* Who is told to stay away.                                               *)

\* The codes without reconnection that blame the client.
Harsh == {InvalidToken, BadRequest, Stale}

\* The connection ends with the code, or will when the writer gets to it.
Told(code) ==
    \/ code \in {sending.code, failure, closeCode}
    \/ \E m \in Range(replyCh) : m.code = code

SomeProcessed == \E i \in Commands : kind[i] # "none"

\* The client was not let in, and can't be any more by a lawful Connect.
LockedOut ==
    /\ session = "Initial" /\ reader # "on_connect"
    /\ SomeProcessed \/ reader \in {"closing", "done"}

\* A harsh code means that the client broke the rules, or stays outside; and
\* only data that has to be JSON may be inappropriate.
HarshIsDeserved ==
    /\ session = "Connected" => SomeProcessed /\ reader # "on_connect"
    /\ (\E code \in Harsh : Told(code)) => ~Lawful \/ LockedOut
    /\ Told(InappropriateProtocol) => params.json

\* A command becomes known once, after all those before it.
LEMMA KnownInOrder ==
  ASSUME IInv, InTheOrderSent, [Next]_vars
  PROVE  \/ UNCHANGED kind
         \/ \E i \in Commands :
               /\ kind[i] = "none"
               /\ \A j \in Commands : j # i => kind'[j] = kind[j]
               /\ \A j \in Commands : kind[j] # "none" => j < i
<1> DEFINE Goal == \E i \in Commands :
               /\ kind[i] = "none"
               /\ \A j \in Commands : j # i => kind'[j] = kind[j]
               /\ \A j \in Commands : kind[j] # "none" => j < i
<1> USE DEF IInv, commandVars, taskVars, readerVars, timerVars, writerVars
<1>1. ASSUME NEW i \in Commands, Processing(i), NEW k, Known(i, k) PROVE Goal
  <2>1. kind[i] = "none" /\ i \in Queue
    BY <1>1, HeadIsFresh DEF Queue
  <2>2. \A j \in Commands : kind[j] # "none" => j <= i /\ j # i
    BY <2>1 DEF InTheOrderSent
  <2>3. \A j \in Commands : kind[j] # "none" => j < i
    BY <2>2 DEF Commands
  <2> QED
    BY <1>1, <2>1, <2>3 DEF Known
<1> HIDE DEF Goal
<1>2. CASE (\E i \in Commands : ProcessConnect(i)) \/
           (\E i \in Commands : ProcessUnexpected(i)) \/
           (\E i \in Commands : ProcessLimited(i)) \/
           (\E i \in Commands, c \in Channels : ProcessUnsubscribe(i, c)) \/
           (\E i \in Commands : ProcessOther(i))
  <2>1. ASSUME NEW i \in Commands, ProcessConnect(i) PROVE Goal
    BY <1>1, <2>1 DEF ProcessConnect
  <2>2. ASSUME NEW i \in Commands, ProcessUnexpected(i) PROVE Goal
    BY <1>1, <2>2 DEF ProcessUnexpected
  <2>3. ASSUME NEW i \in Commands, ProcessLimited(i) PROVE Goal
    BY <1>1, <2>3 DEF ProcessLimited
  <2>4. ASSUME NEW i \in Commands, NEW c \in Channels, ProcessUnsubscribe(i, c)
        PROVE  Goal
    BY <1>1, <2>4 DEF ProcessUnsubscribe
  <2>5. ASSUME NEW i \in Commands, ProcessOther(i) PROVE Goal
    BY <1>1, <2>5 DEF ProcessOther
  <2> QED
    BY <1>2, <2>1, <2>2, <2>3, <2>4, <2>5 DEF Goal
<1>3. CASE CloserFires \/ PingFires \/ ReadMessage \/ PongTimerFires \/
           ProcessPong \/ (\E i \in Commands : ConnectSettled(i)) \/
           (\E i \in Commands : ProcessCall(i)) \/
           (\E i \in Commands : ProcessSubscribe(i)) \/ ReaderSends \/
           ReaderEnds
  BY <1>3 DEF CloserFires, PingFires, ReadMessage, PongTimerFires, ProcessPong,
     ConnectSettled, ProcessCall, ProcessSubscribe, ReaderSends, ReaderEnds
<1>4. CASE RemoteEnds \/ WriterReceives \/ WriterSends \/ WriterEnds \/
           (\E t \in Commands : HandlerEnds(t)) \/
           (\E t \in Commands : TaskRemovesEntry(t)) \/
           (\E t \in Commands : TaskCancelled(t)) \/
           (\E t \in Commands : StreamYields(t)) \/
           (\E t \in Commands : TaskSends(t)) \/ Arrives
  BY <1>4 DEF RemoteEnds, WriterReceives, WriterSends, WriterEnds, HandlerEnds,
     TaskRemovesEntry, TaskCancelled, StreamYields, TaskSends, Arrives
<1>5. CASE Tick \/ ServeReturns
  BY <1>5 DEF Tick, ServeReturns
<1>6. CASE UNCHANGED vars
  BY <1>6 DEF vars
<1> QED
  BY <1>2, <1>3, <1>4, <1>5, <1>6 DEF Next, Reader, Select, Process, Writer,
     TaskStep, TaskAdvances, Goal

\* A client that broke the rules has done so for good.
LEMMA UnlawfulStays ==
  ASSUME IInv, InTheOrderSent, [Next]_vars
  PROVE  /\ Lawful' => Lawful
         /\ SomeProcessed => SomeProcessed'
<1>1. CASE UNCHANGED kind
  BY <1>1 DEF Lawful, SomeProcessed
<1>2. ASSUME NEW i \in Commands, kind[i] = "none",
             \A j \in Commands : j # i => kind'[j] = kind[j],
             \A j \in Commands : kind[j] # "none" => j < i
      PROVE  /\ Lawful' => Lawful
             /\ SomeProcessed => SomeProcessed'
  <2>1. ASSUME NEW j \in Commands, kind[j] # "none"
        PROVE  kind'[j] = kind[j] /\ \A l \in 1..(j - 1) : kind'[l] = kind[l]
    <3>1. j < i /\ j \in Nat /\ i \in Nat /\ NumCommands \in Nat
      BY <1>2, <2>1, ServerAssumption DEF Commands
    <3>2. j # i /\ \A l \in 1..(j - 1) : l # i /\ l \in Commands
      BY <3>1 DEF Commands
    <3> QED
      BY <1>2, <3>2
  <2> QED
    BY <2>1 DEF Lawful, SomeProcessed
<1> QED
  BY <1>1, <1>2, KnownInOrder

\* A Connect that comes after another command is one too many.
LEMMA SecondConnect ==
  ASSUME IInv, InTheOrderSent, NEW i \in Commands, Processing(i),
         Known(i, "connect"), SomeProcessed
  PROVE  ~Lawful'
<1>1. kind[i] = "none" /\ i \in Queue
  BY HeadIsFresh DEF IInv, Queue
<1>2. PICK j \in Commands : kind[j] # "none"
  BY DEF SomeProcessed
<1>3. j \in 1..(i - 1)
  BY <1>1, <1>2 DEF InTheOrderSent, Commands
<1>4. kind'[i] = "connect" /\ kind'[j] # "none"
  BY <1>1, <1>2 DEF Known, IInv, Types, SessionTypes
<1> QED
  BY <1>3, <1>4 DEF Lawful

\* What is sent is in the channel, where nothing else is new.
LEMMA SentTells ==
  ASSUME Types, NEW m \in Message, Sent(m)
  PROVE  \A x \in Range(replyCh') : x \in Range(replyCh) \/ x = m
<1>1. replyCh \in Seq(Message)
  BY DEF Types, QueueTypes
<1>2. Range(Append(replyCh, m)) = Range(replyCh) \cup {m}
  BY <1>1, AppendTo
<1>3. replyCh' = replyCh \/ replyCh' = Append(replyCh, m)
  BY DEF Sent
<1> QED
  BY <1>2, <1>3

\* The codes of messages, and which of them are mild.
LEMMA MildCodes ==
  /\ Push.code = 0 /\ (\A i : Answer(i).code = 0) /\ (\A code : Error(code).code = code)
  /\ {0, ConnectionClosed, ServerError, WriteError, NoPong} \cap Harsh = {}
  /\ InappropriateProtocol \notin
        Harsh \cup {0, ConnectionClosed, ServerError, WriteError, NoPong}
  /\ \A code \in Codes \ (Harsh \cup {InappropriateProtocol}) : should_reconnect(code)
BY DEF Push, Answer, Error, Harsh, Codes, should_reconnect, ConnectionClosed,
   ServerError, WriteError, NoPong, InvalidToken, BadRequest, Stale,
   InappropriateProtocol

\* A step that says nothing harsh, and does not let the client in.
LEMMA NothingHarsh ==
  ASSUME IInv, InTheOrderSent, [Next]_vars, HarshIsDeserved,
         UNCHANGED <<session, params>>,
         reader' = "on_connect" => reader = "on_connect",
         reader \in {"closing", "done"} => reader' \in {"closing", "done"},
         \A code \in Harsh : Told(code)' => Told(code),
         Told(InappropriateProtocol)' => Told(InappropriateProtocol) \/ params.json
  PROVE  HarshIsDeserved'
<1>1. (Lawful' => Lawful) /\ (SomeProcessed => SomeProcessed')
  BY UnlawfulStays
<1>2. LockedOut => LockedOut'
  BY <1>1 DEF LockedOut
<1>3. ASSUME NEW code \in Harsh, Told(code)' PROVE ~Lawful' \/ LockedOut'
  BY <1>1, <1>2, <1>3 DEF HarshIsDeserved
<1>4. (\E code \in Harsh : Told(code)') => ~Lawful' \/ LockedOut'
  BY <1>3
<1>5. Told(InappropriateProtocol)' => params'.json
  BY DEF HarshIsDeserved
<1>6. session' = "Connected" => SomeProcessed' /\ reader' # "on_connect"
  BY <1>1 DEF HarshIsDeserved
<1> QED
  BY <1>4, <1>5, <1>6 DEF HarshIsDeserved, Harsh


\* Harsh codes are only said when they are deserved.
LEMMA HarshStep ==
  ASSUME IInv, InTheOrderSent, HarshIsDeserved, [Next]_vars PROVE HarshIsDeserved'
<1> USE DEF IInv, commandVars, taskVars, readerVars, timerVars, writerVars
<1>a. /\ (\A i \in Commands : Answer(i) \in Message) /\ Push \in Message
      /\ sending \in Message
  BY Messages DEF Types, ReaderTypes
<1>b. /\ Push.code = 0 /\ (\A i : Answer(i).code = 0) /\ (\A code : Error(code).code = code)
      /\ {0, ConnectionClosed, ServerError, WriteError, NoPong} \cap Harsh = {}
      /\ InappropriateProtocol \notin
            Harsh \cup {0, ConnectionClosed, ServerError, WriteError, NoPong}
  BY MildCodes
<1>c. (Lawful' => Lawful) /\ (SomeProcessed => SomeProcessed')
  BY UnlawfulStays
<1>1. ASSUME CloserFires \/ RemoteEnds PROVE HarshIsDeserved'
  BY <1>1, <1>b, NothingHarsh DEF CloserFires, RemoteEnds, Selecting, Break, Told
<1>2. ASSUME PingFires PROVE HarshIsDeserved'
  BY <1>2, <1>b, NothingHarsh DEF PingFires, Selecting, Told
<1>3. ASSUME PongTimerFires PROVE HarshIsDeserved'
  <2>1. /\ sending' = Error(TimeoutCode) /\ reader' = "closing" /\ reader = "ready"
        /\ UNCHANGED <<session, params, kind, replyCh, failure, closeCode>>
    BY <1>3 DEF PongTimerFires, Selecting, Break
  <2>2. CASE session = "Initial"
    <3>1. LockedOut' /\ TimeoutCode = Stale
      BY <2>1, <2>2 DEF LockedOut, TimeoutCode
    <3>2. Told(InappropriateProtocol)' => Told(InappropriateProtocol)
      BY <2>1, <3>1, <1>b DEF Told, Harsh
    <3> QED
      BY <2>1, <2>2, <3>1, <3>2 DEF HarshIsDeserved
  <2>3. CASE session # "Initial"
    BY <1>3, <1>b, <2>1, <2>3, NothingHarsh DEF TimeoutCode, Told
  <2> QED
    BY <2>2, <2>3
<1>4. ASSUME NEW i \in Commands, ProcessConnect(i) PROVE HarshIsDeserved'
  <2>1. /\ session = "Initial" /\ reader = "ready" /\ Processing(i) /\ Known(i, "connect")
        /\ UNCHANGED <<session, params, replyCh, sending, failure, closeCode>>
    BY <1>4 DEF ProcessConnect, Processing
  <2>2. \A code : Told(code)' <=> Told(code)
    BY <2>1 DEF Told
  <2>3. LockedOut => ~Lawful'
    BY <2>1, SecondConnect DEF LockedOut
  <2> QED
    BY <2>1, <2>2, <2>3, <1>c DEF HarshIsDeserved, Harsh
<1>5. ASSUME NEW i \in Commands, ConnectSettled(i) PROVE HarshIsDeserved'
  <2>1. /\ reader = "on_connect" /\ reader' = "send" /\ kind[i] # "none"
        /\ UNCHANGED <<params, kind, replyCh, failure, closeCode>>
    BY <1>5 DEF ConnectSettled, Replies, RepliesError, ReaderPlace
  <2>2. SomeProcessed' /\ ~LockedOut
    BY <2>1 DEF SomeProcessed, LockedOut
  <2>3. CASE sending' = Answer(i)
    <3>1. \A code \in Harsh \cup {InappropriateProtocol} : Told(code)' => Told(code)
      BY <1>b, <2>1, <2>3 DEF Told
    <3> QED
      BY <1>c, <2>1, <2>2, <3>1 DEF HarshIsDeserved, Harsh
  <2>4. CASE sending' \in {Error(ServerError), Error(InvalidToken)} /\ UNCHANGED session
    <3>1. Told(InappropriateProtocol)' => Told(InappropriateProtocol)
      BY <1>b, <2>1, <2>4 DEF Told, Harsh
    <3>2. session = "Initial"
      BY <2>1 DEF HarshIsDeserved, Types, SessionTypes
    <3>3. LockedOut'
      BY <2>1, <2>2, <2>4, <3>2 DEF LockedOut
    <3> QED
      BY <2>1, <2>2, <2>4, <3>1, <3>2, <3>3 DEF HarshIsDeserved
  <2> QED
    BY <1>5, <2>3, <2>4 DEF ConnectSettled, Replies, RepliesError
<1>6. ASSUME NEW i \in Commands, ProcessUnexpected(i) PROVE HarshIsDeserved'
  <2>1. /\ Processing(i) /\ reader' = "send" /\ sending' = Error(BadRequest)
        /\ UNCHANGED <<session, params, replyCh, failure, closeCode>>
    BY <1>6 DEF ProcessUnexpected, Replies, RepliesError
  <2>2. Told(InappropriateProtocol)' => Told(InappropriateProtocol)
    BY <1>b, <2>1 DEF Told, Harsh
  <2>3. CASE session = "Connected"
    <3>1. ~Lawful'
      BY <1>6, <2>1, <2>3, SecondConnect DEF ProcessUnexpected, HarshIsDeserved
    <3> QED
      BY <1>c, <2>1, <2>2, <2>3, <3>1 DEF HarshIsDeserved
  <2>4. CASE session = "Initial"
    <3>1. PICK k \in {"call", "subscribe", "other"} : Known(i, k)
      BY <1>6, <2>4 DEF ProcessUnexpected
    <3>2. kind'[i] # "none"
      BY <3>1 DEF Known, Types, SessionTypes
    <3>3. LockedOut'
      BY <2>1, <2>4, <3>2 DEF LockedOut, SomeProcessed
    <3> QED
      BY <2>1, <2>2, <2>4, <3>3 DEF HarshIsDeserved
  <2> QED
    BY <2>3, <2>4 DEF Types, SessionTypes
<1>7. ASSUME NEW i \in Commands, ProcessLimited(i) PROVE HarshIsDeserved'
  BY <1>7, NothingHarsh DEF ProcessLimited, Processing, Told
<1>8. ASSUME NEW i \in Commands, ProcessCall(i) PROVE HarshIsDeserved'
  BY <1>8, <1>b, NothingHarsh DEF ProcessCall, Permitted, Spawned, Replies, Told
<1>9. ASSUME NEW i \in Commands, ProcessSubscribe(i) PROVE HarshIsDeserved'
  BY <1>9, <1>b, NothingHarsh DEF ProcessSubscribe, Permitted, Spawned, Replies, Told
<1>10. ASSUME NEW i \in Commands, NEW c \in Channels, ProcessUnsubscribe(i, c)
       PROVE  HarshIsDeserved'
  BY <1>10, <1>b, NothingHarsh DEF ProcessUnsubscribe, Processing, Replies, Told
<1>11. ASSUME NEW i \in Commands, ProcessOther(i) PROVE HarshIsDeserved'
  BY <1>11, <1>b, NothingHarsh DEF ProcessOther, Processing, Replies, Told
<1>12. ASSUME ReaderSends PROVE HarshIsDeserved'
  <2>1. /\ reader = "send" /\ reader' = "ready" /\ sending' = Push
        /\ UNCHANGED <<session, params, failure, closeCode>>
        /\ \A x \in Range(replyCh') : x \in Range(replyCh) \/ x = sending
    BY <1>12, <1>a, SentTells DEF ReaderSends
  <2> QED
    BY <1>b, <2>1, NothingHarsh DEF Told
<1>13. ASSUME ReaderEnds PROVE HarshIsDeserved'
  <2>1. /\ reader' = "done" /\ sending' = Push
        /\ UNCHANGED <<session, params, failure, closeCode>>
        /\ \A x \in Range(replyCh') : x \in Range(replyCh) \/ x = sending
    BY <1>13, <1>a, SentTells DEF ReaderEnds
  <2> QED
    BY <1>b, <2>1, NothingHarsh DEF Told
<1>14. ASSUME WriterReceives PROVE HarshIsDeserved'
  <2>1. BatchSize \in 0..Len(replyCh) /\ replyCh \in Seq(Message)
    BY <1>14, BatchSizes DEF WriterReceives, Types, QueueTypes
  <2> DEFINE batch == SubSeq(replyCh, 1, BatchSize)
  <2>2. /\ batch \in Seq(Message) /\ Range(batch) \subseteq Range(replyCh)
        /\ Range(SubSeq(replyCh, BatchSize + 1, Len(replyCh))) \subseteq Range(replyCh)
    BY <2>1, CutAt
  <2>3. PICK n \in 0..Len(batch) :
          /\ flight' \in Encoded(SubSeq(batch, 1, n))
          /\ failure' = Verdict(batch, n, flight')
    BY <1>14 DEF WriterReceives
  <2>4. /\ UNCHANGED <<session, params, reader, sending, closeCode>>
        /\ Range(replyCh') \subseteq Range(replyCh)
    BY <1>14, <2>2 DEF WriterReceives, Remaining
  <2> HIDE DEF batch
  <2>5. Failed(batch, n) = 0 \/ \E m \in Range(replyCh) : Failed(batch, n) = m.code
    <3>1. n # Len(batch) => n + 1 \in DOMAIN batch
      BY <2>2, LenProperties
    <3> QED
      BY <2>2, <3>1 DEF Failed, Range
  <2>6. failure' = Failed(batch, n) \/ (failure' = InappropriateProtocol /\ params.json)
    <3>1. SubSeq(batch, 1, n) \in Seq(Message)
      BY <2>2, CutAt
    <3>2. flight' = SubSeq(batch, 1, n) \/ params.json
      BY <2>3, <3>1, Encodings
    <3> QED
      BY <2>3, <3>2 DEF Verdict
  <2>7. \A code \in Harsh : Told(code)' => Told(code)
    BY <1>b, <2>4, <2>5, <2>6 DEF Told
  <2>8. Told(InappropriateProtocol)' => Told(InappropriateProtocol) \/ params.json
    BY <1>b, <2>4, <2>5, <2>6 DEF Told
  <2> QED
    BY <2>4, <2>7, <2>8, NothingHarsh
<1>15. ASSUME WriterSends PROVE HarshIsDeserved'
  <2>1. /\ closeCode' \in {failure, WriteError} /\ failure' = 0
        /\ UNCHANGED <<session, params, reader, sending, replyCh>>
    BY <1>15 DEF WriterSends
  <2> QED
    BY <1>b, <2>1, NothingHarsh DEF Told
<1>16. ASSUME WriterEnds PROVE HarshIsDeserved'
  <2>1. /\ UNCHANGED <<session, params, reader, sending, failure, closeCode>>
        /\ Range(replyCh') = {}
    BY <1>16 DEF WriterEnds, Range
  <2> QED
    BY <2>1, NothingHarsh DEF Told
<1>17. ASSUME NEW t \in Commands, TaskSends(t) PROVE HarshIsDeserved'
  <2>1. UNCHANGED <<session, params, reader, sending, failure, closeCode>>
    BY <1>17 DEF TaskSends
  <2>2. \A x \in Range(replyCh') : x \in Range(replyCh) \/ x = Answer(t) \/ x = Push
    BY <1>17, <1>a, SentTells DEF TaskSends
  <2> QED
    BY <1>b, <2>1, <2>2, NothingHarsh DEF Told
<1>18. CASE ReadMessage \/ ProcessPong \/ Arrives \/ Tick \/ ServeReturns
  BY <1>18, NothingHarsh DEF ReadMessage, Selecting, ProcessPong, Processing, Arrives,
     Tick, ServeReturns, Told
<1>19. CASE (\E t \in Commands : HandlerEnds(t)) \/
            (\E t \in Commands : TaskRemovesEntry(t)) \/
            (\E t \in Commands : TaskCancelled(t)) \/
            (\E t \in Commands : StreamYields(t))
  BY <1>19, NothingHarsh DEF HandlerEnds, TaskRemovesEntry, TaskCancelled,
     StreamYields, Told
<1>20. CASE UNCHANGED vars
  BY <1>20, NothingHarsh DEF vars, Told
<1> QED
  BY <1>1, <1>2, <1>3, <1>4, <1>5, <1>6, <1>7, <1>8, <1>9, <1>10, <1>11, <1>12,
     <1>13, <1>14, <1>15, <1>16, <1>17, <1>18, <1>19, <1>20 DEF Next, Reader,
     Select, Process, Writer, TaskStep, TaskAdvances

\* A client that was let in, keeps to the rules and is sent data that can be
\* encoded is never told to stay away: no task that ends the connection, in
\* whatever order the channel holds their errors, blames it.
THEOREM NobodyIsSentAway == Spec => []StayAwayIsDeserved
<1>1. Init => InTheOrderSent
  BY DEF Init, InTheOrderSent, InOrder, Queue, Range
<1>2. Init => HarshIsDeserved
  BY MildCodes DEF Init, HarshIsDeserved, Told, Range
<1>3. IInv /\ InTheOrderSent /\ [Next]_vars => InTheOrderSent'
  BY InTheOrderSentStep
<1>4. IInv /\ InTheOrderSent /\ HarshIsDeserved /\ [Next]_vars => HarshIsDeserved'
  BY HarshStep
<1>5. IInv /\ HarshIsDeserved => StayAwayIsDeserved
  <2> SUFFICES ASSUME IInv, HarshIsDeserved, ~params.json, Lawful,
                      session = "Connected", closeCode # 0
               PROVE  should_reconnect(closeCode)
    BY DEF StayAwayIsDeserved
  <2>1. closeCode \in Codes
    BY DEF IInv, Types, WriterTypes
  <2>2. closeCode \notin Harsh
    BY DEF HarshIsDeserved, Told, LockedOut
  <2>3. closeCode # InappropriateProtocol
    BY DEF HarshIsDeserved, Told
  <2> QED
    BY <2>1, <2>2, <2>3, MildCodes
<1> QED
  BY <1>1, <1>2, <1>3, <1>4, <1>5, Invariance, PTL DEF Spec

=============================================================================
