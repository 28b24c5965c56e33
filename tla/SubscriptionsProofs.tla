------------------------- MODULE SubscriptionsProofs -------------------------
(***************************************************************************)
(* Proofs about Subscriptions, for any number of subscriptions, channels   *)
(* and command tasks: of any use of the API, in any number of sessions,    *)
(* overlapping ones as well, and with any of the faults; then of patient   *)
(* use within the first session, when the server does nothing worse than   *)
(* refuse to subscribe.                                                    *)
(***************************************************************************)
EXTENDS Subscriptions, QueueLemmas

\* What is removed, or not made yet, is Unsubscribed.
OthersAreOff == \A s \in Subs \ exists : state[s] = "Unsubscribed"

\* The inductive invariant.  The third part is for new subscriptions: one that
\* began as Subscribing in the middle of a session would be known to nobody.
IInv == TypeOK /\ SubscribingIsKnown /\ OthersAreOff

-----------------------------------------------------------------------------
(* The channels to the subscription tasks.                                 *)

\* A call that notifies the subscription task is heard while the last session
\* lasts, and changes no other channel.
LEMMA NotifyIsHeard ==
  ASSUME TypeOK, NEW s \in Subs, Notify(s)
  PROVE  /\ subChs' \in [Sessions -> Seq(Subs)]
         /\ \A n \in Sessions : links[n] = "down" => subChs'[n] = subChs[n]
         /\ Range(subCh) \subseteq Range(subChs'[sessions])
         /\ link # "down" => s \in Range(subChs'[sessions])
<1>1. subCh \in Seq(Subs) /\ sessions \in Sessions
  BY DEF TypeOK, subCh
<1>2. CASE link # "down"
  <2>1. subChs' = [subChs EXCEPT ![sessions] = Append(subCh, s)]
    BY <1>2 DEF Notify, Queue, subCh
  <2>2. Append(subCh, s) \in Seq(Subs) /\ Range(Append(subCh, s)) = Range(subCh) \cup {s}
    BY <1>1, AppendTo
  <2> QED
    BY <1>1, <1>2, <2>1, <2>2 DEF TypeOK, link
<1>3. CASE link = "down"
  BY <1>3 DEF Notify, TypeOK, subCh
<1> QED
  BY <1>2, <1>3

\* A task that runs is a command's.
LEMMA RunningTask ==
  ASSUME TypeOK, NEW k \in Slots, Running(k)
  PROVE  /\ tasks[k] \in TaskSet /\ tasks[k].sub \in Subs
         /\ tasks[k].session \in 1..sessions /\ tasks[k].session \in Sessions
         /\ links[tasks[k].session] # "live" => tasks[k].sent
  BY DEF TypeOK, Running, TaskSet

\* A task whose command was answered is over, or has nothing left to send.
LEMMA RepliedTask ==
  ASSUME NEW t \in TaskSet, NEW r \in {"ok", "err"}
  PROVE  /\ Replied(t, r) \in TaskSet \cup {NoTask}
         /\ Replied(t, r) # NoTask =>
               Replied(t, r).sent /\ Replied(t, r).session = t.session
  BY DEF Replied, TaskSet

\* What TypeOK says of the command tasks.
TasksOK ==
    /\ tasks \in [Slots -> TaskSet \cup {NoTask}]
    /\ \A k \in Slots : Running(k) =>
          /\ tasks[k].session \in 1..sessions
          /\ links[tasks[k].session] # "live" => tasks[k].sent

\* What it says of the sessions.
SessionsOK ==
    /\ sessions \in Sessions
    /\ links \in [Sessions -> {"down", "live", "lost"}]
    /\ subChs \in [Sessions -> Seq(Subs)]
    /\ records \in [Sessions -> SUBSET Subs]
    /\ serving \in [Sessions -> SUBSET Channels]
    /\ pushes \in [Sessions -> SUBSET Channels]
    /\ \A n \in Sessions :
          /\ links[n] # "down" => n \in 1..sessions
          /\ links[n] = "down" => subChs[n] = <<>> /\ records[n] = {}
          /\ links[n] # "live" => serving[n] = {} /\ pushes[n] = {}

\* And of the subscriptions.
SubsOK ==
    /\ exists \subseteq made /\ made \subseteq Subs
    /\ \A s, r \in exists : ChannelOf[s] = ChannelOf[r] => s = r
    /\ state \in [Subs -> {"Unsubscribed", "Subscribing", "Subscribed"}]
    /\ pubStore \in [Subs -> BOOLEAN]
    /\ subWaits \in [Subs -> BOOLEAN]
    /\ unsubWaits \in [Subs -> BOOLEAN]

-----------------------------------------------------------------------------
(* The invariant.                                                          *)

LEMMA InitIInv == Init => IInv
<1> SUFFICES ASSUME Init PROVE IInv
  OBVIOUS
<1>1. TypeOK
  BY BoundsAssumption DEF Init, TypeOK, Running, Sessions
<1>2. SubscribingIsKnown /\ OthersAreOff
  BY DEF Init, SubscribingIsKnown, OthersAreOff
<1> QED
  BY <1>1, <1>2 DEF IInv

\* The calls of the application.
LEMMA UseKeepsIInv ==
  ASSUME IInv, NEW s \in Subs, NewSubscription(s) \/ Use(s)
  PROVE  IInv'
<1> USE DEF IInv, SubscribingIsKnown, OthersAreOff, Queued
<1>1. TasksOK'
  BY DEF NewSubscription, Use, Subscribe, Unsubscribe, RemoveSubscription,
     sessionVars, TypeOK, TasksOK, Running
<1>2. CASE NewSubscription(s)
  <2>1. SubsOK' /\ SessionsOK'
    BY <1>2 DEF NewSubscription, sessionVars, TypeOK, SubsOK, SessionsOK, Channels
  <2>2. TypeOK'
    BY <1>1, <2>1 DEF TypeOK, SubsOK, SessionsOK, TasksOK
  <2> QED
    BY <1>2, <2>2 DEF NewSubscription, sessionVars, link, subCh, subscribed, TypeOK
<1>3. CASE Subscribe(s)
  <2>1. SessionsOK'
    BY <1>3, NotifyIsHeard DEF Subscribe, TypeOK, SessionsOK, Channels
  <2>2. SubsOK'
    BY <1>3 DEF Subscribe, move_to_subscribing, TypeOK, SubsOK
  <2>3. TypeOK'
    BY <1>1, <2>1, <2>2 DEF TypeOK, SubsOK, SessionsOK, TasksOK
  <2> QED
    BY <1>3, <2>3, NotifyIsHeard
       DEF Subscribe, move_to_subscribing, link, subCh, subscribed, TypeOK
<1>4. CASE Unsubscribe(s)
  <2>1. SessionsOK'
    BY <1>4, NotifyIsHeard DEF Unsubscribe, TypeOK, SessionsOK, Channels
  <2>2. SubsOK'
    BY <1>4 DEF Unsubscribe, move_to_unsubscribed, TypeOK, SubsOK
  <2>3. TypeOK'
    BY <1>1, <2>1, <2>2 DEF TypeOK, SubsOK, SessionsOK, TasksOK
  <2> QED
    BY <1>4, <2>3, NotifyIsHeard
       DEF Unsubscribe, move_to_unsubscribed, link, subCh, subscribed, TypeOK
<1>5. CASE RemoveSubscription(s)
  <2>1. SubsOK' /\ SessionsOK'
    BY <1>5 DEF RemoveSubscription, sessionVars, TypeOK, SubsOK, SessionsOK, Channels
  <2>2. TypeOK'
    BY <1>1, <2>1 DEF TypeOK, SubsOK, SessionsOK, TasksOK
  <2> QED
    BY <1>5, <2>2 DEF RemoveSubscription, sessionVars, link, subCh, subscribed, TypeOK
<1> QED
  BY <1>2, <1>3, <1>4, <1>5 DEF Use

\* A new session: what it is to subscribe to is queued, and the sessions before
\* it are as they were.
LEMMA NewSessionKeepsIInv ==
  ASSUME IInv, SessionStarts
  PROVE  IInv'
<1> USE DEF IInv
<1> DEFINE n == sessions + 1
<1>1. sessions \in Nat /\ n \in Sessions /\ sessions' = n /\ 1..n = 1..sessions \cup {n}
  <2>1. sessions \in Nat /\ MaxSessions \in Nat /\ sessions < MaxSessions
    BY BoundsAssumption DEF SessionStarts, TypeOK, Sessions
  <2> QED
    BY <2>1 DEF SessionStarts, Sessions
<1>2. links[n] = "down"
  BY <1>1 DEF TypeOK
<1>3. Wanted \subseteq Subs /\ IsFiniteSet(Wanted)
  BY FS_Subset, ChannelsAssumption DEF TypeOK, Wanted
<1>4. PICK q \in Seq(Subs) : Range(q) = Wanted /\ q = SetToSeq(Wanted)
  BY <1>3, SequenceOf, SeqMonotonic
<1>5. /\ links' = [links EXCEPT ![n] = "live"]
      /\ subChs' = [subChs EXCEPT ![n] = q]
      /\ UNCHANGED <<subVars, records, serving, pushes, tasks>>
  BY <1>4 DEF SessionStarts
<1> HIDE DEF n
<1>6. SessionsOK'
  BY <1>1, <1>2, <1>4, <1>5 DEF TypeOK, SessionsOK, Channels
<1>7. TasksOK' /\ SubsOK'
  BY <1>1, <1>2, <1>5 DEF TypeOK, TasksOK, SubsOK, subVars, Running
<1>8. TypeOK'
  BY <1>6, <1>7 DEF TypeOK, SubsOK, SessionsOK, TasksOK
<1>9. subCh' = q
  BY <1>1, <1>5 DEF subCh, TypeOK
<1> QED
  BY <1>4, <1>5, <1>8, <1>9
     DEF subVars, Wanted, SubscribingIsKnown, OthersAreOff, Queued

\* The end of a session.  It may be the last one, of which nothing is said then,
\* or an earlier one, of which nothing is said at all.
LEMMA EndsKeepIInv ==
  ASSUME IInv, NEW n \in Sessions, ConnectionLost(n) \/ SessionEnds(n)
  PROVE  IInv'
<1> USE DEF IInv
<1>1. CASE ConnectionLost(n)
  <2>1. \A k \in Slots : Running(k) /\ tasks[k].session = n =>
           /\ Replied(tasks[k], "err") \in TaskSet \cup {NoTask}
           /\ Replied(tasks[k], "err") # NoTask =>
                 /\ Replied(tasks[k], "err").sent
                 /\ Replied(tasks[k], "err").session = n
    BY RunningTask, RepliedTask
  <2>2. TasksOK'
    BY <1>1, <2>1 DEF ConnectionLost, OfSession, TypeOK, TasksOK, Running
  <2>3. SessionsOK' /\ SubsOK'
    BY <1>1 DEF ConnectionLost, subVars, TypeOK, SessionsOK, SubsOK, Channels
  <2>4. TypeOK'
    BY <2>2, <2>3 DEF TypeOK, SubsOK, SessionsOK, TasksOK
  <2>5. link' # "down" => link # "down"
    BY <1>1 DEF ConnectionLost, link, TypeOK
  <2> QED
    BY <1>1, <2>4, <2>5
       DEF ConnectionLost, subVars, SubscribingIsKnown, OthersAreOff, Queued,
           subCh, subscribed
<1>2. CASE SessionEnds(n)
  <2>1. TasksOK'
    BY <1>2 DEF SessionEnds, TypeOK, TasksOK, Running
  <2>2. SessionsOK' /\ SubsOK'
    BY <1>2 DEF SessionEnds, subVars, TypeOK, SessionsOK, SubsOK, Channels
  <2>3. TypeOK'
    BY <2>1, <2>2 DEF TypeOK, SubsOK, SessionsOK, TasksOK
  <2>4. link' # "down" => link # "down" /\ subCh' = subCh /\ subscribed' = subscribed
    BY <1>2 DEF SessionEnds, link, subCh, subscribed, TypeOK
  <2> QED
    BY <1>2, <2>3, <2>4
       DEF SessionEnds, subVars, SubscribingIsKnown, OthersAreOff, Queued
<1> QED
  BY <1>1, <1>2

\* A subscription task: what it takes from its channel it has on record, or
\* there is no need to.
LEMMA SubTaskKeepsIInv ==
  ASSUME IInv, NEW n \in Sessions, SubTask(n)
  PROVE  IInv'
<1> USE DEF IInv
<1> DEFINE s == Head(subChs[n])
           q == Tail(subChs[n])
<1>1. s \in Subs /\ q \in Seq(Subs) /\ Range(subChs[n]) = {s} \cup Range(q)
  BY TailOf DEF SubTask, TypeOK
<1>2. subChs' = [subChs EXCEPT ![n] = q]
  BY DEF SubTask
<1> HIDE DEF q
<1>3. ASSUME NEW kind \in {"subscribe", "unsubscribe"}, Spawn(kind, n, s)
      PROVE  TasksOK'
  <2> DEFINE t == [kind |-> kind, sub |-> s, session |-> n,
                   sent |-> links[n] = "lost",
                   reply |-> IF links[n] = "lost" THEN "err" ELSE "none"]
  <2>1. links[n] # "down" /\ links' = links /\ sessions' = sessions
    BY DEF SubTask
  <2>2. t \in TaskSet /\ t.session = n /\ (links[n] # "live" => t.sent)
    BY <1>1, <2>1 DEF TaskSet, TypeOK
  <2>3. n \in 1..sessions
    BY <2>1 DEF TypeOK
  <2>4. PICK j \in Slots : tasks' = [tasks EXCEPT ![j] = t]
    BY <1>3 DEF Spawn
  <2> HIDE DEF t
  <2> QED
    BY <2>1, <2>2, <2>3, <2>4 DEF TypeOK, TasksOK, Running
<1>4. TasksOK'
  BY <1>3 DEF SubTask, TypeOK, TasksOK, Running
<1>5. /\ records' \in [Sessions -> SUBSET Subs]
      /\ \A m \in Sessions : m # n => records'[m] = records[m]
  <2>1. \/ records' = [records EXCEPT ![n] = records[n] \cup {s}]
        \/ records' = [records EXCEPT ![n] = records[n] \ {s}]
        \/ records' = records
    BY DEF SubTask, Marked
  <2>2. records \in [Sessions -> SUBSET Subs]
    BY DEF TypeOK
  <2>3. records[n] \cup {s} \in SUBSET Subs /\ records[n] \ {s} \in SUBSET Subs
    BY <1>1, <2>2
  <2> QED
    BY <2>1, <2>2, <2>3
<1>6. SessionsOK'
  <2>1. SessionsOK /\ links[n] # "down" /\ UNCHANGED <<sessions, links, serving, pushes>>
    BY DEF SubTask, TypeOK, SessionsOK
  <2> QED
    BY <1>1, <1>2, <1>5, <2>1 DEF SessionsOK, Channels
<1>7. SubsOK'
  BY DEF SubTask, subVars, TypeOK, SubsOK
<1>8. TypeOK'
  BY <1>4, <1>6, <1>7 DEF TypeOK, SubsOK, SessionsOK, TasksOK
<1>9. SubscribingIsKnown'
  <2> SUFFICES ASSUME NEW r \in exists, state[r] = "Subscribing", link # "down"
               PROVE  r \in Range(subCh') \/ r \in subscribed'
    BY DEF SubTask, subVars, SubscribingIsKnown, Queued, link
  <2>1. r \in Range(subCh) \/ r \in subscribed
    BY DEF SubTask, SubscribingIsKnown, Queued
  <2>2. CASE n # sessions
    BY <1>2, <1>5, <2>1, <2>2 DEF SubTask, TypeOK, subCh, subscribed
  <2>3. CASE n = sessions
    <3>1. subCh' = q /\ Range(subCh) = {s} \cup Range(q)
      BY <1>1, <1>2, <2>3 DEF SubTask, TypeOK, subCh
    <3>2. (r = s \/ r \in subscribed) => r \in subscribed'
      BY <2>3 DEF SubTask, Marked, TypeOK, subscribed
    <3> QED
      BY <2>1, <3>1, <3>2
  <2> QED
    BY <2>2, <2>3
<1> QED
  BY <1>8, <1>9 DEF SubTask, subVars, OthersAreOff

\* The command tasks, of whichever session: they make nothing Subscribing.
LEMMA TasksKeepIInv ==
  ASSUME IInv, NEW k \in Slots, Serve(k) \/ TimesOut(k) \/ Apply(k)
  PROVE  IInv'
<1> USE DEF IInv
<1>1. /\ Running(k) /\ tasks[k] \in TaskSet /\ tasks[k].sub \in Subs
      /\ tasks[k].session \in 1..sessions /\ tasks[k].session \in Sessions
      /\ links[tasks[k].session] # "live" => tasks[k].sent
  BY RunningTask DEF Serve, TimesOut, Apply
<1>2. ASSUME NEW t \in TaskSet \cup {NoTask}, tasks' = [tasks EXCEPT ![k] = t],
             t # NoTask => /\ t.session = tasks[k].session
                           /\ tasks[k].sent => t.sent,
             links' = links, sessions' = sessions
      PROVE  TasksOK'
  BY <1>1, <1>2 DEF TypeOK, TasksOK, Running
<1>3. CASE Serve(k)
  <2>1. ChannelOf[tasks[k].sub] \in Channels
    BY <1>1, ChannelsAssumption DEF Channels, Range
  <2>2. PICK r \in {"ok", "err"} : tasks' = [tasks EXCEPT ![k] = Replied(tasks[k], r)]
    BY <1>3 DEF Serve
  <2>3. TasksOK'
    BY <1>1, <1>2, <1>3, <2>2, RepliedTask DEF Serve
  <2>4. links[tasks[k].session] = "live"
    BY <1>3 DEF Serve
  <2>5. /\ serving' \in [Sessions -> SUBSET Channels]
        /\ \A n \in Sessions : n # tasks[k].session => serving'[n] = serving[n]
    BY <1>1, <1>3, <2>1 DEF Serve, TypeOK
  <2>6. SessionsOK' /\ SubsOK'
    BY <1>3, <2>4, <2>5 DEF Serve, subVars, TypeOK, SessionsOK, SubsOK, Channels
  <2>7. TypeOK'
    BY <2>3, <2>6 DEF TypeOK, SubsOK, SessionsOK, TasksOK
  <2> QED
    BY <1>3, <2>7 DEF Serve, subVars, SubscribingIsKnown, OthersAreOff, Queued,
                      link, subCh, subscribed
<1>4. CASE TimesOut(k)
  <2> DEFINE t == [tasks[k] EXCEPT !.reply = "err"]
  <2>1. /\ t \in TaskSet /\ t.session = tasks[k].session
        /\ t.sent = tasks[k].sent
    BY <1>1 DEF TaskSet
  <2>2. tasks' = [tasks EXCEPT ![k] = t] /\ UNCHANGED <<subVars, sessionVars>>
    BY <1>4 DEF TimesOut
  <2> HIDE DEF t
  <2>3. TasksOK'
    BY <1>2, <2>1, <2>2 DEF sessionVars
  <2>4. SessionsOK' /\ SubsOK'
    BY <2>2 DEF subVars, sessionVars, TypeOK, SessionsOK, SubsOK, Channels
  <2>5. TypeOK'
    BY <2>3, <2>4 DEF TypeOK, SubsOK, SessionsOK, TasksOK
  <2> QED
    BY <2>2, <2>5 DEF subVars, sessionVars, SubscribingIsKnown, OthersAreOff, Queued,
                      link, subCh, subscribed
<1>5. CASE Apply(k)
  <2> DEFINE s == tasks[k].sub
             t == IF tasks[k].sent THEN NoTask
                  ELSE [tasks[k] EXCEPT !.reply = "applied"]
  <2>1. /\ t \in TaskSet \cup {NoTask}
        /\ t # NoTask => t.session = tasks[k].session /\ (tasks[k].sent => t.sent)
    BY <1>1 DEF TaskSet
  <2>2. /\ tasks' = [tasks EXCEPT ![k] = t]
        /\ UNCHANGED <<made, exists, sessionVars>>
    BY <1>5 DEF Apply
  <2> HIDE DEF t
  <2>3. TasksOK'
    BY <1>2, <2>1, <2>2 DEF sessionVars
  <2>0. SubsOK
    BY DEF TypeOK, SubsOK
  <2>4. /\ state' \in [Subs -> {"Unsubscribed", "Subscribing", "Subscribed"}]
        /\ pubStore' \in [Subs -> BOOLEAN]
        /\ subWaits' \in [Subs -> BOOLEAN] /\ unsubWaits' \in [Subs -> BOOLEAN]
        /\ \A r \in Subs : /\ state'[r] = "Subscribing" => state[r] = "Subscribing"
                           /\ r \notin exists => state'[r] = state[r]
    <3>1. CASE s \in exists /\ tasks[k].kind = "subscribe"
      <4>1. \/ state' = [state EXCEPT ![s] = "Subscribed"]
            \/ state' = [state EXCEPT ![s] = "Unsubscribed"]
        BY <1>5, <3>1 DEF Apply, move_to_subscribed, move_to_unsubscribed
      <4>2. pubStore' = pubStore \/ pubStore' = [pubStore EXCEPT ![s] = FALSE]
        BY <1>5, <3>1 DEF Apply, move_to_subscribed, move_to_unsubscribed
      <4>3. subWaits' = [subWaits EXCEPT ![s] = FALSE] /\ unsubWaits' = unsubWaits
        BY <1>5, <3>1 DEF Apply
      <4> QED
        BY <1>1, <3>1, <4>1, <4>2, <4>3, <2>0 DEF SubsOK
    <3>2. CASE ~(s \in exists /\ tasks[k].kind = "subscribe")
      <4>1. state' = state /\ pubStore' = pubStore /\ subWaits' = subWaits
        BY <1>5, <3>2 DEF Apply
      <4>2. \/ unsubWaits' = [unsubWaits EXCEPT ![s] = FALSE]
            \/ unsubWaits' = unsubWaits
        BY <1>5, <3>2 DEF Apply
      <4> QED
        BY <1>1, <4>1, <4>2, <2>0 DEF SubsOK
    <3> QED
      BY <3>1, <3>2
  <2>5. SessionsOK' /\ SubsOK'
    BY <2>2, <2>4 DEF sessionVars, TypeOK, SessionsOK, SubsOK, Channels
  <2>6. TypeOK'
    BY <2>3, <2>5 DEF TypeOK, SubsOK, SessionsOK, TasksOK
  <2>7. SubscribingIsKnown' /\ OthersAreOff'
    BY <2>2, <2>4 DEF sessionVars, TypeOK, SubscribingIsKnown, OthersAreOff, Queued,
                      link, subCh, subscribed
  <2> QED
    BY <2>6, <2>7
<1> QED
  BY <1>3, <1>4, <1>5

\* The pushes, of whichever session: they make nothing Subscribing either.
LEMMA KicksKeepIInv ==
  ASSUME IInv, NEW n \in Sessions, NEW c \in Channels, Kick(n, c) \/ ReadKick(n, c)
  PROVE  IInv'
<1> USE DEF IInv
<1>1. CASE Kick(n, c)
  <2>1. TasksOK' /\ SubsOK'
    BY <1>1 DEF Kick, subVars, TypeOK, TasksOK, SubsOK, Running
  <2>2. SessionsOK'
    BY <1>1 DEF Kick, TypeOK, SessionsOK, Channels
  <2>3. TypeOK'
    BY <2>1, <2>2 DEF TypeOK, SubsOK, SessionsOK, TasksOK
  <2> QED
    BY <1>1, <2>3 DEF Kick, subVars, SubscribingIsKnown, OthersAreOff, Queued,
                      link, subCh, subscribed
<1>2. CASE ReadKick(n, c)
  <2>0. SubsOK
    BY DEF TypeOK, SubsOK
  <2>1. /\ state' \in [Subs -> {"Unsubscribed", "Subscribing", "Subscribed"}]
        /\ pubStore' \in [Subs -> BOOLEAN]
        /\ \A r \in Subs : /\ state'[r] = "Subscribing" => state[r] = "Subscribing"
                           /\ r \notin exists => state'[r] = state[r]
    BY <1>2, <2>0 DEF ReadKick, move_to_unsubscribed, SubsOK
  <2>2. TasksOK' /\ SubsOK'
    BY <1>2, <2>1 DEF ReadKick, TypeOK, TasksOK, SubsOK, Running
  <2>3. SessionsOK'
    BY <1>2 DEF ReadKick, TypeOK, SessionsOK, Channels
  <2>4. TypeOK'
    BY <2>2, <2>3 DEF TypeOK, SubsOK, SessionsOK, TasksOK
  <2>5. SubscribingIsKnown' /\ OthersAreOff'
    BY <1>2, <2>1 DEF ReadKick, TypeOK, SubscribingIsKnown, OthersAreOff, Queued,
                      link, subCh, subscribed
  <2> QED
    BY <2>4, <2>5
<1> QED
  BY <1>1, <1>2

LEMMA NextKeepsIInv == IInv /\ [Next]_vars => IInv'
<1> SUFFICES ASSUME IInv, [Next]_vars PROVE IInv'
  OBVIOUS
<1>1. CASE UNCHANGED vars
  <2>1. TypeOK'
    BY <1>1 DEF vars, subVars, sessionVars, IInv, TypeOK, Channels, Running
  <2> QED
    BY <1>1, <2>1 DEF vars, subVars, sessionVars, IInv, SubscribingIsKnown,
                      OthersAreOff, Queued, link, subCh, subscribed
<1>2. CASE \E s \in Subs : NewSubscription(s) \/ Use(s)
  BY <1>2, UseKeepsIInv
<1>3. CASE SessionStarts
  BY <1>3, NewSessionKeepsIInv
<1>4. ASSUME NEW n \in Sessions, Session(n) PROVE IInv'
  BY <1>4, EndsKeepIInv, SubTaskKeepsIInv, KicksKeepIInv DEF Session
<1>5. CASE \E k \in Slots : Serve(k) \/ TimesOut(k) \/ Apply(k)
  BY <1>5, TasksKeepIInv
<1> QED
  BY <1>1, <1>2, <1>3, <1>4, <1>5 DEF Next, System

-----------------------------------------------------------------------------
(* The only session there is: its steps, in terms of link, subCh,          *)
(* subscribed and served.                                                  *)

LEMMA SameSession ==
  ASSUME UNCHANGED sessionVars
  PROVE  UNCHANGED <<sessions, link, subCh, subscribed, served>>
  BY DEF sessionVars, link, subCh, subscribed, served

\* A session that is on, or whose subscription task still runs, is this one.
LEMMA TheSession ==
  ASSUME TypeOK, sessions <= 1, NEW n \in Sessions, links[n] # "down"
  PROVE  n = sessions
<1>1. sessions \in Nat /\ n \in 1..sessions
  BY BoundsAssumption DEF TypeOK, Sessions
<1> QED
  BY <1>1

NotifyHere(s) == subCh' = IF link # "down" THEN Append(subCh, s) ELSE subCh

LEMMA NotifiedHere ==
  ASSUME TypeOK, NEW s \in Subs, Notify(s), sessions' = sessions
  PROVE  NotifyHere(s)
  BY DEF Notify, NotifyHere, Queue, subCh, TypeOK

SubTaskHere ==
    /\ link # "down" /\ subCh # <<>>
    /\ LET s == Head(subCh) IN
          \/ /\ s \in exists \ subscribed /\ state[s] # "Unsubscribed"
             /\ subscribed' = subscribed \cup {s}
             /\ Spawn("subscribe", sessions, s)
          \/ /\ s \in exists \cap subscribed /\ state[s] = "Unsubscribed"
             /\ subscribed' = subscribed \ {s}
             /\ Spawn("unsubscribe", sessions, s)
          \/ /\ \/ s \notin exists
                \/ state[s] # "Unsubscribed" <=> s \in subscribed
             /\ UNCHANGED <<subscribed, tasks>>
    /\ subCh' = Tail(subCh)
    /\ UNCHANGED <<subVars, sessions, link, served, pushes>>

LEMMA SubTaskIsHere ==
  ASSUME TypeOK, sessions <= 1, NEW n \in Sessions, SubTask(n)
  PROVE  SubTaskHere
<1>1. n = sessions /\ sessions' = sessions
  BY TheSession DEF SubTask
<1>2. /\ link # "down" /\ subCh # <<>> /\ subCh' = Tail(subCh)
      /\ UNCHANGED <<subVars, link, served, pushes>>
  BY <1>1 DEF SubTask, TypeOK, link, subCh, served
<1>3. \A S : records' = [records EXCEPT ![n] = S] => subscribed' = S
  BY <1>1 DEF TypeOK, subscribed
<1> DEFINE s == Head(subCh)
<1>4. \/ /\ s \in exists \ subscribed /\ state[s] # "Unsubscribed"
         /\ records' = [records EXCEPT ![n] = subscribed \cup {s}]
         /\ Spawn("subscribe", sessions, s)
      \/ /\ s \in exists \cap subscribed /\ state[s] = "Unsubscribed"
         /\ records' = [records EXCEPT ![n] = subscribed \ {s}]
         /\ Spawn("unsubscribe", sessions, s)
      \/ /\ \/ s \notin exists
            \/ state[s] # "Unsubscribed" <=> s \in subscribed
         /\ UNCHANGED <<records, tasks>>
  BY <1>1 DEF SubTask, Marked, subCh, subscribed
<1>5. UNCHANGED records => subscribed' = subscribed
  BY <1>1 DEF subscribed
<1> HIDE DEF s
<1>6. \/ /\ s \in exists \ subscribed /\ state[s] # "Unsubscribed"
         /\ subscribed' = subscribed \cup {s}
         /\ Spawn("subscribe", sessions, s)
      \/ /\ s \in exists \cap subscribed /\ state[s] = "Unsubscribed"
         /\ subscribed' = subscribed \ {s}
         /\ Spawn("unsubscribe", sessions, s)
      \/ /\ \/ s \notin exists
            \/ state[s] # "Unsubscribed" <=> s \in subscribed
         /\ UNCHANGED <<subscribed, tasks>>
  BY <1>3, <1>4, <1>5
<1> QED
  BY <1>1, <1>2, <1>6 DEF SubTaskHere, s

ServeHere(k) ==
    /\ link = "live" /\ Running(k) /\ ~tasks[k].sent
    /\ LET c == ChannelOf[tasks[k].sub] IN
          \/ /\ tasks[k].kind = "subscribe" /\ c \notin served
             /\ served' = served \cup {c}
             /\ tasks' = [tasks EXCEPT ![k] = Replied(tasks[k], "ok")]
          \/ /\ tasks[k].kind = "subscribe"
             /\ c \in served \/ "refuse" \in Faults
             /\ UNCHANGED served
             /\ tasks' = [tasks EXCEPT ![k] = Replied(tasks[k], "err")]
          \/ /\ tasks[k].kind = "unsubscribe"
             /\ served' = served \ {c}
             /\ tasks' = [tasks EXCEPT ![k] = Replied(tasks[k], "ok")]
    /\ UNCHANGED <<subVars, sessions, link, subCh, subscribed, pushes>>

LEMMA ServeIsHere ==
  ASSUME TypeOK, sessions <= 1, NEW k \in Slots, Serve(k)
  PROVE  ServeHere(k)
<1>1. tasks[k].session = sessions /\ sessions' = sessions
  BY RunningTask, TheSession DEF Serve
<1>2. /\ link = "live" /\ Running(k) /\ ~tasks[k].sent
      /\ UNCHANGED <<subVars, link, subCh, subscribed, pushes>>
  BY <1>1 DEF Serve, link, subCh, subscribed
<1> DEFINE c == ChannelOf[tasks[k].sub]
<1>3. \/ /\ tasks[k].kind = "subscribe" /\ c \notin served
         /\ serving' = [serving EXCEPT ![sessions] = served \cup {c}]
         /\ tasks' = [tasks EXCEPT ![k] = Replied(tasks[k], "ok")]
      \/ /\ tasks[k].kind = "subscribe"
         /\ c \in served \/ "refuse" \in Faults
         /\ UNCHANGED serving
         /\ tasks' = [tasks EXCEPT ![k] = Replied(tasks[k], "err")]
      \/ /\ tasks[k].kind = "unsubscribe"
         /\ serving' = [serving EXCEPT ![sessions] = served \ {c}]
         /\ tasks' = [tasks EXCEPT ![k] = Replied(tasks[k], "ok")]
  BY <1>1 DEF Serve, served
<1>4. /\ \A S : serving' = [serving EXCEPT ![sessions] = S] => served' = S
      /\ UNCHANGED serving => served' = served
  BY <1>1 DEF TypeOK, served
<1> HIDE DEF c
<1>5. \/ /\ tasks[k].kind = "subscribe" /\ c \notin served
         /\ served' = served \cup {c}
         /\ tasks' = [tasks EXCEPT ![k] = Replied(tasks[k], "ok")]
      \/ /\ tasks[k].kind = "subscribe"
         /\ c \in served \/ "refuse" \in Faults
         /\ UNCHANGED served
         /\ tasks' = [tasks EXCEPT ![k] = Replied(tasks[k], "err")]
      \/ /\ tasks[k].kind = "unsubscribe"
         /\ served' = served \ {c}
         /\ tasks' = [tasks EXCEPT ![k] = Replied(tasks[k], "ok")]
  BY <1>3, <1>4
<1> QED
  BY <1>1, <1>2, <1>5 DEF ServeHere, c

\* The first session begins.
LEMMA FirstStarts ==
  ASSUME TypeOK, SessionStarts, sessions = 0
  PROVE  /\ link = "down" /\ subCh = <<>> /\ subscribed = {} /\ served = {}
         /\ link' = "live" /\ subCh' = SetToSeq(Wanted)
         /\ subscribed' = {} /\ served' = {}
<1>1. 0 \in Sessions /\ 1 \in Sessions /\ sessions' = 1
  BY BoundsAssumption DEF SessionStarts, TypeOK, Sessions
<1>2. links[0] = "down" /\ links[1] = "down"
  BY <1>1 DEF TypeOK
<1>3. /\ subChs[0] = <<>> /\ records[0] = {} /\ serving[0] = {}
      /\ records[1] = {} /\ serving[1] = {}
  BY <1>1, <1>2 DEF TypeOK
<1>4. links'[1] = "live" /\ subChs'[1] = SetToSeq(Wanted)
  BY <1>1 DEF SessionStarts, TypeOK
<1> QED
  BY <1>1, <1>2, <1>3, <1>4 DEF SessionStarts, link, subCh, subscribed, served

-----------------------------------------------------------------------------
(* Patient use, within the first session, when nothing fails but that the  *)
(* server may refuse to subscribe.                                         *)

\* The futures of subscribe() and unsubscribe() that are awaited.
Awaits(s, sub, unsub) == (subWaits[s] <=> sub) /\ (unsubWaits[s] <=> unsub)

\* The command tasks of a subscription: it has none, or it has one, which is
\* about to send its command or has its reply.
TasksOf(s) == {k \in Slots : Running(k) /\ tasks[k].sub = s}

Idle(s) == TasksOf(s) = {}

Doing(s, kind, reply) ==
    \E k \in Slots : /\ TasksOf(s) = {k}
                     /\ tasks[k].kind = kind
                     /\ tasks[k].reply = reply
                     /\ tasks[k].sent <=> reply # "none"

IsServed(s) == ChannelOf[s] \in served

MayRefuse == "refuse" \in Faults

\* The stages of a subscription's life.  One that was refused stays on record.
Off(s) ==
    /\ state[s] = "Unsubscribed" /\ ~pubStore[s] /\ Awaits(s, FALSE, FALSE)
    /\ s \in subscribed => MayRefuse
    /\ ~Queued(s) /\ Idle(s)

Asked(s) ==
    /\ state[s] = "Subscribing" /\ pubStore[s] /\ Awaits(s, TRUE, FALSE)
    /\ s \notin subscribed /\ (link = "live" => Queued(s))
    /\ Idle(s) /\ ~IsServed(s)

Joining(s) ==
    /\ state[s] = "Subscribing" /\ pubStore[s] /\ Awaits(s, TRUE, FALSE)
    /\ s \in subscribed /\ ~Queued(s)
    /\ \E reply \in {"none", "ok", "err"} :
          /\ Doing(s, "subscribe", reply)
          /\ IsServed(s) <=> reply = "ok"
          /\ reply = "err" => MayRefuse

\* Asked for once more after it was refused: the subscription task, which has
\* it on record, lets it be.
Stuck(s) ==
    /\ state[s] = "Subscribing" /\ pubStore[s] /\ Awaits(s, TRUE, FALSE)
    /\ s \in subscribed /\ MayRefuse
    /\ Idle(s) /\ ~IsServed(s)

On(s) ==
    /\ state[s] = "Subscribed" /\ pubStore[s] /\ Awaits(s, FALSE, FALSE)
    /\ s \in subscribed /\ ~Queued(s) /\ Idle(s) /\ IsServed(s)

AskedToLeave(s) ==
    /\ state[s] = "Unsubscribed" /\ ~pubStore[s] /\ Awaits(s, FALSE, TRUE)
    /\ s \in subscribed /\ Queued(s) /\ Idle(s) /\ IsServed(s)

Leaving(s) ==
    /\ state[s] = "Unsubscribed" /\ ~pubStore[s] /\ Awaits(s, FALSE, TRUE)
    /\ s \notin subscribed /\ ~Queued(s)
    /\ \E reply \in {"none", "ok"} :
          /\ Doing(s, "unsubscribe", reply)
          /\ IsServed(s) <=> reply = "none"

Life(s) == \/ (Off(s) /\ ~IsServed(s))
           \/ Asked(s) \/ Joining(s) \/ Stuck(s)
           \/ On(s) \/ AskedToLeave(s) \/ Leaving(s)

\* Every subscription the client has is at one of the stages; the others, of
\* which the channel may have been given another, are off.
Lives ==
    /\ \A s \in exists : Life(s)
    /\ \A s \in Subs \ exists : Off(s)

QueuedOnce == IsInjective(subCh)

ServedExists == \A c \in served : \E s \in exists : ChannelOf[s] = c

\* Before the first session there are no commands.
NotBegun == sessions = 0 => link = "down" /\ \A k \in Slots : ~Running(k)

\* The inductive invariant of patient use.
PatientInv ==
    /\ IInv /\ pushes = [n \in Sessions |-> {}] /\ NotBegun
    /\ InFirstSession => Lives /\ QueuedOnce /\ ServedExists

LEMMA PatientTypes ==
  ASSUME PatientInv
  PROVE  TypeOK /\ sessions \in Nat /\ link \in {"down", "live", "lost"}
<1>1. TypeOK
  BY DEF PatientInv, IInv
<1>2. sessions \in Nat
  BY <1>1, BoundsAssumption DEF TypeOK, Sessions
<1>3. link \in {"down", "live", "lost"}
  BY <1>1 DEF TypeOK, link
<1> QED
  BY <1>1, <1>2, <1>3

-----------------------------------------------------------------------------
(* What does not concern a subscription leaves it at its stage.            *)

LEMMA LifeGoesOn ==
  ASSUME NEW s \in Subs,
         state'[s] = state[s], pubStore'[s] = pubStore[s],
         subWaits'[s] = subWaits[s], unsubWaits'[s] = unsubWaits[s],
         link' = link, s \in subscribed' <=> s \in subscribed,
         Queued(s)' <=> Queued(s), IsServed(s)' <=> IsServed(s),
         TasksOf(s)' = TasksOf(s), \A k \in TasksOf(s) : tasks'[k] = tasks[k]
  PROVE  (Life(s) => Life(s)') /\ (Off(s) => Off(s)')
<1>1. \A sub, unsub : Awaits(s, sub, unsub) => Awaits(s, sub, unsub)'
  BY DEF Awaits
<1>2. Idle(s) => Idle(s)'
  BY DEF Idle
<1>3. \A kind, reply : Doing(s, kind, reply) => Doing(s, kind, reply)'
  BY DEF Doing
<1>4. Off(s) => Off(s)'
  BY <1>1, <1>2 DEF Off
<1>5. Asked(s) => Asked(s)'
  BY <1>1, <1>2 DEF Asked
<1>6. Joining(s) => Joining(s)'
  BY <1>1, <1>3 DEF Joining
<1>7. Stuck(s) => Stuck(s)'
  BY <1>1, <1>2 DEF Stuck
<1>8. On(s) => On(s)'
  BY <1>1, <1>2 DEF On
<1>9. AskedToLeave(s) => AskedToLeave(s)'
  BY <1>1, <1>2 DEF AskedToLeave
<1>10. Leaving(s) => Leaving(s)'
  BY <1>1, <1>3 DEF Leaving
<1> QED
  BY <1>4, <1>5, <1>6, <1>7, <1>8, <1>9, <1>10 DEF Life

\* A subscription whose command tasks are left alone has the same ones.
LEMMA TasksLeftAlone ==
  ASSUME NEW s \in Subs, NEW k \in Slots,
         \A j \in Slots \ {k} : tasks'[j] = tasks[j],
         ~(Running(k) /\ tasks[k].sub = s),
         ~(Running(k)' /\ tasks'[k].sub = s)
  PROVE  TasksOf(s)' = TasksOf(s) /\ \A j \in TasksOf(s) : tasks'[j] = tasks[j]
  BY DEF TasksOf, Running

-----------------------------------------------------------------------------
(* The calls of the application.                                           *)

LEMMA NewSubscriptionLives ==
  ASSUME PatientInv, InFirstSession, NEW s \in Subs, NewSubscription(s)
  PROVE  Lives' /\ QueuedOnce' /\ ServedExists'
<1>1. Lives /\ QueuedOnce /\ ServedExists /\ TypeOK
  BY DEF PatientInv, IInv
<1>2. s \notin exists /\ ~IsServed(s)
  BY <1>1 DEF NewSubscription, TypeOK, ServedExists, IsServed
<1>0. UNCHANGED <<link, subCh, subscribed, served>>
  BY SameSession DEF NewSubscription
<1>3. \A r \in Subs : (Life(r) => Life(r)') /\ (Off(r) => Off(r)')
  BY <1>0, LifeGoesOn DEF NewSubscription, Queued, IsServed, TasksOf, Running
<1>4. Life(s)
  BY <1>1, <1>2 DEF Lives, Life
<1>5. Lives'
  BY <1>1, <1>3, <1>4 DEF NewSubscription, Lives, TypeOK
<1> QED
  BY <1>0, <1>1, <1>5 DEF NewSubscription, QueuedOnce, ServedExists

\* What a call puts into the channel of the subscription task.
LEMMA NotifyOnce ==
  ASSUME TypeOK, NEW s \in Subs, Notify(s), QueuedOnce, ~Queued(s),
         sessions' = sessions, link' = link
  PROVE  /\ QueuedOnce' /\ (link # "down" => Queued(s)')
         /\ \A r \in Subs \ {s} : Queued(r)' <=> Queued(r)
<1>0. NotifyHere(s)
  BY NotifiedHere
<1>1. CASE link # "down"
  <2>1. subCh' = Append(subCh, s) /\ subCh \in Seq(Subs)
    BY <1>0, <1>1 DEF NotifyHere, TypeOK, subCh
  <2>2. Range(subCh') = Range(subCh) \cup {s}
    BY <2>1, AppendTo
  <2>3. /\ DOMAIN subCh' = DOMAIN subCh \cup {Len(subCh) + 1}
        /\ \A j \in DOMAIN subCh : subCh'[j] = subCh[j] /\ subCh[j] # s
        /\ subCh'[Len(subCh) + 1] = s
    BY <2>1, AppendTo DEF Queued, Range
  <2>4. QueuedOnce'
    BY <2>3 DEF QueuedOnce, IsInjective
  <2> QED
    BY <2>2, <2>4 DEF Queued
<1>2. CASE link = "down"
  BY <1>0, <1>2 DEF NotifyHere, QueuedOnce, Queued
<1> QED
  BY <1>1, <1>2

LEMMA UseLives ==
  ASSUME PatientInv, InFirstSession, NEW s \in Subs, Patient(s), Use(s)
  PROVE  Lives' /\ QueuedOnce' /\ ServedExists'
<1>1. Lives /\ QueuedOnce /\ ServedExists /\ TypeOK
  BY DEF PatientInv, IInv
<1>2. s \in exists /\ Life(s) /\ \A r \in exists : ChannelOf[r] = ChannelOf[s] => r = s
  BY <1>1 DEF Use, Subscribe, Unsubscribe, RemoveSubscription, Lives, TypeOK
<1>3. \A r \in Subs \ {s} : ChannelOf[r] = ChannelOf[s] => r \notin exists
  BY <1>2
<1>4. /\ UNCHANGED <<sessions, tasks>>
      /\ served' = served /\ link' = link /\ subscribed' = subscribed
  <2>1. UNCHANGED <<sessions, tasks, links, records, serving>>
    BY DEF Use, Subscribe, Unsubscribe, RemoveSubscription, sessionVars
  <2> QED
    BY <2>1 DEF link, subscribed, served
<1>5. \A r \in Subs : /\ IsServed(r)' <=> IsServed(r)
                      /\ TasksOf(r)' = TasksOf(r)
                      /\ \A k \in TasksOf(r) : tasks'[k] = tasks[k]
  BY <1>4 DEF IsServed, TasksOf, Running
<1>6. ASSUME \A r \in Subs \ {s} :
               /\ state'[r] = state[r] /\ pubStore'[r] = pubStore[r]
               /\ subWaits'[r] = subWaits[r] /\ unsubWaits'[r] = unsubWaits[r]
               /\ Queued(r)' <=> Queued(r)
      PROVE  \A r \in Subs \ {s} : (Life(r) => Life(r)') /\ (Off(r) => Off(r)')
  <2> SUFFICES ASSUME NEW r \in Subs \ {s}
               PROVE  (Life(r) => Life(r)') /\ (Off(r) => Off(r)')
    OBVIOUS
  <2> QED
    BY <1>4, <1>5, <1>6, LifeGoesOn
<1>7. Idle(s)' <=> Idle(s)
  BY <1>5 DEF Idle
<1>8. CASE Subscribe(s)
  <2>1. Off(s) /\ ~IsServed(s)
    BY <1>2, <1>8 DEF Subscribe, Patient, Life, Asked, Joining, Stuck, On,
                      AskedToLeave, Leaving, Awaits
  <2>2. /\ QueuedOnce' /\ (link # "down" => Queued(s)')
        /\ \A r \in Subs \ {s} : Queued(r)' <=> Queued(r)
    BY <1>1, <1>4, <1>8, <2>1, NotifyOnce DEF Subscribe, Off
  <2>3. Asked(s)' \/ Stuck(s)'
    BY <1>1, <1>4, <1>5, <1>7, <1>8, <2>1, <2>2
       DEF Subscribe, move_to_subscribing, Off, Asked, Stuck, Awaits, TypeOK
  <2>4. \A r \in Subs \ {s} : (Life(r) => Life(r)') /\ (Off(r) => Off(r)')
    BY <1>1, <1>6, <1>8, <2>2 DEF Subscribe, move_to_subscribing, TypeOK
  <2> QED
    BY <1>1, <1>2, <1>4, <1>8, <2>2, <2>3, <2>4
       DEF Subscribe, Lives, Life, ServedExists, TypeOK
<1>9. CASE Unsubscribe(s)
  <2>1. On(s)
    BY <1>2, <1>9 DEF Unsubscribe, Patient, Life, Asked, Joining, Stuck, Off,
                      AskedToLeave, Leaving, Awaits
  <2>2. link # "down"
    BY <1>1, <2>1 DEF On, TypeOK, link, subscribed
  <2>3. /\ QueuedOnce' /\ Queued(s)'
        /\ \A r \in Subs \ {s} : Queued(r)' <=> Queued(r)
    BY <1>1, <1>4, <1>9, <2>1, <2>2, NotifyOnce DEF Unsubscribe, On
  <2>4. AskedToLeave(s)'
    BY <1>1, <1>4, <1>5, <1>7, <1>9, <2>1, <2>3
       DEF Unsubscribe, move_to_unsubscribed, On, AskedToLeave, Awaits, TypeOK
  <2>5. \A r \in Subs \ {s} : (Life(r) => Life(r)') /\ (Off(r) => Off(r)')
    BY <1>1, <1>6, <1>9, <2>3 DEF Unsubscribe, move_to_unsubscribed, TypeOK
  <2> QED
    BY <1>1, <1>2, <1>4, <1>9, <2>3, <2>4, <2>5
       DEF Unsubscribe, Lives, Life, ServedExists, TypeOK
<1>10. CASE RemoveSubscription(s)
  <2>1. Off(s) /\ ~IsServed(s)
    BY <1>2, <1>10 DEF RemoveSubscription, Patient, Life, Asked, Joining, Stuck, On,
                       AskedToLeave, Leaving, Awaits
  <2>2. subCh' = subCh /\ state' = state /\ pubStore' = pubStore
    BY <1>10, SameSession DEF RemoveSubscription
  <2>3. \A r \in Subs : Queued(r)' <=> Queued(r)
    BY <2>2 DEF Queued
  <2>4. Off(s)'
    BY <1>1, <1>4, <1>7, <1>10, <2>1, <2>2, <2>3
       DEF RemoveSubscription, Off, Awaits, TypeOK
  <2>5. \A r \in Subs \ {s} : (Life(r) => Life(r)') /\ (Off(r) => Off(r)')
    BY <1>1, <1>6, <1>10, <2>3 DEF RemoveSubscription, TypeOK
  <2>6. Lives'
    BY <1>1, <1>10, <2>4, <2>5 DEF RemoveSubscription, Lives, TypeOK
  <2>7. ServedExists'
    BY <1>1, <1>4, <1>10, <2>1 DEF RemoveSubscription, ServedExists, IsServed
  <2> QED
    BY <1>1, <2>2, <2>6, <2>7 DEF QueuedOnce
<1> QED
  BY <1>8, <1>9, <1>10 DEF Use

-----------------------------------------------------------------------------
(* The session and its subscription task.                                  *)

\* The first session begins with what has been asked for.
LEMMA SessionStartsLives ==
  ASSUME PatientInv, SessionStarts, InFirstSession'
  PROVE  Lives' /\ QueuedOnce' /\ ServedExists'
<1>1. TypeOK /\ sessions = 0
  <2>1. TypeOK /\ sessions \in Nat
    BY PatientTypes
  <2> QED
    BY <2>1 DEF SessionStarts, InFirstSession
<1>2. Lives /\ (\A k \in Slots : ~Running(k))
  BY <1>1 DEF PatientInv, InFirstSession, NotBegun
<1>3. /\ link = "down" /\ subCh = <<>> /\ subscribed = {} /\ served = {}
      /\ link' = "live" /\ subCh' = SetToSeq(Wanted)
      /\ subscribed' = {} /\ served' = {}
  BY <1>1, FirstStarts
<1>4. Wanted \subseteq Subs /\ IsFiniteSet(Wanted)
  BY <1>1, FS_Subset, ChannelsAssumption DEF TypeOK, Wanted
<1>5. QueuedOnce' /\ \A s \in Subs : Queued(s)' <=> s \in Wanted
  BY <1>3, <1>4, SequenceOf DEF Queued, QueuedOnce
<1>6. \A s \in Subs : Idle(s) /\ Idle(s)' /\ ~IsServed(s) /\ ~IsServed(s)'
  BY <1>2, <1>3 DEF SessionStarts, Idle, TasksOf, Running, IsServed
<1>7. \A s \in Subs : Off(s) => Off(s)'
  BY <1>3, <1>4, <1>5, <1>6 DEF SessionStarts, subVars, Off, Awaits, Wanted
<1>8. \A s \in exists : Off(s) \/ Asked(s)
  <2>1. exists \subseteq Subs
    BY <1>1 DEF TypeOK
  <2> QED
    BY <1>2, <1>3, <1>6, <2>1
       DEF Lives, Life, Joining, Stuck, On, AskedToLeave, Leaving, Doing, Idle
<1>9. \A s \in exists : Asked(s) => Asked(s)'
  BY <1>1, <1>3, <1>5, <1>6 DEF SessionStarts, subVars, Asked, Awaits, Wanted, TypeOK
<1>10. exists' = exists /\ exists \subseteq Subs
  BY <1>1 DEF SessionStarts, subVars, TypeOK
<1>11. Lives'
  BY <1>2, <1>6, <1>7, <1>8, <1>9, <1>10 DEF Lives, Life
<1>12. ServedExists'
  BY <1>3 DEF SessionStarts, ServedExists
<1> QED
  BY <1>5, <1>11, <1>12

\* The subscription task gives a command to a task of its own to what it finds
\* in its channel.
LEMMA SpawnsOne ==
  ASSUME TypeOK, NEW s \in Subs, NEW kind, Spawn(kind, sessions, s), link = "live",
         Idle(s)
  PROVE  /\ Doing(s, kind, "none")'
         /\ \A r \in Subs \ {s} : /\ TasksOf(r)' = TasksOf(r)
                                  /\ \A j \in TasksOf(r) : tasks'[j] = tasks[j]
<1> DEFINE t == [kind |-> kind, sub |-> s, session |-> sessions,
                 sent |-> link = "lost",
                 reply |-> IF link = "lost" THEN "err" ELSE "none"]
<1>1. PICK k \in Slots : ~Running(k) /\ tasks' = [tasks EXCEPT ![k] = t]
  BY DEF Spawn, link
<1>2. t # NoTask /\ t.kind = kind /\ t.sub = s /\ t.sent = FALSE /\ t.reply = "none"
  BY DEF NoTask
<1> HIDE DEF t
<1>3. tasks'[k] = t /\ \A j \in Slots \ {k} : tasks'[j] = tasks[j]
  BY <1>1 DEF TypeOK
<1>4. TasksOf(s)' = {k}
  BY <1>2, <1>3 DEF TasksOf, Idle, Running
<1>5. Doing(s, kind, "none")'
  BY <1>2, <1>3, <1>4 DEF Doing
<1>6. ASSUME NEW r \in Subs \ {s}
      PROVE  /\ TasksOf(r)' = TasksOf(r)
             /\ \A j \in TasksOf(r) : tasks'[j] = tasks[j]
  BY <1>1, <1>2, <1>3, TasksLeftAlone
<1> QED
  BY <1>5, <1>6

LEMMA SubTaskLives ==
  ASSUME PatientInv, InFirstSession, SubTaskHere
  PROVE  Lives' /\ QueuedOnce' /\ ServedExists'
<1>1. Lives /\ QueuedOnce /\ ServedExists /\ TypeOK
  BY DEF PatientInv, IInv
<1>2. link = "live" /\ link' = link
  BY <1>1, BoundsAssumption DEF SubTaskHere, TypeOK, Sessions, link, PatientInv, NotBegun, InFirstSession
<1>3. subCh \in Seq(Subs) /\ subCh # <<>> /\ subCh' = Tail(subCh)
  BY <1>1 DEF SubTaskHere, TypeOK, subCh
<1>4. PICK s \in Subs : /\ s = Head(subCh) /\ Queued(s)
                      /\ Range(subCh) = {s} \cup Range(subCh')
  BY <1>3, TailOf DEF Queued
<1>5. QueuedOnce' /\ ~Queued(s)'
  <2>1. /\ 1 \in DOMAIN subCh /\ s = subCh[1]
        /\ \A j \in DOMAIN subCh' :
              j + 1 \in DOMAIN subCh /\ subCh'[j] = subCh[j + 1] /\ j \in Nat \ {0}
    BY <1>3, <1>4, TailOf
  <2>2. \A i, j \in DOMAIN subCh : subCh[i] = subCh[j] => i = j
    BY <1>1 DEF QueuedOnce, IsInjective
  <2>3. \A i, j \in DOMAIN subCh' : subCh'[i] = subCh'[j] => i = j
    BY <2>1, <2>2
  <2>4. \A j \in DOMAIN subCh' : subCh'[j] # s
    BY <2>1, <2>2
  <2> QED
    BY <2>3, <2>4 DEF QueuedOnce, IsInjective, Queued, Range
<1>6. \A r \in Subs \ {s} : Queued(r)' <=> Queued(r)
  BY <1>4 DEF Queued
<1>7. UNCHANGED <<subVars, served>>
  BY DEF SubTaskHere
<1>8. \A r \in Subs : IsServed(r)' <=> IsServed(r)
  BY <1>7 DEF IsServed
<1>9. s \in exists /\ (Asked(s) \/ Stuck(s) \/ AskedToLeave(s))
  BY <1>1, <1>4 DEF Lives, Life, Off, Joining, On, Leaving
<1>10. ASSUME NEW kind, Spawn(kind, sessions, s), subscribed' \ {s} = subscribed \ {s},
              Idle(s)
       PROVE  /\ Doing(s, kind, "none")'
              /\ \A r \in Subs \ {s} : (Life(r) => Life(r)') /\ (Off(r) => Off(r)')
  <2>1. Idle(s)
    BY <1>10
  <2>2. /\ Doing(s, kind, "none")'
        /\ \A r \in Subs \ {s} : /\ TasksOf(r)' = TasksOf(r)
                                 /\ \A j \in TasksOf(r) : tasks'[j] = tasks[j]
    BY <1>1, <1>2, <1>4, <1>10, <2>1, SpawnsOne
  <2>3. ASSUME NEW r \in Subs \ {s}
        PROVE  (Life(r) => Life(r)') /\ (Off(r) => Off(r)')
    <3>1. r \in subscribed' <=> r \in subscribed
      BY <1>10
    <3> QED
      BY <1>2, <1>6, <1>7, <1>8, <2>2, <3>1, LifeGoesOn DEF subVars
  <2> QED
    BY <2>2, <2>3
<1>11. CASE Asked(s)
  <2>1. subscribed' = subscribed \cup {s} /\ Spawn("subscribe", sessions, s)
    BY <1>4, <1>9, <1>11 DEF SubTaskHere, Asked
  <2>2. /\ Doing(s, "subscribe", "none")'
        /\ \A r \in Subs \ {s} : (Life(r) => Life(r)') /\ (Off(r) => Off(r)')
    BY <1>10, <1>11, <2>1 DEF Asked
  <2>3. Joining(s)'
    BY <1>5, <1>7, <1>8, <1>11, <2>1, <2>2 DEF subVars, Asked, Joining, Awaits
  <2> QED
    BY <1>1, <1>5, <1>7, <1>9, <2>2, <2>3
       DEF subVars, Lives, Life, ServedExists, TypeOK
<1>12. CASE AskedToLeave(s)
  <2>1. subscribed' = subscribed \ {s} /\ Spawn("unsubscribe", sessions, s)
    BY <1>4, <1>9, <1>12 DEF SubTaskHere, AskedToLeave
  <2>2. /\ Doing(s, "unsubscribe", "none")'
        /\ \A r \in Subs \ {s} : (Life(r) => Life(r)') /\ (Off(r) => Off(r)')
    BY <1>10, <1>12, <2>1 DEF AskedToLeave
  <2>3. Leaving(s)'
    BY <1>5, <1>7, <1>8, <1>12, <2>1, <2>2 DEF subVars, AskedToLeave, Leaving, Awaits
  <2> QED
    BY <1>1, <1>5, <1>7, <1>9, <2>2, <2>3
       DEF subVars, Lives, Life, ServedExists, TypeOK
<1>13. CASE Stuck(s)
  <2>1. subscribed' = subscribed /\ tasks' = tasks
    BY <1>4, <1>9, <1>13 DEF SubTaskHere, Stuck
  <2>2. Stuck(s)'
    BY <1>7, <1>8, <1>13, <2>1 DEF subVars, Stuck, Awaits, Idle, TasksOf, Running
  <2>3. ASSUME NEW r \in Subs \ {s}
        PROVE  (Life(r) => Life(r)') /\ (Off(r) => Off(r)')
    <3>1. TasksOf(r)' = TasksOf(r) /\ \A j \in TasksOf(r) : tasks'[j] = tasks[j]
      BY <2>1 DEF TasksOf, Running
    <3> QED
      BY <1>2, <1>6, <1>7, <1>8, <2>1, <3>1, LifeGoesOn DEF subVars
  <2> QED
    BY <1>1, <1>5, <1>7, <1>9, <2>2, <2>3
       DEF subVars, Lives, Life, ServedExists, TypeOK
<1> QED
  BY <1>9, <1>11, <1>12, <1>13

-----------------------------------------------------------------------------
(* The command tasks.                                                      *)

\* A command task that runs is the only one of its subscription, which is
\* joining or leaving.
LEMMA TheTask ==
  ASSUME TypeOK, Lives, NEW k \in Slots, Running(k)
  PROVE  LET s == tasks[k].sub IN
         /\ s \in exists /\ TasksOf(s) = {k} /\ tasks[k] \in TaskSet
         /\ tasks[k].sent <=> tasks[k].reply # "none"
         /\ \/ /\ Joining(s) /\ tasks[k].kind = "subscribe"
               /\ tasks[k].reply \in {"none", "ok", "err"}
               /\ IsServed(s) <=> tasks[k].reply = "ok"
               /\ tasks[k].reply = "err" => MayRefuse
            \/ /\ Leaving(s) /\ tasks[k].kind = "unsubscribe"
               /\ tasks[k].reply \in {"none", "ok"}
               /\ IsServed(s) <=> tasks[k].reply = "none"
<1> DEFINE s == tasks[k].sub
<1>1. tasks[k] \in TaskSet /\ s \in Subs /\ k \in TasksOf(s)
  BY RunningTask DEF TasksOf
<1>2. s \in exists /\ ~Idle(s)
  BY <1>1 DEF Lives, Off, Idle
<1>3. Joining(s) \/ Leaving(s)
  BY <1>2 DEF Lives, Life, Off, Asked, Stuck, On, AskedToLeave
<1>4. \A kind, reply : Doing(s, kind, reply) =>
         /\ TasksOf(s) = {k} /\ tasks[k].kind = kind /\ tasks[k].reply = reply
         /\ tasks[k].sent <=> reply # "none"
  BY <1>1 DEF Doing
<1>5. CASE Joining(s)
  <2>1. PICK reply \in {"none", "ok", "err"} :
          /\ Doing(s, "subscribe", reply)
          /\ IsServed(s) <=> reply = "ok"
          /\ reply = "err" => MayRefuse
    BY <1>5 DEF Joining
  <2> QED
    BY <1>1, <1>2, <1>4, <1>5, <2>1
<1>6. CASE Leaving(s)
  <2>1. PICK reply \in {"none", "ok"} :
          Doing(s, "unsubscribe", reply) /\ (IsServed(s) <=> reply = "none")
    BY <1>6 DEF Leaving
  <2> QED
    BY <1>1, <1>2, <1>4, <1>6, <2>1
<1> QED
  BY <1>3, <1>5, <1>6

\* A reply that is given to the task that waits for it.
LEMMA ReplyGiven ==
  ASSUME TypeOK, NEW k \in Slots, Running(k), NEW s, s = tasks[k].sub,
         TasksOf(s) = {k}, tasks[k].reply = "none", NEW reply \in {"ok", "err"},
         tasks' = [tasks EXCEPT ![k] = Replied(tasks[k], reply)]
  PROVE  /\ \A kind : kind = tasks[k].kind => Doing(s, kind, reply)'
         /\ \A r \in Subs \ {s} : /\ TasksOf(r)' = TasksOf(r)
                                  /\ \A j \in TasksOf(r) : tasks'[j] = tasks[j]
<1> DEFINE t == [tasks[k] EXCEPT !.sent = TRUE, !.reply = reply]
<1>1. tasks[k] \in TaskSet
  BY RunningTask
<1>2. Replied(tasks[k], reply) = t
  BY <1>1 DEF Replied, TaskSet
<1>3. t # NoTask /\ t.sub = s /\ t.kind = tasks[k].kind /\ t.sent = TRUE /\ t.reply = reply
  BY <1>1 DEF TaskSet, NoTask
<1>4. tasks' = [tasks EXCEPT ![k] = t]
  BY <1>2
<1> HIDE DEF t
<1>5. tasks'[k] = t /\ \A j \in Slots \ {k} : tasks'[j] = tasks[j]
  BY <1>4 DEF TypeOK
<1>6. TasksOf(s)' = {k}
  BY <1>3, <1>5 DEF TasksOf, Running
<1>7. \A kind : kind = tasks[k].kind => Doing(s, kind, reply)'
  BY <1>3, <1>5, <1>6 DEF Doing
<1>8. ASSUME NEW r \in Subs \ {s}
      PROVE  TasksOf(r)' = TasksOf(r) /\ \A j \in TasksOf(r) : tasks'[j] = tasks[j]
  BY <1>3, <1>5, TasksLeftAlone
<1> QED
  BY <1>7, <1>8

LEMMA ServeLives ==
  ASSUME PatientInv, InFirstSession, NEW k \in Slots, ServeHere(k)
  PROVE  Lives' /\ QueuedOnce' /\ ServedExists'
<1>1. Lives /\ QueuedOnce /\ ServedExists /\ TypeOK
  BY DEF PatientInv, IInv
<1>2. Running(k) /\ ~tasks[k].sent
  BY DEF ServeHere
<1>3. PICK s \in exists :
      /\ s = tasks[k].sub /\ TasksOf(s) = {k} /\ tasks[k].reply = "none"
      /\ \/ Joining(s) /\ tasks[k].kind = "subscribe" /\ ~IsServed(s)
         \/ Leaving(s) /\ tasks[k].kind = "unsubscribe" /\ IsServed(s)
  BY <1>1, <1>2, TheTask
<1>4. PICK reply \in {"ok", "err"} :
      /\ tasks' = [tasks EXCEPT ![k] = Replied(tasks[k], reply)]
      /\ \/ /\ Joining(s) /\ tasks[k].kind = "subscribe" /\ reply = "ok"
            /\ served' = served \cup {ChannelOf[s]}
         \/ /\ Joining(s) /\ tasks[k].kind = "subscribe" /\ reply = "err"
            /\ MayRefuse /\ ~IsServed(s) /\ served' = served
         \/ /\ Leaving(s) /\ tasks[k].kind = "unsubscribe" /\ reply = "ok"
            /\ served' = served \ {ChannelOf[s]}
  BY <1>3 DEF ServeHere, IsServed, MayRefuse
<1>5. s \in Subs /\ \A r \in exists \ {s} : ChannelOf[r] # ChannelOf[s]
  BY <1>1 DEF TypeOK
<1>6. /\ \A kind : kind = tasks[k].kind => Doing(s, kind, reply)'
      /\ \A r \in Subs \ {s} : /\ TasksOf(r)' = TasksOf(r)
                               /\ \A j \in TasksOf(r) : tasks'[j] = tasks[j]
  BY <1>1, <1>2, <1>3, <1>4, ReplyGiven
<1>7. UNCHANGED <<subVars, link, subCh, subscribed>>
  BY DEF ServeHere
<1>8. \A r \in Subs : Queued(r)' <=> Queued(r)
  BY <1>7 DEF Queued
<1>9. ASSUME Joining(s), tasks[k].kind = "subscribe" PROVE Life(s)'
  <2>1. IsServed(s)' <=> reply = "ok"
    BY <1>4, <1>9 DEF IsServed
  <2>2. Doing(s, "subscribe", reply)' /\ (reply = "err" => MayRefuse)
    BY <1>4, <1>6, <1>9
  <2>3. Joining(s)'
    BY <1>5, <1>7, <1>8, <1>9, <2>1, <2>2 DEF subVars, Joining, Awaits
  <2> QED
    BY <2>3 DEF Life
<1>10. ASSUME Leaving(s), tasks[k].kind = "unsubscribe" PROVE Life(s)'
  <2>1. reply = "ok" /\ ~IsServed(s)'
    BY <1>4, <1>10 DEF IsServed
  <2>2. Doing(s, "unsubscribe", "ok")'
    BY <1>6, <1>10, <2>1
  <2>3. Leaving(s)'
    BY <1>5, <1>7, <1>8, <1>10, <2>1, <2>2 DEF subVars, Leaving, Awaits
  <2> QED
    BY <2>3 DEF Life
<1>11. Life(s)'
  BY <1>3, <1>9, <1>10
<1>12. ASSUME NEW r \in exists \ {s} PROVE Life(r)'
  <2>1. ChannelOf[r] # ChannelOf[s] /\ r \in Subs \ {s} /\ Life(r)
    BY <1>1, <1>5 DEF TypeOK, Lives
  <2>2. IsServed(r)' <=> IsServed(r)
    BY <1>4, <2>1 DEF IsServed
  <2> QED
    BY <1>6, <1>7, <1>8, <2>1, <2>2, LifeGoesOn DEF subVars
<1>13. ASSUME NEW r \in Subs \ exists PROVE Off(r)'
  <2>1. Off(r) /\ r \in Subs \ {s}
    BY <1>1, <1>3 DEF Lives
  <2> QED
    BY <1>6, <1>7, <1>8, <2>1 DEF subVars, Off, Awaits, Idle
<1>14. Lives'
  BY <1>7, <1>11, <1>12, <1>13 DEF subVars, Lives
<1>15. QueuedOnce' /\ ServedExists'
  BY <1>1, <1>3, <1>4, <1>7 DEF subVars, QueuedOnce, ServedExists
<1> QED
  BY <1>14, <1>15

LEMMA ApplyLives ==
  ASSUME PatientInv, InFirstSession, NEW k \in Slots, Apply(k)
  PROVE  Lives' /\ QueuedOnce' /\ ServedExists'
<1>1. Lives /\ QueuedOnce /\ ServedExists /\ TypeOK
  BY DEF PatientInv, IInv
<1>2. Running(k) /\ tasks[k].reply \in {"ok", "err"}
  BY DEF Apply
<1>3. PICK s \in exists :
      /\ s = tasks[k].sub /\ TasksOf(s) = {k} /\ tasks[k].sent
      /\ \/ /\ Joining(s) /\ tasks[k].kind = "subscribe"
            /\ tasks[k].reply = "ok" /\ IsServed(s)
         \/ /\ Joining(s) /\ tasks[k].kind = "subscribe"
            /\ tasks[k].reply = "err" /\ ~IsServed(s) /\ MayRefuse
         \/ Leaving(s) /\ tasks[k].kind = "unsubscribe" /\ ~IsServed(s)
  BY <1>1, <1>2, TheTask
<1>4. tasks' = [tasks EXCEPT ![k] = NoTask]
  BY <1>3 DEF Apply
<1>5. tasks'[k] = NoTask /\ \A j \in Slots \ {k} : tasks'[j] = tasks[j]
  BY <1>1, <1>4 DEF TypeOK
<1>6. Idle(s)'
  BY <1>3, <1>5 DEF Idle, TasksOf, Running
<1>7. UNCHANGED <<exists, link, subCh, subscribed, served>>
  BY SameSession DEF Apply
<1>8. \A r \in Subs : (Queued(r)' <=> Queued(r)) /\ (IsServed(r)' <=> IsServed(r))
  BY <1>7 DEF Queued, IsServed
<1>9. Life(s)'
  <2>1. CASE /\ Joining(s) /\ tasks[k].kind = "subscribe"
             /\ tasks[k].reply = "ok" /\ IsServed(s)
    <3>1. /\ state' = [state EXCEPT ![s] = "Subscribed"] /\ pubStore' = pubStore
          /\ subWaits' = [subWaits EXCEPT ![s] = FALSE] /\ unsubWaits' = unsubWaits
      BY <1>3, <2>1 DEF Apply, move_to_subscribed
    <3>2. s \in Subs /\ state'[s] = "Subscribed" /\ ~subWaits'[s]
      BY <1>1, <1>3, <3>1 DEF TypeOK
    <3>3. On(s)'
      BY <1>6, <1>7, <1>8, <2>1, <3>1, <3>2 DEF On, Joining, Awaits
    <3> QED
      BY <3>3 DEF Life
  <2>2. CASE Leaving(s) /\ tasks[k].kind = "unsubscribe" /\ ~IsServed(s)
    <3>1. /\ unsubWaits' = [unsubWaits EXCEPT ![s] = FALSE]
          /\ state' = state /\ pubStore' = pubStore /\ subWaits' = subWaits
      BY <1>3, <2>2 DEF Apply
    <3>2. s \in Subs /\ ~unsubWaits'[s]
      BY <1>1, <1>3, <3>1 DEF TypeOK
    <3>3. Off(s)' /\ ~IsServed(s)'
      BY <1>6, <1>7, <1>8, <2>2, <3>1, <3>2 DEF Off, Leaving, Awaits
    <3> QED
      BY <3>3 DEF Life
  <2>3. CASE /\ Joining(s) /\ tasks[k].kind = "subscribe"
             /\ tasks[k].reply = "err" /\ ~IsServed(s) /\ MayRefuse
    <3>1. /\ state' = [state EXCEPT ![s] = "Unsubscribed"]
          /\ pubStore' = [pubStore EXCEPT ![s] = FALSE]
          /\ subWaits' = [subWaits EXCEPT ![s] = FALSE] /\ unsubWaits' = unsubWaits
      BY <1>3, <2>3 DEF Apply, move_to_unsubscribed
    <3>2. s \in Subs /\ state'[s] = "Unsubscribed" /\ ~pubStore'[s] /\ ~subWaits'[s]
      BY <1>1, <1>3, <3>1 DEF TypeOK
    <3>3. Off(s)' /\ ~IsServed(s)'
      BY <1>6, <1>7, <1>8, <2>3, <3>1, <3>2 DEF Off, Joining, Awaits
    <3> QED
      BY <3>3 DEF Life
  <2> QED
    BY <1>3, <2>1, <2>2, <2>3
<1>10. ASSUME NEW r \in Subs \ {s}
       PROVE  (Life(r) => Life(r)') /\ (Off(r) => Off(r)')
  <2>1. TasksOf(r)' = TasksOf(r) /\ \A j \in TasksOf(r) : tasks'[j] = tasks[j]
    BY <1>3, <1>5, TasksLeftAlone DEF Running
  <2>2. state'[r] = state[r] /\ pubStore'[r] = pubStore[r]
    BY <1>1, <1>3 DEF Apply, move_to_subscribed, move_to_unsubscribed, TypeOK
  <2>3. subWaits'[r] = subWaits[r] /\ unsubWaits'[r] = unsubWaits[r]
    BY <1>1, <1>3 DEF Apply, TypeOK
  <2> QED
    BY <1>7, <1>8, <2>1, <2>2, <2>3, LifeGoesOn
<1>11. Lives'
  BY <1>1, <1>3, <1>7, <1>9, <1>10 DEF Lives, TypeOK
<1>12. QueuedOnce' /\ ServedExists'
  BY <1>1, <1>7 DEF QueuedOnce, ServedExists
<1> QED
  BY <1>11, <1>12

-----------------------------------------------------------------------------
(* The invariant of patient use.                                           *)

LEMMA InitPatientInv == Init => PatientInv
<1> SUFFICES ASSUME Init PROVE PatientInv
  OBVIOUS
<1>1. IInv
  BY InitIInv
<1>0. link = "down" /\ subCh = <<>> /\ subscribed = {} /\ served = {}
  BY BoundsAssumption DEF Init, Sessions, link, subCh, subscribed, served
<1>2. pushes = [n \in Sessions |-> {}] /\ NotBegun
  BY <1>0 DEF Init, NotBegun, Running
<1>3. \A s \in Subs : Off(s)
  BY <1>0 DEF Init, Off, Awaits, Queued, Idle, TasksOf, Running, Range
<1>4. Lives /\ QueuedOnce /\ ServedExists
  BY <1>0, <1>3 DEF Init, Lives, QueuedOnce, IsInjective, ServedExists
<1> QED
  BY <1>1, <1>2, <1>4 DEF PatientInv

LEMMA PatientNextKeepsInv ==
  ASSUME Faults \subseteq {"refuse"}, PatientInv, [PatientNext]_vars
  PROVE  PatientInv'
<1>1. [Next]_vars
  BY DEF PatientNext, Next
<1>2. IInv'
  BY <1>1, NextKeepsIInv DEF PatientInv
<1>3. pushes' = [n \in Sessions |-> {}]
  <2>1. pushes = [n \in Sessions |-> {}] /\ TypeOK
    BY DEF PatientInv, IInv
  <2>2. ASSUME NEW n \in Sessions, Session(n) PROVE pushes' = pushes
    BY <2>1, <2>2 DEF Session, ConnectionLost, SessionEnds, SubTask, Kick, ReadKick
  <2> QED
    BY <2>1, <2>2 DEF PatientNext, System, SessionStarts,
       Serve, TimesOut, Apply, NewSubscription, Use, Subscribe,
       Unsubscribe, RemoveSubscription, vars, sessionVars
<1>4. TypeOK /\ sessions \in Nat /\ NotBegun /\ link \in {"down", "live", "lost"}
  BY PatientTypes DEF PatientInv
<1>5. CASE SessionStarts
  <2>1. NotBegun'
    BY <1>4, <1>5 DEF SessionStarts, NotBegun
  <2> QED
    BY <1>2, <1>3, <1>5, <2>1, SessionStartsLives DEF PatientInv
<1>6. CASE \E n \in Sessions : ConnectionLost(n) \/ SessionEnds(n)
  <2>1. PICK n \in Sessions : ConnectionLost(n) \/ SessionEnds(n)
    BY <1>6
  <2>2. sessions' = sessions /\ links[n] # "down" /\ links'[n] # "live"
    BY <1>4, <2>1 DEF ConnectionLost, SessionEnds, TypeOK
  <2>3. NotBegun' /\ ~InFirstSession'
    <3>1. sessions # 0
      BY <1>4, <2>2 DEF TypeOK
    <3>2. sessions <= 1 => n = sessions
      BY <1>4, <2>2, TheSession
    <3> QED
      BY <1>4, <2>2, <3>1, <3>2 DEF NotBegun, InFirstSession, link
  <2> QED
    BY <1>2, <1>3, <2>3 DEF PatientInv
<1>7. CASE ~SessionStarts /\ ~\E n \in Sessions : ConnectionLost(n) \/ SessionEnds(n)
  <2>1. sessions' = sessions /\ link' = link
    <3>1. UNCHANGED <<sessions, links>>
      BY <1>7 DEF PatientNext, System, Session, SubTask, Serve, TimesOut, Apply, Kick,
         ReadKick, NewSubscription, Use, Subscribe, Unsubscribe, RemoveSubscription,
         vars, sessionVars
    <3> QED
      BY <3>1 DEF link
  <2>2. InFirstSession' <=> InFirstSession
    BY <2>1 DEF InFirstSession
  <2>3. NotBegun'
    <3> SUFFICES ASSUME sessions = 0 PROVE \A k \in Slots : ~Running(k)'
      BY <1>4, <2>1 DEF NotBegun
    <3>1. \A k \in Slots : ~Running(k)
      BY <1>4 DEF NotBegun
    <3>2. \A n \in Sessions : links[n] = "down"
      BY <1>4 DEF TypeOK
    <3>3. tasks' = tasks
      BY <1>7, <3>1, <3>2 DEF PatientNext, System, Session, SubTask, Serve, TimesOut,
         Apply, Kick, ReadKick, NewSubscription, Use, Subscribe, Unsubscribe,
         RemoveSubscription, vars
    <3> QED
      BY <3>1, <3>3 DEF Running
  <2>4. ASSUME InFirstSession PROVE Lives' /\ QueuedOnce' /\ ServedExists'
    <3>1. CASE \E s \in Subs : NewSubscription(s) \/ (Patient(s) /\ Use(s))
      BY <2>4, <3>1, NewSubscriptionLives, UseLives
    <3>2. ASSUME NEW n \in Sessions, SubTask(n)
          PROVE  Lives' /\ QueuedOnce' /\ ServedExists'
      BY <1>4, <2>4, <3>2, SubTaskIsHere, SubTaskLives DEF InFirstSession
    <3>3. ASSUME NEW k \in Slots, Serve(k) \/ TimesOut(k) \/ Apply(k)
          PROVE  Lives' /\ QueuedOnce' /\ ServedExists'
      <4>1. CASE Serve(k)
        BY <1>4, <2>4, <4>1, ServeIsHere, ServeLives DEF InFirstSession
      <4> QED
        BY <2>4, <3>3, <4>1, ApplyLives DEF TimesOut
    <3>4. ~\E n \in Sessions, c \in Channels : Kick(n, c) \/ ReadKick(n, c)
      BY DEF Kick, ReadKick, PatientInv
    <3>5. CASE UNCHANGED vars
      <4>1. Lives /\ QueuedOnce /\ ServedExists
        BY <2>4 DEF PatientInv
      <4>2. UNCHANGED <<link, subCh, subscribed, served, subVars, tasks>>
        BY <3>5, SameSession DEF vars
      <4>3. \A s \in Subs : (Life(s) => Life(s)') /\ (Off(s) => Off(s)')
        BY <4>2, LifeGoesOn DEF subVars, Queued, IsServed, TasksOf, Running
      <4> QED
        BY <1>4, <4>1, <4>2, <4>3
           DEF subVars, Lives, QueuedOnce, ServedExists, TypeOK
    <3> QED
      BY <1>7, <3>1, <3>2, <3>3, <3>4, <3>5 DEF PatientNext, System, Session
  <2> QED
    BY <1>2, <1>3, <2>2, <2>3, <2>4 DEF PatientInv
<1> QED
  BY <1>5, <1>6, <1>7

\* After the first session, or once its connection is lost, nothing is served.
LEMMA InvariantImplies ==
  ASSUME PatientInv, sessions <= 1
  PROVE  NoDoubleSubscribe /\ ServedIsOnRecord
<1>1. TypeOK
  BY DEF PatientInv, IInv
<1>2. CASE ~InFirstSession
  <2>1. served = {}
    BY <1>1, <1>2, PatientTypes DEF InFirstSession, TypeOK, link, served
  <2> QED
    BY <2>1 DEF NoDoubleSubscribe, ServedIsOnRecord
<1>3. CASE InFirstSession
  <2>1. Lives /\ ServedExists
    BY <1>3 DEF PatientInv
  <2>2. NoDoubleSubscribe
    BY <1>1, <2>1, TheTask DEF NoDoubleSubscribe, IsServed
  <2>3. ServedIsOnRecord
    <3> SUFFICES ASSUME NEW c \in served
                 PROVE  \/ \E s \in subscribed : ChannelOf[s] = c
                        \/ \E k \in Slots : /\ Running(k) /\ ChannelOf[tasks[k].sub] = c
                                            /\ tasks[k].kind = "unsubscribe" /\ ~tasks[k].sent
      BY DEF ServedIsOnRecord
    <3>1. PICK s \in exists : ChannelOf[s] = c /\ Life(s) /\ IsServed(s)
      BY <2>1 DEF ServedExists, IsServed, Lives
    <3>2. s \in subscribed \/ Leaving(s)
      BY <3>1 DEF Life, Off, Asked, Joining, Stuck, On, AskedToLeave
    <3>3. CASE Leaving(s)
      <4>1. PICK k \in Slots : TasksOf(s) = {k}
        BY <3>3 DEF Leaving, Doing
      <4>2. Running(k) /\ tasks[k].sub = s
        BY <4>1 DEF TasksOf
      <4>3. tasks[k].kind = "unsubscribe" /\ ~tasks[k].sent
        BY <1>1, <2>1, <3>1, <3>3, <4>2, TheTask DEF Joining, Leaving
      <4> QED
        BY <3>1, <4>2, <4>3
    <3> QED
      BY <3>1, <3>2, <3>3
  <2> QED
    BY <2>2, <2>3
<1> QED
  BY <1>2, <1>3

\* Without refusals no subscription is stuck either.
LEMMA InvariantAgrees ==
  ASSUME PatientInv, ~MayRefuse, sessions <= 1
  PROVE  Agreement
<1>1. TypeOK
  BY DEF PatientInv, IInv
<1> SUFFICES ASSUME NEW s \in made, Settled(s)
             PROVE  /\ state[s] = "Subscribed" <=> s \in exists /\ IsServed(s)
                    /\ state[s] = "Subscribed" <=> pubStore[s]
                    /\ state[s] # "Subscribing"
                    /\ Patient(s)
  BY DEF Agreement, IsServed
<1>2. link = "live" /\ ~Queued(s) /\ Idle(s) /\ s \in Subs
  BY <1>1 DEF Settled, Idle, TasksOf, TypeOK
<1>3. Lives
  BY <1>1, <1>2 DEF PatientInv, InFirstSession
<1>4. s \in exists => (Off(s) /\ ~IsServed(s)) \/ On(s)
  BY <1>2, <1>3
     DEF Lives, Life, Asked, Joining, Stuck, AskedToLeave, Leaving, Doing, Idle
<1>5. s \notin exists => Off(s)
  BY <1>2, <1>3 DEF Lives
<1> QED
  BY <1>4, <1>5 DEF Off, On, Awaits, Patient

-----------------------------------------------------------------------------
(* The refinement of Membership.                                           *)

\* How the application sees a subscription at each stage.
LEMMA ViewOfStage ==
  ASSUME NEW s \in Subs
  PROVE  /\ Off(s) => ViewOf(s) = "off"
         /\ Asked(s) \/ Joining(s) \/ Stuck(s) => ViewOf(s) = "joining"
         /\ On(s) => ViewOf(s) = "on"
         /\ AskedToLeave(s) \/ Leaving(s) => ViewOf(s) = "leaving"
<1> USE DEF ViewOf, Awaits
<1>1. Off(s) => ViewOf(s) = "off"
  BY DEF Off
<1>2. Asked(s) \/ Joining(s) \/ Stuck(s) => ViewOf(s) = "joining"
  BY DEF Asked, Joining, Stuck
<1>3. On(s) => ViewOf(s) = "on"
  BY DEF On
<1>4. AskedToLeave(s) \/ Leaving(s) => ViewOf(s) = "leaving"
  BY DEF AskedToLeave, Leaving
<1> QED
  BY <1>1, <1>2, <1>3, <1>4

\* The subscription a channel has is the only one.
LEMMA TheSubscription ==
  ASSUME NEW E, NEW s \in E, \A r \in E : ChannelOf[r] = ChannelOf[s] => r = s
  PROVE  (CHOOSE r \in E : ChannelOf[r] = ChannelOf[s]) = s
OBVIOUS

LEMMA ViewOfItsChannel ==
  ASSUME TypeOK, NEW s \in exists
  PROVE  ChannelOf[s] \in Channels /\ View[ChannelOf[s]] = ViewOf(s)
<1>1. ChannelOf[s] \in Channels
  BY ChannelsAssumption DEF TypeOK, Channels, Range
<1>2. (CHOOSE r \in exists : ChannelOf[r] = ChannelOf[s]) = s
  BY TheSubscription DEF TypeOK
<1> QED
  BY <1>1, <1>2 DEF View

\* A step for one subscription changes how its channel is seen, and no other.
LEMMA ViewElsewhere ==
  ASSUME TypeOK, TypeOK', NEW s \in Subs, exists' \ {s} = exists \ {s},
         \A r \in Subs \ {s} : state'[r] = state[r] /\ unsubWaits'[r] = unsubWaits[r],
         NEW c \in Channels, c # ChannelOf[s]
  PROVE  View'[c] = View[c]
<1>1. CASE \E r \in exists : ChannelOf[r] = c
  <2>1. PICK r \in exists : ChannelOf[r] = c
    BY <1>1
  <2>2. r \in exists' /\ r \in Subs \ {s}
    BY <2>1 DEF TypeOK
  <2>3. /\ (CHOOSE q \in exists : ChannelOf[q] = c) = r
        /\ (CHOOSE q \in exists' : ChannelOf[q] = c) = r
    BY <2>1, <2>2, TheSubscription DEF TypeOK
  <2>4. ViewOf(r)' = ViewOf(r)
    BY <2>2 DEF ViewOf
  <2> QED
    BY <2>1, <2>2, <2>3, <2>4 DEF View
<1>2. CASE ~\E r \in exists : ChannelOf[r] = c
  BY <1>2 DEF View
<1> QED
  BY <1>1, <1>2

LEMMA ViewChanges ==
  ASSUME TypeOK, TypeOK', NEW s \in exists, exists' = exists,
         \A r \in Subs \ {s} : state'[r] = state[r] /\ unsubWaits'[r] = unsubWaits[r]
  PROVE  View' = [View EXCEPT ![ChannelOf[s]] = ViewOf(s)']
<1> DEFINE c == ChannelOf[s]
<1>1. s \in Subs /\ c \in Channels
  BY ViewOfItsChannel DEF TypeOK
<1>2. (CHOOSE r \in exists : ChannelOf[r] = c) = s
  BY TheSubscription DEF TypeOK
<1>3. View'[c] = ViewOf(s)'
  BY <1>1, <1>2 DEF View
<1>4. \A d \in Channels : d # c => View'[d] = View[d]
  BY <1>1, ViewElsewhere
<1>5. View = [d \in Channels |-> View[d]] /\ View' = [d \in Channels |-> View'[d]]
  BY DEF View
<1> HIDE DEF c
<1> QED
  BY <1>1, <1>3, <1>4, <1>5 DEF c

\* A step that is not about one leaves every view as it is.
LEMMA ViewStays ==
  ASSUME exists' = exists, state' = state, unsubWaits' = unsubWaits
  PROVE  View' = View
  BY DEF View, ViewOf

\* Making and removing a subscription that is off does not show.
LEMMA NewIsOff ==
  ASSUME PatientInv, PatientInv', InFirstSession, NEW s \in Subs,
         NewSubscription(s) \/ (Patient(s) /\ RemoveSubscription(s))
  PROVE  View' = View
<1>1. TypeOK /\ TypeOK' /\ Lives
  BY DEF PatientInv, IInv
<1>2. state' = state /\ \A r \in Subs \ {s} : unsubWaits'[r] = unsubWaits[r]
  BY <1>1 DEF NewSubscription, RemoveSubscription, TypeOK
<1>3. /\ exists \ {s} = exists' \ {s}
      /\ \A r \in exists \cup exists' : ChannelOf[r] = ChannelOf[s] => r = s
  BY <1>1 DEF NewSubscription, RemoveSubscription, TypeOK
<1>4. ViewOf(s) = "off" /\ ViewOf(s)' = "off"
  BY <1>1, <1>2 DEF NewSubscription, RemoveSubscription, Patient, ViewOf, TypeOK,
     Lives, Off, Awaits
<1>5. View[ChannelOf[s]] = "off" \/ ChannelOf[s] \notin Channels
  <2>1. s \in exists => View[ChannelOf[s]] = "off"
    BY <1>1, <1>4, ViewOfItsChannel
  <2>2. s \notin exists => View[ChannelOf[s]] = "off" \/ ChannelOf[s] \notin Channels
    BY <1>3 DEF View
  <2> QED
    BY <2>1, <2>2
<1>6. View'[ChannelOf[s]] = "off" \/ ChannelOf[s] \notin Channels
  <2>1. CASE s \in exists'
    <3>1. (CHOOSE r \in exists' : ChannelOf[r] = ChannelOf[s]) = s
      BY <1>3, <2>1, TheSubscription
    <3> QED
      BY <1>4, <2>1, <3>1 DEF View
  <2>2. CASE s \notin exists'
    BY <1>3, <2>2 DEF View
  <2> QED
    BY <2>1, <2>2
<1>7. \A c \in Channels : View'[c] = View[c]
  BY <1>1, <1>2, <1>3, <1>5, <1>6, ViewElsewhere
<1> QED
  BY <1>7 DEF View

\* One case per action of the first session; what comes after it is free.
LEMMA PromiseStep ==
  ASSUME Faults \subseteq {"refuse"}, PatientInv, [PatientNext]_vars
  PROVE  [Promise!Next]_(Promise!vars)
<1> USE DEF Promise!vars
<1>1. PatientInv' /\ TypeOK /\ TypeOK'
  BY PatientNextKeepsInv DEF PatientInv, IInv
<1>2. CASE UNCHANGED vars
  <2>1. View' = View
    BY <1>2, ViewStays DEF vars, subVars
  <2>2. UNCHANGED <<sessions, link, served>>
    BY <1>2, SameSession DEF vars
  <2> QED
    BY <2>1, <2>2 DEF InFirstSession
<1>3. CASE ~InFirstSession
  <2>1. sessions \in Nat /\ sessions' \in Nat /\ sessions \in Sessions
    BY <1>1, BoundsAssumption DEF TypeOK, Sessions
  <2>2. \/ UNCHANGED <<sessions, links>>
        \/ sessions' = sessions + 1
        \/ /\ sessions' = sessions
           /\ \E n \in Sessions : ConnectionLost(n) \/ SessionEnds(n)
    BY DEF PatientNext, System, Session, SessionStarts, ConnectionLost, SessionEnds,
       SubTask, Serve, TimesOut, Apply, Kick, ReadKick, NewSubscription, Use, Subscribe,
       Unsubscribe, RemoveSubscription, vars, sessionVars
  <2>3. ASSUME NEW n \in Sessions, ConnectionLost(n) \/ SessionEnds(n)
        PROVE  links'[sessions] = links[sessions] \/ links'[sessions] # "live"
    BY <1>1, <2>3 DEF ConnectionLost, SessionEnds, TypeOK
  <2>4. \/ sessions' = sessions /\ (link' = link \/ link' # "live")
        \/ sessions' = sessions + 1
    BY <2>2, <2>3 DEF link
  <2>5. ~InFirstSession'
    BY <1>3, <2>1, <2>4 DEF InFirstSession
  <2> QED
    BY <1>3, <2>5 DEF Promise!Next, Promise!After
<1>4. CASE InFirstSession /\ PatientNext
  <2>1. Lives /\ \A s \in exists : s \in Subs /\ Life(s)
    BY <1>1, <1>4 DEF PatientInv, Lives, TypeOK
  <2>2. ASSUME NEW n \in Sessions, ConnectionLost(n) \/ SessionEnds(n)
        PROVE  [Promise!Next]_(Promise!vars)
    <3>1. links[n] # "down" /\ links'[n] # "live" /\ sessions' = sessions
      BY <1>1, <2>2 DEF ConnectionLost, SessionEnds, TypeOK
    <3>2. n = sessions /\ sessions \in Nat /\ sessions # 0
      BY <1>1, <1>4, <3>1, TheSession, PatientTypes DEF InFirstSession, TypeOK
    <3>3. ~InFirstSession'
      BY <1>4, <3>1, <3>2 DEF InFirstSession, link
    <3> QED
      BY <1>4, <3>3 DEF Promise!Next, Promise!End, InFirstSession
  <2>3. ASSUME SessionStarts PROVE [Promise!Next]_(Promise!vars)
    <3>1. View' = View
      BY <2>3, ViewStays DEF SessionStarts, subVars
    <3>2. CASE InFirstSession'
      <4>1. sessions = 0
        BY <1>1, <2>3, <3>2, PatientTypes DEF SessionStarts, InFirstSession
      <4>2. served' = served
        BY <1>1, <2>3, <4>1, FirstStarts
      <4> QED
        BY <1>4, <3>1, <3>2, <4>2
    <3>3. CASE ~InFirstSession'
      BY <1>4, <3>3 DEF Promise!Next, Promise!End, InFirstSession
    <3> QED
      BY <3>2, <3>3
  <2>4. ASSUME sessions' = sessions, link' = link PROVE InFirstSession' /\ InFirstSession
    BY <1>4, <2>4 DEF InFirstSession
  <2>5. ASSUME NEW n \in Sessions, SubTask(n) PROVE [Promise!Next]_(Promise!vars)
    <3>1. UNCHANGED <<subVars, sessions, link, served>>
      BY <1>1, <1>4, <2>5, SubTaskIsHere DEF SubTaskHere, InFirstSession
    <3>2. View' = View
      BY <3>1, ViewStays DEF subVars
    <3> QED
      BY <2>4, <3>1, <3>2
  <2>6. ASSUME NEW s \in Subs,
               NewSubscription(s) \/ (Patient(s) /\ RemoveSubscription(s))
        PROVE  [Promise!Next]_(Promise!vars)
    <3>1. View' = View
      BY <1>1, <1>4, <2>6, NewIsOff
    <3>2. UNCHANGED <<sessions, link, served>>
      BY <2>6, SameSession DEF NewSubscription, RemoveSubscription
    <3> QED
      BY <2>4, <3>1, <3>2
  <2>7. ASSUME NEW s \in Subs, Patient(s), Subscribe(s) PROVE Promise!Join(ChannelOf[s])
    <3>1. s \in exists /\ UNCHANGED <<exists, link, sessions, served>>
      BY <2>7 DEF Subscribe, link, served
    <3>2. Off(s) /\ ~IsServed(s)
      BY <2>1, <2>7, <3>1 DEF Subscribe, Patient, Life, Asked, Joining, Stuck, On,
                              AskedToLeave, Leaving, Awaits
    <3>3. /\ \A r \in Subs \ {s} : /\ state'[r] = state[r]
                                  /\ unsubWaits'[r] = unsubWaits[r]
          /\ ViewOf(s)' = "joining"
      BY <1>1, <2>7 DEF Subscribe, move_to_subscribing, TypeOK, ViewOf
    <3>4. View' = [View EXCEPT ![ChannelOf[s]] = "joining"]
      BY <1>1, <3>1, <3>3, ViewChanges
    <3>5. View[ChannelOf[s]] = "off"
      BY <1>1, <2>7, <3>1, <3>2, ViewOfItsChannel, ViewOfStage
    <3> QED
      BY <2>4, <3>1, <3>2, <3>4, <3>5 DEF Promise!Join, Promise!See, IsServed
  <2>8. ASSUME NEW s \in Subs, Patient(s), Unsubscribe(s) PROVE Promise!Leave(ChannelOf[s])
    <3>1. s \in exists /\ UNCHANGED <<exists, link, sessions, served>>
      BY <2>8 DEF Unsubscribe, link, served
    <3>2. On(s)
      BY <2>1, <2>8, <3>1 DEF Unsubscribe, Patient, Life, Off, Asked, Joining, Stuck,
                              AskedToLeave, Leaving, Awaits
    <3>3. /\ \A r \in Subs \ {s} : /\ state'[r] = state[r]
                                  /\ unsubWaits'[r] = unsubWaits[r]
          /\ ViewOf(s)' = "leaving"
      BY <1>1, <2>8 DEF Unsubscribe, move_to_unsubscribed, TypeOK, ViewOf
    <3>4. View' = [View EXCEPT ![ChannelOf[s]] = "leaving"]
      BY <1>1, <3>1, <3>3, ViewChanges
    <3>5. View[ChannelOf[s]] = "on"
      BY <1>1, <2>8, <3>1, <3>2, ViewOfItsChannel, ViewOfStage
    <3> QED
      BY <2>4, <3>1, <3>2, <3>4, <3>5 DEF Promise!Leave, Promise!See, On, IsServed
  <2>9. ASSUME NEW k \in Slots, Serve(k) PROVE [Promise!Next]_(Promise!vars)
    <3>0. ServeHere(k)
      BY <1>1, <1>4, <2>9, ServeIsHere DEF InFirstSession
    <3>1. Running(k) /\ ~tasks[k].sent
      BY <2>9 DEF Serve
    <3>2. PICK s \in exists :
          /\ s = tasks[k].sub
          /\ \/ Joining(s) /\ tasks[k].kind = "subscribe"
             \/ Leaving(s) /\ tasks[k].kind = "unsubscribe"
      BY <1>1, <2>1, <3>1, TheTask
    <3>3. View' = View
      BY <3>0, ViewStays DEF ServeHere, subVars
    <3>4. ChannelOf[s] \in Channels /\ View[ChannelOf[s]] = ViewOf(s)
      BY <1>1, ViewOfItsChannel
    <3>5. InFirstSession' /\ InFirstSession
      BY <2>4, <3>0 DEF ServeHere
    <3>6. CASE served' = served
      BY <3>3, <3>5, <3>6
    <3>7. CASE Joining(s) /\ served' = served \cup {ChannelOf[s]}
      <4>1. Promise!Admit(ChannelOf[s])
        BY <2>1, <3>3, <3>4, <3>5, <3>7, ViewOfStage DEF Promise!Admit
      <4> QED
        BY <3>4, <3>5, <4>1 DEF Promise!Next
    <3>8. CASE Leaving(s) /\ served' = served \ {ChannelOf[s]}
      <4>1. Promise!Dismiss(ChannelOf[s])
        BY <2>1, <3>3, <3>4, <3>5, <3>8, ViewOfStage DEF Promise!Dismiss
      <4> QED
        BY <3>4, <3>5, <4>1 DEF Promise!Next
    <3> QED
      BY <3>0, <3>2, <3>6, <3>7, <3>8 DEF ServeHere
  <2>10. ASSUME NEW k \in Slots, Apply(k) PROVE [Promise!Next]_(Promise!vars)
    <3>1. Running(k) /\ tasks[k].reply # "none"
      BY <2>10 DEF Apply
    <3>2. PICK s \in exists :
          /\ s = tasks[k].sub
          /\ \/ /\ Joining(s) /\ tasks[k].kind = "subscribe"
                /\ tasks[k].reply = "ok" /\ IsServed(s)
             \/ /\ Joining(s) /\ tasks[k].kind = "subscribe"
                /\ tasks[k].reply = "err" /\ ~IsServed(s)
             \/ Leaving(s) /\ tasks[k].kind = "unsubscribe" /\ ~IsServed(s)
      BY <1>1, <2>1, <3>1, TheTask
    <3>3. s \in Subs /\ UNCHANGED <<exists, served, sessions, link>>
      BY <2>1, <2>10, SameSession DEF Apply
    <3>4. InFirstSession' /\ InFirstSession
      BY <2>4, <3>3
    <3>5. ChannelOf[s] \in Channels /\ View[ChannelOf[s]] = ViewOf(s)
      BY <1>1, ViewOfItsChannel
    <3>6. \A r \in Subs \ {s} : state'[r] = state[r] /\ unsubWaits'[r] = unsubWaits[r]
      BY <1>1, <2>10, <3>2 DEF Apply, move_to_subscribed, move_to_unsubscribed, TypeOK
    <3>7. View' = [View EXCEPT ![ChannelOf[s]] = ViewOf(s)']
      BY <1>1, <3>3, <3>6, ViewChanges
    <3>8. ASSUME Joining(s), tasks[k].kind = "subscribe", tasks[k].reply = "ok",
                 IsServed(s)
          PROVE  Promise!Joined(ChannelOf[s])
      <4>1. ViewOf(s) = "joining"
        BY <3>3, <3>8, ViewOfStage
      <4>2. ViewOf(s)' = "on"
        BY <1>1, <2>10, <3>2, <3>3, <3>8 DEF Apply, move_to_subscribed, TypeOK, ViewOf
      <4> QED
        BY <3>3, <3>4, <3>5, <3>7, <3>8, <4>1, <4>2
           DEF Promise!Joined, Promise!See, IsServed
    <3>9. ASSUME Joining(s), tasks[k].kind = "subscribe", tasks[k].reply = "err",
                 ~IsServed(s)
          PROVE  Promise!Refused(ChannelOf[s])
      <4>1. ViewOf(s) = "joining" /\ ~unsubWaits[s]
        BY <3>3, <3>9, ViewOfStage DEF Joining, Awaits
      <4>2. ViewOf(s)' = "off"
        BY <1>1, <2>10, <3>2, <3>3, <3>9, <4>1
           DEF Apply, move_to_unsubscribed, TypeOK, ViewOf
      <4> QED
        BY <3>3, <3>4, <3>5, <3>7, <3>9, <4>1, <4>2
           DEF Promise!Refused, Promise!See, IsServed
    <3>10. ASSUME Leaving(s), tasks[k].kind = "unsubscribe", ~IsServed(s)
           PROVE  Promise!Left(ChannelOf[s])
      <4>1. ViewOf(s) = "leaving" /\ state[s] = "Unsubscribed"
        BY <3>3, <3>10, ViewOfStage DEF Leaving
      <4>2. ViewOf(s)' = "off"
        BY <1>1, <2>10, <3>2, <3>3, <3>10, <4>1 DEF Apply, TypeOK, ViewOf
      <4> QED
        BY <3>3, <3>4, <3>5, <3>7, <3>10, <4>1, <4>2
           DEF Promise!Left, Promise!See, IsServed
    <3> QED
      BY <3>2, <3>4, <3>5, <3>8, <3>9, <3>10 DEF Promise!Next
  <2>11. ASSUME NEW s \in Subs, Patient(s), Use(s) PROVE [Promise!Next]_(Promise!vars)
    <3>1. CASE RemoveSubscription(s)
      BY <2>6, <2>11, <3>1
    <3>2. CASE Subscribe(s) \/ Unsubscribe(s)
      <4>1. ChannelOf[s] \in Channels
        BY <1>1, <3>2, ViewOfItsChannel DEF Subscribe, Unsubscribe
      <4> QED
        BY <1>4, <2>7, <2>8, <2>11, <3>2, <4>1 DEF Promise!Next
    <3> QED
      BY <2>11, <3>1, <3>2 DEF Use
  <2>12. /\ \A k \in Slots : ~TimesOut(k)
         /\ \A n \in Sessions, c \in Channels : ~Kick(n, c) /\ ~ReadKick(n, c)
    BY DEF TimesOut, Kick, ReadKick, PatientInv
  <2> QED
    BY <1>4, <2>2, <2>3, <2>5, <2>6, <2>9, <2>10, <2>11, <2>12
       DEF PatientNext, System, Session
<1> QED
  BY <1>2, <1>3, <1>4

-----------------------------------------------------------------------------
(* The theorems.                                                           *)

\* The types, one subscription per channel, and what may outlive a session
\* (command tasks that will send no more, but no channel, record or
\* subscription on the server), under any use of subscribe(), unsubscribe() and
\* remove_subscription(), and also when the next session starts before the
\* connection and the subscription task of the last one have ended.
THEOREM TypeCorrect == Spec => []TypeOK
<1>1. Init => IInv
  BY InitIInv
<1>2. IInv /\ [Next]_vars => IInv'
  BY NextKeepsIInv
<1>3. IInv => TypeOK
  BY DEF IInv
<1> QED
  BY <1>1, <1>2, <1>3, PTL DEF Spec

\* A subscription that is Subscribing during a session is known to the
\* subscription task of the newest session, or about to be (subscribe() and the
\* filling of sub_ch in do_connection_cycle), whatever the tasks of earlier
\* sessions do at the same time.
THEOREM SubscribingKnown == Spec => []SubscribingIsKnown
<1>1. Init => IInv
  BY InitIInv
<1>2. IInv /\ [Next]_vars => IInv'
  BY NextKeepsIInv
<1>3. IInv => SubscribingIsKnown
  BY DEF IInv
<1> QED
  BY <1>1, <1>2, <1>3, PTL DEF Spec

\* The stages of a subscription under patient use, up to the end of the first
\* session, when nothing fails but that the server may refuse to subscribe:
\* none but these is ever reached.
THEOREM PatientInvariance ==
  ASSUME Faults \subseteq {"refuse"}
  PROVE  PatientSpec => []PatientInv
<1>1. Init => PatientInv
  BY InitPatientInv
<1>2. PatientInv /\ [PatientNext]_vars => PatientInv'
  BY PatientNextKeepsInv
<1> QED
  BY <1>1, <1>2, PTL DEF PatientSpec

\* The free-standing command tasks of patient use never reach the server in an
\* order in which it is asked to subscribe twice, refusals included.  (With
\* MaxSessions = 1, as in the run, sessions <= 1 always.)
THEOREM NeverSubscribedTwice ==
  ASSUME Faults \subseteq {"refuse"}
  PROVE  PatientSpec => [](sessions <= 1 => NoDoubleSubscribe)
<1>1. PatientInv => (sessions <= 1 => NoDoubleSubscribe)
  BY InvariantImplies
<1>2. PatientSpec => []PatientInv
  BY PatientInvariance
<1> QED
  BY <1>1, <1>2, PTL

\* What the server serves is in the subscription task's subscribed_channels, or
\* the command that ends it is on its way, also when the subscription has been
\* removed and its channel has another.
THEOREM NothingServedLeaks ==
  ASSUME Faults \subseteq {"refuse"}
  PROVE  PatientSpec => [](sessions <= 1 => ServedIsOnRecord)
<1>1. PatientInv => (sessions <= 1 => ServedIsOnRecord)
  BY InvariantImplies
<1>2. PatientSpec => []PatientInv
  BY PatientInvariance
<1> QED
  BY <1>1, <1>2, PTL

\* When nothing is under way for a subscription, the client's state, its store
\* for publications and the server agree, and no call is left waiting.  A
\* refusal can break this: subscribe() after it is never sent.
THEOREM AgreementInFirstSession ==
  ASSUME Faults = {}
  PROVE  PatientSpec => [](sessions <= 1 => Agreement)
<1>1. PatientInv => (sessions <= 1 => Agreement)
  BY InvariantAgrees DEF MayRefuse
<1>2. PatientSpec => []PatientInv
  BY PatientInvariance
<1> QED
  BY <1>1, <1>2, PTL

\* Subscriptions implement Membership: for each channel, whichever subscription
\* it has, the calls of a patient application and the server's steps alternate,
\* until the connection of the first session ends.
THEOREM PromiseIsKept ==
  ASSUME Faults \subseteq {"refuse"}
  PROVE  PatientSpec => PromiseKept
<1>1. Init => Promise!Init
  <2> SUFFICES ASSUME Init PROVE Promise!Init
    OBVIOUS
  <2>1. View = [c \in Channels |-> "off"]
    BY DEF Init, View
  <2>2. sessions = 0 /\ served = {}
    BY BoundsAssumption DEF Init, Sessions, served
  <2> QED
    BY <2>1, <2>2 DEF InFirstSession, Promise!Init
<1>2. PatientInv /\ [PatientNext]_vars => [Promise!Next]_(Promise!vars)
  BY PromiseStep
<1>3. PatientSpec => []PatientInv
  BY PatientInvariance
<1> QED
  BY <1>1, <1>2, <1>3, PTL DEF PatientSpec, PromiseKept, Promise!Spec

=============================================================================
