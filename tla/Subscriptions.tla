---------------------------- MODULE Subscriptions ----------------------------
(***************************************************************************)
(* The client's subscriptions (subscription.rs and the subscription task   *)
(* of do_connection_cycle in client.rs), over one or more sessions.  A     *)
(* session is what a cycle runs from Connected on: a connection and the    *)
(* tasks of its join set.  The next may begin before it is over, as cycles *)
(* overlap (see ClientConnection).                                         *)
(*                                                                         *)
(* subscribe() and unsubscribe() only change the subscription's state and  *)
(* put its id into a channel.  The session's subscription task turns ids   *)
(* into commands: it compares the state with its own set of channels it    *)
(* has subscribed to, and spawns a free-standing task per command, which   *)
(* sends it, awaits the reply and then changes the state again.  Nothing   *)
(* orders these tasks, and they outlive the session.                       *)
(*                                                                         *)
(* Callbacks and publications are left out.  That a command is sent and    *)
(* that the server handles it is one step: what runs between the two keeps *)
(* the order.                                                              *)
(***************************************************************************)
EXTENDS FiniteSetsExt, Naturals, SequencesExt

CONSTANTS
    Subs,          \* subscription ids, which are never used again
    ChannelOf,     \* the channel of each
    Slots,         \* bound: the command tasks alive at the same time
    QueueBound,    \* bound: ids in the channels to the subscription tasks
    MaxSessions,   \* bound: the sessions of the client's life
    Faults         \* what else may happen: see below

ASSUME ChannelsAssumption ==
    Subs \subseteq Nat /\ IsFiniteSet(Subs) /\ DOMAIN ChannelOf = Subs

ASSUME BoundsAssumption == QueueBound \in Nat /\ MaxSessions \in Nat

Channels == Range(ChannelOf)

\* The sessions in their order.  Session 0 never was: it stands for the one to
\* which the client turns before the first.
Sessions == 0..MaxSessions

\* "refuse": the server answers Subscribe with an error; "silence": a command
\* times out; "kick": the server ends a subscription.
ASSUME FaultsAssumption == Faults \subseteq {"refuse", "silence", "kick"}

VARIABLES
    made,        \* the ids handed out so far
    exists,      \* the ids in ClientInner.subscriptions (and sub_name_to_id)
    state,       \* SubscriptionInner.state
    pubStore,    \* SubscriptionInner.pub_ch_write.is_some()
    subWaits,    \* on_subscribed_ch is not empty
    unsubWaits,  \* on_unsubscribed_ch is not empty
    sessions,    \* how many sessions there have been; of the last of them is
                 \* ClientInner.sub_ch_write
    links,       \* "live": the session is on; "lost": its connection is gone
                 \* but its subscription task still runs; "down": neither
    subChs,      \* the ids in each session's sub_ch channel
    records,     \* the subscribed_channels of its subscription task
    serving,     \* the channels the server holds as subscribed for it
    pushes,      \* the channels of Unsubscribe pushes on their way
    tasks        \* the command tasks

subVars     == <<made, exists, state, pubStore, subWaits, unsubWaits>>
sessionVars == <<sessions, links, subChs, records, serving, pushes>>
vars        == <<subVars, sessionVars, tasks>>

\* The current session's.
link       == links[sessions]
subCh      == subChs[sessions]
subscribed == records[sessions]
served     == serving[sessions]

\* A command task: what for, in which session, whether the server is still to
\* get its command, and what its reply channel has delivered ("applied" once
\* it was used).
NoTask == [kind |-> "none"]
TaskSet == [kind : {"subscribe", "unsubscribe"}, sub : Subs, session : Sessions,
            sent : BOOLEAN, reply : {"none", "ok", "err", "applied"}]
Running(k) == tasks[k] # NoTask

\* The values the variables take; a channel has one subscription at a time;
\* and nothing of a session outlives it but command tasks that will send no
\* more, whatever other sessions there are.
TypeOK ==
    /\ exists \subseteq made /\ made \subseteq Subs
    /\ \A s, r \in exists : ChannelOf[s] = ChannelOf[r] => s = r
    /\ state \in [Subs -> {"Unsubscribed", "Subscribing", "Subscribed"}]
    /\ pubStore \in [Subs -> BOOLEAN]
    /\ subWaits \in [Subs -> BOOLEAN]
    /\ unsubWaits \in [Subs -> BOOLEAN]
    /\ sessions \in Sessions
    /\ links \in [Sessions -> {"down", "live", "lost"}]
    /\ subChs \in [Sessions -> Seq(Subs)]
    /\ records \in [Sessions -> SUBSET Subs]
    /\ serving \in [Sessions -> SUBSET Channels]
    /\ pushes \in [Sessions -> SUBSET Channels]
    /\ tasks \in [Slots -> TaskSet \cup {NoTask}]
    /\ \A n \in Sessions :
          /\ links[n] # "down" => n \in 1..sessions
          /\ links[n] = "down" => subChs[n] = <<>> /\ records[n] = {}
          /\ links[n] # "live" => serving[n] = {} /\ pushes[n] = {}
    /\ \A k \in Slots : Running(k) =>
          /\ tasks[k].session \in 1..sessions
          /\ links[tasks[k].session] # "live" => tasks[k].sent

Init ==
    /\ made = {}
    /\ exists = {}
    /\ state = [s \in Subs |-> "Unsubscribed"]
    /\ pubStore = [s \in Subs |-> FALSE]
    /\ subWaits = [s \in Subs |-> FALSE]
    /\ unsubWaits = [s \in Subs |-> FALSE]
    /\ sessions = 0
    /\ links = [n \in Sessions |-> "down"]
    /\ subChs = [n \in Sessions |-> <<>>]
    /\ records = [n \in Sessions |-> {}]
    /\ serving = [n \in Sessions |-> {}]
    /\ pushes = [n \in Sessions |-> {}]
    /\ tasks = [k \in Slots |-> NoTask]

move_to_subscribing(s) ==
    /\ state' = [state EXCEPT ![s] = "Subscribing"]
    /\ pubStore' = [pubStore EXCEPT ![s] = TRUE]

move_to_subscribed(s) ==
    /\ state' = [state EXCEPT ![s] = "Subscribed"]
    /\ UNCHANGED pubStore

\* A faulty move that leaves the store for publications behind.
move_keeping_store(s) ==
    /\ state' = [state EXCEPT ![s] = "Unsubscribed"]
    /\ UNCHANGED pubStore

move_to_unsubscribed(s) ==
    /\ state' = [state EXCEPT ![s] = "Unsubscribed"]
    /\ pubStore' = [pubStore EXCEPT ![s] = FALSE]

-----------------------------------------------------------------------------
(* The application.                                                        *)

\* A faulty notification that is lost.
Forget(s) == UNCHANGED subChs

\* s is put into session n's channel.
Queue(n, s) ==
    /\ MapThenSumSet(LAMBDA m : Len(subChs[m]), Sessions) < QueueBound
    /\ subChs' = [subChs EXCEPT ![n] = Append(@, s)]

\* A faulty notification that is kept for the next session.
Keep(s) == Queue(sessions, s)

\* channel.send(self.id): into the channel of the last session, which has no
\* receiver any more once that is over.
Notify(s) == IF link # "down" THEN Queue(sessions, s) ELSE UNCHANGED subChs

\* Client::new_subscription, for a channel that has none.  (Of the ids that are
\* left for a channel it is the first.)
NewSubscription(s) ==
    /\ s \in Subs \ made
    /\ \A r \in exists : ChannelOf[r] # ChannelOf[s]
    /\ \A r \in Subs \ made : ChannelOf[r] = ChannelOf[s] => s <= r
    /\ made' = made \cup {s}
    /\ exists' = exists \cup {s}
    /\ UNCHANGED <<state, pubStore, subWaits, unsubWaits, sessionVars, tasks>>

\* Subscription::subscribe.  In another state it only answers Err.
Subscribe(s) ==
    /\ s \in exists /\ state[s] = "Unsubscribed"
    /\ subWaits' = [subWaits EXCEPT ![s] = TRUE]
    /\ move_to_subscribing(s)
    /\ Notify(s)
    /\ UNCHANGED <<made, exists, unsubWaits, sessions, links, records, serving,
                   pushes, tasks>>

\* A faulty unsubscribe that resolves before the server has been told.
UnsubscribeAtOnce(s) ==
    /\ s \in exists /\ state[s] # "Unsubscribed"
    /\ move_to_unsubscribed(s)
    /\ Notify(s)
    /\ UNCHANGED <<made, exists, subWaits, unsubWaits, sessions, links, records,
                   serving, pushes, tasks>>

\* Subscription::unsubscribe.  When Unsubscribed it only resolves.
Unsubscribe(s) ==
    /\ s \in exists /\ state[s] # "Unsubscribed"
    /\ unsubWaits' = [unsubWaits EXCEPT ![s] = TRUE]
    /\ move_to_unsubscribed(s)
    /\ Notify(s)
    /\ UNCHANGED <<made, exists, subWaits, sessions, links, records, serving,
                   pushes, tasks>>

\* Client::remove_subscription
RemoveSubscription(s) ==
    /\ s \in exists /\ state[s] = "Unsubscribed"
    /\ exists' = exists \ {s}
    /\ subWaits' = [subWaits EXCEPT ![s] = FALSE]
    /\ unsubWaits' = [unsubWaits EXCEPT ![s] = FALSE]
    /\ UNCHANGED <<made, state, pubStore, sessionVars, tasks>>

-----------------------------------------------------------------------------
(* The sessions.                                                           *)

\* The subscriptions a new session has to make.
Wanted == {s \in exists : state[s] # "Unsubscribed"}

\* The client becomes Connected: a new channel, filled with all that is not
\* Unsubscribed, and a subscription task that has subscribed to nothing yet.
\* The session before it may still be on, when disconnect() and connect() were
\* called and its cycle has not seen it, but it is told of nothing any more.
SessionStarts ==
    /\ sessions < MaxSessions
    /\ sessions' = sessions + 1
    /\ links' = [links EXCEPT ![sessions'] = "live"]
    /\ subChs' = [subChs EXCEPT ![sessions'] = SetToSeq(Wanted)]
    /\ UNCHANGED <<subVars, records, serving, pushes, tasks>>

\* What becomes of a command task when its command is answered r: the reply
\* arrives, unless the task has stopped waiting for it.
Replied(t, r) ==
    IF t.reply = "applied" THEN NoTask
    ELSE [t EXCEPT !.sent = TRUE, !.reply = IF @ = "none" THEN r ELSE @]

\* Task k is session n's.
OfSession(n, k) == Running(k) /\ tasks[k].session = n

\* The connection is gone: the replies that its tasks await are errors now, and
\* what is still to be sent will not be.
ConnectionLost(n) ==
    /\ links[n] = "live"
    /\ links' = [links EXCEPT ![n] = "lost"]
    /\ serving' = [serving EXCEPT ![n] = {}]
    /\ pushes' = [pushes EXCEPT ![n] = {}]
    /\ tasks' = [k \in Slots |-> IF OfSession(n, k) THEN Replied(tasks[k], "err")
                                                    ELSE tasks[k]]
    /\ UNCHANGED <<subVars, sessions, subChs, records>>

\* The join loop sees it, and drops the subscription task and its channel.
\* The command tasks go on.
SessionEnds(n) ==
    /\ links[n] = "lost"
    /\ links' = [links EXCEPT ![n] = "down"]
    /\ subChs' = [subChs EXCEPT ![n] = <<>>]
    /\ records' = [records EXCEPT ![n] = {}]
    /\ UNCHANGED <<subVars, sessions, serving, pushes, tasks>>

-----------------------------------------------------------------------------
(* A session's subscription task.                                          *)

\* Bound: it stops for want of a slot.
Spawn(kind, n, s) ==
    \E k \in Slots :
        /\ ~Running(k)
        /\ tasks' = [tasks EXCEPT ![k] =
                      [kind |-> kind, sub |-> s, session |-> n,
                       sent |-> links[n] = "lost",
                       reply |-> IF links[n] = "lost" THEN "err" ELSE "none"]]

\* A faulty subscription task that keeps no record of what it subscribed to.
Unmarked(n, s) == UNCHANGED records

\* subscribed_channels.insert(sub_id)
Marked(n, s) == records' = [records EXCEPT ![n] = @ \cup {s}]

\* One id of what recv_many yields, under the mutex.
SubTask(n) ==
    /\ links[n] # "down" /\ subChs[n] # <<>>
    /\ LET s == Head(subChs[n]) IN
          \/ /\ s \in exists \ records[n] /\ state[s] # "Unsubscribed"
             /\ Marked(n, s)
             /\ Spawn("subscribe", n, s)
          \/ /\ s \in exists \cap records[n] /\ state[s] = "Unsubscribed"
             /\ records' = [records EXCEPT ![n] = @ \ {s}]
             /\ Spawn("unsubscribe", n, s)
          \/ /\ \/ s \notin exists
                \/ state[s] # "Unsubscribed" <=> s \in records[n]
             /\ UNCHANGED <<records, tasks>>
    /\ subChs' = [subChs EXCEPT ![n] = Tail(@)]
    /\ UNCHANGED <<subVars, sessions, links, serving, pushes>>

-----------------------------------------------------------------------------
(* A command task, its command and its reply.                              *)

\* The command is sent and the server handles it: Subscribe, which a channel
\* already subscribed to fails, or Unsubscribe, which can't fail.  "refuse"
\* stands for an unknown channel, a limit and the user's handler; "silence"
\* also for a Subscribe whose handler an Unsubscribe aborts.
Serve(k) ==
    /\ Running(k) /\ ~tasks[k].sent
    /\ LET n == tasks[k].session
           c == ChannelOf[tasks[k].sub]
       IN /\ links[n] = "live"
          /\ \/ /\ tasks[k].kind = "subscribe" /\ c \notin serving[n]
                /\ serving' = [serving EXCEPT ![n] = @ \cup {c}]
                /\ tasks' = [tasks EXCEPT ![k] = Replied(@, "ok")]
             \/ /\ tasks[k].kind = "subscribe"
                /\ c \in serving[n] \/ "refuse" \in Faults
                /\ UNCHANGED serving
                /\ tasks' = [tasks EXCEPT ![k] = Replied(@, "err")]
             \/ /\ tasks[k].kind = "unsubscribe"
                /\ serving' = [serving EXCEPT ![n] = @ \ {c}]
                /\ tasks' = [tasks EXCEPT ![k] = Replied(@, "ok")]
    /\ UNCHANGED <<subVars, sessions, links, subChs, records, pushes>>

\* The command's timer elapses.  The server may still handle the command.
TimesOut(k) ==
    /\ "silence" \in Faults
    /\ Running(k) /\ tasks[k].reply = "none"
    /\ links[tasks[k].session] = "live"
    /\ tasks' = [tasks EXCEPT ![k].reply = "err"]
    /\ UNCHANGED <<subVars, sessionVars>>

\* The task locks the mutex with its reply in hand, and is done.  It does not
\* look at the state it changes, nor whether its session is the current one.
Apply(k) ==
    /\ Running(k) /\ tasks[k].reply \in {"ok", "err"}
    /\ LET s == tasks[k].sub IN
          \/ /\ s \in exists /\ tasks[k].kind = "subscribe"
             /\ IF tasks[k].reply = "ok" THEN move_to_subscribed(s)
                                         ELSE move_to_unsubscribed(s)
             /\ subWaits' = [subWaits EXCEPT ![s] = FALSE]
             /\ UNCHANGED unsubWaits
          \/ /\ s \in exists /\ tasks[k].kind = "unsubscribe"
             /\ unsubWaits' = [unsubWaits EXCEPT ![s] = FALSE]
             /\ UNCHANGED <<state, pubStore, subWaits>>
          \/ /\ s \notin exists
             /\ UNCHANGED <<state, pubStore, subWaits, unsubWaits>>
    /\ tasks' = [tasks EXCEPT ![k] = IF @.sent THEN NoTask
                                     ELSE [@ EXCEPT !.reply = "applied"]]
    /\ UNCHANGED <<made, exists, sessionVars>>

\* The server ends a subscription: its stream is over.
Kick(n, c) ==
    /\ "kick" \in Faults
    /\ links[n] = "live" /\ c \in serving[n]
    /\ serving' = [serving EXCEPT ![n] = @ \ {c}]
    /\ pushes' = [pushes EXCEPT ![n] = @ \cup {c}]
    /\ UNCHANGED <<subVars, sessions, links, subChs, records, tasks>>

\* The reader handles the Unsubscribe push: it applies to the subscription the
\* channel has now, if any, whatever its state is.
ReadKick(n, c) ==
    /\ c \in pushes[n]
    /\ pushes' = [pushes EXCEPT ![n] = @ \ {c}]
    /\ \/ \E s \in exists : ChannelOf[s] = c /\ move_to_unsubscribed(s)
       \/ /\ \A s \in exists : ChannelOf[s] # c
          /\ UNCHANGED <<state, pubStore>>
    /\ UNCHANGED <<made, exists, subWaits, unsubWaits, sessions, links, subChs,
                   records, serving, tasks>>

-----------------------------------------------------------------------------

Session(n) ==
    \/ ConnectionLost(n)
    \/ SessionEnds(n)
    \/ SubTask(n)
    \/ \E c \in Channels : Kick(n, c) \/ ReadKick(n, c)

System ==
    \/ SessionStarts
    \/ \E n \in Sessions : Session(n)
    \/ \E k \in Slots : Serve(k) \/ TimesOut(k) \/ Apply(k)

\* Any use of the API.
Use(s) == Subscribe(s) \/ Unsubscribe(s) \/ RemoveSubscription(s)

Next == System \/ \E s \in Subs : NewSubscription(s) \/ Use(s)

\* Patient use: each future is awaited before the next call on its
\* subscription.
Patient(s) == ~subWaits[s] /\ ~unsubWaits[s]

PatientNext ==
    System \/ \E s \in Subs : NewSubscription(s) \/ (Patient(s) /\ Use(s))

\* Tasks that can run are run, and the server handles what it is sent.
Fairness ==
    /\ \A n \in Sessions : WF_vars(SubTask(n))
    /\ \A k \in Slots : WF_vars(Serve(k)) /\ WF_vars(Apply(k))

Spec        == Init /\ [][Next]_vars /\ Fairness
PatientSpec == Init /\ [][PatientNext]_vars /\ Fairness

-----------------------------------------------------------------------------
(* Properties of any use.                                                  *)

Queued(s) == s \in Range(subCh)

\* While the last session lasts, a subscription that is Subscribing is on its
\* way to its subscription task, or the task has it on record: no order of
\* calls, replies, pushes and sessions loses it in between, also when tasks and
\* pushes of earlier sessions, that are not over yet, change its state.
SubscribingIsKnown ==
    \A s \in exists :
        link # "down" /\ state[s] = "Subscribing"
            => Queued(s) \/ s \in subscribed

-----------------------------------------------------------------------------
(* Properties of patient use within one session, when the server neither   *)
(* refuses, ends a subscription nor lets a command time out.               *)

\* Nothing is under way for the subscription.
Settled(s) ==
    /\ link = "live" /\ ~Queued(s)
    /\ \A k \in Slots : Running(k) => tasks[k].sub # s

\* When nothing is under way, client and server agree, no call is left
\* waiting, and publish() has a store to put its message into exactly if
\* the subscription is on.
Agreement ==
    \A s \in made : Settled(s) =>
        /\ state[s] = "Subscribed" <=> s \in exists /\ ChannelOf[s] \in served
        /\ state[s] = "Subscribed" <=> pubStore[s]
        /\ state[s] # "Subscribing"
        /\ Patient(s)

\* The server is never asked to subscribe to what it has subscribed to:
\* subscribe() and unsubscribe() commands can't overtake each other.
NoDoubleSubscribe ==
    \A k \in Slots :
        Running(k) /\ tasks[k].kind = "subscribe" /\ ~tasks[k].sent
            => ChannelOf[tasks[k].sub] \notin served

\* What the server serves, the session's subscription task has on record,
\* or is about to end: no subscription leaks.
ServedIsOnRecord ==
    \A c \in served :
        \/ \E s \in subscribed : ChannelOf[s] = c
        \/ \E k \in Slots : /\ Running(k) /\ ChannelOf[tasks[k].sub] = c
                            /\ tasks[k].kind = "unsubscribe" /\ ~tasks[k].sent

\* How the application sees a channel: by the subscription it has, if any.  A
\* subscription that is Unsubscribed is leaving until unsubscribe() resolves.
ViewOf(s) ==
    CASE state[s] = "Subscribing" -> "joining"
      [] state[s] = "Subscribed" -> "on"
      [] OTHER -> IF unsubWaits[s] THEN "leaving" ELSE "off"

View ==
    [c \in Channels |->
        IF \E s \in exists : ChannelOf[s] = c
        THEN ViewOf(CHOOSE s \in exists : ChannelOf[s] = c) ELSE "off"]

\* The first session has not lost its connection, or not even begun, and has
\* no successor.
InFirstSession == sessions <= 1 /\ (sessions = 1 => link = "live")

Promise == INSTANCE Membership
           WITH view <- View, members <- served, open <- InFirstSession

\* For each channel, client and server join and leave in turn: whatever order
\* its command tasks run in, and whichever subscription it has at the time, a
\* call resolves only after the server's step, and the server takes one only
\* while a call is waiting for it.
PromiseKept == Promise!Spec

-----------------------------------------------------------------------------
(* What the comment on FutureResult promises: "this is a regular future    *)
(* which you can poll to get result" (client.rs).                          *)

\* subscribe() resolves, as long as the connection lasts.
SubscribeResolves ==
    \A s \in Subs : subWaits[s] ~> ~subWaits[s] \/ link # "live"

\* unsubscribe() resolves, as long as the connection lasts.
UnsubscribeResolves ==
    \A s \in Subs : unsubWaits[s] ~> ~unsubWaits[s] \/ link # "live"

=============================================================================
