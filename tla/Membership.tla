------------------------------ MODULE Membership ------------------------------
(***************************************************************************)
(* What subscriptions promise to an application that awaits its calls: for *)
(* each channel, client and server go through joining and leaving in turn, *)
(* and the client takes a step only after the server's, as long as their   *)
(* connection lasts.  Subscriptions is shown to implement it.              *)
(***************************************************************************)
CONSTANT Channels

VARIABLES
    view,       \* how the application sees each channel
    members,    \* the channels that the server serves
    open        \* the connection has not ended

vars == <<view, members, open>>

Views == {"off", "joining", "on", "leaving"}

TypeOK ==
    /\ view \in [Channels -> Views]
    /\ members \subseteq Channels
    /\ open \in BOOLEAN

Init ==
    /\ view = [c \in Channels |-> "off"]
    /\ members = {}
    /\ open = TRUE

See(c, before, after) ==
    /\ view[c] = before
    /\ view' = [view EXCEPT ![c] = after]
    /\ UNCHANGED <<members, open>>

\* The application's calls, the first only of what the server does not serve.
Join(c)  == c \notin members /\ See(c, "off", "joining")
Leave(c) == c \in members /\ See(c, "on", "leaving")

\* The calls resolve: a call to join also when it was refused.
Joined(c)  == c \in members /\ See(c, "joining", "on")
Refused(c) == c \notin members /\ See(c, "joining", "off")
Left(c)    == c \notin members /\ See(c, "leaving", "off")

\* The server does what it is asked to.
Admit(c) ==
    /\ view[c] = "joining"
    /\ members' = members \cup {c}
    /\ UNCHANGED <<view, open>>

Dismiss(c) ==
    /\ view[c] = "leaving"
    /\ members' = members \ {c}
    /\ UNCHANGED <<view, open>>

\* The connection ends; there is no promise about what follows.
End   == open /\ open' = FALSE
After == ~open /\ open' = FALSE

Next ==
    \/ /\ open
       /\ \E c \in Channels :
             \/ Join(c) \/ Joined(c) \/ Refused(c)
             \/ Leave(c) \/ Left(c)
             \/ Admit(c) \/ Dismiss(c)
    \/ End
    \/ After

Spec == Init /\ [][Next]_vars

=============================================================================
