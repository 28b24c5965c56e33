---------------------------- MODULE RequestReply ----------------------------
(***************************************************************************)
(* What a connection promises to those who send requests through it: each  *)
(* request gets one answer, the first one stands, and the connection does  *)
(* not end before the last one is given.  WebSocketHandler and Server are  *)
(* shown to implement it.                                                  *)
(***************************************************************************)
CONSTANTS
    Requests,   \* the requests of one connection
    Answers     \* what a request can come to

VARIABLES
    outcome,    \* what each request has come to
    open        \* the connection has not ended

vars == <<outcome, open>>

TypeOK ==
    /\ outcome \in [Requests -> {"idle", "pending"} \cup Answers]
    /\ open \in BOOLEAN

Init ==
    /\ outcome = [r \in Requests |-> "idle"]
    /\ open = TRUE

\* A request is handed over; too late, it is answered at once.
Submit(r) ==
    /\ outcome[r] = "idle"
    /\ \/ open /\ outcome' = [outcome EXCEPT ![r] = "pending"]
       \/ \E a \in Answers : outcome' = [outcome EXCEPT ![r] = a]
    /\ UNCHANGED open

\* Some of the pending requests are answered, and no other.
Answer ==
    /\ \A r \in Requests :
          \/ outcome'[r] = outcome[r]
          \/ outcome[r] = "pending" /\ outcome'[r] \in Answers
    /\ outcome' \in [Requests -> {"idle", "pending"} \cup Answers]
    /\ UNCHANGED open

\* The connection ends, and leaves no request pending.
End ==
    /\ open
    /\ open' = FALSE
    /\ \A r \in Requests :
          IF outcome[r] = "pending" THEN outcome'[r] \in Answers
                                    ELSE outcome'[r] = outcome[r]
    /\ outcome' \in [Requests -> {"idle", "pending"} \cup Answers]

Next == (\E r \in Requests : Submit(r)) \/ Answer \/ End

Spec == Init /\ [][Next]_vars

=============================================================================
