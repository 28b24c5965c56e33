------------------------------ MODULE Conversions ------------------------------
(***************************************************************************)
(* The conversions of protocol/mod.rs between the enums the program works  *)
(* with (Command, Reply, Push) and the structs that go over the wire       *)
(* (RawCommand, RawReply, RawPush).  A struct has one optional field for   *)
(* each kind of message; a well-formed one has at most one of them.        *)
(*                                                                         *)
(* An enum's value is a record of a kind, which is the name of its field,  *)
(* and a body.  Bodies are opaque, except that of a push within a reply.   *)
(* The id that commands and replies also have is set and read by the       *)
(* callers.                                                                *)
(***************************************************************************)
EXTENDS Functions, Naturals, Sequences

CONSTANTS
    Body,     \* what the fields may hold
    Channel   \* the channels of pushes

\* Option<T>.
None    == <<>>
Some(b) == <<b>>

Option(S) == {None} \cup {Some(b) : b \in S}

\* The fields of each struct, in the order in which they are looked at.
CommandFields ==
    <<"connect", "subscribe", "unsubscribe", "publish", "presence",
      "presence_stats", "history", "ping", "send", "rpc", "refresh",
      "sub_refresh">>

ReplyFields ==
    <<"error", "push", "connect", "subscribe", "unsubscribe", "publish",
      "presence", "presence_stats", "history", "ping", "rpc", "refresh",
      "sub_refresh">>

PushFields ==
    <<"publication", "join", "leave", "unsubscribe", "message", "subscribe",
      "connect", "disconnect", "refresh">>

\* The values of an enum, with bodies of S, and those of its struct.
Empty == [kind |-> "empty", body |-> None]

Enum(fields, S) == [kind : Range(fields), body : S] \cup {Empty}

Struct(fields, S) == [Range(fields) -> Option(S)]

-----------------------------------------------------------------------------

\* From the enum: its own field is set, if it has one, and no other.
Fields(fields, v) ==
    [f \in Range(fields) |-> IF f = v.kind THEN Some(v.body) ELSE None]

\* To the enum: the i-th field is the first that is set.
Wins(fields, raw, i) ==
    /\ i \in DOMAIN fields /\ raw[fields[i]] # None
    /\ \A j \in 1..(i - 1) : raw[fields[j]] = None

FirstOf(fields, raw) ==
    IF \E i \in DOMAIN fields : Wins(fields, raw, i)
    THEN LET i == CHOOSE i \in DOMAIN fields : Wins(fields, raw, i)
         IN  [kind |-> fields[i], body |-> raw[fields[i]][1]]
    ELSE Empty

RawOfCommand(v) == Fields(CommandFields, v)
CommandOf(raw)  == FirstOf(CommandFields, raw)

\* A push also names its channel.
Push    == [channel : Channel, data : Enum(PushFields, Body)]
RawPush == [channel : Channel, fields : Struct(PushFields, Body)]

RawOfPush(v) == [channel |-> v.channel, fields |-> Fields(PushFields, v.data)]
PushOf(raw)  == [channel |-> raw.channel, data |-> FirstOf(PushFields, raw.fields)]

\* The push of a reply is converted as well.
Reply ==
    {v \in Enum(ReplyFields, Body \cup Push) : v.kind = "push" <=> v.body \in Push}

RawOfReply(v) ==
    IF v.kind = "push"
    THEN Fields(ReplyFields, [v EXCEPT !.body = RawOfPush(@)])
    ELSE Fields(ReplyFields, v)

ReplyOf(raw) ==
    LET v == FirstOf(ReplyFields, raw)
    IN  IF v.kind = "push" THEN [v EXCEPT !.body = PushOf(@)] ELSE v

=============================================================================
