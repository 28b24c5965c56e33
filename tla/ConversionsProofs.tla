--------------------------- MODULE ConversionsProofs ---------------------------
(***************************************************************************)
(* What the conversions of protocol/mod.rs preserve, for every message.    *)
(*                                                                         *)
(* A conversion there and back is the identity because no struct has two   *)
(* fields that a value could set, and because the order in which fields    *)
(* are looked at then does not matter.  It matters for structs that the    *)
(* program did not make itself: the first field wins.                      *)
(***************************************************************************)
EXTENDS Conversions, QueueLemmas

\* No field has two places in its order, and none is called "empty".
Distinct(fields) ==
    /\ \E n \in Nat : DOMAIN fields = 1..n
    /\ \A i, j \in DOMAIN fields : fields[i] = fields[j] => i = j
    /\ \A i \in DOMAIN fields : fields[i] # "empty"

\* The fields of RawCommand are distinct.
LEMMA CommandFieldsDistinct == Distinct(CommandFields)
<1>1. DOMAIN CommandFields = 1..12
  BY DEF CommandFields
<1>2. \A i \in 1..12 : CommandFields[i] # "empty"
  BY DEF CommandFields
<1>3. \A i, j \in 1..12 : CommandFields[i] = CommandFields[j] => i = j
  BY DEF CommandFields
<1> QED
  BY <1>1, <1>2, <1>3 DEF Distinct

\* The fields of RawReply are distinct.
LEMMA ReplyFieldsDistinct == Distinct(ReplyFields)
<1>1. DOMAIN ReplyFields = 1..13
  BY DEF ReplyFields
<1>2. \A i \in 1..13 : ReplyFields[i] # "empty"
  BY DEF ReplyFields
<1>3. \A i, j \in 1..13 : ReplyFields[i] = ReplyFields[j] => i = j
  BY DEF ReplyFields
<1> QED
  BY <1>1, <1>2, <1>3 DEF Distinct

\* The fields of RawPush are distinct.
LEMMA PushFieldsDistinct == Distinct(PushFields)
<1>1. DOMAIN PushFields = 1..9
  BY DEF PushFields
<1>2. \A i \in 1..9 : PushFields[i] # "empty"
  BY DEF PushFields
<1>3. \A i, j \in 1..9 : PushFields[i] = PushFields[j] => i = j
  BY DEF PushFields
<1> QED
  BY <1>1, <1>2, <1>3 DEF Distinct

\* An enum's value that is made a struct is found again: its field is the
\* first that is set, because it is the only one.
LEMMA FirstOfFields ==
  ASSUME NEW fields, Distinct(fields), NEW S, NEW v \in Enum(fields, S)
  PROVE  FirstOf(fields, Fields(fields, v)) = v
<1> DEFINE raw == Fields(fields, v)
<1>1. \A i \in DOMAIN fields :
        raw[fields[i]] = IF fields[i] = v.kind THEN <<v.body>> ELSE <<>>
  BY DEF Fields, Some, None, Range
<1>2. <<v.body>> # <<>> /\ <<v.body>>[1] = v.body
  OBVIOUS
<1>3. CASE v = Empty
  <2>1. \A i \in DOMAIN fields : raw[fields[i]] = None
    BY <1>1, <1>3 DEF Empty, Distinct, None
  <2> QED
    BY <2>1, <1>3 DEF FirstOf, Wins
<1>4. CASE v # Empty
  <2>1. v \in [kind : Range(fields), body : S]
    BY <1>4 DEF Enum
  <2>2. PICK k \in DOMAIN fields : v.kind = fields[k]
    BY <2>1 DEF Range
  <2>3. PICK n \in Nat : DOMAIN fields = 1..n
    BY DEF Distinct
  <2>4. raw[fields[k]] = <<v.body>>
    BY <1>1, <2>2
  <2>5. \A i \in DOMAIN fields : i # k => raw[fields[i]] = None
    BY <1>1, <2>2 DEF Distinct, None
  <2>6. \A i : Wins(fields, raw, i) <=> i = k
    <3>1. Wins(fields, raw, k)
      <4>1. \A j \in 1..(k - 1) : j \in DOMAIN fields /\ j # k
        BY <2>2, <2>3
      <4> QED
        BY <4>1, <2>4, <2>5, <1>2 DEF Wins, None
    <3>2. ASSUME NEW i, Wins(fields, raw, i) PROVE i = k
      BY <3>2, <2>5 DEF Wins
    <3> QED
      BY <3>1, <3>2
  <2>7. FirstOf(fields, raw) = [kind |-> fields[k], body |-> raw[fields[k]][1]]
    BY <2>6 DEF FirstOf
  <2>8. [kind |-> fields[k], body |-> raw[fields[k]][1]] = [kind |-> v.kind, body |-> v.body]
    BY <2>2, <2>4, <1>2
  <2> QED
    BY <2>1, <2>7, <2>8
<1> QED
  BY <1>3, <1>4

-----------------------------------------------------------------------------

\* A Command that is sent is the Command that is received.
THEOREM CommandRoundTrip ==
  ASSUME NEW v \in Enum(CommandFields, Body)
  PROVE  CommandOf(RawOfCommand(v)) = v
BY CommandFieldsDistinct, FirstOfFields DEF CommandOf, RawOfCommand

\* A Push that is sent is the Push that is received, for the same channel.
THEOREM PushRoundTrip ==
  ASSUME NEW v \in Push
  PROVE  PushOf(RawOfPush(v)) = v
<1>1. v.data \in Enum(PushFields, Body)
  BY DEF Push
<1>2. FirstOf(PushFields, Fields(PushFields, v.data)) = v.data
  BY <1>1, PushFieldsDistinct, FirstOfFields
<1>3. v = [channel |-> v.channel, data |-> v.data]
  BY DEF Push
<1> QED
  BY <1>2, <1>3 DEF PushOf, RawOfPush

\* A Reply that is sent is the Reply that is received, with its push if it
\* has one: the conversions of the two levels fit together.
THEOREM ReplyRoundTrip ==
  ASSUME NEW v \in Reply
  PROVE  ReplyOf(RawOfReply(v)) = v
<1>1. v \in Enum(ReplyFields, Body \cup Push)
  BY DEF Reply
<1>2. CASE v.kind = "push"
  <2> DEFINE w == [v EXCEPT !.body = RawOfPush(@)]
  <2>1. v \in [kind : Range(ReplyFields), body : Body \cup Push]
    BY <1>1, <1>2 DEF Enum, Empty
  <2>2. /\ w.kind = "push" /\ w.body = RawOfPush(v.body)
        /\ w \in Enum(ReplyFields, {RawOfPush(v.body)})
    BY <2>1, <1>2 DEF Enum
  <2>3. FirstOf(ReplyFields, Fields(ReplyFields, w)) = w
    BY <2>2, ReplyFieldsDistinct, FirstOfFields
  <2>4. PushOf(RawOfPush(v.body)) = v.body
    BY <1>2, PushRoundTrip DEF Reply
  <2>5. ReplyOf(RawOfReply(v)) = [w EXCEPT !.body = PushOf(@)]
    BY <2>2, <2>3, <1>2 DEF ReplyOf, RawOfReply
  <2> QED
    BY <2>1, <2>2, <2>4, <2>5
<1>3. CASE v.kind # "push"
  <2>1. FirstOf(ReplyFields, Fields(ReplyFields, v)) = v
    BY <1>1, ReplyFieldsDistinct, FirstOfFields
  <2> QED
    BY <2>1, <1>3 DEF ReplyOf, RawOfReply
<1> QED
  BY <1>2, <1>3

-----------------------------------------------------------------------------
(* Structs from elsewhere.                                                 *)

\* The field that wins determines the value.
LEMMA WinnerTakesAll ==
  ASSUME NEW fields, Distinct(fields), NEW raw, NEW i, Wins(fields, raw, i)
  PROVE  FirstOf(fields, raw) = [kind |-> fields[i], body |-> raw[fields[i]][1]]
<1>1. PICK n \in Nat : DOMAIN fields = 1..n
  BY DEF Distinct
<1>2. ASSUME NEW j, Wins(fields, raw, j) PROVE j = i
  BY <1>1, <1>2 DEF Wins
<1>3. (CHOOSE j \in DOMAIN fields : Wins(fields, raw, j)) = i
  BY <1>2 DEF Wins
<1> QED
  BY <1>3 DEF FirstOf, Wins

\* An error in a reply is never overlooked: it wins whatever else the struct
\* holds.
THEOREM ErrorWins ==
  ASSUME NEW raw \in Struct(ReplyFields, Body \cup RawPush),
         raw["error"] # None
  PROVE  ReplyOf(raw) = [kind |-> "error", body |-> raw["error"][1]]
<1>1. DOMAIN ReplyFields = 1..13 /\ ReplyFields[1] = "error"
  BY DEF ReplyFields
<1>2. Wins(ReplyFields, raw, 1)
  BY <1>1 DEF Wins
<1>3. FirstOf(ReplyFields, raw) = [kind |-> "error", body |-> raw["error"][1]]
  BY <1>1, <1>2, ReplyFieldsDistinct, WinnerTakesAll
<1> QED
  BY <1>3 DEF ReplyOf

\* A struct whose fields are all absent becomes Empty, and no other struct does.
LEMMA EmptyOfNone ==
  ASSUME NEW fields, Distinct(fields), NEW raw
  PROVE  /\ (\A f \in Range(fields) : raw[f] = None) => FirstOf(fields, raw) = Empty
         /\ (\E f \in Range(fields) : raw[f] # None) =>
               FirstOf(fields, raw).kind \in Range(fields) \ {"empty"}
<1>1. PICK n \in Nat : DOMAIN fields = 1..n
  BY DEF Distinct
<1>2. ASSUME \A f \in Range(fields) : raw[f] = None
      PROVE  FirstOf(fields, raw) = Empty
  BY <1>2 DEF FirstOf, Wins, Range
<1>3. ASSUME NEW f \in Range(fields), raw[f] # None
      PROVE  FirstOf(fields, raw).kind \in Range(fields) \ {"empty"}
  <2> DEFINE set == {i \in 1..n : raw[fields[i]] # None}
             i == Min(set)
  <2>1. set \subseteq Nat /\ set # {}
    BY <1>1, <1>3 DEF Range
  <2>2. i \in set /\ \A j \in set : i <= j
    BY <2>1, LeastOf
  <2> HIDE DEF i
  <2>3. \A j \in 1..(i - 1) : j \in 1..n /\ ~(i <= j)
    BY <2>2
  <2>4. Wins(fields, raw, i)
    BY <1>1, <2>2, <2>3 DEF Wins
  <2>5. FirstOf(fields, raw).kind = fields[i]
    BY <2>4, WinnerTakesAll
  <2> QED
    BY <1>1, <2>2, <2>5 DEF Distinct, Range
<1> QED
  BY <1>2, <1>3

\* Empty, which the server takes for the client's pong and the client for the
\* server's ping, is what a struct without any known field becomes, and nothing
\* else, in both directions.
THEOREM EmptyIsNoField ==
  /\ \A raw \in Struct(CommandFields, Body) :
        CommandOf(raw) = Empty <=> \A f \in Range(CommandFields) : raw[f] = None
  /\ \A raw \in Struct(ReplyFields, Body \cup RawPush) :
        ReplyOf(raw) = Empty <=> \A f \in Range(ReplyFields) : raw[f] = None
<1>1. Empty.kind = "empty"
  BY DEF Empty
<1>2. ASSUME NEW raw \in Struct(CommandFields, Body)
      PROVE  CommandOf(raw) = Empty <=> \A f \in Range(CommandFields) : raw[f] = None
  <2>1. CASE \A f \in Range(CommandFields) : raw[f] = None
    BY <2>1, CommandFieldsDistinct, EmptyOfNone DEF CommandOf
  <2>2. CASE \E f \in Range(CommandFields) : raw[f] # None
    <3>1. CommandOf(raw).kind # "empty"
      BY <2>2, CommandFieldsDistinct, EmptyOfNone DEF CommandOf
    <3> QED
      BY <1>1, <2>2, <3>1
  <2> QED
    BY <2>1, <2>2
<1>3. ASSUME NEW raw \in Struct(ReplyFields, Body \cup RawPush)
      PROVE  ReplyOf(raw) = Empty <=> \A f \in Range(ReplyFields) : raw[f] = None
  <2> DEFINE v == FirstOf(ReplyFields, raw)
  <2>1. CASE \A f \in Range(ReplyFields) : raw[f] = None
    <3>1. v = Empty
      BY <2>1, ReplyFieldsDistinct, EmptyOfNone
    <3> QED
      BY <1>1, <2>1, <3>1 DEF ReplyOf
  <2>2. CASE \E f \in Range(ReplyFields) : raw[f] # None
    <3>1. v.kind # "empty"
      BY <2>2, ReplyFieldsDistinct, EmptyOfNone
    <3>2. ReplyOf(raw).kind # "empty"
      <4> HIDE DEF v
      <4>1. CASE v.kind = "push"
        <5>1. PICK i : v = [kind |-> ReplyFields[i], body |-> raw[ReplyFields[i]][1]]
          BY <3>1, <1>1 DEF v, FirstOf
        <5>2. ReplyOf(raw) = [v EXCEPT !.body = PushOf(@)]
          BY <4>1 DEF ReplyOf, v
        <5> QED
          BY <3>1, <5>1, <5>2
      <4>2. CASE v.kind # "push"
        BY <3>1, <4>2 DEF ReplyOf, v
      <4> QED
        BY <4>1, <4>2
    <3> QED
      BY <1>1, <2>2, <3>2
  <2> QED
    BY <2>1, <2>2
<1> QED
  BY <1>2, <1>3

=============================================================================
