-------------------------------- MODULE Store --------------------------------
(***************************************************************************)
(* What the HTTP interface of kv-api promises its clients: one map; a set   *)
(* or a get takes effect at one moment between its being sent and its being *)
(* answered, and the answer is the one of that moment.  A refused request   *)
(* never takes effect; one whose answer was lost may, at any later time.    *)
(* A relaxed get returns a value the key has had.                          *)
(***************************************************************************)
EXTENDS Naturals

CONSTANTS
    Key, Val,
    Request,    \* identities of HTTP requests
    Missing,    \* the value of a key that was never set
    NotAsked    \* the operation of a request not made yet

VARIABLES
    content,    \* the map
    past,       \* past[k]: the values k has had
    op,         \* op[r]: what r asks for
    effect,     \* effect[r]: the result of r once it has taken effect
    reply       \* reply[r]: what the client was told

storeVars == <<op, reply, effect, content, past>>

Op == [kind : {"set"}, key : Key, val : Val] \cup
      [kind : {"get", "relaxed"}, key : Key, val : {Missing}]

\* The answer to a get: a missing key is an error.
Found(v) == IF v = Missing THEN "error" ELSE v

Init ==
    /\ content = [k \in Key |-> Missing]
    /\ past = [k \in Key |-> {Missing}]
    /\ op = [r \in Request |-> NotAsked]
    /\ effect = [r \in Request |-> "none"]
    /\ reply = [r \in Request |-> "none"]

\* A request is sent; it may be refused, and a relaxed get is answered, at
\* once.
Refusal(o) == IF o.kind = "set" THEN "bad" ELSE "error"

AnsweredAtOnce(o, answer) ==
    \/ answer \in {"none", "lost"}
    \/ o.kind # "relaxed" /\ answer = Refusal(o)
    \/ o.kind = "relaxed" /\ \E v \in past[o.key] : answer = Found(v)

Ask(r) ==
    /\ op[r] = NotAsked
    /\ op'[r] \in Op
    /\ op' = [op EXCEPT ![r] = op'[r]]
    /\ reply' = [reply EXCEPT ![r] = reply'[r]]
    /\ AnsweredAtOnce(op'[r], reply'[r])
    /\ UNCHANGED <<content, past, effect>>

Set(r) ==
    /\ op[r].kind = "set"
    /\ effect' = [effect EXCEPT ![r] = "ok"]
    /\ content' = [content EXCEPT ![op[r].key] = op[r].val]
    /\ past' = [past EXCEPT ![op[r].key] = @ \cup {op[r].val}]

Get(r) ==
    /\ op[r].kind = "get"
    /\ effect' = [effect EXCEPT ![r] = Found(content[op[r].key])]
    /\ UNCHANGED <<content, past>>

TakeEffect(r) ==
    /\ UNCHANGED <<op, reply>>
    /\ op[r] # NotAsked
    /\ reply[r] \in {"none", "lost"}
    /\ effect[r] = "none"
    /\ Set(r) \/ Get(r)

Answer(r) ==
    /\ UNCHANGED op
    /\ reply[r] = "none" /\ reply'[r] # "none"
    /\ effect[r] # "none"
    /\ reply' = [reply EXCEPT ![r] = effect[r]]
    /\ UNCHANGED <<content, past, effect>>

\* A timeout, or the server went away; several answers can be lost at once.
Lose ==
    /\ UNCHANGED op
    /\ \A r \in Request :
          reply'[r] # reply[r] =>
              op[r] # NotAsked /\ reply[r] = "none" /\ reply'[r] = "lost"
    /\ UNCHANGED <<content, past, effect>>

Next ==
    \/ \E r \in Request : Ask(r) \/ TakeEffect(r) \/ Answer(r)
    \/ Lose

Spec == Init /\ [][Next]_storeVars
=============================================================================
