---------------------------- MODULE RPCTransport ----------------------------
(***************************************************************************)
(* The client cache of RPCTransport, for one address: every call takes the  *)
(* cached rpc.Client or dials one, waits for its answer or a timeout, and   *)
(* on an error evicts the client, in two steps: out of the cache under      *)
(* t.mu, then closed without it.                                           *)
(***************************************************************************)
EXTENDS Naturals, FiniteSets

CONSTANTS
    Caller,     \* goroutines of the server that make calls to this address
    Client,     \* rpc.Clients that can be dialled: their number is a bound
    NoClient

ASSUME ClientAssumption == NoClient \notin Client

VARIABLES
    cached,     \* t.clients[address]
    conn,       \* a client's connection: unused, "open", cut by the "peer",
                \* or "closed" by evict
    using,      \* the client a caller's call is on
    pc          \* where the caller is in call()

vars == <<cached, conn, using, pc>>

Init ==
    /\ cached = NoClient
    /\ conn = [c \in Client |-> "unused"]
    /\ using = [p \in Caller |-> NoClient]
    /\ pc = [p \in Caller |-> "idle"]

\* dial(): under t.mu, the network round trip included.
Hit(p) ==
    /\ pc[p] = "idle"
    /\ cached # NoClient
    /\ using' = [using EXCEPT ![p] = cached]
    /\ pc' = [pc EXCEPT ![p] = "waiting"]
    /\ UNCHANGED <<cached, conn>>

Dial(p, c) ==
    /\ pc[p] = "idle"
    /\ cached = NoClient
    /\ conn[c] = "unused"
    /\ conn' = [conn EXCEPT ![c] = "open"]
    /\ cached' = c
    /\ using' = [using EXCEPT ![p] = c]
    /\ pc' = [pc EXCEPT ![p] = "waiting"]

\* The answer of the handler.  A dial that fails changes nothing.
Answered(p) ==
    /\ pc[p] = "waiting"
    /\ conn[using[p]] = "open"
    /\ pc' = [pc EXCEPT ![p] = "idle"]
    /\ using' = [using EXCEPT ![p] = NoClient]
    /\ UNCHANGED <<cached, conn>>

\* callTimeout passes, the handler returns an error, or the connection is
\* gone: the rpc.Client ends every pending call and refuses new ones.
Fails(p) ==
    /\ pc[p] = "waiting"
    /\ pc' = [pc EXCEPT ![p] = "evict"]
    /\ UNCHANGED <<cached, conn, using>>

\* Faulty: closes the client and leaves it in the cache.
KeepCached(p) ==
    /\ pc[p] = "evict"
    /\ pc' = [pc EXCEPT ![p] = "close"]
    /\ UNCHANGED <<cached, conn, using>>

\* evict(): delete(t.clients, address), whatever client is there by now.
EvictDelete(p) ==
    /\ pc[p] = "evict"
    /\ cached' = NoClient
    /\ pc' = [pc EXCEPT ![p] = "close"]
    /\ UNCHANGED <<conn, using>>

EvictClose(p) ==
    /\ pc[p] = "close"
    /\ conn' = [conn EXCEPT ![using[p]] = "closed"]
    /\ using' = [using EXCEPT ![p] = NoClient]
    /\ pc' = [pc EXCEPT ![p] = "idle"]
    /\ UNCHANGED cached

\* The other server dies or restarts.
PeerCloses(c) ==
    /\ conn[c] = "open"
    /\ conn' = [conn EXCEPT ![c] = "peer"]
    /\ UNCHANGED <<cached, using, pc>>

CallerStep(p) ==
    \/ Hit(p) \/ (\E c \in Client : Dial(p, c))
    \/ Answered(p) \/ Fails(p) \/ EvictDelete(p) \/ EvictClose(p)

Next ==
    \/ \E p \in Caller : CallerStep(p)
    \/ \E c \in Client : PeerCloses(c)

Spec == Init /\ [][Next]_vars

\* heartbeat keeps calling, and a call ends by its timeout at the latest.
FairSpec == Spec /\ \A p \in Caller : WF_vars(CallerStep(p))

-----------------------------------------------------------------------------
(* Properties *)

\* evict() drops the client before it closes it, and dial() runs under t.mu:
\* no call is started on a client another caller has closed, however the two
\* halves of several evictions interleave.
ClosedNeverCached == cached # NoClient => conn[cached] # "closed"

\* A connection the other server has cut does not stay in the cache: calls
\* to a restarted server get through again.
DeadClientReplaced ==
    \A c \in Client : (cached = c /\ conn[c] = "peer") ~> (cached # c)

=============================================================================
