------------------------- MODULE RPCTransportProofs -------------------------
(* Proofs about module RPCTransport. *)
EXTENDS RPCTransport, TLAPS

\* The inductive invariant: a client a caller holds has been dialled, and from
\* the delete of an eviction on it is not in the cache.
CacheInv ==
    /\ pc \in [Caller -> {"idle", "waiting", "evict", "close"}]
    /\ using \in [Caller -> Client \cup {NoClient}]
    /\ conn \in [Client -> {"unused", "open", "peer", "closed"}]
    /\ cached \in Client \cup {NoClient}
    /\ cached # NoClient => conn[cached] \in {"open", "peer"}
    /\ \A p \in Caller :
          pc[p] # "idle" => using[p] \in Client /\ conn[using[p]] # "unused"
    /\ \A p \in Caller : pc[p] = "close" => using[p] # cached

\* No call is ever started on a client that evict has closed, for any number
\* of callers whose evictions overlap.
THEOREM ClosedNeverCachedCorrect == Spec => []ClosedNeverCached
<1>1. Init => CacheInv
  BY DEF Init, CacheInv
<1>2. CacheInv /\ [Next]_vars => CacheInv'
  <2> SUFFICES ASSUME CacheInv, [Next]_vars PROVE CacheInv'
    OBVIOUS
  <2>1. ASSUME NEW p \in Caller, Hit(p) PROVE CacheInv'
    BY <2>1, ClientAssumption DEF CacheInv, Hit
  <2>2. ASSUME NEW p \in Caller, NEW c \in Client, Dial(p, c) PROVE CacheInv'
    BY <2>2, ClientAssumption DEF CacheInv, Dial
  <2>3. ASSUME NEW p \in Caller, Answered(p) \/ Fails(p) PROVE CacheInv'
    BY <2>3, ClientAssumption DEF CacheInv, Answered, Fails
  <2>4. ASSUME NEW p \in Caller, EvictDelete(p) PROVE CacheInv'
    BY <2>4, ClientAssumption DEF CacheInv, EvictDelete
  <2>5. ASSUME NEW p \in Caller, EvictClose(p) PROVE CacheInv'
    BY <2>5, ClientAssumption DEF CacheInv, EvictClose
  <2>6. ASSUME NEW c \in Client, PeerCloses(c) PROVE CacheInv'
    BY <2>6, ClientAssumption DEF CacheInv, PeerCloses
  <2>7. CASE UNCHANGED vars
    BY <2>7 DEF CacheInv, vars
  <2> QED
    BY <2>1, <2>2, <2>3, <2>4, <2>5, <2>6, <2>7 DEF Next, CallerStep
<1>3. CacheInv => ClosedNeverCached
  BY DEF CacheInv, ClosedNeverCached
<1> QED
  BY <1>1, <1>2, <1>3, PTL DEF Spec

=============================================================================
