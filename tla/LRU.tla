-------------------------------- MODULE LRU --------------------------------
(***************************************************************************)
(* The fixed-capacity least-recently-used cache (go-freelru SyncedLRU)     *)
(* behind every cache of the reporter and of the symbol uploader.  Each    *)
(* call of a SyncedLRU method holds the cache's mutex for the whole call,  *)
(* so each operator below is one atomic step of its caller; nothing makes  *)
(* two consecutive calls atomic.                                           *)
(*                                                                         *)
(* A cache is a record                                                     *)
(*   val   : a function from the key set to a value or None,               *)
(*   order : the present keys from least to most recently used.            *)
(* Add of an absent key into a full cache first evicts Head(order).        *)
(* Get and Add move the key to the most-recently-used end; Peek and Keys   *)
(* do not.                                                                 *)
(***************************************************************************)
EXTENDS Naturals, Sequences, FiniteSets, SequencesExt

CONSTANT None   \* a model value: "no entry for this key"

\* An empty cache over key set K.
LRUEmpty(K) == [val |-> [k \in K |-> None], order |-> <<>>]

\* Keys(): the present keys.
LRUKeys(c) == {k \in DOMAIN c.val : c.val[k] # None}

\* Peek(k): the value or None, without touching the recency order.
LRUPeek(c, k) == c.val[k]

\* Move k to the most-recently-used end.
Touch(c, k) == [c EXCEPT !.order = Append(Remove(c.order, k), k)]

\* The cache after Get(k): a hit makes k the most recently used.
LRUGet(c, k) == IF c.val[k] = None THEN c ELSE Touch(c, k)

\* The key Add(k, _) would evict from a cache of capacity cap, or None.
LRUVictim(c, k, cap) ==
    IF c.val[k] = None /\ Len(c.order) = cap THEN Head(c.order) ELSE None

\* Mutant: Add never evicts, the cache grows past its capacity.
LRUAddUnbounded(c, k, v, cap) ==
    [val |-> [c.val EXCEPT ![k] = v], order |-> Append(Remove(c.order, k), k)]

\* Add(k, v) into a cache of capacity cap.
LRUAdd(c, k, v, cap) ==
    LET victim == LRUVictim(c, k, cap)
        room   == IF victim = None THEN c
                  ELSE [val |-> [c.val EXCEPT ![victim] = None],
                        order |-> Tail(c.order)]
    IN  [val |-> [room.val EXCEPT ![k] = v],
         order |-> Append(Remove(room.order, k), k)]

\* The recency order lists exactly the present keys, at most cap of them.
LRUConsistent(c, cap) ==
    /\ c.order \in Seq(DOMAIN c.val)
    /\ Len(c.order) <= cap
    /\ {c.order[i] : i \in DOMAIN c.order} = LRUKeys(c)
    /\ Len(c.order) = Cardinality(LRUKeys(c))

\* Mutant: Remove clears the value but leaves the key in the recency list.
LRURemoveKeepsOrder(c, k) == [c EXCEPT !.val = [c.val EXCEPT ![k] = None]]

\* Remove(k).
LRURemove(c, k) ==
    [val |-> [c.val EXCEPT ![k] = None], order |-> Remove(c.order, k)]

=============================================================================
