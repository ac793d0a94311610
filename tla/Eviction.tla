------------------------------ MODULE Eviction -------------------------------
(***************************************************************************)
(* The eviction policies of cache/eviction.rs, which pick one victim from a*)
(* list of candidates, and the loop in which a placement policy evicts one *)
(* object after the other (policy/*.rs; each of those loops picks like     *)
(* LruEviction).                                                           *)
(*                                                                         *)
(* The candidates come in the order in which objects_in_tier lists a hash  *)
(* map's values: any order, another one at each turn of the loop.          *)
(***************************************************************************)
EXTENDS Placement

Seqs == INSTANCE SequencesExt

\* Mutant of LruEviction: the newest.
MruEviction(c, candidates) ==
    {candidates[i] : i \in {i \in DOMAIN candidates :
        \A j \in DOMAIN candidates :
            LastAccess(c, candidates[i]) >= LastAccess(c, candidates[j])
              /\ (i > j => LastAccess(c, candidates[i]) # LastAccess(c, candidates[j]))}}

\* LruEviction::select_for_eviction: the first of the oldest, if there is one.
LruEviction(c, candidates) ==
    LET Access(i) == LastAccess(c, candidates[i])
    IN  {candidates[i] : i \in {i \in DOMAIN candidates :
            \A j \in DOMAIN candidates \ {i} :
                Access(i) < Access(j) \/ (Access(i) = Access(j) /\ i < j)}}

\* Mutant of LargestFirstEviction: the smallest.
SmallestFirstEviction(c, candidates) ==
    LET Size(i) == c.objects[candidates[i]].bytes
    IN  {candidates[i] : i \in {i \in DOMAIN candidates :
            \A j \in DOMAIN candidates \ {i} :
                Size(i) < Size(j) \/ (Size(i) = Size(j) /\ i > j)}}

\* LargestFirstEviction::select_for_eviction: the last of the largest.
LargestFirstEviction(c, candidates) ==
    LET Size(i) == c.objects[candidates[i]].bytes
    IN  {candidates[i] : i \in {i \in DOMAIN candidates :
            \A j \in DOMAIN candidates \ {i} :
                Size(i) > Size(j) \/ (Size(i) = Size(j) /\ i > j)}}

\* EvictionPolicy
SelectForEviction(policy, c, candidates) ==
    CASE policy = "LruEviction"          -> LruEviction(c, candidates)
      [] policy = "LargestFirstEviction" -> LargestFirstEviction(c, candidates)

\* The sets of objects that may be gone when the loop that evicts what the
\* policy picks has made room for bytes on the cell, or has emptied it.
Evicted(policy, c, cell, bytes) ==
    LET there == ObjectsInTier(c, cell)
        Loop[K \in SUBSET there] ==
            IF K = {} \/ Fits(Removed(c, there \ K), cell, bytes)
            THEN {there \ K}
            ELSE UNION {Loop[K \ SelectForEviction(policy, c, order)] :
                          order \in Seqs!SetToSeqs(K)}
    IN  Loop[there]

-----------------------------------------------------------------------------
(* What must hold *)

Demands == Tier \X {KvBytes(n) : n \in Prefix}

\* The policies' loop, one LRU victim after the other, ends with the victims
\* that Placement gives it in one step, in every order of the hash map's values.
LoopEvictsLru ==
    \A d \in Demands :
        Evicted("LruEviction", cache, On(d[1]), d[2]) = Victims(cache, On(d[1]), d[2])

\* "Evict the largest object (size-aware)" (eviction.rs:31): the loop that
\* evicts the largest first makes room with the fewest objects any choice
\* could do with.
LargestEvictsFewest ==
    \A d \in Demands :
        \A K \in Evicted("LargestFirstEviction", cache, On(d[1]), d[2]),
           L \in SUBSET ObjectsInTier(cache, On(d[1])) :
            Fits(Removed(cache, L), On(d[1]), d[2]) => Cardinality(K) <= Cardinality(L)
=============================================================================
