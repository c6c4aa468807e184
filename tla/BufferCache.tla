---------------------------- MODULE BufferCache -----------------------------
(***************************************************************************)
(* The potential write set of the crash simulator (crash/BufferCache.C)    *)
(* and the crash disks it stands for (crash/Combination.C, Powerset.C).    *)
(*                                                                         *)
(* A cache is a function from the sectors that have pending writes to the  *)
(* contents (signatures) pending for them, and a disk a function from      *)
(* sectors to contents.  The code keeps the contents of a sector in a      *)
(* vector, oldest first and without repetition; their order has no effect  *)
(* on which disks are generated, so they are a set here.                   *)
(***************************************************************************)
EXTENDS Naturals, FiniteSets

EmptyCache == [s \in {} |-> {}]

Insert(cache, s, vs) == [x \in DOMAIN cache \cup {s} |-> IF x = s THEN vs ELSE cache[x]]

\* A faulty cache: what is on the disk is not compared with.
AddAlways(cache, disk, s, v, versioned) ==
    Insert(cache, s, IF versioned /\ s \in DOMAIN cache THEN cache[s] \cup {v} ELSE {v})

\* Cache::add keeps the last contents only, VersionedCache::add all of them;
\* both ignore a write of what is on the disk.
Add(cache, disk, s, v, versioned) ==
    IF disk[s] = v THEN cache
    ELSE Insert(cache, s, IF versioned /\ s \in DOMAIN cache THEN cache[s] \cup {v} ELSE {v})

\* remove_or_write: all pending contents of the sector go.
Erase(cache, s) == [x \in DOMAIN cache \ {s} |-> cache[x]]

\* The subsets of pending writes a crash can leave on the disk: for each
\* sector nothing or one of its contents (Combination; Powerset when there is
\* only one).
CrashDisks(cache, disk) ==
    {d \in [DOMAIN disk -> UNION ({{disk[s]} : s \in DOMAIN disk} \cup {cache[s] : s \in DOMAIN cache})] :
       \A s \in DOMAIN disk :
         d[s] = disk[s] \/ (s \in DOMAIN cache /\ d[s] \in cache[s])}

Written(d, disk) == {s \in DOMAIN disk : d[s] # disk[s]}

\* Powerset::rand_subset starts from less than the whole cache and adds to the
\* subset of the iteration before; Combination::rand_subset starts afresh.
Accumulated(X, cache, disk) ==
    /\ \A d, e \in X : Written(d, disk) \subseteq Written(e, disk) \/ Written(e, disk) \subseteq Written(d, disk)
    /\ \E d \in X : Written(d, disk) # DOMAIN cache

\* The sets of crash disks a batch can consist of: all of them while few
\* sectors are pending, otherwise some chosen at random.
Batches(cache, disk, threshold, tries, versioned) ==
    IF Cardinality(DOMAIN cache) <= threshold THEN {CrashDisks(cache, disk)}
    ELSE {X \in SUBSET CrashDisks(cache, disk) :
            /\ X # {} /\ Cardinality(X) <= tries + 1
            /\ versioned \/ Accumulated(X, cache, disk)}
=============================================================================
