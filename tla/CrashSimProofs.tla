--------------------------- MODULE CrashSimProofs ---------------------------
(***************************************************************************)
(* What the crash simulator with the versioned cache shows of a trace, for *)
(* any sectors, contents and length of the log:                            *)
(*   - the parser and the cache track the kernel (CacheTracksKernel);      *)
(*   - only possible crashes are checked (OnlyPossibleCrashes);            *)
(*   - with few enough sectors all of them are (EveryCrashIsChecked).      *)
(***************************************************************************)
EXTENDS CrashSim, FiniteSetTheorems, TLAPS

\* The traces the parser is made for.
Precise == Versioned = TRUE /\ DirtyInLock = FALSE

-----------------------------------------------------------------------------
(* The cache                                                               *)

\* What is possible for a sector, given a cache and the disk under it.
PendingIn(c, d, x) == {d[x]} \cup (IF x \in DOMAIN c THEN c[x] ELSE {})

\* The part of TypeOK about the cache.
CacheOK(c, d) ==
    /\ DOMAIN c \subseteq Sectors
    /\ \A x \in DOMAIN c : c[x] \subseteq Values \ {d[x]} /\ c[x] # {}

\* VersionedCache::add
AddVersion(c, d, s, v) ==
    IF d[s] = v THEN c ELSE Insert(c, s, IF s \in DOMAIN c THEN c[s] \cup {v} ELSE {v})

\* VersionedCache::add makes the new contents possible, and changes nothing else.
LEMMA AddTracks ==
    ASSUME NEW c, NEW d \in [Sectors -> Values], CacheOK(c, d),
           NEW s \in Sectors, NEW v \in Values
    PROVE  /\ CacheOK(AddVersion(c, d, s, v), d)
           /\ \A x \in Sectors :
                PendingIn(AddVersion(c, d, s, v), d, x) =
                  PendingIn(c, d, x) \cup (IF x = s THEN {v} ELSE {})
<1> DEFINE vs == IF s \in DOMAIN c THEN c[s] \cup {v} ELSE {v}
           n == Insert(c, s, vs)
<1>1. CASE d[s] = v
  <2>1. AddVersion(c, d, s, v) = c
    BY <1>1 DEF AddVersion
  <2> QED
    BY <2>1, <1>1 DEF PendingIn
<1>2. CASE d[s] # v
  <2>1. AddVersion(c, d, s, v) = n
    BY <1>2 DEF AddVersion
  <2>2. /\ DOMAIN n = DOMAIN c \cup {s}
        /\ \A x \in DOMAIN c \cup {s} : n[x] = IF x = s THEN vs ELSE c[x]
    BY DEF Insert
  <2>3. vs \subseteq Values \ {d[s]} /\ vs # {}
    BY <1>2 DEF CacheOK
  <2> HIDE DEF n
  <2>4. CacheOK(n, d)
    <3> HIDE DEF vs
    <3> QED BY <2>2, <2>3 DEF CacheOK
  <2>5. ASSUME NEW x \in Sectors
        PROVE  PendingIn(n, d, x) = PendingIn(c, d, x) \cup (IF x = s THEN {v} ELSE {})
    BY <2>2 DEF PendingIn
  <2> QED
    BY <2>1, <2>4, <2>5
<1> QED
  BY <1>1, <1>2

\* remove_or_write makes nothing but the contents on the disk possible.
LEMMA EraseTracks ==
    ASSUME NEW c, NEW d \in [Sectors -> Values], CacheOK(c, d), NEW s \in Sectors,
           NEW e \in [Sectors -> Values], \A x \in Sectors \ {s} : e[x] = d[x]
    PROVE  /\ CacheOK(Erase(c, s), e)
           /\ \A x \in Sectors :
                PendingIn(Erase(c, s), e, x) = IF x = s THEN {e[s]} ELSE PendingIn(c, d, x)
<1> DEFINE n == Erase(c, s)
<1>1. /\ DOMAIN n = DOMAIN c \ {s}
      /\ \A x \in DOMAIN c \ {s} : n[x] = c[x]
  BY DEF Erase
<1> HIDE DEF n
<1>2. CacheOK(n, e)
  BY <1>1 DEF CacheOK
<1>3. ASSUME NEW x \in Sectors
      PROVE  PendingIn(n, e, x) = IF x = s THEN {e[s]} ELSE PendingIn(c, d, x)
  BY <1>1 DEF PendingIn
<1> QED
  BY <1>2, <1>3 DEF n

\* The parts of the inductive invariant about the cache.
LEMMA TracksPending ==
    ASSUME TypeOK, Tracks, ~done
    PROVE  /\ CacheOK(cache, cur_disks)
           /\ cur_disks = disk
           /\ \A x \in Sectors : PendingIn(cache, cur_disks, x) = {disk[x]} \cup vers[x]
BY DEF TypeOK, Tracks, CacheOK, Pending, PendingIn

\* ... and back, after a step.
LEMMA PendingTracks ==
    ASSUME CacheOK(cache', cur_disks'), cur_disks' = disk', disk' \in [Sectors -> Values],
           \A x \in Sectors : PendingIn(cache', cur_disks', x) = {disk'[x]} \cup vers'[x]
    PROVE  /\ Tracks'
           /\ DOMAIN cache' \subseteq Sectors
           /\ \A x \in DOMAIN cache' : cache'[x] \subseteq Values \ {cur_disks'[x]} /\ cache'[x] # {}
BY DEF Tracks, Pending, PendingIn, CacheOK

-----------------------------------------------------------------------------
(* The parser and the cache track the kernel                               *)

\* No buffer is pending at the beginning of a trace.
LEMMA InitIInv == Init => IInv
<1> SUFFICES ASSUME Init PROVE IInv
  OBVIOUS
<1> USE DEF Init, Values
<1>1. DOMAIN cache = {}
  BY DEF EmptyCache
<1>2. TypeOK
  BY <1>1, SimAssumption DEF TypeOK, Buffer, SectorState, NewSector
<1>3. ParserAgrees
  BY DEF ParserAgrees, SectorAgrees, NewSector
<1>4. Tracks
  BY <1>1 DEF Tracks, Pending
<1> QED
  BY <1>2, <1>3, <1>4 DEF IInv

\* A buffer operation that makes contents v of sector s possible.
LEMMA AddStep ==
    ASSUME TypeOK, Tracks, ~done, Versioned = TRUE,
           NEW s \in Sectors, NEW v \in Values,
           ReplayAdd(s, v), vers' = [vers EXCEPT ![s] = @ \cup {v}], UNCHANGED disk
    PROVE  /\ CacheOK(cache', cur_disks')
           /\ cur_disks' = disk'
           /\ \A x \in Sectors : PendingIn(cache', cur_disks', x) = {disk'[x]} \cup vers'[x]
<1>1. /\ CacheOK(cache, cur_disks)
      /\ cur_disks = disk
      /\ \A x \in Sectors : PendingIn(cache, cur_disks, x) = {disk[x]} \cup vers[x]
  BY TracksPending
<1>2. cache' = AddVersion(cache, cur_disks, s, v) /\ cur_disks' = cur_disks
  BY DEF ReplayAdd, Add, AddVersion
<1>3. cur_disks \in [Sectors -> Values] /\ vers \in [Sectors -> SUBSET Values]
  BY DEF TypeOK
<1>4. /\ CacheOK(cache', cur_disks)
      /\ \A x \in Sectors :
           PendingIn(cache', cur_disks, x) = PendingIn(cache, cur_disks, x) \cup (IF x = s THEN {v} ELSE {})
  BY <1>1, <1>2, <1>3, AddTracks
<1>5. \A x \in Sectors : vers'[x] = vers[x] \cup (IF x = s THEN {v} ELSE {})
  BY <1>3
<1> QED
  BY <1>1, <1>2, <1>4, <1>5

\* One that leaves sector s with what is on the disk, or puts it there.
LEMMA ShrinkStep ==
    ASSUME TypeOK, Tracks, ~done, NEW s \in Sectors,
           Shrink(s), cur_disks' = disk', disk' \in [Sectors -> Values],
           \A x \in Sectors \ {s} : disk'[x] = disk[x],
           vers' = [vers EXCEPT ![s] = {}]
    PROVE  /\ CacheOK(cache', cur_disks')
           /\ cur_disks' = disk'
           /\ \A x \in Sectors : PendingIn(cache', cur_disks', x) = {disk'[x]} \cup vers'[x]
<1>1. /\ CacheOK(cache, disk)
      /\ \A x \in Sectors : PendingIn(cache, disk, x) = {disk[x]} \cup vers[x]
  BY TracksPending
<1>2. cache' = Erase(cache, s)
  BY DEF Shrink
<1>3. disk \in [Sectors -> Values] /\ vers \in [Sectors -> SUBSET Values]
  BY DEF TypeOK
<1>4. /\ CacheOK(cache', disk')
      /\ \A x \in Sectors :
           PendingIn(cache', disk', x) = IF x = s THEN {disk'[s]} ELSE PendingIn(cache, disk, x)
  BY <1>1, <1>2, <1>3, EraseTracks
<1>5. \A x \in Sectors : vers'[x] = IF x = s THEN {} ELSE vers[x]
  BY <1>3
<1> QED
  BY <1>1, <1>4, <1>5

\* A buffer operation on sector s keeps the types and the agreement of the
\* parser with the kernel if it does so for s.
LEMMA OneSector ==
    ASSUME TypeOK, ParserAgrees, NEW s \in Sectors,
           NEW b \in Buffer, NEW w \in SUBSET Values, NEW st \in SectorState,
           SectorAgrees(b, w, st),
           buf' = [buf EXCEPT ![s] = b], vers' = [vers EXCEPT ![s] = w],
           states' = [states EXCEPT ![s] = st],
           epoch' = epoch, done' = done,
           CacheOK(cache', cur_disks'), cur_disks' = disk', disk' \in [Sectors -> Values],
           \A x \in Sectors : PendingIn(cache', cur_disks', x) = {disk'[x]} \cup vers'[x]
    PROVE  TypeOK' /\ ParserAgrees' /\ Tracks'
<1>1. /\ buf' \in [Sectors -> Buffer] /\ vers' \in [Sectors -> SUBSET Values]
      /\ states' \in [Sectors -> SectorState]
  BY DEF TypeOK
<1>2. TypeOK' /\ Tracks'
  BY <1>1, PendingTracks DEF TypeOK
<1>3. \A x \in Sectors : /\ buf'[x] = IF x = s THEN b ELSE buf[x]
                         /\ vers'[x] = IF x = s THEN w ELSE vers[x]
                         /\ states'[x] = IF x = s THEN st ELSE states[x]
  BY DEF TypeOK
<1>4. ParserAgrees'
  BY <1>3 DEF ParserAgrees
<1> QED
  BY <1>2, <1>4

\* The invariant is inductive.
LEMMA NextIInv ==
    ASSUME IInv, [Next]_vars, Precise
    PROVE  IInv'
<1>t. TypeOK /\ ParserAgrees /\ Tracks /\ Versioned = TRUE
  BY DEF IInv, Precise
<1>p. ~DirtyInLock
  BY DEF Precise
<1>c. \A v \in Contents : v \in Values
  BY DEF Values
<1>1. ASSUME NEW s \in Sectors, NEW v \in Contents, MarkDirty(s, v)
      PROVE  IInv'
  <2> DEFINE b == [buf[s] EXCEPT !.val = v, !.dirty = TRUE]
             w == vers[s] \cup {v}
             st == ParseDirty(states[s])
  <2>a. buf[s] \in Buffer /\ states[s] \in SectorState /\ vers[s] \in SUBSET Values
    BY <1>t DEF TypeOK
  <2>b. SectorAgrees(buf[s], vers[s], states[s])
    BY <1>t DEF ParserAgrees
  <2>c. /\ buf' = [buf EXCEPT ![s] = b] /\ vers' = [vers EXCEPT ![s] = w]
        /\ states' = [states EXCEPT ![s] = st]
        /\ ~done /\ epoch' = epoch /\ done' = done
    BY <1>t, <1>1 DEF MarkDirty, Logs, TypeOK
  <2>d. b \in Buffer /\ w \in SUBSET Values /\ st \in SectorState
    BY <1>c, <2>a DEF Buffer, SectorState, ParseDirty
  <2>e. SectorAgrees(b, w, st)
    BY <1>1, <1>p, <2>a, <2>b DEF MarkDirty, SectorAgrees, Buffer, SectorState, MayReachDisk, ParseDirty
  <2>f. disk' \in [Sectors -> Values]
    BY <1>t, <1>1 DEF MarkDirty, TypeOK
  <2>g. /\ CacheOK(cache', cur_disks')
        /\ cur_disks' = disk'
        /\ \A x \in Sectors : PendingIn(cache', cur_disks', x) = {disk'[x]} \cup vers'[x]
    BY <1>t, <1>c, <1>1, <2>a, <2>c, AddStep DEF MarkDirty, Buffer
  <2> QED
    BY <1>t, <2>c, <2>d, <2>e, <2>f, <2>g, OneSector DEF IInv
<1>2. ASSUME NEW s \in Sectors, NEW v \in Contents, SubmitBio(s, v)
      PROVE  IInv'
  <2> DEFINE b == [buf[s] EXCEPT !.val = v, !.flying = TRUE]
             w == vers[s] \cup {v}
             st == ParseSubmit(states[s])
  <2>a. buf[s] \in Buffer /\ states[s] \in SectorState /\ vers[s] \in SUBSET Values
    BY <1>t DEF TypeOK
  <2>b. SectorAgrees(buf[s], vers[s], states[s])
    BY <1>t DEF ParserAgrees
  <2>c. /\ buf' = [buf EXCEPT ![s] = b] /\ vers' = [vers EXCEPT ![s] = w]
        /\ states' = [states EXCEPT ![s] = st]
        /\ ~done /\ epoch' = epoch /\ done' = done
    BY <1>t, <1>2 DEF SubmitBio, Logs, TypeOK
  <2>d. b \in Buffer /\ w \in SUBSET Values /\ st \in SectorState
    BY <1>c, <2>a DEF Buffer, SectorState, ParseSubmit
  <2>e. SectorAgrees(b, w, st)
    BY <1>2, <1>p, <2>a, <2>b DEF SubmitBio, SectorAgrees, Buffer, SectorState, MayReachDisk, ParseSubmit
  <2>f. disk' \in [Sectors -> Values]
    BY <1>t, <1>2 DEF SubmitBio, TypeOK
  <2>g. /\ CacheOK(cache', cur_disks')
        /\ cur_disks' = disk'
        /\ \A x \in Sectors : PendingIn(cache', cur_disks', x) = {disk'[x]} \cup vers'[x]
    BY <1>t, <1>c, <1>2, <2>a, <2>c, AddStep DEF SubmitBio, Buffer
  <2> QED
    BY <1>t, <2>c, <2>d, <2>e, <2>f, <2>g, OneSector DEF IInv
<1>3. ASSUME NEW s \in Sectors, Submit(s)
      PROVE  IInv'
  <2> DEFINE b == [buf[s] EXCEPT !.flying = TRUE]
             w == vers[s] \cup {buf[s].val}
             st == ParseSubmit(states[s])
  <2>a. buf[s] \in Buffer /\ states[s] \in SectorState /\ vers[s] \in SUBSET Values
    BY <1>t DEF TypeOK
  <2>b. SectorAgrees(buf[s], vers[s], states[s])
    BY <1>t DEF ParserAgrees
  <2>c. /\ buf' = [buf EXCEPT ![s] = b] /\ vers' = [vers EXCEPT ![s] = w]
        /\ states' = [states EXCEPT ![s] = st]
        /\ ~done /\ epoch' = epoch /\ done' = done
    BY <1>t, <1>3 DEF Submit, Logs, TypeOK
  <2>d. b \in Buffer /\ w \in SUBSET Values /\ st \in SectorState
    BY <1>c, <2>a DEF Buffer, SectorState, ParseSubmit
  <2>e. SectorAgrees(b, w, st)
    BY <1>3, <1>p, <2>a, <2>b DEF Submit, SectorAgrees, Buffer, SectorState, MayReachDisk, ParseSubmit
  <2>f. disk' \in [Sectors -> Values]
    BY <1>t, <1>3 DEF Submit, TypeOK
  <2>g. /\ CacheOK(cache', cur_disks')
        /\ cur_disks' = disk'
        /\ \A x \in Sectors : PendingIn(cache', cur_disks', x) = {disk'[x]} \cup vers'[x]
    BY <1>t, <1>c, <1>3, <2>a, <2>c, AddStep DEF Submit, Buffer
  <2> QED
    BY <1>t, <2>c, <2>d, <2>e, <2>f, <2>g, OneSector DEF IInv
<1>4. ASSUME NEW s \in Sectors, LockBuffer(s)
      PROVE  IInv'
  <2> DEFINE b == [buf[s] EXCEPT !.locked = TRUE]
             w == vers[s]
             st == ParseLock(states[s])
  <2>a. buf[s] \in Buffer /\ states[s] \in SectorState /\ vers[s] \in SUBSET Values
    BY <1>t DEF TypeOK
  <2>b. SectorAgrees(buf[s], vers[s], states[s])
    BY <1>t DEF ParserAgrees
  <2>c. /\ buf' = [buf EXCEPT ![s] = b] /\ vers' = [vers EXCEPT ![s] = w]
        /\ states' = [states EXCEPT ![s] = st]
        /\ ~done /\ epoch' = epoch /\ done' = done
    BY <1>t, <1>4 DEF LockBuffer, Logs, TypeOK
  <2>d. b \in Buffer /\ w \in SUBSET Values /\ st \in SectorState
    BY <1>c, <2>a DEF Buffer, SectorState, ParseLock
  <2>e. SectorAgrees(b, w, st)
    BY <1>4, <1>p, <2>a, <2>b DEF LockBuffer, SectorAgrees, Buffer, SectorState, MayReachDisk, ParseLock
  <2>f. disk' \in [Sectors -> Values] /\ disk' = disk /\ vers' = vers
    BY <1>t, <1>4 DEF LockBuffer, TypeOK
  <2>g. /\ CacheOK(cache', cur_disks')
        /\ cur_disks' = disk'
        /\ \A x \in Sectors : PendingIn(cache', cur_disks', x) = {disk'[x]} \cup vers'[x]
    BY <1>t, <1>4, <2>c, <2>f, TracksPending DEF LockBuffer, NoReplay
  <2> QED
    BY <1>t, <2>c, <2>d, <2>e, <2>f, <2>g, OneSector DEF IInv
<1>5. ASSUME NEW s \in Sectors, ClearDirty(s)
      PROVE  IInv'
  <2> DEFINE b == [buf[s] EXCEPT !.dirty = FALSE]
             w == Versions(b, vers[s])
             st == ParseRemove(states[s])
  <2>a. buf[s] \in Buffer /\ states[s] \in SectorState /\ vers[s] \in SUBSET Values
    BY <1>t DEF TypeOK
  <2>b. SectorAgrees(buf[s], vers[s], states[s])
    BY <1>t DEF ParserAgrees
  <2>c. /\ buf' = [buf EXCEPT ![s] = b] /\ vers' = [vers EXCEPT ![s] = w]
        /\ states' = [states EXCEPT ![s] = st]
        /\ ~done /\ epoch' = epoch /\ done' = done
    BY <1>t, <1>5 DEF ClearDirty, Logs, TypeOK
  <2>d. b \in Buffer /\ w \in SUBSET Values /\ st \in SectorState
    BY <1>c, <2>a DEF Buffer, SectorState, ParseRemove, Versions
  <2>e. SectorAgrees(b, w, st)
    BY <1>5, <1>p, <2>a, <2>b DEF ClearDirty, SectorAgrees, Buffer, SectorState, MayReachDisk, ParseRemove, Versions
  <2>f. disk' \in [Sectors -> Values] /\ disk' = disk /\ cur_disks = disk
    BY <1>t, <1>5, <2>c, TracksPending DEF ClearDirty, TypeOK
  <2>g. /\ CacheOK(cache', cur_disks')
        /\ cur_disks' = disk'
        /\ \A x \in Sectors : PendingIn(cache', cur_disks', x) = {disk'[x]} \cup vers'[x]
    <3>1. CASE RemoveNow(states[s])
      <4>1. w = {}
        BY <2>a, <2>b, <3>1 DEF RemoveNow, SectorAgrees, Buffer, SectorState, MayReachDisk, Versions
      <4>2. Shrink(s) /\ cur_disks' = disk'
        BY <1>5, <2>f, <3>1 DEF ClearDirty, ReplayRemove
      <4> QED
        BY <1>t, <2>c, <2>f, <4>1, <4>2, ShrinkStep
    <3>2. CASE ~RemoveNow(states[s])
      <4>1. w = vers[s]
        BY <2>a, <2>b, <3>2 DEF RemoveNow, SectorAgrees, Buffer, SectorState, MayReachDisk, Versions
      <4>2. vers' = vers /\ cache' = cache /\ cur_disks' = cur_disks
        BY <1>t, <1>5, <2>c, <3>2, <4>1 DEF ClearDirty, NoReplay, TypeOK
      <4> QED
        BY <1>t, <2>c, <2>f, <4>2, TracksPending
    <3> QED
      BY <3>1, <3>2
  <2> QED
    BY <1>t, <2>c, <2>d, <2>e, <2>f, <2>g, OneSector DEF IInv
<1>6. ASSUME NEW s \in Sectors, UnlockBuffer(s)
      PROVE  IInv'
  <2> DEFINE b == [buf[s] EXCEPT !.locked = FALSE]
             w == Versions(b, vers[s])
             st == ParseUnlock(states[s])
  <2>a. buf[s] \in Buffer /\ states[s] \in SectorState /\ vers[s] \in SUBSET Values
    BY <1>t DEF TypeOK
  <2>b. SectorAgrees(buf[s], vers[s], states[s])
    BY <1>t DEF ParserAgrees
  <2>c. /\ buf' = [buf EXCEPT ![s] = b] /\ vers' = [vers EXCEPT ![s] = w]
        /\ states' = [states EXCEPT ![s] = st]
        /\ ~done /\ epoch' = epoch /\ done' = done
    BY <1>t, <1>6 DEF UnlockBuffer, Logs, TypeOK
  <2>d. b \in Buffer /\ w \in SUBSET Values /\ st \in SectorState
    BY <1>c, <2>a DEF Buffer, SectorState, ParseUnlock, Versions
  <2>e. SectorAgrees(b, w, st)
    BY <1>6, <1>p, <2>a, <2>b DEF UnlockBuffer, SectorAgrees, Buffer, SectorState, MayReachDisk, ParseUnlock, Versions
  <2>f. disk' \in [Sectors -> Values] /\ disk' = disk /\ cur_disks = disk
    BY <1>t, <1>6, <2>c, TracksPending DEF UnlockBuffer, TypeOK
  <2>g. /\ CacheOK(cache', cur_disks')
        /\ cur_disks' = disk'
        /\ \A x \in Sectors : PendingIn(cache', cur_disks', x) = {disk'[x]} \cup vers'[x]
    <3>1. CASE RemoveDelayed(states[s])
      <4>1. w = {}
        BY <2>a, <2>b, <3>1 DEF RemoveDelayed, SectorAgrees, Buffer, SectorState, MayReachDisk, Versions
      <4>2. Shrink(s) /\ cur_disks' = disk'
        BY <1>6, <2>f, <3>1 DEF UnlockBuffer, ReplayRemove
      <4> QED
        BY <1>t, <2>c, <2>f, <4>1, <4>2, ShrinkStep
    <3>2. CASE ~RemoveDelayed(states[s])
      <4>1. w = vers[s]
        BY <2>a, <2>b, <3>2 DEF RemoveDelayed, SectorAgrees, Buffer, SectorState, MayReachDisk, Versions
      <4>2. vers' = vers /\ cache' = cache /\ cur_disks' = cur_disks
        BY <1>t, <1>6, <2>c, <3>2, <4>1 DEF UnlockBuffer, NoReplay, TypeOK
      <4> QED
        BY <1>t, <2>c, <2>f, <4>2, TracksPending
    <3> QED
      BY <3>1, <3>2
  <2> QED
    BY <1>t, <2>c, <2>d, <2>e, <2>f, <2>g, OneSector DEF IInv
<1>7. ASSUME NEW s \in Sectors, EndRequest(s)
      PROVE  IInv'
  <2> DEFINE b == [buf[s] EXCEPT !.flying = FALSE]
             w == {}
             st == ParseWrite(states[s])
  <2>a. buf[s] \in Buffer /\ states[s] \in SectorState /\ vers[s] \in SUBSET Values
    BY <1>t DEF TypeOK
  <2>b. SectorAgrees(buf[s], vers[s], states[s])
    BY <1>t DEF ParserAgrees
  <2>c. /\ buf' = [buf EXCEPT ![s] = b] /\ vers' = [vers EXCEPT ![s] = w]
        /\ states' = [states EXCEPT ![s] = st]
        /\ ~done /\ epoch' = epoch /\ done' = done
    BY <1>t, <1>7 DEF EndRequest, Logs, TypeOK
  <2>d. b \in Buffer /\ w \in SUBSET Values /\ st \in SectorState
    BY <1>c, <2>a DEF Buffer, SectorState, ParseWrite
  <2>e. SectorAgrees(b, w, st)
    BY <1>7, <1>p, <2>a, <2>b DEF EndRequest, SectorAgrees, Buffer, SectorState, MayReachDisk, ParseWrite
  <2>f. disk' \in [Sectors -> Values] /\ Shrink(s) /\ cur_disks' = disk'
    BY <1>t, <1>7, <2>a, <2>c, TracksPending DEF EndRequest, ReplayWrite, TypeOK, Buffer
  <2>g. /\ CacheOK(cache', cur_disks')
        /\ cur_disks' = disk'
        /\ \A x \in Sectors : PendingIn(cache', cur_disks', x) = {disk'[x]} \cup vers'[x]
    <3>1. \A x \in Sectors \ {s} : disk'[x] = disk[x]
      BY <1>t, <1>7 DEF EndRequest, TypeOK
    <3> QED
      BY <1>t, <2>c, <2>f, <3>1, ShrinkStep
  <2> QED
    BY <1>t, <2>c, <2>d, <2>e, <2>f, <2>g, OneSector DEF IInv
<1>8. ASSUME ForgetOldCrashes \/ MarkCurCheck
      PROVE  IInv'
  BY <1>t, <1>8 DEF IInv, TypeOK, ParserAgrees, Tracks, Pending, ForgetOldCrashes,
     MarkCurCheck, kernel, simulator
<1>9. ASSUME Finish
      PROVE  IInv'
  <2>1. DOMAIN cache' = {}
    BY <1>9 DEF Finish, EmptyCache
  <2>2. TypeOK'
    BY <1>t, <1>9, <2>1 DEF TypeOK, Finish, kernel
  <2>3. ParserAgrees'
    BY <1>t, <1>9 DEF ParserAgrees, Finish, kernel
  <2>4. Tracks'
    BY <1>9 DEF Tracks, Finish
  <2> QED
    BY <2>2, <2>3, <2>4 DEF IInv
<1>10. ASSUME UNCHANGED vars
       PROVE  IInv'
  BY <1>t, <1>10 DEF IInv, TypeOK, ParserAgrees, Tracks, Pending, vars, kernel, simulator
<1> QED
  BY <1>1, <1>2, <1>3, <1>4, <1>5, <1>6, <1>7, <1>8, <1>9, <1>10 DEF Next

\* For any sectors and contents, and logs of any length, the parser and the
\* versioned cache keep exactly the contents the kernel may still write.
THEOREM CacheTracksKernel ==
    ASSUME Precise
    PROVE  Spec => [](TypeOK /\ Tracks)
<1>1. IInv /\ [Next]_vars => IInv'
  BY NextIInv
<1>2. IInv => TypeOK /\ Tracks
  BY DEF IInv
<1> QED
  BY <1>1, <1>2, InitIInv, PTL DEF Spec

\* The simulator's cache, log and epochs keep their types, for any sectors,
\* contents and log length.
THEOREM TypesAreKept ==
    ASSUME Precise
    PROVE  Spec => []TypeOK
BY CacheTracksKernel, PTL

-----------------------------------------------------------------------------
(* A batch has only crashes of the present state, and all of them if there *)
(* are few sectors                                                         *)

Few == IsFiniteSet(Sectors) /\ Cardinality(Sectors) <= DetThreshold

\* The disks made from the cache are the disks a crash can leave.
LEMMA CacheCrashes ==
    ASSUME IInv, ~done
    PROVE  CrashDisks(cache, cur_disks) = CrashesOf(disk, vers)
<1>1. /\ CacheOK(cache, cur_disks) /\ cur_disks = disk /\ disk \in [Sectors -> Values]
      /\ vers \in [Sectors -> SUBSET Values]
      /\ \A x \in Sectors : PendingIn(cache, disk, x) = {disk[x]} \cup vers[x]
  BY TracksPending DEF IInv, TypeOK
<1> DEFINE U == UNION ({{disk[x]} : x \in DOMAIN disk} \cup {cache[x] : x \in DOMAIN cache})
<1>2. ASSUME NEW d \in CrashDisks(cache, disk)
      PROVE  d \in CrashesOf(disk, vers)
  <2>1. d \in [Sectors -> U] /\ \A x \in Sectors : d[x] \in PendingIn(cache, disk, x)
    BY <1>1, <1>2 DEF CrashDisks, PendingIn
  <2>2. \A x \in Sectors : d[x] \in {disk[x]} \cup vers[x] /\ d[x] \in Values
    BY <1>1, <2>1
  <2> QED
    BY <2>1, <2>2 DEF CrashesOf
<1>3. ASSUME NEW d \in CrashesOf(disk, vers)
      PROVE  d \in CrashDisks(cache, disk)
  <2>1. d \in [Sectors -> Values] /\ \A x \in Sectors : d[x] \in PendingIn(cache, disk, x)
    BY <1>1, <1>3 DEF CrashesOf
  <2>2. \A x \in Sectors : d[x] = disk[x] \/ (x \in DOMAIN cache /\ d[x] \in cache[x])
    BY <2>1 DEF PendingIn
  <2>3. \A x \in Sectors : d[x] \in U
    BY <1>1, <2>2
  <2>4. d \in [DOMAIN disk -> U]
    BY <1>1, <2>1, <2>3
  <2> QED
    BY <1>1, <2>2, <2>4 DEF CrashDisks
<1> QED
  BY <1>1, <1>2, <1>3

\* What a batch adds to the checked crashes.
LEMMA Batch ==
    ASSUME IInv, ~done, CheckCrashes, CrashEnabled
    PROVE  \E X : /\ X \subseteq CrashesOf(disk, vers)
                  /\ Few => X = CrashesOf(disk, vers)
                  /\ checked' = checked \cup (X \X {epoch})
<1>1. PICK X \in Batches(cache, cur_disks, DetThreshold, RandomTries, Versioned) :
        checked' = checked \cup (X \X {epoch})
  BY DEF CheckCrashes
<1>2. X \subseteq CrashDisks(cache, cur_disks)
  BY DEF Batches
<1>3. ASSUME Few
      PROVE  X = CrashDisks(cache, cur_disks)
  <2>1. DOMAIN cache \subseteq Sectors
    BY DEF IInv, TypeOK
  <2>2. Cardinality(DOMAIN cache) <= Cardinality(Sectors) /\ Cardinality(DOMAIN cache) \in Nat
    BY <1>3, <2>1, FS_Subset, FS_CardinalityType DEF Few
  <2>3. Cardinality(Sectors) \in Nat
    BY <1>3, FS_CardinalityType DEF Few
  <2>4. Cardinality(DOMAIN cache) <= DetThreshold
    BY <1>3, <2>2, <2>3, SimAssumption DEF Few
  <2> QED
    BY <2>4 DEF Batches
<1> QED
  BY <1>1, <1>2, <1>3, CacheCrashes

\* Crashes are checked in batches only.
LEMMA NextChecked ==
    ASSUME Next
    PROVE  ~done /\ (checked' = checked \/ CheckCrashes)
BY DEF Next, MarkDirty, SubmitBio, LockBuffer, ClearDirty, Submit, EndRequest, UnlockBuffer, Logs,
   ForgetOldCrashes, MarkCurCheck, Finish, ReplayAdd, ReplayRemove, ReplayWrite, NoReplay, Shrink, simulator

-----------------------------------------------------------------------------
(* Only possible crashes are checked                                       *)

\* At any time the crashes of the present state are in the history; none has
\* been checked before the call of forget_old_crashes().
SoundInv ==
    /\ Sound
    /\ epoch = "recent" => CrashesOf(disk, vers) \subseteq past
    /\ epoch = "now" => CrashesOf(disk, vers) \subseteq present
    /\ epoch = "gone" => checked = {}
    /\ forgets \in {0, 1}
    /\ forgets = 1 => epoch = "gone"

\* Nothing is checked at the beginning of a trace.
LEMMA InitSound ==
    ASSUME Init, MaxForgets <= 1
    PROVE  SoundInv
<1>1. forgets \in {0, 1}
  BY SimAssumption DEF Init
<1>2. Sound
  BY DEF Init, Sound
<1> QED
  BY <1>1, <1>2 DEF Init, SoundInv

\* A batch only adds crashes that are in the history already, and
\* forget_old_crashes() starts the history anew before anything is checked.
LEMMA NextSound ==
    ASSUME SoundInv, IInv, [Next]_vars
    PROVE  SoundInv'
<1>1. CASE UNCHANGED vars
  BY <1>1 DEF SoundInv, Sound, vars, kernel, simulator, CrashesOf
<1>2. CASE Next
  <2>1. ~done
    BY <1>2, NextChecked
  \* what is checked in the step is in the history before the step
  <2>2. \A c \in checked' : c[1] \in (IF c[2] = "now" THEN present ELSE past)
    <3>1. CASE checked' = checked
      BY <3>1 DEF SoundInv, Sound
    <3>2. CASE checked' # checked
      <4>1. CheckCrashes /\ CrashEnabled
        BY <1>2, <3>2, NextChecked DEF CheckCrashes
      <4>2. PICK X : /\ X \subseteq CrashesOf(disk, vers)
                     /\ checked' = checked \cup (X \X {epoch})
        BY <2>1, <4>1, Batch
      <4>3. X \subseteq (IF epoch = "now" THEN present ELSE past)
        BY <4>1, <4>2 DEF SoundInv, CrashEnabled
      <4> QED
        BY <4>2, <4>3 DEF SoundInv, Sound
    <3> QED
      BY <3>1, <3>2
  <2>3. epoch = "gone" => checked' = checked
    BY <1>2, NextChecked DEF CheckCrashes, CrashEnabled
  <2>4. CASE Logs
    BY <2>2, <2>3, <2>4 DEF Logs, Remember, SoundInv, Sound
  <2>5. CASE ForgetOldCrashes
    <3>1. checked' = {} /\ forgets' = 0 /\ CrashesOf(disk', vers') = past' /\ epoch' = "recent"
      BY <2>5 DEF ForgetOldCrashes, SoundInv, kernel, simulator
    <3> QED
      BY <3>1 DEF SoundInv, Sound
  <2>6. CASE MarkCurCheck
    BY <2>2, <2>6 DEF MarkCurCheck, Remember, SoundInv, Sound
  <2>7. CASE Finish
    BY <2>2, <2>7 DEF Finish, SoundInv, Sound, kernel
  <2> QED
    BY <1>2, <2>4, <2>5, <2>6, <2>7 DEF Next, MarkDirty, SubmitBio, LockBuffer, ClearDirty, Submit,
       EndRequest, UnlockBuffer
<1> QED
  BY <1>1, <1>2

\* For any sectors, contents and length of the log, and whatever batches are
\* chosen at random: only possible crashes are checked, and those that the
\* checker is told are present ones can happen at present.
THEOREM OnlyPossibleCrashes ==
    ASSUME Precise, MaxForgets <= 1
    PROVE  Spec => []Sound
<1>1. Init => IInv /\ SoundInv
  BY InitIInv, InitSound
<1>2. IInv /\ SoundInv /\ [Next]_vars => IInv' /\ SoundInv'
  BY NextIInv, NextSound
<1>3. SoundInv => Sound
  BY DEF SoundInv
<1> QED
  BY <1>1, <1>2, <1>3, PTL DEF Spec

-----------------------------------------------------------------------------
(* All possible crashes are checked                                        *)

\* A crash of the history was checked, or can still happen.
CompleteInv ==
    /\ ~done => \A d \in present : <<d, "now">> \in checked \/ d \in CrashesOf(disk, vers)
    /\ WantsAll /\ ~done =>
         \A d \in past : {<<d, "recent">>, <<d, "now">>} \cap checked # {} \/ d \in CrashesOf(disk, vers)
    /\ epoch = "gone" => past = {}
    /\ epoch # "now" => present = {}
    /\ NowComplete
    /\ AllComplete

\* More contents, more crashes.
LEMMA CrashesGrow ==
    ASSUME NEW d, NEW e, NEW v, NEW w,
           \A x \in Sectors : {d[x]} \cup v[x] \subseteq {e[x]} \cup w[x]
    PROVE  CrashesOf(d, v) \subseteq CrashesOf(e, w)
BY DEF CrashesOf

\* When crashes become impossible they are checked.
LEMMA CheckedOrKept ==
    ASSUME IInv, Precise, Next
    PROVE  CheckCrashes \/ (checked' = checked /\ CrashesOf(disk, vers) \subseteq CrashesOf(disk', vers'))
<1>t. TypeOK /\ ParserAgrees /\ Tracks /\ ~done
  BY NextChecked DEF IInv
<1>1. SUFFICES ASSUME ~CheckCrashes
               PROVE  \A x \in Sectors : {disk[x]} \cup vers[x] \subseteq {disk'[x]} \cup vers'[x]
  BY NextChecked, CrashesGrow
<1>2. \A s \in Sectors : Shrink(s) => vers[s] \subseteq {disk[s]}
  <2> SUFFICES ASSUME NEW s \in Sectors, Shrink(s)
               PROVE  vers[s] \subseteq {disk[s]}
    OBVIOUS
  <2>1. s \notin DOMAIN cache
    BY <1>1 DEF Shrink
  <2> QED
    BY <1>t, <2>1, TracksPending DEF PendingIn
<1>3. \A s \in Sectors : vers[s] \in SUBSET Values /\ SectorAgrees(buf[s], vers[s], states[s])
  BY <1>t DEF TypeOK, ParserAgrees
<1>4. ASSUME NEW s \in Sectors, NEW v \in Contents, MarkDirty(s, v) \/ SubmitBio(s, v)
      PROVE  \A x \in Sectors : {disk[x]} \cup vers[x] \subseteq {disk'[x]} \cup vers'[x]
  BY <1>t, <1>4 DEF TypeOK, MarkDirty, SubmitBio
<1>5. ASSUME NEW s \in Sectors, Submit(s) \/ LockBuffer(s)
      PROVE  \A x \in Sectors : {disk[x]} \cup vers[x] \subseteq {disk'[x]} \cup vers'[x]
  BY <1>t, <1>5 DEF TypeOK, Submit, LockBuffer
<1>6. ASSUME NEW s \in Sectors, EndRequest(s)
      PROVE  \A x \in Sectors : {disk[x]} \cup vers[x] \subseteq {disk'[x]} \cup vers'[x]
  <2>1. vers[s] \subseteq {disk[s]} /\ buf[s].val \in vers[s]
    BY <1>2, <1>3, <1>6 DEF EndRequest, ReplayWrite, SectorAgrees
  <2>2. disk' = [disk EXCEPT ![s] = buf[s].val] /\ vers' = [vers EXCEPT ![s] = {}]
    BY <1>6 DEF EndRequest
  <2> QED
    BY <1>t, <2>1, <2>2 DEF TypeOK
<1>7. ASSUME NEW s \in Sectors, ClearDirty(s)
      PROVE  \A x \in Sectors : {disk[x]} \cup vers[x] \subseteq {disk'[x]} \cup vers'[x]
  <2>1. disk' = disk /\ vers' = [vers EXCEPT ![s] = Versions(buf'[s], @)]
    BY <1>7 DEF ClearDirty
  <2>2. CASE RemoveNow(states[s])
    <3>1. vers[s] \subseteq {disk[s]}
      BY <1>2, <1>7, <2>2 DEF ClearDirty, ReplayRemove
    <3> QED
      BY <1>t, <2>1, <3>1 DEF TypeOK
  <2>3. CASE ~RemoveNow(states[s])
    <3>1. buf[s] \in Buffer /\ buf'[s] = [buf[s] EXCEPT !.dirty = FALSE]
      BY <1>t, <1>7 DEF ClearDirty, TypeOK
    <3>2. Versions(buf'[s], vers[s]) = vers[s]
      BY <1>3, <2>3, <3>1 DEF RemoveNow, SectorAgrees, Versions, MayReachDisk, Buffer
    <3> QED
      BY <1>t, <2>1, <3>2 DEF TypeOK
  <2> QED
    BY <2>2, <2>3
<1>8. ASSUME NEW s \in Sectors, UnlockBuffer(s)
      PROVE  \A x \in Sectors : {disk[x]} \cup vers[x] \subseteq {disk'[x]} \cup vers'[x]
  <2>1. disk' = disk /\ vers' = [vers EXCEPT ![s] = Versions(buf'[s], @)]
    BY <1>8 DEF UnlockBuffer
  <2>2. CASE RemoveDelayed(states[s])
    <3>1. vers[s] \subseteq {disk[s]}
      BY <1>2, <1>8, <2>2 DEF UnlockBuffer, ReplayRemove
    <3> QED
      BY <1>t, <2>1, <3>1 DEF TypeOK
  <2>3. CASE ~RemoveDelayed(states[s])
    <3>1. buf[s] \in Buffer /\ buf'[s] = [buf[s] EXCEPT !.locked = FALSE]
      BY <1>t, <1>8 DEF UnlockBuffer, TypeOK
    <3>2. Versions(buf'[s], vers[s]) = vers[s]
      BY <1>3, <2>3, <3>1 DEF RemoveDelayed, SectorAgrees, Versions, MayReachDisk, Buffer
    <3> QED
      BY <1>t, <2>1, <3>2 DEF TypeOK
  <2> QED
    BY <2>2, <2>3
<1>9. CASE ForgetOldCrashes \/ MarkCurCheck \/ Finish
  BY <1>9 DEF ForgetOldCrashes, MarkCurCheck, Finish, kernel
<1> QED
  BY <1>4, <1>5, <1>6, <1>7, <1>8, <1>9 DEF Next

\* The only crash at the beginning of a trace leaves the initial disk.
LEMMA InitComplete == Init => CompleteInv
BY DEF Init, CompleteInv, NowComplete, AllComplete

\* A crash of the history that becomes impossible is checked in the same
\* step, and what is left is checked at the end.
LEMMA NextComplete ==
    ASSUME CompleteInv, IInv, Precise, Few, [Next]_vars
    PROVE  CompleteInv'
<1>1. CASE UNCHANGED vars
  BY <1>1 DEF CompleteInv, NowComplete, AllComplete, vars, kernel, simulator, CrashesOf
<1>2. CASE Next
  <2>1. ~done /\ epoch \in {"gone", "recent", "now"}
    BY <1>2, NextChecked DEF IInv, TypeOK
  <2>2. CheckCrashes /\ CrashEnabled =>
          /\ checked \subseteq checked'
          /\ \A d \in CrashesOf(disk, vers) : <<d, epoch>> \in checked'
    BY <2>1, Batch
  <2>3. checked \subseteq checked'
    BY <1>2, <2>2, NextChecked DEF CheckCrashes
  \* before the step's own crashes are added to it, the history stays covered
  <2>4. \A d \in present : <<d, "now">> \in checked' \/ d \in CrashesOf(disk', vers')
    <3>1. CASE epoch = "now"
      BY <1>2, <2>1, <2>2, <2>3, <3>1, CheckedOrKept DEF CompleteInv, CrashEnabled
    <3>2. CASE epoch # "now"
      BY <3>2 DEF CompleteInv
    <3> QED
      BY <3>1, <3>2
  <2>5. WantsAll => \A d \in past : \/ {<<d, "recent">>, <<d, "now">>} \cap checked' # {}
                                    \/ d \in CrashesOf(disk', vers')
    <3>1. CASE epoch = "gone"
      BY <3>1 DEF CompleteInv
    <3>2. CASE epoch # "gone"
      <4> SUFFICES ASSUME WantsAll, NEW d \in past, d \notin CrashesOf(disk', vers')
                   PROVE  {<<d, "recent">>, <<d, "now">>} \cap checked' # {}
        OBVIOUS
      <4>1. CrashEnabled
        BY <2>1, <3>2 DEF CrashEnabled
      <4>2. CASE d \in CrashesOf(disk, vers)
        BY <1>2, <2>1, <2>2, <3>2, <4>1, <4>2, CheckedOrKept
      <4>3. CASE d \notin CrashesOf(disk, vers)
        BY <2>1, <2>3, <4>3 DEF CompleteInv
      <4> QED
        BY <4>2, <4>3
    <3> QED
      BY <3>1, <3>2
  <2>6. CASE Logs
    BY <2>1, <2>4, <2>5, <2>6 DEF Logs, Remember, CompleteInv, NowComplete, AllComplete
  <2>7. CASE ForgetOldCrashes
    BY <2>1, <2>4, <2>7 DEF ForgetOldCrashes, CompleteInv, NowComplete, AllComplete, kernel
  <2>8. CASE MarkCurCheck
    BY <2>1, <2>4, <2>5, <2>8 DEF MarkCurCheck, Remember, CompleteInv, NowComplete, AllComplete
  <2>9. CASE Finish
    <3>1. /\ epoch = "now" /\ CrashEnabled /\ CheckCrashes /\ done' = TRUE /\ epoch' = epoch
          /\ past' = past /\ present' = present /\ disk' = disk /\ vers' = vers
      BY <2>9 DEF Finish, CrashEnabled, kernel
    <3>2. \A d \in CrashesOf(disk', vers') : <<d, "now">> \in checked'
      BY <2>2, <3>1
    <3>3. NowComplete' /\ AllComplete'
      BY <2>4, <2>5, <3>1, <3>2 DEF NowComplete, AllComplete
    <3> QED
      BY <3>1, <3>3 DEF CompleteInv
  <2> QED
    BY <1>2, <2>6, <2>7, <2>8, <2>9 DEF Next, MarkDirty, SubmitBio, LockBuffer, ClearDirty, Submit,
       EndRequest, UnlockBuffer
<1> QED
  BY <1>1, <1>2

\* With no more sectors than the deterministic threshold, and logs of any
\* length, every crash that could happen since the LAST_CHECK was checked by
\* check_all_crashes, and every crash that can happen after the CUR_CHECK was
\* checked as a present one.
THEOREM EveryCrashIsChecked ==
    ASSUME Precise, Few
    PROVE  Spec => [](NowComplete /\ AllComplete)
<1>1. Init => IInv /\ CompleteInv
  BY InitIInv, InitComplete
<1>2. IInv /\ CompleteInv /\ [Next]_vars => IInv' /\ CompleteInv'
  BY NextIInv, NextComplete
<1>3. CompleteInv => NowComplete /\ AllComplete
  BY DEF CompleteInv
<1> QED
  BY <1>1, <1>2, <1>3, PTL DEF Spec

\* In particular, every crash that can happen after the CUR_CHECK is checked as
\* a present one, which is what its check function is told (check_now_crashes).
THEOREM PresentCrashesAreChecked ==
    ASSUME Precise, Few
    PROVE  Spec => []NowComplete
BY EveryCrashIsChecked, PTL
=============================================================================
