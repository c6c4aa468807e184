------------------------------ MODULE CrashSim ------------------------------
(***************************************************************************)
(* The crash simulator: a storage system runs on a traced device, and the  *)
(* record of its buffer operations is turned into all the disks a crash    *)
(* could have left, each of which is given to the user's checker.          *)
(*                                                                         *)
(*   kernel (external)  -->  LinuxLog  -->  BufferCache  -->  checker      *)
(*   buffer operations       parser         potential         check_one_   *)
(*                                          write set         crash        *)
(*                                                                         *)
(* In the code the log is read when the trace is stopped, and is parsed    *)
(* and then replayed from its beginning.  Parsing and replaying a record   *)
(* depend on nothing that comes later (but see "forgets"), so each record  *)
(* is parsed and replayed here in the step that logs it, next to the state *)
(* of the kernel it has to agree with.  A buffer is one sector.            *)
(***************************************************************************)
EXTENDS LinuxLog, BufferCache

CONSTANTS
    Sectors,
    Contents,        \* contents the file system writes to sectors
    Blank,           \* contents of the initial disk
    Versioned,       \* option permuter::type: "versioned_buffer" or "regular_buffer"
    WantsAll,        \* checker_wants_all() or checker_wants_now()
    DetThreshold,    \* option fsck::deterministic_threshold
    RandomTries,     \* option fsck::random_tries
    DirtyInLock,     \* a buffer may be dirtied again after it was cleaned under its lock
    MaxForgets,      \* bound: calls of forget_old_crashes() in a trace
    MaxRecords       \* bound: records in the log

ASSUME SimAssumption ==
    /\ Blank \notin Contents
    /\ Versioned \in BOOLEAN /\ WantsAll \in BOOLEAN /\ DirtyInLock \in BOOLEAN
    /\ DetThreshold \in Nat /\ RandomTries \in Nat
    /\ MaxForgets \in Nat /\ MaxRecords \in Nat

VARIABLES
    \* the kernel
    buf,       \* per sector: [val, dirty, locked, flying], the buffer and its write in flight
    vers,      \* per sector: contents since the buffer was last written or forgotten
    disk,      \* per sector: what is on the device
    \* the simulator
    states,    \* per sector: the parser's sector_state (_states)
    cache,     \* the potential write set (_cache)
    cur_disks, \* the disk without pending writes (_cur_disks)
    epoch,     \* EpochMgr::_cur: "gone", "recent" or "now"
    forgets,   \* calls of forget_old_crashes() still to come
    checked,   \* <<crash disk, epoch>> given to the checker; time_is_present() tells it the epoch
    nrecs,     \* records so far
    done,
    \* history: the disks a crash could have left, by epoch
    past, present

kernel == <<buf, vers, disk>>
simulator == <<states, cache, cur_disks, checked>>
vars == <<kernel, simulator, epoch, forgets, nrecs, done, past, present>>

Values == Contents \cup {Blank}
Buffer == [val : Values, dirty : BOOLEAN, locked : BOOLEAN, flying : BOOLEAN]

-----------------------------------------------------------------------------
(* What a crash can leave, as the kernel knows it                          *)

\* A buffer that is dirty or being written may reach the disk, with any
\* contents it had since it was last written: the kernel writes dirty buffers
\* back whenever it likes.  One that was cleaned under its lock may have been
\* cleaned to be submitted.
MayReachDisk(b) == b.dirty \/ b.flying \/ b.locked

\* Otherwise its contents are forgotten.
Versions(b, v) == IF MayReachDisk(b) THEN v ELSE {}

CrashesOf(d, v) ==
    {x \in [Sectors -> Values] : \A s \in Sectors : x[s] \in {d[s]} \cup v[s]}

\* A crash may happen after every step.
Remember ==
    /\ past' = IF epoch' = "recent" THEN past \cup CrashesOf(disk', vers') ELSE past
    /\ present' = IF epoch' = "now" THEN present \cup CrashesOf(disk', vers') ELSE present

-----------------------------------------------------------------------------
(* Replaying a sector record                                               *)

\* A simulator that checks the present only.
CrashEnabledNow == epoch = "now"

\* EpochMgr::crash_enabled
CrashEnabled == epoch = "now" \/ (WantsAll /\ epoch = "recent")

\* CacheBase::check_crashes, BufferPermuter::permute and check_one_crash
CheckCrashes ==
    IF CrashEnabled
    THEN \E X \in Batches(cache, cur_disks, DetThreshold, RandomTries, Versioned) :
           checked' = checked \cup (X \X {epoch})
    ELSE UNCHANGED checked

\* EKM_ADD_SECTOR
ReplayAdd(s, v) ==
    /\ cache' = Add(cache, cur_disks, s, v, Versioned)
    /\ UNCHANGED <<cur_disks, checked>>

\* A write set that shrinks unchecked.
ShrinkSilent(s) == UNCHANGED checked /\ cache' = Erase(cache, s)

\* remove_or_write: crashes are checked when the potential write set shrinks.
Shrink(s) ==
    /\ IF s \in DOMAIN cache THEN CheckCrashes ELSE UNCHANGED checked
    /\ cache' = Erase(cache, s)

ReplayRemove(s) == Shrink(s) /\ UNCHANGED cur_disks
ReplayWrite(s, v) == Shrink(s) /\ cur_disks' = [cur_disks EXCEPT ![s] = v]
NoReplay == UNCHANGED <<cache, cur_disks, checked>>

-----------------------------------------------------------------------------
(* The kernel's buffer operations, with the records their hooks log        *)

Logs == /\ ~done
        /\ nrecs < MaxRecords
        /\ nrecs' = nrecs + 1
        /\ UNCHANGED <<epoch, forgets, done>>
        /\ Remember

Init ==
    /\ disk = [s \in Sectors |-> Blank]
    /\ buf = [s \in Sectors |-> [val |-> Blank, dirty |-> FALSE, locked |-> FALSE, flying |-> FALSE]]
    /\ vers = [s \in Sectors |-> {}]
    /\ states = [s \in Sectors |-> NewSector]
    /\ cache = EmptyCache
    /\ cur_disks = disk
    /\ forgets \in 0 .. MaxForgets
    /\ epoch = IF forgets = 0 THEN "recent" ELSE "gone"
    /\ checked = {} /\ nrecs = 0 /\ done = FALSE
    /\ past = IF epoch = "recent" THEN CrashesOf(disk, vers) ELSE {}
    /\ present = {}

\* The file system changes the buffer and calls mark_buffer_dirty, which takes
\* no lock: EKM_BH_dirty.
MarkDirty(s, v) ==
    /\ DirtyInLock \/ ~states[s].delayed_clear
    /\ buf' = [buf EXCEPT ![s].val = v, ![s].dirty = TRUE]
    /\ vers' = [vers EXCEPT ![s] = @ \cup {v}]
    /\ states' = [states EXCEPT ![s] = ParseDirty(@)]
    /\ ReplayAdd(s, v)
    /\ UNCHANGED disk
    /\ Logs

\* lock_buffer: EKM_BH_lock
LockBuffer(s) ==
    /\ ~buf[s].locked
    /\ buf' = [buf EXCEPT ![s].locked = TRUE]
    /\ states' = [states EXCEPT ![s] = ParseLock(@)]
    /\ NoReplay
    /\ UNCHANGED <<vers, disk>>
    /\ Logs

\* clear_buffer_dirty, also of a buffer that is not dirty: EKM_BH_clean
ClearDirty(s) ==
    /\ buf' = [buf EXCEPT ![s].dirty = FALSE]
    /\ vers' = [vers EXCEPT ![s] = Versions(buf'[s], @)]
    /\ states' = [states EXCEPT ![s] = ParseRemove(@)]
    /\ IF RemoveNow(states[s]) THEN ReplayRemove(s) ELSE NoReplay
    /\ UNCHANGED disk
    /\ Logs

\* submit_bh of a locked buffer (EKM_BH_write, then EKM_BIO_start_write)
Submit(s) ==
    /\ buf[s].locked /\ ~buf[s].flying
    /\ buf' = [buf EXCEPT ![s].flying = TRUE]
    /\ vers' = [vers EXCEPT ![s] = @ \cup {buf[s].val}]
    /\ states' = [states EXCEPT ![s] = ParseSubmit(@)]
    /\ ReplayAdd(s, buf[s].val)
    /\ UNCHANGED disk
    /\ Logs

\* submit_bio of a page that has no buffer: EKM_BIO_start_write
SubmitBio(s, v) ==
    /\ ~MayReachDisk(buf[s])
    /\ buf' = [buf EXCEPT ![s].val = v, ![s].flying = TRUE]
    /\ vers' = [vers EXCEPT ![s] = @ \cup {v}]
    /\ states' = [states EXCEPT ![s] = ParseSubmit(@)]
    /\ ReplayAdd(s, v)
    /\ UNCHANGED disk
    /\ Logs

\* The device writes what is in the buffer and ends the request:
\* EKM_BIO_write_done.
EndRequest(s) ==
    /\ buf[s].flying
    /\ disk' = [disk EXCEPT ![s] = buf[s].val]
    /\ buf' = [buf EXCEPT ![s].flying = FALSE]
    /\ vers' = [vers EXCEPT ![s] = {}]
    /\ states' = [states EXCEPT ![s] = ParseWrite(@)]
    /\ ReplayWrite(s, buf[s].val)
    /\ Logs

\* unlock_buffer, by the end of the write or by who gave up: EKM_BH_unlock
UnlockBuffer(s) ==
    /\ buf[s].locked
    /\ buf' = [buf EXCEPT ![s].locked = FALSE]
    /\ vers' = [vers EXCEPT ![s] = Versions(buf'[s], @)]
    /\ states' = [states EXCEPT ![s] = ParseUnlock(@)]
    /\ IF RemoveDelayed(states[s]) THEN ReplayRemove(s) ELSE NoReplay
    /\ UNCHANGED disk
    /\ Logs

-----------------------------------------------------------------------------
(* The checked program's calls                                             *)

\* forget_old_crashes: LAST_CHECK.  Only crashes from here on matter.
\* RecParser::finish puts a LAST_CHECK in front of a log that has none.
ForgetOldCrashes ==
    /\ ~done /\ epoch # "now" /\ forgets > 0
    /\ epoch' = "recent"
    /\ forgets' = forgets - 1
    /\ past' = CrashesOf(disk, vers)
    /\ UNCHANGED <<kernel, simulator, nrecs, done, present>>

\* mark_cur_check: CUR_CHECK.  The records that follow are those of umount.
MarkCurCheck ==
    /\ ~done /\ epoch = "recent" /\ forgets = 0
    /\ epoch' = "now"
    /\ UNCHANGED <<kernel, simulator, forgets, nrecs, done>>
    /\ Remember

\* CacheBase::finish at the end of the log: the last batch.
Finish ==
    /\ ~done /\ epoch = "now"
    /\ done' = TRUE
    /\ CheckCrashes
    /\ cache' = EmptyCache
    /\ UNCHANGED <<kernel, states, cur_disks, epoch, forgets, nrecs, past, present>>

Next ==
    \/ \E s \in Sectors :
         \/ \E v \in Contents : MarkDirty(s, v) \/ SubmitBio(s, v)
         \/ LockBuffer(s) \/ ClearDirty(s) \/ Submit(s) \/ EndRequest(s) \/ UnlockBuffer(s)
    \/ ForgetOldCrashes \/ MarkCurCheck \/ Finish

Spec == Init /\ [][Next]_vars

-----------------------------------------------------------------------------
\* Besides the types: a sector is in the cache only with pending contents
\* (Combination::ceilings asserts it) that differ from what is on the disk, so
\* that no batch has the same crash disk twice.
TypeOK ==
    /\ buf \in [Sectors -> Buffer]
    /\ vers \in [Sectors -> SUBSET Values]
    /\ disk \in [Sectors -> Values]
    /\ cur_disks \in [Sectors -> Values]
    /\ states \in [Sectors -> SectorState]
    /\ DOMAIN cache \subseteq Sectors
    /\ \A s \in DOMAIN cache : cache[s] \subseteq Values \ {cur_disks[s]} /\ cache[s] # {}
    /\ epoch \in {"gone", "recent", "now"}
    /\ done \in BOOLEAN

Pending(s) == {cur_disks[s]} \cup (IF s \in DOMAIN cache THEN cache[s] ELSE {})

\* The simulator's disk is the disk, and the contents it takes as possible
\* for a sector are exactly those the kernel may still write: none is lost,
\* and none that was written over or forgotten is kept.
Tracks ==
    ~done =>
      \A s \in Sectors :
        /\ cur_disks[s] = disk[s]
        /\ Pending(s) = {disk[s]} \cup vers[s]

\* What makes Tracks inductive: the parser's sector states agree with the
\* buffers, and tell whether a locked buffer still has contents to forget.
SectorAgrees(b, v, st) ==
    /\ st.locked = b.locked
    /\ st.submitted = b.flying
    /\ st.delayed_clear => b.locked /\ ~b.dirty
    /\ v # {} => MayReachDisk(b)
    /\ b.flying => b.val \in v
    /\ v # {} /\ ~b.dirty /\ ~b.flying => st.delayed_clear

ParserAgrees == \A s \in Sectors : SectorAgrees(buf[s], vers[s], states[s])

\* The inductive invariant of the parser and the versioned cache.
IInv == TypeOK /\ ParserAgrees /\ Tracks

\* check_now_crashes: "Check all possible crashes that can happen now."
NowComplete == done => \A d \in present : <<d, "now">> \in checked

\* check_all_crashes: "Check all crashes from the last time we checked crashes
\* or called forget_old_crashes() until now".  A crash of the recent past may
\* be checked as a present one.
AllComplete == done /\ WantsAll => \A d \in past : {<<d, "recent">>, <<d, "now">>} \cap checked # {}

\* Only possible crashes are checked, and a crash that the checker is told is
\* a present one can happen at present: it is held against the state after
\* the commit.
Sound ==
    \A c \in checked :
      c[1] \in (IF c[2] = "now" THEN present ELSE past)
=============================================================================
