------------------------------ MODULE StableFS ------------------------------
(***************************************************************************)
(* The oracle of the file system driver (driver/StableFS.C): it replays    *)
(* the log of system calls, keeps what is surely on disk (stable) and what *)
(* applications see (volatile), and the calls between the two as deltas.   *)
(* check accepts a recovered file system when the stable one and some of   *)
(* the deltas explain it.                                                  *)
(*                                                                         *)
(* The object is made once, with the driver, and replays one log for every *)
(* execution of the search.                                                *)
(*                                                                         *)
(* The calls are those of ReasonableFsTestDriver, which takes a new name   *)
(* for every entry and syncs before more than MAX_SET deltas are pending,  *)
(* and fsync.  open and close only keep descriptors: a call names the      *)
(* entry it works on.                                                      *)
(***************************************************************************)
EXTENDS AbstFS, SequencesExt, FiniteSetsExt

CONSTANTS
    MAX_SET,    \* metadata deltas that check accepts, 10 in Powerset.h
    Writes,     \* the writes of writes.C: first word, word behind the last
    Shrink,     \* whether a truncate may cut a file
    MaxLogs,    \* bound: logs
    MaxCalls,   \* bound: calls in the logs
    MaxData,    \* bound: writes and truncates in the logs
    MaxChecks   \* bound: checks

ASSUME StableFSAssumption ==
    /\ MAX_SET \in Nat /\ MaxLogs \in Nat
    /\ MaxCalls \in Nat /\ MaxData \in Nat /\ MaxChecks \in Nat
    /\ Shrink \in BOOLEAN
    /\ \A w \in Writes : w[1] \in Nat /\ w[2] \in Nat /\ w[1] < w[2]

VARIABLES
    stable,    \* the objects of StableFS itself
    volatile,  \* _volatile_fs
    calls,     \* syscalls
    ongoing,   \* ongoing_syscall: its type and the object it works on
    valid,     \* _valid_fs_sigs
    inherited, \* history: what of them was cached in earlier logs, and not in this one
    pending,   \* _pending_deltas of the driver
    names,     \* _name_id: the next new name
    count,     \* logs, calls, writes and truncates, and checks so far
    status     \* "ok", or "error" when check has reported one

vars == <<stable, volatile, calls, ongoing, valid, inherited, pending, names, count, status>>

NoCall == [op |-> "none", id |-> -1]
Invalid == [type |-> "none", target |-> -1]

Init == /\ stable = EmptyFS /\ volatile = EmptyFS
        /\ calls = << >> /\ ongoing = NoCall
        /\ valid = {} /\ inherited = {}
        /\ pending = 0 /\ names = 1
        /\ count = [logs |-> 1, calls |-> 0, data |-> 0, checks |-> 0] /\ status = "ok"

\* finish at the end of a log, or the clear of an error, and start of the next
\* log, of an execution that begins with mount.  None of them empties the cache.
NextLog ==
    /\ status = "error" \/ ongoing = NoCall
    /\ count.logs < MaxLogs /\ count' = [count EXCEPT !.logs = @ + 1]
    /\ stable' = EmptyFS /\ volatile' = EmptyFS
    /\ calls' = << >> /\ ongoing' = NoCall
    /\ inherited' = valid
    /\ pending' = 0 /\ names' = 1
    /\ status' = "ok"
    /\ UNCHANGED valid

-----------------------------------------------------------------------------
(* Deltas                                                                  *)

Add(id, kind) == [type |-> "add", target |-> id, kind |-> kind]
Truncate(id, length) == [type |-> "truncate", target |-> id, length |-> length]
Pwrite(id, w) == [type |-> "pwrite", target |-> id, w |-> w]
AddEntry(d, n, c) == [type |-> "add_entry", target |-> d, name |-> n, child |-> c]
RemoveEntry(d, n, c) == [type |-> "remove_entry", target |-> d, name |-> n, child |-> c]

DataTypes == {"truncate", "pwrite"}
EntryTypes == {"add_entry", "remove_entry"}
MetaTypes == {"add"} \cup EntryTypes

\* The deltas of these types, in the order of the calls.
Kept(delta, types) == IF delta.type \in types THEN <<delta>> ELSE << >>
Deltas(cs, types) ==
    LET upto[i \in 0 .. Len(cs)] ==
          IF i = 0 THEN << >>
          ELSE upto[i - 1] \o Kept(cs[i].deltas[1], types) \o Kept(cs[i].deltas[2], types)
    IN  upto[Len(cs)]

Pending(cs) == {cs[i].deltas[k] : i \in DOMAIN cs, k \in 1 .. 2}

\* Whether the delta applies: a set of deltas it does not is pruned.
Applies(fs, delta) ==
    /\ delta.type # "add" => delta.target \in Ids(fs)
    /\ delta.type = "add_entry" => Named(fs, delta.target, delta.name) = {}
    /\ delta.type = "remove_entry" => <<delta.target, delta.name, delta.child>> \in fs.ent

\* The result of make_delta_stable: an added object must be new.
make_delta_stable(fs, delta) ==
    CASE delta.type = "add" -> add_new_obj(fs, new_obj(delta.kind), delta.target)
      [] delta.type = "truncate" -> truncate(fs, delta.target, delta.length)
      [] delta.type = "pwrite" -> pwrite(fs, delta.target, delta.w)
      [] delta.type = "add_entry" -> link_obj(fs, delta.target, delta.child, delta.name)
      [] delta.type = "remove_entry" -> unlink_obj(fs, delta.target, delta.name)

\* The assertions about the list of calls, with which replay and check begin.
internal_check ==
    \A i \in DOMAIN calls :
        LET op == calls[i].op
            one == calls[i].deltas[1]
            two == calls[i].deltas[2]
        IN  /\ op # "rename" => one.target # two.target
            /\ one # Invalid /\ two # Invalid =>
                 one.type # two.type /\ op \in {"open", "mkdir", "rename"}

-----------------------------------------------------------------------------
(* A call enters                                                           *)

\* A driver that syncs when check would give up.
ForcedLate == pending > MAX_SET

\* ReasonableFsTestDriver::mutate syncs when more than MAX_SET - 2 deltas are
\* pending, in the name space: writes are not counted.
Forced == pending > MAX_SET - 2

Begin(op, id) ==
    /\ status = "ok" /\ ongoing = NoCall /\ count.calls < MaxCalls
    /\ ongoing' = [op |-> op, id |-> id]
    /\ count' = [count EXCEPT !.calls = @ + 1]

\* A call that changes entries; k is what the driver adds to _pending_deltas.
Enter(op, id, k, first, second) ==
    /\ ~Forced /\ Begin(op, id)
    /\ calls' = Append(calls, [op |-> op, deltas |-> <<first, second>>])
    /\ pending' = pending + k
    /\ UNCHANGED <<stable, valid, inherited, status>>

\* The directories that can get an entry, and the entries of an object type.
Dirs == {d \in Ids(volatile) : volatile.obj[d].type = "dir"}
Of(types) == {e \in volatile.ent : volatile.obj[e[3]].type \in types}

EnterCreat == \E d \in Dirs :
    /\ Enter("open", volatile.next, 2,
             Add(volatile.next, "file"), AddEntry(d, names, volatile.next))
    /\ volatile' = Make(volatile, "file", d, names)
    /\ names' = names + 1

EnterMkdir ==
    /\ Enter("mkdir", volatile.next, 2,
             Add(volatile.next, "dir"), AddEntry(Root, names, volatile.next))
    /\ volatile' = Make(volatile, "dir", Root, names)
    /\ names' = names + 1

EnterUnlink == \E e \in Of({"file"}) :
    /\ Enter("unlink", e[3], 1, RemoveEntry(e[1], e[2], e[3]), Invalid)
    /\ volatile' = unlink_obj(volatile, e[1], e[2])
    /\ UNCHANGED names

EnterRmdir == \E e \in Of({"dir"}) :
    /\ \A f \in volatile.ent : f[1] # e[3]
    /\ Enter("rmdir", e[3], 1, RemoveEntry(e[1], e[2], e[3]), Invalid)
    /\ volatile' = unlink_obj(volatile, e[1], e[2])
    /\ UNCHANGED names

EnterLink == \E e \in Of({"file"}), d \in Dirs :
    /\ Enter("link", e[3], 1, AddEntry(d, names, e[3]), Invalid)
    /\ volatile' = link_obj(volatile, d, e[3], names)
    /\ names' = names + 1

EnterRename == \E e \in volatile.ent, d \in Dirs :
    /\ volatile.obj[e[3]].type = "dir" => d = Root
    /\ Enter("rename", e[3], 2, AddEntry(d, names, e[3]), RemoveEntry(e[1], e[2], e[3]))
    /\ volatile' = rename(volatile, e[1], e[2], e[3], d, names)
    /\ names' = names + 1

EnterData(op, id, delta) ==
    /\ count.data < MaxData
    /\ status = "ok" /\ ongoing = NoCall /\ count.calls < MaxCalls
    /\ ongoing' = [op |-> op, id |-> id]
    /\ count' = [count EXCEPT !.calls = @ + 1, !.data = @ + 1]
    /\ calls' = Append(calls, [op |-> op, deltas |-> <<delta, Invalid>>])
    /\ UNCHANGED <<stable, valid, inherited, pending, names, status>>

\* bi_test_truncate cuts or extends a file to the end of one of the writes.
EnterFtruncate == \E e \in Of({"file"}), w \in Writes :
    /\ Shrink \/ w[2] >= Len(volatile.obj[e[3]].data)
    /\ EnterData("ftruncate", e[3], Truncate(e[3], w[2]))
    /\ volatile' = truncate(volatile, e[3], w[2])

EnterPwrite == \E e \in Of({"file"}), w \in Writes :
    /\ EnterData("pwrite64", e[3], Pwrite(e[3], w))
    /\ volatile' = pwrite(volatile, e[3], w)

EnterSync ==
    /\ Begin("sync", -1)
    /\ UNCHANGED <<stable, volatile, calls, valid, inherited, pending, names, status>>

EnterFsync == \E e \in Of({"file"}) :
    /\ Begin("fsync", e[3])
    /\ UNCHANGED <<stable, volatile, calls, valid, inherited, pending, names, status>>

-----------------------------------------------------------------------------
(* A call exits                                                            *)

\* The calls that leave nothing to do: exit_open looks for the file in the
\* volatile file system, where enter_open has made it, and so never runs
\* exit_creat.
Exit ==
    /\ status = "ok" /\ ongoing.op \notin {"none", "sync", "fsync"}
    /\ ongoing' = NoCall
    /\ UNCHANGED <<stable, volatile, calls, valid, inherited, pending, names, count, status>>

ExitSync ==
    /\ status = "ok" /\ ongoing.op = "sync"
    /\ calls' = << >>
    /\ stable' = copy(volatile)
    /\ valid' = {} /\ inherited' = {}
    /\ ongoing' = NoCall /\ pending' = 0
    /\ UNCHANGED <<volatile, names, count, status>>

\* An fsync that leaves an object alone which is stable already.
MakeNew(id) == IF id \in Ids(stable) THEN stable ELSE add_new_obj(stable, volatile.obj[id], id)

\* The file as the volatile file system has it.
make_obj_stable(id) == add_new_obj(stable, volatile.obj[id], id)

Without(id, delta) == IF delta.target = id THEN Invalid ELSE delta

\* An fsync that leaves calls without a delta in the list.
FlushedKept(cs, id) ==
    [i \in DOMAIN cs |-> [cs[i] EXCEPT !.deltas = [k \in 1 .. 2 |-> Without(id, @[k])]]]

\* The calls without the deltas for an object: a call that has none left goes.
Flushed(cs, id) ==
    LET left(c) == [c EXCEPT !.deltas = [k \in 1 .. 2 |-> Without(id, @[k])]]
        upto[i \in 0 .. Len(cs)] ==
          IF i = 0 THEN << >>
          ELSE IF left(cs[i]).deltas = <<Invalid, Invalid>> THEN upto[i - 1]
          ELSE Append(upto[i - 1], left(cs[i]))
    IN  upto[Len(cs)]

\* An fsync that leaves the cache of valid file systems.
ExitFsyncCached ==
    /\ status = "ok" /\ ongoing.op = "fsync"
    /\ stable' = make_obj_stable(ongoing.id)
    /\ calls' = Flushed(calls, ongoing.id)
    /\ ongoing' = NoCall
    /\ UNCHANGED <<volatile, valid, inherited, pending, names, count, status>>

ExitFsync ==
    /\ status = "ok" /\ ongoing.op = "fsync"
    /\ stable' = make_obj_stable(ongoing.id)
    /\ calls' = Flushed(calls, ongoing.id)
    /\ valid' = {} /\ inherited' = {}
    /\ ongoing' = NoCall
    /\ UNCHANGED <<volatile, pending, names, count, status>>
-----------------------------------------------------------------------------
(* StableFS::check                                                         *)

\* Powerset visits the subsets of n deltas in the order of binary counting:
\* subset i takes delta j if bit j - 1 of i is set.
Bit[n \in Nat] == IF n = 0 THEN 1 ELSE 2 * Bit[n - 1]
Takes(i, j) == (i \div Bit[j - 1]) % 2 = 1
Subsets(deltas) == 0 .. (Bit[Len(deltas)] - 1)

\* The deltas of a subset applied in the order of the calls, until one fails.
Applied(fs, deltas, i) ==
    LET upto[j \in 0 .. Len(deltas)] ==
          IF j = 0 THEN [ok |-> TRUE, fs |-> copy(fs)]
          ELSE LET r == upto[j - 1]
               IN  IF ~Takes(i, j) \/ ~r.ok THEN r
                   ELSE IF Applies(r.fs, deltas[j])
                        THEN [ok |-> TRUE, fs |-> make_delta_stable(r.fs, deltas[j])]
                   ELSE [ok |-> FALSE, fs |-> r.fs]
    IN  upto[Len(deltas)]

\* A distance between the subsets to skip that is one power too short.
SkipsMore(k, i) == \E order \in 0 .. MAX_SET : /\ Bit[order] > k /\ Bit[order] <= 2 * k
                                              /\ i % Bit[order - 1] = k % Bit[order - 1]
                                              /\ i >= k

\* skip_prefix after subset k: whatever takes the same of the deltas up to the
\* last one that k takes.
Skips(k, i) == \E order \in 0 .. MAX_SET : /\ Bit[order] > k /\ Bit[order] <= 2 * k
                                          /\ i % Bit[order] = k

\* The file systems that check compares with the recovered one, by subset.
Tried(fs, cs) ==
    LET deltas == Deltas(cs, MetaTypes)
        all == {[i |-> i, r |-> Applied(fs, deltas, i)] : i \in Subsets(deltas)}
        bad == {x.i : x \in {y \in all : ~y.r.ok}}
        ok == {x \in all : /\ x.r.ok /\ ~detect_dangling(x.r.fs)
                           /\ ~\E k \in bad : Skips(k, x.i)}
    IN  {[i |-> x.i, fs |-> x.r.fs, image |-> Canon(fix_refcnts(x.r.fs))] : x \in ok}

\* check_data for one file: shorter, longer, and diff_region both ways.
DataOk(d1, d2, deltas) ==
    /\ Len(d1) > Len(d2) => \E x \in deltas : x.type = "truncate" /\ x.length <= Len(d2)
    /\ Len(d1) < Len(d2) => \E x \in deltas : \/ x.type = "truncate" /\ x.length >= Len(d2)
                                              \/ x.type = "pwrite" /\ x.w[2] >= Len(d2)
    /\ \A i \in DOMAIN d2 : d2[i] = 1 /\ (i \in DOMAIN d1 => d1[i] = 0) =>
          \E x \in deltas : x.type = "pwrite" /\ x.w[1] < i /\ i <= x.w[2]
    /\ \A i \in DOMAIN d1 : d1[i] = 1 => i \in DOMAIN d2 /\ d2[i] = 1

\* The entry at a path.
IdAt(fs, p) == (CHOOSE w \in Walk(fs) : w[1] = p)[2]

check_data(t, image, cs) ==
    \A p \in DOMAIN image :
       image[p].data # t.image[p].data =>
         DataOk(t.image[p].data, image[p].data,
                {x \in ToSet(Deltas(cs, DataTypes)) : x.target = IdAt(t.fs, p)})

\* The first file system tried with the metadata of the recovered one decides.
Matches(tried, image) == {t.i : t \in {u \in tried : Meta(u.image) = Meta(image)}}
Accepts(tried, image, cs) ==
    \E t \in tried : /\ Meta(t.image) = Meta(image)
                     /\ \A i \in Matches(tried, image) : t.i <= i
                     /\ t.image = image \/ check_data(t, image, cs)

\* Their images, up to the one that decides: check caches each before it looks
\* at it.
Looked(tried, image) ==
    {t.image : t \in {u \in tried : \A i \in Matches(tried, image) : u.i <= i}}

check(image) ==
    /\ status = "ok" /\ count.checks < MaxChecks /\ count' = [count EXCEPT !.checks = @ + 1]
    /\ IF image \in valid
       THEN UNCHANGED <<stable, volatile, calls, ongoing, valid, inherited, status>>
       ELSE LET tried == Tried(stable, calls)
                looked == Looked(tried, image)
            IN  IF Accepts(tried, image, calls)
                THEN /\ valid' = valid \cup {image} \cup looked
                     /\ inherited' = inherited \ looked
                     /\ UNCHANGED <<stable, volatile, calls, ongoing, status>>
                ELSE /\ valid' = valid \cup looked
                     /\ stable' = EmptyFS /\ volatile' = EmptyFS /\ calls' = << >>
                     /\ ongoing' = NoCall /\ status' = "error"
                     /\ UNCHANGED inherited
    /\ UNCHANGED <<pending, names>>

-----------------------------------------------------------------------------
(* What a crash may leave on disk: the stable file system with any of the  *)
(* changes of the pending calls, without a name that leads nowhere.  Links *)
(* are counted as an application counts them.                              *)

\* The entries after some of the changes, in order, and the objects that were
\* unreachable after they had been reachable.
Seen(ents) == {w[2] : w \in Walk([ent |-> ents])}
Change(r, x) ==
    LET e == <<x.target, x.name, x.child>>
        ents == IF x.type = "add_entry" THEN r.ents \cup {e} ELSE r.ents \ {e}
    IN  [ents |-> ents, lost |-> r.lost \cup (Seen(r.ents) \ Seen(ents))]
Tree(deltas, i) ==
    LET upto[j \in 0 .. Len(deltas)] ==
          IF j = 0 THEN [ents |-> stable.ent, lost |-> {}]
          ELSE IF Takes(i, j) THEN Change(upto[j - 1], deltas[j]) ELSE upto[j - 1]
    IN  upto[Len(deltas)]
Trees == LET deltas == Deltas(calls, EntryTypes) IN {Tree(deltas, i) : i \in Subsets(deltas)}

\* The contents a file may have: some of its writes, in order.
Written(data, x) == IF x.type = "pwrite" THEN Put(data, x.w) ELSE Cut(data, x.length)
Content(old, deltas, id, i) ==
    LET upto[j \in 0 .. Len(deltas)] ==
          IF j = 0 THEN old
          ELSE IF Takes(i, j) /\ deltas[j].target = id THEN Written(upto[j - 1], deltas[j])
          ELSE upto[j - 1]
    IN  upto[Len(deltas)]
Contents(id) ==
    LET old == IF id \in Ids(stable) THEN stable.obj[id].data ELSE << >>
        deltas == Deltas(calls, DataTypes)
    IN  {Content(old, deltas, id, i) : i \in Subsets(deltas)}

Kind(id) == IF id \in Ids(stable) THEN stable.obj[id].type
            ELSE (CHOOSE x \in Pending(calls) : x.type = "add" /\ x.target = id).kind

ImagesOf(trees) ==
    UNION {LET seen == Seen(t.ents)
               files == {id \in seen : Kind(id) = "file"}
               fs(f) == [obj |-> [id \in seen |->
                           [type |-> Kind(id),
                            ref |-> Links({e \in t.ents : e[1] \in seen \cup {Root}}, id),
                            data |-> IF id \in files THEN f[id] ELSE << >>]],
                         ent |-> t.ents]
           IN  {Canon(fs(f)) : f \in {g \in [files -> UNION {Contents(id) : id \in files}] :
                                        \A id \in files : g[id] \in Contents(id)}}
             : t \in trees}

\* A file that lost its last name is gone: none of these names it again.
Images == ImagesOf({t \in Trees : t.lost \cap Seen(t.ents) = {}})

-----------------------------------------------------------------------------
Enters == \/ EnterCreat \/ EnterMkdir \/ EnterUnlink \/ EnterRmdir \/ EnterLink
          \/ EnterRename \/ EnterFtruncate \/ EnterPwrite \/ EnterSync \/ EnterFsync
Check == \E image \in Images : check(image)

Next == Enters \/ Exit \/ ExitSync \/ ExitFsync \/ Check \/ NextLog

Spec == Init /\ [][Next]_vars

-----------------------------------------------------------------------------
(* Properties                                                              *)

TypeOK ==
    /\ Root \in Ids(stable) /\ Root \in Ids(volatile)
    /\ \A e \in stable.ent \cup volatile.ent : e[1] \in Nat /\ e[2] \in 1 .. names - 1 /\ e[3] > 0
    /\ \A d \in Pending(calls) : d = Invalid \/ d.type \in MetaTypes \cup DataTypes
    /\ status \in {"ok", "error"}

\* No assertion of the oracle fails: internal_check, which comes before every
\* record and every check, holds in every state, also after an fsync took
\* single deltas out of calls, and no delta adds an object that is stable.
AssertionsHold ==
    /\ internal_check
    /\ \A x \in Pending(calls) : x.type = "add" => x.target \notin Ids(stable)

\* The oracle raises no false alarm: whatever some of the pending changes, in
\* any combination, make of what is stable is accepted by check, although it
\* prunes combinations by prefix, lets the first file system with the right
\* metadata decide, and explains data byte by byte.
NoFalseAlarm == LET tried == Tried(stable, calls)
                IN  \A image \in Images : Accepts(tried, image, calls)

\* An image that was cached as valid while this log is replayed would still be
\* accepted if it were checked: new calls leave the cache valid, and what an
\* fsync or a sync makes invalid is not in it any more.  What was cached in an
\* earlier log is excepted: it is answered from the cache until the first sync
\* whether this log explains it or not.
CacheIsSound ==
    LET tried == Tried(stable, calls)
    IN  status = "ok" => \A image \in valid \ inherited : Accepts(tried, image, calls)

\* check never gives up ("too many pending deltas"): the driver's count of
\* pending deltas, which knows nothing of the log, syncs in time.
NeverTooMany == Len(Deltas(calls, MetaTypes)) <= MAX_SET

\* None of these images is accepted, with what is stable, pending and cached.
Rejects(images, fs, cs, sigs) ==
    LET tried == Tried(fs, cs)
    IN  \A image \in images : image \notin sigs /\ ~Accepts(tried, image, cs)

\* What a crash might have left before the sync in progress, and that lacks
\* something it makes durable: anything for sync, the file's data for fsync.
Stale ==
    {image \in Images :
       IF ongoing.op = "sync" THEN image # Canon(volatile)
       ELSE \E p \in DOMAIN image : \E e \in stable.ent \cup volatile.ent :
              /\ e[2] = p[Len(p)] /\ e[3] = ongoing.id
              /\ image[p].data # volatile.obj[ongoing.id].data}

\* A file system that lost what was synced is an error: a state that was a
\* possible crash before a sync or an fsync, and lacks what that wrote, is
\* rejected from its exit on.
SyncIsDurable ==
    [][ExitSync \/ ExitFsync =>
         \E fs \in {stable'}, cs \in {calls'} : Rejects(Stale, fs, cs, valid')]_vars
=============================================================================
