------------------------------- MODULE EkmLog -------------------------------
(***************************************************************************)
(* The log of the kernel module, and how the simulator fetches it.         *)
(*                                                                         *)
(* Kernel threads reach the hooks at any time.  A hook looks under the log *)
(* lock whether the device is traced, releases the lock, takes it again    *)
(* and appends its record (ekm-linux-2.6/ekm_log.c).  The log is a list of *)
(* pages (ekm-common/ekm_log_buf.c).  The simulator runs traces one after  *)
(* another; at the end of a trace it may stop it and fetch the log with    *)
(* four ioctls (CrashSim::stop_trace, RawLog::RawLog).                     *)
(*                                                                         *)
(* A record of length n is n units <<its number, its lsn, k, n>>, k in     *)
(* 1 .. n; lengths are in units of which PageSize fit on a page.  Only one *)
(* device is traced.                                                       *)
(***************************************************************************)
EXTENDS Integers, Sequences

CONSTANTS
    Threads,      \* kernel threads
    PageSize,     \* EKM_LOG_DATA_SIZE
    Lengths,      \* of records
    MaxRecords,   \* bound: records in all traces
    MaxTraces     \* bound: traces

ASSUME EkmAssumption ==
    /\ PageSize \in Nat \ {0}
    /\ Lengths \subseteq Nat \ {0}

VARIABLES
    on,          \* log_devices[i].on
    pages,       \* the pages from ekm_log_start to ekm_log_cur
    log_size,    \* ekm_log_size
    lsn,         \* ekm_lsn
    num_pages,   \* ekm_num_pages
    hook,        \* per thread: has it seen the device traced?
    sim,         \* where the simulator is
    size,        \* req.size: the size of the buffer it fetches the log into
    temp,        \* the pages that copy_log_buffer has taken and not yet freed
    reg,         \* the value of ekm_num_pages loaded to decrement it
    raw,         \* the log fetched
    traces,      \* traces so far
    nrecs,       \* records so far
    traced       \* history: units logged since the trace began, until it is stopped

log == <<pages, log_size, lsn, num_pages>>
fetch == <<size, temp, reg, raw>>
vars == <<on, log, hook, sim, fetch, traces, nrecs, traced>>

\* What copy_log_buffer has copied after i of the pages ps, and in the end.
Copied(ps) ==
    LET copied[i \in 0 .. Len(ps)] == IF i = 0 THEN <<>> ELSE copied[i - 1] \o ps[i]
    IN  copied
Data(ps) == Copied(ps)[Len(ps)]

-----------------------------------------------------------------------------
(* log_add_buf                                                             *)

\* A faulty log: what would have begun a new page is lost.
AddUnitLost(ps, u) ==
    IF ps = <<>> THEN <<<<u>>>>
    ELSE IF Len(ps[Len(ps)]) >= PageSize THEN Append(ps, <<>>)
    ELSE [ps EXCEPT ![Len(ps)] = Append(@, u)]

\* The loop of log_add_buf, unit by unit: add_log_page when the page is full.
AddUnit(ps, u) ==
    IF ps = <<>> \/ Len(ps[Len(ps)]) >= PageSize THEN Append(ps, <<u>>)
    ELSE [ps EXCEPT ![Len(ps)] = Append(@, u)]

Added(ps, units) ==
    LET added[k \in 0 .. Len(units)] == IF k = 0 THEN ps ELSE AddUnit(added[k - 1], units[k])
    IN  added

\* A record of length n with sequence number l, under the log lock.
Record(n, l) == [k \in 1 .. n |-> <<nrecs, l, k, n>>]
LogRecord(n, l) ==
    LET new == Added(pages, Record(n, l))[n]
    IN  /\ pages' = new
        /\ log_size' = log_size + n
        /\ num_pages' = num_pages + (Len(new) - Len(pages))
        /\ nrecs' = nrecs + 1
        /\ traced' = IF on THEN traced \o Record(n, l) ELSE traced

-----------------------------------------------------------------------------
Init ==
    /\ on = FALSE
    /\ pages = <<>> /\ log_size = 0 /\ lsn = 0 /\ num_pages = 0
    /\ hook = [t \in Threads |-> FALSE]
    /\ sim = "before" /\ size = 0 /\ temp = <<>> /\ reg = 0 /\ raw = <<>>
    /\ traces = 0 /\ nrecs = 0 /\ traced = <<>>

\* is_traced_bdev at the beginning of a hook
HookEnter(t) ==
    /\ ~hook[t] /\ on
    /\ hook' = [hook EXCEPT ![t] = TRUE]
    /\ UNCHANGED <<on, log, sim, fetch, traces, nrecs, traced>>

\* the rest of it
HookLog(t, n) ==
    /\ hook[t] /\ nrecs < MaxRecords
    /\ LogRecord(n, lsn)
    /\ lsn' = lsn + 1
    /\ hook' = [hook EXCEPT ![t] = FALSE]
    /\ UNCHANGED <<on, sim, fetch, traces>>

\* ekm_log_app_record: forget_old_crashes() and mark_cur_check()
AppRecord(n) ==
    /\ sim = "run" /\ nrecs < MaxRecords
    /\ LogRecord(n, lsn + 1)
    /\ lsn' = lsn + 1
    /\ UNCHANGED <<on, hook, sim, fetch, traces>>

\* empty_log
EmptyLog ==
    /\ pages' = <<>> /\ log_size' = 0 /\ lsn' = 0
    /\ num_pages' = num_pages - Len(pages)

\* CrashSim::before_transitions: ekm_empty_log, "just in case"
BeforeTransitions ==
    /\ sim = "before" /\ traces < MaxTraces
    /\ EmptyLog
    /\ traces' = traces + 1
    /\ traced' = <<>>
    /\ sim' = "start"
    /\ UNCHANGED <<on, hook, fetch, nrecs>>

\* CrashSim::start_trace, which only warns if the trace of the transition
\* before was never stopped
StartTrace ==
    /\ sim = "start"
    /\ on' = TRUE
    /\ sim' = "run"
    /\ UNCHANGED <<log, hook, fetch, traces, nrecs, traced>>

\* The transition ends without checking crashes.
EndTransition ==
    /\ sim = "run"
    /\ sim' = "before"
    /\ UNCHANGED <<on, log, hook, fetch, traces, nrecs, traced>>

\* CrashSim::stop_trace
StopTrace ==
    /\ sim = "run"
    /\ on' = FALSE
    /\ sim' = "size"
    /\ UNCHANGED <<log, hook, fetch, traces, nrecs, traced>>

\* A reader that asks for a buffer that is too small.
GetLogSizeLess ==
    /\ sim = "size"
    /\ size' = IF log_size = 0 THEN 0 ELSE log_size - 1
    /\ sim' = "copy"
    /\ UNCHANGED <<on, log, hook, temp, reg, raw, traces, nrecs, traced>>

\* get_log_size
GetLogSize ==
    /\ sim = "size"
    /\ size' = log_size
    /\ sim' = "copy"
    /\ UNCHANGED <<on, log, hook, temp, reg, raw, traces, nrecs, traced>>

\* A faulty copy_log_buffer that does not compare the sizes.
CopyUnchecked ==
    /\ sim = "copy"
    /\ temp' = pages /\ pages' = <<>> /\ log_size' = 0 /\ raw' = Data(pages)
    /\ sim' = "free"
    /\ UNCHANGED <<on, lsn, num_pages, hook, size, reg, traces, nrecs, traced>>

\* A faulty copy_log_buffer that empties the log when it does not fit.
CopyDrops ==
    /\ sim = "copy"
    /\ pages' = <<>> /\ log_size' = 0
    /\ IF log_size > size
       THEN sim' = "size" /\ UNCHANGED <<temp, raw>>
       ELSE sim' = "free" /\ temp' = pages /\ raw' = Data(pages)
    /\ UNCHANGED <<on, lsn, num_pages, hook, size, reg, traces, nrecs, traced>>

\* copy_log_buffer takes the pages under the lock, and copies them without it:
\* nobody else knows them.  It fails when the log has outgrown the buffer, and
\* RawLog::RawLog starts again.
CopyLogBuffer ==
    /\ sim = "copy"
    /\ IF log_size > size
       THEN /\ sim' = "size"
            /\ UNCHANGED <<pages, log_size, temp, raw>>
       ELSE /\ sim' = "free"
            /\ temp' = pages /\ raw' = Data(pages)
            /\ pages' = <<>> /\ log_size' = 0
    /\ UNCHANGED <<on, lsn, num_pages, hook, size, reg, traces, nrecs, traced>>

\* empty_log_helper without the lock: the decrement of ekm_num_pages is a load
\* and a store.
FreeLoad ==
    /\ sim = "free" /\ temp # <<>>
    /\ reg' = num_pages
    /\ sim' = "store"
    /\ UNCHANGED <<on, log, hook, size, temp, raw, traces, nrecs, traced>>

FreeStore ==
    /\ sim = "store"
    /\ num_pages' = reg - 1
    /\ temp' = Tail(temp)
    /\ sim' = "free"
    /\ UNCHANGED <<on, pages, log_size, lsn, hook, size, reg, raw, traces, nrecs, traced>>

\* ekm_empty_log after the copy: "this resets lsn"
EmptyAfter ==
    /\ sim = "free" /\ temp = <<>>
    /\ EmptyLog
    /\ sim' = "fetched"
    /\ UNCHANGED <<on, hook, fetch, traces, nrecs, traced>>

\* The log is parsed, crashes are checked, and the path ends.
EndPath ==
    /\ sim = "fetched"
    /\ sim' = "before"
    /\ UNCHANGED <<on, log, hook, fetch, traces, nrecs, traced>>

Fetch == GetLogSize \/ CopyLogBuffer \/ FreeLoad \/ FreeStore \/ EmptyAfter

Next ==
    \/ \E t \in Threads : HookEnter(t) \/ \E n \in Lengths : HookLog(t, n)
    \/ \E n \in Lengths : AppRecord(n)
    \/ BeforeTransitions \/ StartTrace \/ EndTransition \/ StopTrace
    \/ Fetch \/ EndPath

Spec == Init /\ [][Next]_vars

\* The simulator's process is scheduled while it fetches the log.
FairSpec == Spec /\ WF_vars(Fetch)

-----------------------------------------------------------------------------
\* Besides the types: all pages but the last are full, none is empty, and
\* ekm_log_size is the size of the log.
TypeOK ==
    /\ on \in BOOLEAN /\ hook \in [Threads -> BOOLEAN]
    /\ sim \in {"before", "start", "run", "size", "copy", "free", "store", "fetched"}
    /\ size \in Nat /\ lsn \in Nat
    /\ log_size = Len(Data(pages))
    /\ \A i \in DOMAIN pages : Len(pages[i]) \in 1 .. PageSize
    /\ \A i \in DOMAIN pages : i < Len(pages) => Len(pages[i]) = PageSize

\* The log never outgrows the user's buffer between the two ioctls that ask
\* for its size and copy it.
Fits == sim \in {"free", "store"} => Len(raw) <= size

\* The first unit of a record begins it, each other one follows the one before
\* it, and the last one ends it.
WholeRecords(d) ==
    \A i \in DOMAIN d :
      /\ d[i][3] = 1 \/ (i > 1 /\ d[i - 1] = <<d[i][1], d[i][2], d[i][3] - 1, d[i][4]>>)
      /\ d[i][3] = d[i][4]
         \/ (i < Len(d) /\ d[i + 1] = <<d[i][1], d[i][2], d[i][3] + 1, d[i][4]>>)

\* A fetched log has only whole records, however threads interleave and
\* wherever pages end: the parser would report a corrupted log.
Whole == WholeRecords(raw)

\* A fetched log has everything that was logged until the trace was stopped,
\* in order.
NoneLost ==
    sim = "fetched" => \E i \in 0 .. Len(raw) - Len(traced) : SubSeq(raw, i + 1, i + Len(traced)) = traced

\* RawLog::RawLog: the loop around the two ioctls ends ("TODO: prevent infinite
\* loop") once the trace is stopped.
Fetched == sim = "size" ~> sim = "fetched"
=============================================================================
