---------------------------- MODULE ModelChecker ----------------------------
(***************************************************************************)
(* The explicit-state search of eXplode (mcl/ModelChecker.C, StateQueue.h, *)
(* State.h), driving a test harness (mcl/mcl.h) through the choice points  *)
(* of mcl/Random.C.                                                        *)
(*                                                                         *)
(* A state is not stored: it is the list of choices that leads to it from  *)
(* a checkpoint, and is regenerated by replaying that list.  The search    *)
(* state itself (queue, checkpoint table, signature table) is saved to a   *)
(* file from which a rebooted checker resumes.                             *)
(*                                                                         *)
(* The harness is the variable "test" (_test), fixed in a behaviour:       *)
(*   raw, init  system state before and after init_state()                 *)
(*   sig        get_sig()                                                  *)
(*   tree       the choice tree of run_one_transition() in each state      *)
(*   ret, to    how a leaf of that tree returns, and the state it leaves   *)
(*   check      what after_new_transition() returns in a new state         *)
(*   save       the states for which should_checkpoint() holds             *)
(*   stateful   whether checkpoint()/restore() are overridden              *)
(*   queue      the option mcl::state_queue it is run with                 *)
(* before_new_transition() and after_transitions() return normally.        *)
(***************************************************************************)
EXTENDS Random, FiniteSets, Functions

CONSTANTS
    Sys,          \* states of the checked system
    Tests,        \* harnesses
    Persistent,   \* option mcl::persistent: a monitor reboots the checker
    CkptStates,   \* option mcl::ckpt_states
    MaxBugs,      \* option mcl::max_bugs
    MaxState,     \* option mcl::max_state, 0 for no limit
    MaxFaults     \* bound: crashes, failing opens and scheduled restarts

\* Return codes of a harness function (mcl/mcl.h).
Codes == {"EXIT", "SKIP", "ABORT", "BUG"}

ASSUME ConfigAssumption ==
    /\ Persistent \in BOOLEAN
    /\ CkptStates \in Nat \ {0}
    /\ MaxBugs \in Nat /\ MaxState \in Nat /\ MaxFaults \in Nat

ASSUME TestsAssumption ==
    \A t \in Tests :
      /\ t.queue \in {"bfs", "dfs", "priority"}
      /\ t.raw \in Sys /\ t.init \in Sys
      /\ t.save \subseteq Sys /\ t.stateful \in BOOLEAN
      /\ DOMAIN t.sig = Sys
      /\ t.check \in [Sys -> Codes \ {"SKIP"}]
      /\ \A h \in Sys : /\ IsTree(t.tree[h])
                        /\ \A p \in DOMAIN t.tree[h] :
                             t.ret[h][p] \in Codes /\ t.to[h][p] \in Sys

VARIABLES
    test,     \* the harness (_test)
    sys,      \* the state the checked system is in
    queue,    \* _q: records [id, start, sig, trace]
    visited,  \* _visited_states: signature -> id
    ckpts,    \* _ckpts: id -> [data, parent_id, trace]
    curr,     \* _curr, the state being expanded
    rand,     \* _rand, an EnumRandom object
    rest,     \* choices a ReplayRandom has still to play back
    node,     \* choices returned to the running transition
    bugs,     \* _bugs
    sched,    \* _need_restart
    skt,      \* the monitor connection _mon_skt: "none", "open" or "closed"
    disk,     \* checkpoint files: see Store below
    faults,   \* faults that happened
    traces,   \* trace directories on disk: number -> [old, new]
    ran,      \* history: <<system state, leaf>> executed as a new transition
    busy,     \* history: signature of the state taken from _q and not finished
    result,   \* of replaying a trace file: "bug" or "none"
    pc

search == <<queue, visited, ckpts, bugs>>
history == <<traces, ran, busy>>
vars == <<test, sys, search, curr, rand, rest, node, sched, skt, disk, faults,
          history, result, pc>>

-----------------------------------------------------------------------------
(* Helpers                                                                 *)

With(f, k, v) == [x \in DOMAIN f \cup {k} |-> IF x = k THEN v ELSE f[x]]

NumStates == Cardinality(DOMAIN visited)

Leaves(h) == {p \in DOMAIN test.tree[h] : test.tree[h][p] = 0}

\* StateQueue::push.  PrioQueue compares pointers, so its position is
\* whatever the allocator made of them.
Pushed(q, s) ==
    CASE test.queue = "bfs" -> {Append(q, s)}
      [] test.queue = "dfs" -> {<<s>> \o q}
      [] OTHER -> {SubSeq(q, 1, i) \o <<s>> \o SubSeq(q, i + 1, Len(q)) : i \in 0 .. Len(q)}

\* TestHarness::checkpoint then restore: the default restore() ignores the
\* saved bytes and calls init_state().
Saved(h) == IF test.stateful THEN h ELSE test.init

\* A trace that starts at the parent checkpoint instead of at the initial state.
PathOfLast == [id \in DOMAIN ckpts |-> ckpts[id].trace]

\* Choices that lead from the initial state to checkpoint id, collected by
\* store_trace_file along the parent links.
PathTo == LET path[id \in DOMAIN ckpts] ==
                IF id = 0 THEN ckpts[0].trace
                ELSE path[ckpts[id].parent_id] \o ckpts[id].trace
          IN  path

\* The trace file of the present execution.
Trace == [old |-> PathTo[curr.start] \o curr.trace, new |-> rand.choices]

-----------------------------------------------------------------------------
(* The checkpoint file.  A file has an image of the search state, of which  *)
(* the first len of the four sections (queue, checkpoints, signatures, mode *)
(* and bug count) are written; disk.file is what the name refers to,        *)
(* disk.old what it referred to when the directory was last synced.         *)

NoFile == [exists |-> FALSE, img |-> << >>, len |-> 0, synced |-> TRUE]
Sections == 4

\* A checkpoint that leaves out the state about to be dequeued.
ImageTail == [queue |-> IF queue = << >> THEN queue ELSE Tail(queue),
              visited |-> visited, ckpts |-> ckpts, bugs |-> bugs]
Image == [queue |-> queue, visited |-> visited, ckpts |-> ckpts, bugs |-> bugs]

\* What a power cycle can leave of the checkpoint file: the old or the new
\* directory entry and, unless the data was synced, any prefix of it.
Survivors ==
    UNION {IF f.synced THEN {f} ELSE {[f EXCEPT !.len = n] : n \in 0 .. f.len} :
             f \in {disk.old, disk.file}}

-----------------------------------------------------------------------------
(* Model checking mode                                                     *)

NoState == [id |-> 0, start |-> 0, sig |-> test.sig[test.raw], trace |-> << >>]

Init ==
    /\ test \in Tests
    /\ sys = test.raw
    /\ queue = << >> /\ visited = << >> /\ ckpts = << >> /\ bugs = 0
    /\ curr = NoState
    /\ rand = EnumReset /\ rest = << >> /\ node = << >>
    /\ sched = FALSE
    /\ skt = "none"
    /\ disk = [tmp |-> NoFile, file |-> NoFile, old |-> NoFile]
    /\ faults = 0
    /\ traces = << >> /\ ran = {} /\ busy = {} /\ result = "none"
    /\ pc = "start"

\* model_check up to the loop: connect_to_monitor and, unless the search was
\* restored, push init_state().  get_sig() and checkpoint() run before any
\* init_state() of the harness.
Start ==
    /\ pc = "start"
    /\ skt' = IF Persistent THEN "open" ELSE "none"
    /\ LET s == [id |-> 0, start |-> 0, sig |-> test.sig[sys], trace |-> << >>]
       IN  /\ queue' = <<s>>
           /\ visited' = With(visited, s.sig, s.id)
           /\ ckpts' = With(ckpts, s.id, [data |-> Saved(sys), parent_id |-> 0, trace |-> << >>])
    /\ pc' = "loop"
    /\ UNCHANGED <<test, sys, bugs, curr, rand, rest, node, sched, disk, faults, history, result>>

\* A loop that waits for the queue to fill.
LoopSpins ==
    /\ pc = "loop"
    /\ pc' = IF queue = << >> THEN "loop"
             ELSE IF Persistent /\ NumStates % CkptStates = 0 THEN "save_loop"
             ELSE "dequeue"
    /\ UNCHANGED <<test, sys, search, curr, rand, rest, node, sched, skt, disk, faults, history, result>>

\* Top of the loop: end_model_check when the queue is empty, a periodic
\* self_checkpoint when it is due.
Loop ==
    /\ pc = "loop"
    /\ pc' = IF queue = << >> THEN "ended"
             ELSE IF Persistent /\ NumStates % CkptStates = 0 THEN "save_loop"
             ELSE "dequeue"
    /\ UNCHANGED <<test, sys, search, curr, rand, rest, node, sched, skt, disk, faults, history, result>>

\* restart(1) and restart(2) end with sync(), want_restart and close(); the
\* checker then runs on until it is rebooted or notices the closed socket.
TellMonitor == /\ skt' = "closed"
               /\ disk' = [disk EXCEPT !.old = disk.file]

\* A scheduled restart is carried out, and the next state is dequeued.
Dequeue ==
    /\ pc = "dequeue"
    /\ IF sched THEN TellMonitor ELSE UNCHANGED <<skt, disk>>
    /\ curr' = Head(queue)
    /\ queue' = Tail(queue)
    /\ rand' = EnumReset
    /\ busy' = {curr'.sig}
    /\ pc' = "set"
    /\ UNCHANGED <<test, sys, visited, ckpts, bugs, rest, node, sched, faults, traces, ran, result>>

\* set_state: restore the checkpoint the state starts from; replay only when
\* there are choices to replay.
SetState ==
    /\ pc = "set"
    /\ sys' = ckpts[curr.start].data
    /\ rest' = curr.trace
    /\ node' = << >>
    /\ pc' = IF curr.trace = << >> THEN "run" ELSE "regen"
    /\ UNCHANGED <<test, search, curr, rand, sched, skt, disk, faults, history, result>>

\* One transition replayed in MODE_REGEN_STATE.  It must return normally in
\* a state already seen, and must find the choices it asks for.
Regen ==
    /\ pc = "regen"
    /\ IF \E p \in Leaves(sys) : CanReplay(p, rest)
       THEN LET p == CHOOSE p \in Leaves(sys) : CanReplay(p, rest)
                h == test.to[sys][p]
            IN  /\ sys' = h
                /\ rest' = Replayed(p, rest)
                /\ pc' = IF test.ret[sys][p] # "EXIT" \/ test.sig[h] \notin DOMAIN visited THEN "panic"
                         ELSE IF rest' = << >> THEN "run" ELSE "regen"
       ELSE pc' = "panic" /\ UNCHANGED <<sys, rest>>
    /\ UNCHANGED <<test, search, curr, rand, node, sched, skt, disk, faults, history, result>>

\* run_one_transition reaches a choice point.
Choose ==
    /\ pc = "run"
    /\ test.tree[sys][node] # 0
    /\ rand' = EnumRandom(rand, test.tree[sys][node])
    /\ node' = Append(node, EnumValue(rand, test.tree[sys][node]))
    /\ UNCHANGED <<test, sys, search, curr, rest, sched, skt, disk, faults, history, result, pc>>

\* The harness calls xe_schedule_restart.
ScheduleRestart ==
    /\ pc = "run" /\ Persistent /\ ~sched /\ faults < MaxFaults
    /\ sched' = TRUE
    /\ faults' = faults + 1
    /\ UNCHANGED <<test, sys, search, curr, rand, rest, node, skt, disk, history, result, pc>>

\* Ids counted after the insertion, and a trace without the choices that led
\* to the state being expanded.
ReachedIdOff(h) ==
    LET id == NumStates + 1
    IN  IF h \in test.save
        THEN [id |-> id, start |-> id, sig |-> test.sig[h], trace |-> << >>]
        ELSE [id |-> id, start |-> curr.start, sig |-> test.sig[h],
              trace |-> curr.trace \o rand.choices]

ReachedShort(h) ==
    LET id == NumStates
    IN  IF h \in test.save
        THEN [id |-> id, start |-> id, sig |-> test.sig[h], trace |-> << >>]
        ELSE [id |-> id, start |-> curr.start, sig |-> test.sig[h], trace |-> rand.choices]

\* get_state: the record for a state reached from curr, and the checkpoint
\* taken for it.
Reached(h) ==
    LET id == NumStates
    IN  IF h \in test.save
        THEN [id |-> id, start |-> id, sig |-> test.sig[h], trace |-> << >>]
        ELSE [id |-> id, start |-> curr.start, sig |-> test.sig[h],
              trace |-> curr.trace \o rand.choices]

Checkpointed(h) ==
    IF h \in test.save
    THEN With(ckpts, NumStates, [data |-> Saved(h), parent_id |-> curr.start,
                                 trace |-> curr.trace \o rand.choices])
    ELSE ckpts

\* Whether get_state builds a new state: a seen signature is dropped, except
\* in a priority queue.
IsNew(h) == test.queue = "priority" \/ test.sig[h] \notin DOMAIN visited

\* TEST_EXIT of run_one_transition: get_state and push, or the limit.
Exited(h) ==
    /\ IF IsNew(h)
       THEN /\ visited' = With(visited, test.sig[h], NumStates)
            /\ ckpts' = Checkpointed(h)
            /\ IF MaxState > 0 /\ Cardinality(DOMAIN visited') > MaxState
               THEN pc' = "stopped" /\ UNCHANGED queue
               ELSE pc' = "after_new" /\ queue' \in Pushed(queue, Reached(h))
       ELSE pc' = "after_new" /\ UNCHANGED <<queue, visited, ckpts>>
    /\ UNCHANGED <<bugs, traces>>

\* A bug that ends the expansion of the state, one that is not counted, and
\* one whose trace lacks the choices of the failing transition.
BugEndsState ==
    /\ traces' = With(traces, bugs, Trace)
    /\ bugs' = bugs + 1
    /\ pc' = IF bugs' >= MaxBugs THEN "stopped" ELSE IF Persistent THEN "save_restart" ELSE "loop"
    /\ UNCHANGED <<queue, visited, ckpts>>

BugNotCounted ==
    /\ traces' = With(traces, bugs, Trace)
    /\ bugs' = bugs
    /\ pc' = IF bugs + 1 >= MaxBugs THEN "stopped" ELSE IF Persistent THEN "save_restart" ELSE "after"
    /\ UNCHANGED <<queue, visited, ckpts>>

BugTraceCut ==
    /\ traces' = With(traces, bugs, [Trace EXCEPT !.new = << >>])
    /\ bugs' = bugs + 1
    /\ pc' = IF bugs' >= MaxBugs THEN "stopped" ELSE IF Persistent THEN "save_restart" ELSE "after"
    /\ UNCHANGED <<queue, visited, ckpts>>

\* TEST_BUG: the trace file is written under the number of bugs found before,
\* which a restored search takes from its checkpoint; at the limit the checker exits,
\* otherwise a persistent one checkpoints itself and asks for a restart.
Bug ==
    /\ traces' = With(traces, bugs, Trace)
    /\ bugs' = bugs + 1
    /\ pc' = IF bugs' >= MaxBugs THEN "stopped" ELSE IF Persistent THEN "save_restart" ELSE "after"
    /\ UNCHANGED <<queue, visited, ckpts>>

\* TEST_ABORT: restart as for a bug, without a trace.
Abort ==
    /\ pc' = IF Persistent THEN "save_restart" ELSE "after"
    /\ UNCHANGED <<search, traces>>

\* process_test_return in MODE_MODEL_CHECK after run_one_transition.
Return ==
    /\ pc = "run"
    /\ test.tree[sys][node] = 0
    /\ sys' = test.to[sys][node]
    /\ ran' = ran \cup {<<sys, node>>}
    /\ \/ test.ret[sys][node] = "EXIT" /\ Exited(sys')
       \/ test.ret[sys][node] = "SKIP" /\ pc' = "after" /\ UNCHANGED <<search, traces>>
       \/ test.ret[sys][node] = "BUG" /\ Bug
       \/ test.ret[sys][node] = "ABORT" /\ Abort
    /\ busy' = IF pc' = "save_restart" THEN {} ELSE busy
    /\ UNCHANGED <<test, curr, rand, rest, node, sched, skt, disk, faults, result>>

\* ... and after after_new_transition, which cannot create states.
AfterNew ==
    /\ pc = "after_new"
    /\ \/ test.check[sys] = "EXIT" /\ pc' = "after" /\ UNCHANGED <<search, traces>>
       \/ test.check[sys] = "BUG" /\ Bug
       \/ test.check[sys] = "ABORT" /\ Abort
    /\ busy' = IF pc' = "save_restart" THEN {} ELSE busy
    /\ UNCHANGED <<test, sys, curr, rand, rest, node, sched, skt, disk, faults, ran, result>>

\* after_transitions, then heart_beat, which aborts on a closed socket.
AfterTransitions ==
    /\ pc = "after"
    /\ pc' = IF skt = "closed" THEN "dead" ELSE "repeat"
    /\ UNCHANGED <<test, sys, search, curr, rand, rest, node, sched, skt, disk, faults, history, result>>

\* while(_rand->repeat()).
RepeatChoices ==
    /\ pc = "repeat"
    /\ IF Repeats(rand) THEN rand' = Repeat(rand) /\ pc' = "set" /\ UNCHANGED busy
                        ELSE pc' = "loop" /\ busy' = {} /\ UNCHANGED rand
    /\ UNCHANGED <<test, sys, search, curr, rest, node, sched, skt, disk, faults, traces, ran, result>>
-----------------------------------------------------------------------------
(* self_checkpoint, crashes and reboots                                    *)

Saving == pc \in {"save_loop", "save_restart"}

\* Where the caller of self_checkpoint goes on.
AfterSave == IF pc = "save_loop" THEN "dequeue" ELSE "tell"

\* open(file.tmp, O_TRUNC) succeeds ...
SaveOpen ==
    /\ Saving /\ ~disk.tmp.exists
    /\ disk' = [disk EXCEPT !.tmp = [exists |-> TRUE, img |-> Image, len |-> 0, synced |-> FALSE]]
    /\ UNCHANGED <<test, sys, search, curr, rand, rest, node, sched, skt, faults, history, result, pc>>

\* ... or fails, with a warning: there is no new checkpoint.
SaveOpenFails ==
    /\ Saving /\ ~disk.tmp.exists /\ faults < MaxFaults
    /\ faults' = faults + 1
    /\ pc' = AfterSave
    /\ UNCHANGED <<test, sys, search, curr, rand, rest, node, sched, skt, disk, history, result>>

SaveWrite ==
    /\ Saving /\ disk.tmp.exists /\ disk.tmp.len < Sections
    /\ disk' = [disk EXCEPT !.tmp.len = @ + 1]
    /\ UNCHANGED <<test, sys, search, curr, rand, rest, node, sched, skt, faults, history, result, pc>>

SaveSync ==
    /\ Saving /\ disk.tmp.exists /\ disk.tmp.len = Sections /\ ~disk.tmp.synced
    /\ disk' = [disk EXCEPT !.tmp.synced = TRUE]
    /\ UNCHANGED <<test, sys, search, curr, rand, rest, node, sched, skt, faults, history, result, pc>>

\* A rename that does not wait for the data.
SaveRenameUnsynced ==
    /\ Saving /\ disk.tmp.exists /\ disk.tmp.len = Sections
    /\ disk' = [disk EXCEPT !.file = disk.tmp, !.tmp = NoFile]
    /\ pc' = AfterSave
    /\ UNCHANGED <<test, sys, search, curr, rand, rest, node, sched, skt, faults, history, result>>

SaveRename ==
    /\ Saving /\ disk.tmp.exists /\ disk.tmp.synced
    /\ disk' = [disk EXCEPT !.file = disk.tmp, !.tmp = NoFile]
    /\ pc' = AfterSave
    /\ UNCHANGED <<test, sys, search, curr, rand, rest, node, sched, skt, faults, history, result>>

\* The rest of restart(1): control returns to the end of the transition.
Tell ==
    /\ pc = "tell"
    /\ TellMonitor
    /\ pc' = "after"
    /\ UNCHANGED <<test, sys, search, curr, rand, rest, node, sched, faults, history, result>>

Finished == {"ended", "stopped", "panic"}
Replaying == {"replay_old", "replay_new", "replay_after", "replayed"}

\* store_trace_file does not sync: until the sync() of the restart that
\* follows, the trace is in memory only.
Unsynced == {k \in DOMAIN traces :
               pc \in {"save_restart", "tell"} /\ k = bugs - 1 /\ traces[k] = Trace}

\* The machine stops: what is not synced is on disk or not.  A trace file of
\* which a part is missing counts as lost.
PowerLoss == \E lost \in SUBSET Unsynced :
                traces' = [k \in DOMAIN traces \ lost |-> traces[k]]

\* The machine under test dies at any point.
Crash ==
    /\ Persistent /\ faults < MaxFaults
    /\ pc \notin Finished \cup Replaying \cup {"dead"}
    /\ faults' = faults + 1
    /\ pc' = "dead"
    /\ PowerLoss
    /\ UNCHANGED <<test, sys, search, curr, rand, rest, node, sched, skt, disk, ran, busy, result>>

\* The monitor reboots the machine, because it asked for it or is dead, and
\* the checker starts with -c: self_restore, or from scratch without a file.
Reboot ==
    /\ Persistent
    /\ pc = "dead" \/ (skt = "closed" /\ pc \notin Finished \cup Replaying)
    /\ \E f \in Survivors :
         /\ disk' = [tmp |-> NoFile, file |-> f, old |-> f]
         /\ IF f.exists /\ f.len = Sections
            THEN /\ queue' = f.img.queue /\ visited' = f.img.visited
                 /\ ckpts' = f.img.ckpts /\ bugs' = f.img.bugs
            ELSE queue' = << >> /\ visited' = << >> /\ ckpts' = << >> /\ bugs' = 0
         /\ pc' = IF ~f.exists THEN "start" ELSE IF f.len = Sections THEN "loop" ELSE "panic"
         /\ skt' = IF f.exists THEN "open" ELSE "none"
    /\ sys' = test.raw
    /\ curr' = NoState /\ rand' = EnumReset /\ rest' = << >> /\ node' = << >>
    /\ sched' = FALSE /\ busy' = {}
    /\ PowerLoss
    /\ UNCHANGED <<test, faults, ran, result>>

-----------------------------------------------------------------------------
(* Replaying a trace file: a new process in MODE_REPLAY                    *)

\* replay_trace_file up to the first replay(): a fresh search whose only
\* state is the initial one; result will say whether the error came back.
ReplayStart ==
    /\ pc \in {"ended", "stopped", "replayed"}
    /\ \E k \in DOMAIN traces :
         /\ rest' = traces[k].old
         /\ node' = traces[k].new
         /\ pc' = IF traces[k].old = << >> THEN "replay_new" ELSE "replay_old"
    /\ sys' = Saved(test.raw)
    /\ curr' = NoState
    /\ visited' = With(<< >>, test.sig[test.raw], 0)
    /\ ckpts' = With(<< >>, 0, [data |-> Saved(test.raw), parent_id |-> 0, trace |-> << >>])
    /\ queue' = << >> /\ bugs' = 0
    /\ result' = "none"
    /\ UNCHANGED <<test, rand, sched, skt, disk, faults, history>>

\* run_one_transition in MODE_REPLAY with the choices cs at hand:
\* process_test_return demands a new state of a normal return, and takes a
\* bug or an abort without looking at what is left of the trace.
ReplayOne(cs, exited, failed) ==
    IF \E p \in Leaves(sys) : CanReplay(p, cs)
    THEN LET p   == CHOOSE p \in Leaves(sys) : CanReplay(p, cs)
             h   == test.to[sys][p]
             ret == test.ret[sys][p]
         IN  /\ sys' = h
             /\ rest' = Replayed(p, cs)
             /\ result' = IF ret = "BUG" THEN "bug" ELSE result
             /\ IF ret = "SKIP" \/ (ret = "EXIT" /\ test.sig[h] \in DOMAIN visited)
                THEN pc' = "panic" /\ UNCHANGED visited
                ELSE IF ret = "EXIT"
                THEN pc' = exited /\ visited' = With(visited, test.sig[h], NumStates)
                ELSE pc' = failed /\ UNCHANGED visited
    ELSE pc' = "panic" /\ UNCHANGED <<sys, rest, result, visited>>

\* replay() of the choices up to the state in which the error was found.
ReplayOld ==
    /\ pc = "replay_old"
    /\ rest # << >>
    /\ ReplayOne(rest, "replay_old", "replay_old")
    /\ UNCHANGED <<test, queue, ckpts, bugs, curr, rand, node, sched, skt, disk, faults, history>>

ReplayOldDone ==
    /\ pc = "replay_old"
    /\ rest = << >>
    /\ pc' = "replay_new"
    /\ UNCHANGED <<test, sys, search, curr, rand, rest, node, sched, skt, disk, faults, history, result>>

\* run_new_transition, if the file has choices for it; after_new_transition
\* follows a normal return.
ReplayNew ==
    /\ pc = "replay_new"
    /\ IF node = << >>
       THEN pc' = "replayed" /\ UNCHANGED <<sys, rest, result, visited>>
       ELSE ReplayOne(node, "replay_after", "replayed")
    /\ UNCHANGED <<test, queue, ckpts, bugs, curr, rand, node, sched, skt, disk, faults, history>>

ReplayAfter ==
    /\ pc = "replay_after"
    /\ result' = IF test.check[sys] = "BUG" THEN "bug" ELSE result
    /\ pc' = "replayed"
    /\ UNCHANGED <<test, sys, search, curr, rand, rest, node, sched, skt, disk, faults, history>>
-----------------------------------------------------------------------------
Step == \/ Start \/ Loop \/ Dequeue \/ SetState \/ Regen \/ Choose \/ Return
        \/ AfterNew \/ AfterTransitions \/ RepeatChoices
        \/ SaveOpen \/ SaveWrite \/ SaveSync \/ SaveRename \/ Tell
Fault == ScheduleRestart \/ SaveOpenFails \/ Crash
Replay == ReplayStart \/ ReplayOld \/ ReplayOldDone \/ ReplayNew \/ ReplayAfter

Next == Step \/ Fault \/ Reboot \/ Replay

\* The checker is one sequential process and the monitor reboots a machine
\* that died or asked for it; faults and replays happen or not.
Spec == Init /\ [][Next]_vars /\ WF_vars(Step) /\ WF_vars(Reboot /\ pc = "dead")

-----------------------------------------------------------------------------
(* Properties                                                              *)

IsState(s) == /\ s.id \in Nat /\ s.start \in Nat /\ s.trace \in Seq(Nat)
              /\ s.sig \in Range(test.sig)

IsCkpt(c) == c.data \in Sys /\ c.parent_id \in Nat /\ c.trace \in Seq(Nat)

TypeOK ==
    /\ sys \in Sys
    /\ \A s \in Range(queue) : IsState(s)
    /\ DOMAIN visited \subseteq Range(test.sig) /\ Range(visited) \subseteq Nat
    /\ DOMAIN ckpts \subseteq Nat /\ \A id \in DOMAIN ckpts : IsCkpt(ckpts[id])
    /\ IsState(curr)
    /\ rest \in Seq(Nat) /\ node \in Seq(Nat)
    /\ bugs \in 0 .. MaxBugs /\ sched \in BOOLEAN /\ skt \in {"none", "open", "closed"}
    /\ faults \in 0 .. MaxFaults
    /\ result \in {"none", "bug"}

\* What makes a search state (in memory or in a checkpoint file) usable: the
\* ids are 0, 1, 2, ... without gaps or repetitions, each queued state is
\* known under its id and starts from an existing checkpoint, no state is
\* queued twice, and the parents of checkpoints lead back to checkpoint 0.
WellFormed(q, vis, cks) ==
    /\ \A g, h \in DOMAIN vis : vis[g] = vis[h] => g = h
    /\ Range(vis) = 0 .. (Cardinality(DOMAIN vis) - 1)
    /\ \A i \in DOMAIN q : /\ q[i].sig \in DOMAIN vis
                           /\ vis[q[i].sig] = q[i].id
                           /\ q[i].start \in DOMAIN cks
    /\ \A i, j \in DOMAIN q : q[i].id = q[j].id => i = j
    /\ DOMAIN cks \subseteq Range(vis)
    /\ \A id \in DOMAIN cks : /\ cks[id].parent_id \in DOMAIN cks
                              /\ id # 0 => cks[id].parent_id < id

Searching == pc \notin Replaying \cup {"panic"}

\* The search state is well formed at every step.
SearchWellFormed == Searching => WellFormed(queue, visited, ckpts)

\* Whatever a power cycle leaves of the checkpoint file is absent or a whole
\* and well formed search state: write to a temporary file, fsync, rename.
FileWellFormed ==
    Searching => \A f \in Survivors :
        f.exists => f.len = Sections /\ WellFormed(f.img.queue, f.img.visited, f.img.ckpts)

\* Restoring the checkpoint and redoing the recorded choices brings the
\* system back to the state that was queued (mcl/README "Stateless Model
\* Checking"), whatever ran in between.
Regenerated == pc = "run" /\ node = << >> => test.sig[sys] = curr.sig

\* No assertion of the checker fails: regeneration finds the choices it
\* needs and meets only known states, and so does a replay.
NoPanic == pc # "panic"

Covered(h) == \A p \in Leaves(h) : <<h, p>> \in ran

\* When the search ends by itself, every transition of the initial state has
\* been executed, and so has, for every state some transition led to, every
\* transition of a state with that signature: no choice and no queued state
\* was lost, be it across crashes and reboots.
Complete ==
    pc = "ended" =>
      /\ Covered(test.init)
      /\ \A e \in ran :
           test.ret[e[1]][e[2]] = "EXIT" =>
             \E h \in Sys : test.sig[h] = test.sig[test.to[e[1]][e[2]]] /\ Covered(h)

\* An error or an abort was met, after which a persistent checker restarts and
\* drops the remaining choices of the state it expands.
Failed == \E e \in ran : \/ test.ret[e[1]][e[2]] \in {"BUG", "ABORT"}
                         \/ test.check[test.to[e[1]][e[2]]] # "EXIT"

\* A checker that is crashed, rebooted or restarted on request at any point
\* (mcl/ModelChecker.C self_checkpoint, self_restore) loses no choice and no
\* queued state, as long as the checked system is free of errors.
CompleteWithoutErrors == ~Failed => Complete

\* Without restarts no transition is executed twice: the count that
\* testsuite/xywalk.C expects when the search is over.
NoTransitionTwice == [][Return => <<sys, node>> \notin ran]_vars

\* Running the checker on a stored trace file reproduces the error
\* (mcl/README "To replay the error, simply run ...").
BugReplays == pc = "replayed" => result = "bug"

\* The trace of an error is never overwritten by that of another one, though
\* a reboot may take the bug count back to an older checkpoint, and it is lost
\* only to a machine that stops before the restart after the error has synced.
NoTraceLost ==
    [][\A k \in DOMAIN traces : IF k \in DOMAIN traces' THEN traces'[k] = traces[k]
                                                       ELSE k \in Unsynced]_vars

\* The graph of the harness: a failing transition of a state ends its
\* expansion when the checker is persistent.
SigNext(g) == UNION {{test.sig[test.to[h][p]] : p \in {l \in Leaves(h) : test.ret[h][l] = "EXIT"}} :
                       h \in {x \in Sys : test.sig[x] = g}}
Fails(h, p) == \/ test.ret[h][p] \in {"BUG", "ABORT"}
               \/ test.ret[h][p] = "EXIT" /\ test.check[test.to[h][p]] # "EXIT"
Graph == [root |-> test.sig[test.raw],
          next |-> [g \in Range(test.sig) |-> SigNext(g)],
          flaky |-> IF Persistent
                    THEN {test.sig[h] : h \in {x \in Sys : \E p \in Leaves(x) : Fails(x, p)}}
                    ELSE {}]

\* The search implements the worklist: states are dropped from the queue and
\* from curr only when all they lead to is known, and whatever checkpoint file
\* a crash leaves, the search it restores has no state that is neither queued
\* nor expanded.
W == INSTANCE Worklist WITH
        graph <- Graph,
        found <- IF pc \in Replaying THEN {} ELSE DOMAIN visited,
        todo <- IF pc \in Replaying THEN {} ELSE {s.sig : s \in Range(queue)} \cup busy,
        over <- CASE pc \in {"ended", "stopped", "panic"} -> pc
                  [] pc \in Replaying -> "away"
                  [] OTHER -> "no"
ImplementsWorklist == W!Spec

\* The search of a finite system ends.
Ends == <>(pc \in Finished)

-----------------------------------------------------------------------------
(* What the theorems about the search ask of a harness                       *)

\* PrioQueue is left out: it queues known signatures again, under a new id.
NoPriority == \A t \in Tests : t.queue # "priority"

\* Restoring a checkpoint brings back the signature, and every transition asks
\* for a choice: one that asks for none leaves nothing to regenerate it from.
Faithful(t) ==
    /\ \A h \in t.save \cup {t.raw} : t.sig[IF t.stateful THEN h ELSE t.init] = t.sig[h]
    /\ \A h \in Sys : t.tree[h][<< >>] # 0

\* init_state() and the checkpoint taken before it lead to the same state.
StartsInInit(t) == t.stateful => t.raw = t.init

\* States of the same signature behave alike: their transitions make the same
\* choices, return in the same way and lead to states of the same signature.
Alike(t) ==
    \A g, h \in Sys :
      t.sig[g] = t.sig[h] =>
        /\ t.tree[g] = t.tree[h]
        /\ \A p \in DOMAIN t.tree[g] : /\ t.ret[g][p] = t.ret[h][p]
                                      /\ t.sig[t.to[g][p]] = t.sig[t.to[h][p]]

\* ... and after_new_transition() says the same of them.
AlikeChecks(t) == \A g, h \in Sys : t.sig[g] = t.sig[h] => t.check[g] = t.check[h]
=============================================================================
