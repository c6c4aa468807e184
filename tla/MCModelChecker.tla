--------------------------- MODULE MCModelChecker ---------------------------
(* Harnesses for TLC: three system states; the first has two nested choice   *)
(* points, the others one.  Every way the transitions can lead from state to *)
(* state is a harness of its own.                                            *)
EXTENDS ModelChecker

MCSys == 0 .. 2

One == [p \in {<< >>, <<0>>, <<1>>} |-> IF p = << >> THEN 2 ELSE 0]
Two == [p \in {<< >>, <<0>>, <<1>>, <<0, 0>>, <<0, 1>>} |->
           IF p \in {<< >>, <<0>>} THEN 2 ELSE 0]
None == [p \in {<< >>} |-> 0]

LeavesOf(t) == {p \in DOMAIN t : t[p] = 0}

\* All choices of a target for each leaf of t.
Targets(t) == [LeavesOf(t) -> MCSys]
\* All leaves return normally, except those in bad, which return code.
Returns(t, bad, code) == [p \in LeavesOf(t) |-> IF p \in bad THEN code ELSE "EXIT"]

\* Three choice trees, where their leaves lead, and how the leaves in bad
\* of the states at return; the rest of the harness is as simple as it gets.
Harness(t, to, at, bad, code) ==
    [raw |-> 0, init |-> 0, sig |-> [x \in MCSys |-> x],
     tree |-> [x \in MCSys |-> t[x + 1]],
     to |-> [x \in MCSys |-> [p \in DOMAIN t[x + 1] |->
                                IF p \in DOMAIN to[x + 1] THEN to[x + 1][p] ELSE x]],
     ret |-> [x \in MCSys |-> [p \in DOMAIN t[x + 1] |->
                                 IF x \in at /\ p \in bad THEN code ELSE "EXIT"]],
     check |-> [x \in MCSys |-> "EXIT"], save |-> {}, stateful |-> FALSE,
     queue |-> "dfs"]

Nested == <<Two, One, One>>
Ways == Targets(Two) \X Targets(One) \X Targets(One)
\* A chain 0 -> 1 -> 2 with ways back, for the runs in which the faults count.
Chain == {w \in Ways : /\ w[1][<<0, 1>>] = 1 /\ w[1][<<1>>] \in {0, 2} /\ w[1][<<0, 0>>] = 0
                       /\ w[2][<<1>>] = 2 /\ w[3][<<0>>] = 0 /\ w[3][<<1>>] \in {1, 2}}

\* Search: all graphs, stateless and with checkpoints of states 1 and 2.
MCGraphs == {Harness(Nested, w, {0}, {}, "EXIT") : w \in Ways}
MCStateful == {[Harness(Nested, w, {0}, {}, "EXIT") EXCEPT !.stateful = TRUE, !.save = s] :
                 w \in Chain, s \in {{1}, {2}, {1, 2}}}
\* Outcomes: one leaf of a state returns BUG, ABORT or SKIP, several bugs
\* included, and checkpoints on the way to them; states 1 and 2 may share a
\* signature, in which case they behave alike.
MCOutcomes ==
    {[Harness(Nested, w, {h}, {p}, code) EXCEPT !.stateful = (s # {}), !.save = s] :
       w \in Chain, h \in {1, 2}, p \in LeavesOf(One), code \in Codes, s \in {{}, {1}, {1, 2}}}
    \cup {Harness(Nested, w, {0}, bad, "BUG") : w \in Chain, bad \in SUBSET LeavesOf(Two)}
MCAliased ==
    {[Harness(Nested, <<w[1], w[2], w[2]>>, {0}, bad, "BUG")
        EXCEPT !.sig = [x \in MCSys |-> IF x = 0 THEN 0 ELSE 1]] :
       w \in Chain, bad \in SUBSET {<<1>>}}

\* Errors reported by after_new_transition in state 2, which no path revisits.
MCHooks == {[Harness(Nested, w, {0}, {}, "EXIT") EXCEPT !.check = [x \in MCSys |-> IF x = 2 THEN code ELSE "EXIT"]] :
              w \in {v \in Chain : v[3][<<1>>] = 1}, code \in {"BUG", "ABORT"}}
MCBugs == MCOutcomes \cup MCHooks \cup MCAliased

\* Depth first without errors, breadth first with them.
MCSearch == MCGraphs \cup MCStateful \cup {[t EXCEPT !.queue = "bfs"] : t \in MCBugs}

\* Restarts after errors: leaves of state 1, of state 2 or of both fail.
MCRestarts ==
    {[Harness(Nested, w, at, bad, code) EXCEPT !.stateful = (s # {}), !.save = s] :
       w \in Chain, at \in {{1}, {2}, {1, 2}}, bad \in (SUBSET LeavesOf(One)) \ {{}}, code \in {"BUG", "ABORT"}, s \in {{}, {1}}}

\* Crashes: no errors in the checked system.
MCCrashes == {[Harness(Nested, w, {0}, {}, "EXIT") EXCEPT !.stateful = (s # {}), !.save = s] :
                w \in Chain, s \in {{}, {1}}}

MCPersistent == MCCrashes \cup MCRestarts

\* A restart after a bug, with another choice of the same state to go.
MCBugThenMore == {Harness(Nested, w, {1}, {<<0>>}, "BUG") : w \in Chain}

\* The harnesses of a run meet what the theorems ask of them.
ASSUME MCNoPriority == NoPriority
ASSUME MCFaithful == \A t \in Tests : Faithful(t)
ASSUME MCAlike == \A t \in Tests : Alike(t)
ASSUME MCAlikeChecks == \A t \in Tests : AlikeChecks(t)
ASSUME MCStarts == \A t \in Tests : StartsInInit(t)
=============================================================================
