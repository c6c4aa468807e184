------------------------------ MODULE Worklist ------------------------------
(***************************************************************************)
(* What the search of mcl/ModelChecker.C promises, without queues, traces, *)
(* checkpoints and files: a state that was found is expanded before the    *)
(* search ends, and a reboot forgets only what will be found again.        *)
(*                                                                         *)
(* States are signatures.  graph has the initial state root, the states    *)
(* that the transitions of a state lead to (next), and the states with a   *)
(* failing transition after which a persistent checker restarts (flaky).   *)
(***************************************************************************)
VARIABLES
    graph,  \* of the checked system
    found,  \* states that were found
    todo,   \* those of them that are not expanded yet
    over    \* "no", "ended" or "stopped", and "away" after that

wvars == <<graph, found, todo, over>>

\* A state may be taken as expanded when its successors are found.
Expanded(g, F) == g \in graph.flaky \/ graph.next[g] \subseteq F

Init == found = {} /\ todo = {} /\ over = "no"

Begin ==
    /\ over = "no" /\ found = {}
    /\ found' = {graph.root} /\ todo' = {graph.root}
    /\ UNCHANGED <<graph, over>>

\* A transition of an unexpanded state leads to a new state.
Find ==
    /\ over = "no"
    /\ \E g \in todo : \E h \in graph.next[g] \ found :
         found' = found \cup {h} /\ todo' = todo \cup {h}
    /\ UNCHANGED <<graph, over>>

Finish ==
    /\ over = "no"
    /\ \E g \in todo : Expanded(g, found) /\ todo' = todo \ {g}
    /\ UNCHANGED <<graph, found, over>>

\* A reboot takes the search back to an earlier state of it, or to nothing.
Lose ==
    /\ over = "no"
    /\ found' \subseteq found /\ todo' \subseteq found'
    /\ found' # {} => graph.root \in found'
    /\ \A g \in found' \ todo' : Expanded(g, found')
    /\ UNCHANGED <<graph, over>>

End ==
    /\ over = "no" /\ found # {} /\ todo = {}
    /\ over' = "ended"
    /\ UNCHANGED <<graph, found, todo>>

\* The limit on bugs or states is reached.
Stop ==
    /\ over = "no"
    /\ over' = "stopped"
    /\ UNCHANGED <<graph, found, todo>>

\* The checker is used for something else.
Leave ==
    /\ over \in {"ended", "stopped"}
    /\ over' = "away" /\ found' = {} /\ todo' = {}
    /\ UNCHANGED graph

Next == Begin \/ Find \/ Finish \/ Lose \/ End \/ Stop \/ Leave

Spec == Init /\ [][Next]_wvars

-----------------------------------------------------------------------------
\* What is found and not to be expanded any more has been expanded, and a
\* search that has ended has nothing left to expand.
WInv ==
    /\ todo \subseteq found
    /\ found # {} => graph.root \in found
    /\ \A g \in found \ todo : Expanded(g, found)
    /\ over = "ended" => found # {} /\ todo = {}

\* A search that ended by itself has found the initial state and whatever the
\* states it found lead to, those with failing transitions left aside.
Exhaustive ==
    over = "ended" => /\ graph.root \in found
                      /\ \A g \in found : Expanded(g, found)
=============================================================================
