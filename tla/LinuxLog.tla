------------------------------ MODULE LinuxLog ------------------------------
(***************************************************************************)
(* The parser that turns records of Linux buffer operations into           *)
(* operations on the potential write set (crash/LinuxLog.h).               *)
(*                                                                         *)
(* A sector_state is a record [locked, delayed_clear, submitted].  Its     *)
(* fields dirtied and prev_dirty are left out: the first is never read,    *)
(* the second is never set.  Each record type has an operator for the      *)
(* state after it, and one for whether it emits EKM_REMOVE_SECTOR where    *)
(* that depends on the state; parse_add always emits EKM_ADD_SECTOR and    *)
(* parse_write EKM_WRITE_SECTOR.                                           *)
(***************************************************************************)

SectorState == [locked : BOOLEAN, delayed_clear : BOOLEAN, submitted : BOOLEAN]

\* sector_state::discard, the state of a sector not seen before
NewSector == [locked |-> FALSE, delayed_clear |-> FALSE, submitted |-> FALSE]

ParseLock(st) == [st EXCEPT !.locked = TRUE]

\* parse_add of EKM_BH_dirty, and of the records of a submitted write
ParseDirty(st) == st
ParseSubmit(st) == [st EXCEPT !.submitted = TRUE]

\* A faulty parser: a buffer is removed though it was submitted.
RemoveNowSubmitted(st) == ~st.locked

\* parse_remove: nothing for a submitted write; a locked buffer may still be
\* submitted, so the decision waits for the unlock.
RemoveNow(st) == ~st.submitted /\ ~st.locked
ParseRemove(st) == [st EXCEPT !.delayed_clear = @ \/ (~st.submitted /\ st.locked)]

\* A faulty parser: the delayed removal is forgotten.
RemoveNever(st) == FALSE

\* parse_unlock
RemoveDelayed(st) == st.delayed_clear /\ ~st.submitted
ParseUnlock(st) == [st EXCEPT !.locked = FALSE, !.delayed_clear = FALSE]

\* sector_state::write, called by parse_write
ParseWrite(st) == [st EXCEPT !.delayed_clear = FALSE, !.submitted = FALSE]
=============================================================================
