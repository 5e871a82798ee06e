---------------------------- MODULE ApprovalLog ----------------------------
(***************************************************************************)
(* What the resolution memory promises to someone who only sees approvals: *)
(* a log of entries that starts as it was written by hand, changes by one  *)
(* approval at a time, and loses an entry only to a newer approval of the  *)
(* same term, kind and target.  A command that is killed while it saves    *)
(* may take the whole log with it.                                         *)
(***************************************************************************)
EXTENDS ResolutionMemory, Naturals

CONSTANT HandWritten

VARIABLES log, crashes

LogInit == log = HandWritten /\ crashes = 0

Approve(e) ==
  /\ e \in Entries
  /\ ValidMapping(e.kind, e.target)
  /\ e.status = "confirmed"
  /\ log' = {x \in log : ~SameMapping(x, e)} \cup {e}
  /\ UNCHANGED crashes

Lose ==
  /\ crashes' = crashes + 1
  /\ log' = log \/ log' = {}

\* The entry approved is one of the new log.
LogNext == Lose \/ \E e \in log' : Approve(e)

Spec == LogInit /\ [][LogNext]_<<log, crashes>>
============================================================================
