-------------------------- MODULE MCGraphMigration --------------------------
(* A graph of any release, up to three processes and two rows. *)
EXTENDS GraphMigration, TLC

CONSTANTS o1, o2, o3, r1, r2

Symmetry == Permutations(Openers) \cup Permutations(Rows)

\* Every version is read as it is (below 2, an unread one makes no difference).
ReadableSpec == Init /\ [][/\ Next
                           /\ version >= 2 => \A o \in Openers : ~ VersionUnread(o)]_vars
=============================================================================
