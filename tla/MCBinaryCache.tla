--------------------------- MODULE MCBinaryCache ---------------------------
(* Small instances of BinaryCache for TLC. *)
EXTENDS BinaryCache, TLC

CONSTANTS c1, c2, p1, p2, good, same, short, d1, d2, z1, z2

\* `good` is the release, `same` other bytes of its size, `short` a prefix.
MCSizeOf == (good :> z1) @@ (same :> z1) @@ (short :> z2)
MCDigestOf == (good :> d1) @@ (same :> d2) @@ (short :> d2)
MCAssets == {[sha256 |-> d1, size |-> z1], [sha256 |-> d1, size |-> NoSize]}

OwnPid == (c1 :> p1) @@ (c2 :> p2)
============================================================================
