--------------------------- MODULE MCWebResolver ---------------------------
(* A small instance of WebResolver for TLC. *)
EXTENDS WebResolver

CONSTANTS m1, m2

Get(path, form) == [path |-> path, body |-> NoBody, form |-> form]
Post(body, form) == [path |-> "save", body |-> body, form |-> form]

MCRequests ==
  {Get("page", "plain"), Get("other", "huge"), Post(m1, "plain"), Post(m2, "plain"),
   Post(m1, "unsized"), Post(Garbled, "plain"), Post(Invalid, "plain"), Post(m2, "binary")}
=============================================================================
