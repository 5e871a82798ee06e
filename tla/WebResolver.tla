---------------------------- MODULE WebResolver ----------------------------
(***************************************************************************)
(* `semsql resolve --mode web`: a loop that serves one HTTP connection at  *)
(* a time on a local port until a mapping is saved, a request goes wrong   *)
(* or fifteen minutes are over.                                            *)
(*                                                                         *)
(* A request arrives in pieces: after piece 1 its first line is there,     *)
(* after 2 its headers, after 3 its body.  The server reads what has been  *)
(* sent, in any portions.  A slot of Clients is a connection; it is free   *)
(* again when the server has closed it, so the browser may open any number *)
(* of them, also those it opens ahead and never uses.                      *)
(***************************************************************************)
EXTENDS Naturals

CONSTANTS
  Clients,      \* connections that may exist at one time
  Mappings,     \* [term, kind, target] choices that validate
  Invalid,      \* a body that parses and does not validate, or has no term
  Garbled,      \* a body that does not parse
  NoBody,       \* the body of a GET
  NoClient,
  Requests      \* the requests of a check

\* Requests the server meets.  "unsized" spells the length header in
\* another way, "huge" passes 64 KiB unfinished, "binary" is not UTF-8.
Forms == {"plain", "unsized", "huge", "binary"}
Bodies == Mappings \cup {Invalid, Garbled}
Gets == [path : {"page", "session", "other"}, body : {NoBody}, form : {"plain", "huge", "binary"}]
Saves == [path : {"save"}, body : Bodies, form : Forms]

ASSUME WebAssumption ==
  /\ Invalid \notin Mappings /\ Garbled \notin Mappings /\ Invalid # Garbled
  /\ NoBody \notin Mappings \cup {Invalid, Garbled}
  /\ NoClient \notin Clients
  /\ Requests \subseteq Gets \cup Saves /\ Requests # {}

VARIABLES
  pc,        \* where the server is
  conn,      \* the connection it serves
  got,       \* the pieces it has read of its request
  client,    \* the far end of each connection
  expired,   \* the deadline has passed
  memory,    \* the memory file: whether it parses, its mappings
  approved,  \* the mappings this run has saved
  outcome,   \* how the command ended
  fault      \* history: a client or the disk did what the code gives up on

vars == <<pc, conn, got, client, expired, memory, approved, outcome, fault>>

Pcs == {"deadline", "accept", "read", "handle", "save", "confirm", "over"}
Outcomes == {"waiting", "ok", "timeout", "error", "cancelled"}

Files == [parses : BOOLEAN, entries : SUBSET Mappings]

Answers == {"none", "page", "session", "not found", "saved"}
Ends == [state : {"free", "queued", "open", "left", "closed"},
         request : Requests, sent : 0 .. 3, answer : Answers]
NoEnd(request) == [state |-> "free", request |-> request, sent |-> 0, answer |-> "none"]

Proper(request) == request.form = "plain" /\ request.body \in Mappings \cup {NoBody}

Init ==
  /\ pc = "deadline" /\ conn = NoClient /\ got = 0
  /\ client = [c \in Clients |-> NoEnd(CHOOSE request \in Requests : TRUE)]
  /\ expired = FALSE
  /\ memory \in {file \in Files : file.parses \/ file.entries = {}}
  /\ approved = {} /\ outcome = "waiting"
  /\ fault = ~memory.parses

---------------------------------------------------------------------------
(* The browser, and whatever else finds the port.                          *)

Connect(c) ==
  /\ client[c].state \in {"free", "closed"}
  /\ outcome = "waiting"
  /\ \E request \in Requests :
       /\ client' = [client EXCEPT ![c] = [NoEnd(request) EXCEPT !.state = "queued"]]
       /\ fault' = (fault \/ ~Proper(request))
  /\ UNCHANGED <<pc, conn, got, expired, memory, approved, outcome>>

Send(c) ==
  /\ client[c].state \in {"queued", "open"}
  /\ \E n \in (client[c].sent + 1) .. 3 : client' = [client EXCEPT ![c].sent = n]
  /\ UNCHANGED <<pc, conn, got, expired, memory, approved, outcome, fault>>

\* The tab is closed, or fetch aborted.
Leave(c) ==
  /\ client[c].state \in {"queued", "open"}
  /\ client' = [client EXCEPT ![c].state = "left"]
  /\ fault' = TRUE
  /\ UNCHANGED <<pc, conn, got, expired, memory, approved, outcome>>

TimePasses ==
  /\ ~expired
  /\ expired' = TRUE
  /\ UNCHANGED <<pc, conn, got, client, memory, approved, outcome, fault>>

---------------------------------------------------------------------------
(* run_web                                                                 *)

\* The command ends and its connections with it.
EndWith(result) ==
  /\ pc' = "over" /\ outcome' = result
  /\ conn' = NoClient /\ got' = 0

\* The loop looks at the clock before each accept, and at no other time.
CheckDeadline ==
  /\ pc = "deadline"
  /\ IF expired THEN EndWith("timeout") ELSE pc' = "accept" /\ UNCHANGED <<conn, got, outcome>>
  /\ UNCHANGED <<client, expired, memory, approved, fault>>

\* Nobody waits: sleep, and look again.
WouldBlock ==
  /\ pc = "accept"
  /\ \A c \in Clients : client[c].state # "queued"
  /\ pc' = "deadline"
  /\ UNCHANGED <<conn, got, client, expired, memory, approved, outcome, fault>>

Accept(c) ==
  /\ pc = "accept"
  /\ client[c].state \in {"queued", "left"}
  /\ conn' = c /\ got' = 0
  /\ pc' = "read"
  /\ client' = [client EXCEPT ![c].state = IF @ = "queued" THEN "open" ELSE @]
  /\ UNCHANGED <<expired, memory, approved, outcome, fault>>

\* The far end was gone before it was accepted.
AcceptFails ==
  /\ pc = "accept"
  /\ \E c \in Clients : client[c].state = "left"
  /\ EndWith("error")
  /\ UNCHANGED <<client, expired, memory, approved, fault>>

---------------------------------------------------------------------------
(* read_http_request                                                       *)

\* A bug: Content-Length is not looked at.
NeedHeaders(request) == 2

\* The pieces that complete the request, as far as its headers tell.
Need(request) == IF request.path = "save" /\ request.form # "unsized" THEN 3 ELSE 2

Request == client[conn].request

Fail ==
  /\ EndWith("error")
  /\ client' = [client EXCEPT ![conn].state = "closed"]

Read ==
  /\ pc = "read"
  /\ \E n \in (got + 1) .. client[conn].sent :
       IF Request.form = "huge" /\ n >= Need(Request)
         THEN Fail
         ELSE /\ got' = n
              /\ pc' = IF n >= Need(Request) THEN "handle" ELSE "read"
              /\ UNCHANGED <<conn, client, outcome>>
  /\ UNCHANGED <<expired, memory, approved, fault>>

\* A closed connection: what was read so far is taken for the request.
ReadEnd ==
  /\ pc = "read"
  /\ client[conn].state = "left" /\ got = client[conn].sent
  /\ pc' = "handle"
  /\ UNCHANGED <<conn, got, client, expired, memory, approved, outcome, fault>>

\* A bug: no read timeout is set.
ReadReset ==
  /\ pc = "read"
  /\ client[conn].state = "left"
  /\ Fail
  /\ fault' = TRUE
  /\ UNCHANGED <<expired, memory, approved>>

\* No byte for two seconds, or a reset connection: `?` leaves the loop.
ReadFails ==
  /\ pc = "read"
  /\ client[conn].state = "left" \/ got = client[conn].sent
  /\ Fail
  /\ fault' = TRUE
  /\ UNCHANGED <<expired, memory, approved>>

---------------------------------------------------------------------------
(* handle_request, save_memory_entry, write_http                           *)

\* A response is written; the connection is dropped in any case.  A far end
\* that has left, or whose pieces were not all read, may not see it.
Respond(text) ==
  \E heard \in BOOLEAN :
    /\ heard \/ client[conn].state = "left" \/ got < client[conn].sent
    /\ client' = [client EXCEPT
         ![conn].state = "closed",
         ![conn].answer = IF heard /\ client[conn].state = "open" THEN text ELSE "none"]

Unreachable == client[conn].state = "left"

ReplyTo(request) ==
  IF got = 0 \/ request.path = "other" THEN "not found" ELSE request.path

Serve ==
  /\ pc = "handle"
  /\ ~(Request.form = "binary" /\ got > 0)
  /\ Request.path = "save" => got = 0
  /\ Respond(ReplyTo(Request))
  /\ pc' = "deadline" /\ conn' = NoClient /\ got' = 0
  /\ UNCHANGED <<expired, memory, approved, outcome, fault>>

\* The response cannot be written.
ServeFails ==
  /\ pc = "handle"
  /\ Request.path = "save" => got = 0
  /\ Unreachable
  /\ Fail
  /\ UNCHANGED <<expired, memory, approved, fault>>

\* Not UTF-8, or a save whose body did not arrive or does not parse.
Malformed ==
  /\ pc = "handle"
  /\ got > 0
  /\ \/ Request.form = "binary"
     \/ Request.path = "save" /\ (got < 3 \/ Request.body = Garbled)
  /\ Fail
  /\ UNCHANGED <<expired, memory, approved, fault>>

\* A bug: the answer is sent before the mapping is saved.
SaveAnswered ==
  /\ pc = "handle"
  /\ Request.form # "binary" /\ Request.path = "save" /\ got = 3 /\ Request.body # Garbled
  /\ Respond("saved")
  /\ pc' = "save"
  /\ UNCHANGED <<conn, got, expired, memory, approved, outcome, fault>>

SaveRequested ==
  /\ pc = "handle"
  /\ Request.form # "binary" /\ Request.path = "save" /\ got = 3 /\ Request.body # Garbled
  /\ pc' = "save"
  /\ UNCHANGED <<conn, got, client, expired, memory, approved, outcome, fault>>

\* A bug: the mapping is not validated.
SaveAnything ==
  /\ pc = "save"
  /\ memory.parses
  /\ memory' = [memory EXCEPT !.entries = @ \cup {Request.body}]
  /\ approved' = approved \cup {Request.body}
  /\ pc' = "confirm"
  /\ UNCHANGED <<conn, got, client, expired, outcome, fault>>

Save ==
  /\ pc = "save"
  /\ Request.body \in Mappings /\ memory.parses
  /\ memory' = [memory EXCEPT !.entries = @ \cup {Request.body}]
  /\ approved' = approved \cup {Request.body}
  /\ pc' = "confirm"
  /\ UNCHANGED <<conn, got, client, expired, outcome, fault>>

\* The mapping does not validate, the file does not parse, the disk fails.
SaveFails ==
  /\ pc = "save"
  /\ Fail
  /\ fault' = TRUE
  /\ UNCHANGED <<expired, memory, approved>>

\* A bug: the loop goes on after a save.
ConfirmAndGoOn ==
  /\ pc = "confirm"
  /\ Respond("saved")
  /\ pc' = "deadline" /\ conn' = NoClient /\ got' = 0
  /\ UNCHANGED <<expired, memory, approved, outcome, fault>>

Confirm ==
  /\ pc = "confirm"
  /\ Respond("saved")
  /\ EndWith("ok")
  /\ UNCHANGED <<expired, memory, approved, fault>>

\* The mapping is saved and the browser gone.
ConfirmFails ==
  /\ pc = "confirm"
  /\ Unreachable
  /\ Fail
  /\ UNCHANGED <<expired, memory, approved, fault>>

\* Ctrl+C.
Cancel ==
  /\ pc # "over"
  /\ EndWith("cancelled")
  /\ UNCHANGED <<client, expired, memory, approved, fault>>

\* What the server does without waiting for the far end longer than the read
\* timeout lets it ...
Alone ==
  \/ CheckDeadline \/ WouldBlock \/ (\E c \in Clients : Accept(c)) \/ AcceptFails
  \/ Read \/ ReadEnd \/ ReadFails
  \/ Malformed \/ SaveRequested \/ Save \/ SaveFails

\* ... and its responses: write_all blocks until the far end has taken enough
\* of them or has gone, and no timeout is set for writes.
Answering == Serve \/ ServeFails \/ Confirm \/ ConfirmFails

Server == Alone \/ Answering

Next ==
  \/ Server \/ Cancel \/ TimePasses
  \/ \E c \in Clients : Connect(c) \/ Send(c) \/ Leave(c)

\* The process runs and the clock goes on.  Nothing is asked of a client, so
\* a response is only sure to end once its client has left.
Fairness ==
  /\ WF_vars(Alone)
  /\ WF_vars(pc \in {"handle", "confirm"} /\ Unreachable /\ Answering)
  /\ WF_vars(TimePasses)

Spec == Init /\ [][Next]_vars /\ Fairness

---------------------------------------------------------------------------
(* Properties                                                              *)

TypeOK ==
  /\ pc \in Pcs
  /\ conn \in Clients \cup {NoClient}
  /\ got \in 0 .. 3
  /\ client \in [Clients -> Ends]
  /\ expired \in BOOLEAN
  /\ memory \in Files
  /\ approved \subseteq Mappings
  /\ outcome \in Outcomes
  /\ fault \in BOOLEAN

\* Who is told that a mapping is saved finds it in the memory, whatever the
\* command is told by its other clients and however it ends.
ToldMeansSaved ==
  \A c \in Clients :
    client[c].answer = "saved" => memory.parses /\ client[c].request.body \in memory.entries

\* Clients that send whole requests of the kind the page sends, in pieces of
\* any size, and a memory file that can be read and written never end the
\* session with an error.
ErrorsHaveACause == outcome = "error" => fault

Session == INSTANCE ApprovalSession

\* At most one approval is saved; `ok` means saved, a timeout means not.
ImplementsSession == Session!Spec

\* The server writes to a client that stays and does not read.
StuckInWrite == pc \in {"handle", "confirm"} /\ client[conn].state = "open"

\* The command ends by itself, however clients connect, send, fall silent and
\* leave, unless one of them stays for ever without reading its response: the
\* clock is looked at between requests, and only a read has a timeout.
SessionEnds == <>(outcome # "waiting") \/ <>[]StuckInWrite
=============================================================================
