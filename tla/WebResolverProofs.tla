------------------------- MODULE WebResolverProofs -------------------------
(***************************************************************************)
(* Proofs about WebResolver, for any number of connections, mappings and   *)
(* requests: types, what a client may rely on when it is told that its     *)
(* mapping is saved, what ends a session with an error, and that the       *)
(* server implements ApprovalSession.                                      *)
(***************************************************************************)
EXTENDS WebResolver, TLAPS

Serving == {"read", "handle", "save", "confirm"}

\* The connection served is one of the slots, and nobody recycles it.
ServesSomeone ==
  /\ pc \in Serving => conn \in Clients /\ client[conn].state \in {"open", "left"}
  /\ pc \in {"save", "confirm"} => Request.path = "save"

\* A save is the last thing the server does but one.
SavedLast ==
  /\ pc = "over" <=> outcome # "waiting"
  /\ pc \notin {"confirm", "over"} => approved = {}
  /\ pc = "confirm" => /\ Request.body \in Mappings /\ approved = {Request.body}
                       /\ memory.parses /\ Request.body \in memory.entries

\* Nothing has gone wrong: every request is proper, is there to be read to
\* its end, and was read so when it is handled.
Blameless ==
  /\ memory.parses
  /\ \A c \in Clients : client[c].state # "free" => /\ client[c].state # "left"
                                                    /\ Proper(client[c].request)
  /\ pc = "handle" => got >= Need(Request)

\* ErrorsHaveACause and ToldMeansSaved become inductive with what the server
\* knows about the connection it serves.
WebInv ==
  /\ TypeOK
  /\ ServesSomeone
  /\ SavedLast
  /\ ToldMeansSaved
  /\ ~fault => Blameless
  /\ ErrorsHaveACause

---------------------------------------------------------------------------

LEMMA NoEndType == ASSUME NEW request \in Requests PROVE NoEnd(request) \in Ends
  BY DEF NoEnd, Ends, Answers

LEMMA InitInv == Init => WebInv
<1> SUFFICES ASSUME Init PROVE WebInv
  OBVIOUS
<1> DEFINE first == CHOOSE request \in Requests : TRUE
<1>1. first \in Requests
  BY WebAssumption
<1>2. client \in [Clients -> Ends] /\ \A c \in Clients : client[c] = NoEnd(first)
  BY <1>1, NoEndType DEF Init
<1>3. memory \in Files /\ fault \in BOOLEAN /\ (~fault => memory.parses)
  BY DEF Init, Files
<1>4. TypeOK
  <2>1. /\ pc = "deadline" /\ conn = NoClient /\ got = 0 /\ expired = FALSE
        /\ approved = {} /\ outcome = "waiting"
    BY DEF Init
  <2>2. pc \in Pcs /\ conn \in Clients \cup {NoClient} /\ got \in 0 .. 3
    BY <2>1 DEF Pcs
  <2>3. expired \in BOOLEAN /\ approved \subseteq Mappings /\ outcome \in Outcomes
    BY <2>1 DEF Outcomes
  <2> QED BY <1>2, <1>3, <2>2, <2>3 DEF TypeOK
<1>5. ServesSomeone /\ SavedLast /\ ErrorsHaveACause
  BY DEF Init, ServesSomeone, SavedLast, Serving, ErrorsHaveACause
<1>6. ToldMeansSaved
  BY <1>2 DEF ToldMeansSaved, NoEnd
<1>7. ~fault => Blameless
  BY <1>2, <1>3 DEF Blameless, NoEnd, Init
<1> QED
  BY <1>4, <1>5, <1>6, <1>7 DEF WebInv

\* Only one slot changes, to another end of the right form.
LEMMA OneEnd ==
  ASSUME TypeOK, NEW c \in Clients, NEW end \in Ends,
         client' = [client EXCEPT ![c] = end]
  PROVE  /\ client' \in [Clients -> Ends]
         /\ client'[c] = end
         /\ \A d \in Clients \ {c} : client'[d] = client[d]
  BY DEF TypeOK

LEMMA EndFacts ==
  ASSUME TypeOK, NEW c \in Clients
  PROVE  /\ client[c] \in Ends
         /\ client[c].request \in Requests /\ client[c].sent \in 0 .. 3
         /\ \A state \in {"queued", "open", "left", "closed"} :
              [client[c] EXCEPT !.state = state] \in Ends
         /\ \A n \in 0 .. 3 : [client[c] EXCEPT !.sent = n] \in Ends
         /\ \A text \in Answers : [client[c] EXCEPT !.state = "closed", !.answer = text] \in Ends
  BY DEF TypeOK, Ends

\* What a client may do leaves the server as it is, and touches its own
\* connection only; it does not take it away from a server that reads.
LEMMA ClientStep ==
  ASSUME WebInv, NEW c \in Clients, Connect(c) \/ Send(c) \/ Leave(c)
  PROVE  WebInv'
<1>1. TypeOK /\ client[c] \in Ends
  BY EndFacts DEF WebInv
<1>2. PICK end \in Ends :
        /\ client' = [client EXCEPT ![c] = end]
        /\ UNCHANGED <<pc, conn, got, expired, memory, approved, outcome>>
        /\ fault' \in BOOLEAN /\ (fault => fault')
        /\ \/ /\ client[c].state \in {"free", "closed"} /\ end.state = "queued"
              /\ end.answer = "none" /\ (~fault' => Proper(end.request))
           \/ /\ client[c].state \in {"queued", "open"}
              /\ end.request = client[c].request /\ end.answer = client[c].answer
              /\ \/ end.state = client[c].state
                 \/ end.state = "left" /\ fault' = TRUE
  <2>1. CASE Connect(c)
    <3>1. PICK request \in Requests :
            /\ client' = [client EXCEPT ![c] = [NoEnd(request) EXCEPT !.state = "queued"]]
            /\ fault' = (fault \/ ~Proper(request))
      BY <2>1 DEF Connect
    <3>2. [NoEnd(request) EXCEPT !.state = "queued"] \in Ends
      BY NoEndType DEF Ends
    <3>3. fault' \in BOOLEAN /\ (fault => fault') /\ (~fault' => Proper(request))
      BY <3>1, Zenon
    <3> DEFINE end == [NoEnd(request) EXCEPT !.state = "queued"]
    <3>4. end.state = "queued" /\ end.answer = "none" /\ end.request = request
      BY DEF NoEnd
    <3>5. /\ client[c].state \in {"free", "closed"}
          /\ UNCHANGED <<pc, conn, got, expired, memory, approved, outcome>>
      BY <2>1 DEF Connect
    <3>6. client' = [client EXCEPT ![c] = end] /\ end \in Ends
      BY <3>1, <3>2
    <3> HIDE DEF end
    <3> QED BY <3>3, <3>4, <3>5, <3>6
  <2>2. CASE Send(c)
    <3>1. PICK n \in (client[c].sent + 1) .. 3 : client' = [client EXCEPT ![c].sent = n]
      BY <2>2 DEF Send
    <3>1a. client[c].sent \in 0 .. 3
      BY <1>1 DEF Ends
    <3>2. n \in 0 .. 3
      BY <3>1a
    <3>3. [client[c] EXCEPT !.sent = n] \in Ends
      BY <1>1, <3>2, EndFacts
    <3>4. UNCHANGED fault /\ fault \in BOOLEAN
      BY <1>1, <2>2 DEF Send, TypeOK
    <3> DEFINE end == [client[c] EXCEPT !.sent = n]
    <3>5. /\ end.state = client[c].state /\ end.request = client[c].request
          /\ end.answer = client[c].answer
      BY <1>1 DEF Ends
    <3>6. client' = [client EXCEPT ![c] = end] /\ end \in Ends
      BY <3>1, <3>3
    <3>7. /\ client[c].state \in {"queued", "open"}
          /\ UNCHANGED <<pc, conn, got, expired, memory, approved, outcome>>
      BY <2>2 DEF Send
    <3> HIDE DEF end
    <3> QED BY <3>4, <3>5, <3>6, <3>7
  <2>3. CASE Leave(c)
    <3>1. [client[c] EXCEPT !.state = "left"] \in Ends
      BY <1>1, EndFacts
    <3>2. client' = [client EXCEPT ![c] = [client[c] EXCEPT !.state = "left"]] /\ fault' = TRUE
      BY <1>1, <2>3 DEF Leave, TypeOK
    <3> DEFINE end == [client[c] EXCEPT !.state = "left"]
    <3>3. /\ end.state = "left" /\ end.request = client[c].request
          /\ end.answer = client[c].answer
      BY <1>1 DEF Ends
    <3>4. /\ client[c].state \in {"queued", "open"}
          /\ UNCHANGED <<pc, conn, got, expired, memory, approved, outcome>>
      BY <2>3 DEF Leave
    <3> HIDE DEF end
    <3> QED BY <3>1, <3>2, <3>3, <3>4 DEF end
  <2> QED BY <2>1, <2>2, <2>3
<1>3. /\ client' \in [Clients -> Ends] /\ client'[c] = end
      /\ \A d \in Clients \ {c} : client'[d] = client[d]
  BY <1>1, <1>2, OneEnd
<1>4. TypeOK'
  BY <1>1, <1>2, <1>3 DEF TypeOK
<1>5. ServesSomeone' /\ SavedLast'
  BY <1>2, <1>3 DEF WebInv, ServesSomeone, SavedLast, Serving, Request
<1>6. ToldMeansSaved'
  BY <1>2, <1>3 DEF WebInv, ToldMeansSaved
<1>7. ASSUME ~fault' PROVE Blameless'
  <2>1. Blameless
    BY <1>2, <1>7 DEF WebInv
  <2>2. \A d \in Clients : client'[d].state # "free" =>
          client'[d].state # "left" /\ Proper(client'[d].request)
    BY <1>2, <1>3, <1>7, <2>1 DEF Blameless
  <2>3. pc = "handle" => conn # c \/ end.request = client[c].request
    BY <1>2 DEF WebInv, ServesSomeone, Serving
  <2>4. pc' = "handle" => got' >= Need(Request)'
    BY <1>2, <1>3, <2>1, <2>3 DEF Blameless, Request, WebInv, ServesSomeone, Serving
  <2> QED BY <1>2, <2>1, <2>2, <2>4 DEF Blameless, Proper
<1>8. ErrorsHaveACause'
  BY <1>2 DEF WebInv, ErrorsHaveACause
<1> QED
  BY <1>4, <1>5, <1>6, <1>7, <1>8 DEF WebInv

---------------------------------------------------------------------------
(* The server.                                                             *)


\* What every step of the server does to the connections and the memory.
Orderly ==
  /\ client' \in [Clients -> Ends]
  /\ \A d \in Clients :
       /\ client'[d].request = client[d].request
       /\ client'[d].state = "left" => client[d].state = "left"
       /\ client[d].state = "free" => client'[d].state = "free"
       /\ client'[d].answer = "saved" =>
            \/ client[d].answer = "saved"
            \/ memory.parses /\ client[d].request.body \in memory.entries
  /\ memory' \in Files /\ (memory.parses => memory'.parses)
  /\ memory.entries \subseteq memory'.entries
  /\ fault' \in BOOLEAN /\ (fault => fault')
  /\ expired' = expired

LEMMA OrderlyStep ==
  ASSUME WebInv, Orderly
  PROVE  /\ ToldMeansSaved'
         /\ ~fault' =>
              /\ memory'.parses
              /\ \A c \in Clients : client'[c].state # "free" =>
                   client'[c].state # "left" /\ Proper(client'[c].request)
<1>1. ToldMeansSaved'
  BY DEF WebInv, Orderly, ToldMeansSaved
<1>2. ASSUME ~fault' PROVE Blameless
  BY <1>2 DEF WebInv, Orderly
<1>3. ASSUME ~fault', NEW c \in Clients, client'[c].state # "free"
      PROVE  client'[c].state # "left" /\ Proper(client'[c].request)
  BY <1>2, <1>3 DEF Orderly, Blameless
<1> QED
  BY <1>1, <1>2, <1>3 DEF Orderly, Blameless

LEMMA SameClients ==
  ASSUME TypeOK, UNCHANGED <<client, expired, memory>>, fault' \in BOOLEAN, fault => fault'
  PROVE  Orderly
  BY DEF TypeOK, Orderly

\* A connection is closed, with or without an answer that is true.
LEMMA Closing ==
  ASSUME TypeOK, conn \in Clients, client[conn].state # "free",
         NEW text \in Answers,
         text = "saved" => \/ client[conn].answer = "saved"
                           \/ memory.parses /\ Request.body \in memory.entries,
         client' = [client EXCEPT ![conn] =
                      [client[conn] EXCEPT !.state = "closed", !.answer = text]],
         UNCHANGED <<memory, expired>>, fault' \in BOOLEAN, fault => fault'
  PROVE  Orderly
<1> DEFINE end == [client[conn] EXCEPT !.state = "closed", !.answer = text]
<1>1. end \in Ends
  BY EndFacts
<1>2. /\ client' \in [Clients -> Ends] /\ client'[conn] = end
      /\ \A d \in Clients \ {conn} : client'[d] = client[d]
  BY <1>1, OneEnd
<1>3. end.state = "closed" /\ end.answer = text /\ end.request = client[conn].request
  BY DEF TypeOK, Ends
<1> HIDE DEF end
<1> QED
  BY <1>2, <1>3 DEF Orderly, TypeOK, Request

LEMMA FailCloses ==
  ASSUME WebInv, pc \in Serving, Fail, UNCHANGED <<memory, expired, approved>>, fault' = TRUE
  PROVE  WebInv'
<1>1. TypeOK /\ conn \in Clients /\ client[conn].state # "free"
  BY DEF WebInv, ServesSomeone
<1>2. client[conn] \in Ends /\ client[conn].answer \in Answers
  BY <1>1 DEF TypeOK, Ends
<1>3. client' = [client EXCEPT ![conn] =
                   [client[conn] EXCEPT !.state = "closed", !.answer = client[conn].answer]]
  BY <1>1, <1>2 DEF Fail, Ends
<1>4. Orderly
  BY <1>1, <1>2, <1>3, Closing
<1>5. TypeOK'
  BY <1>1, <1>4 DEF Fail, EndWith, TypeOK, Orderly, Pcs, Outcomes
<1> QED
  BY <1>4, <1>5, OrderlyStep DEF Fail, EndWith, WebInv, ServesSomeone, SavedLast, Serving,
    ErrorsHaveACause

\* The steps of the accept loop.
LEMMA LoopStep ==
  ASSUME WebInv, CheckDeadline \/ WouldBlock \/ AcceptFails \/ \E c \in Clients : Accept(c)
  PROVE  WebInv'
<1>0. TypeOK /\ fault \in BOOLEAN
  BY DEF WebInv, TypeOK
<1>1. CASE CheckDeadline
  <2>1. Orderly
    BY <1>0, <1>1, SameClients DEF CheckDeadline
  <2>2. TypeOK'
    BY <1>0, <1>1 DEF CheckDeadline, EndWith, TypeOK, Pcs, Outcomes
  <2> QED BY <1>1, <2>1, <2>2, OrderlyStep DEF CheckDeadline, EndWith, WebInv, ServesSomeone,
        SavedLast, Serving, Blameless, ErrorsHaveACause
<1>2. CASE WouldBlock
  <2>1. Orderly
    BY <1>0, <1>2, SameClients DEF WouldBlock
  <2>2. TypeOK'
    BY <1>0, <1>2 DEF WouldBlock, TypeOK, Pcs
  <2> QED BY <1>2, <2>1, <2>2, OrderlyStep DEF WouldBlock, WebInv, ServesSomeone,
        SavedLast, Serving, Blameless, ErrorsHaveACause
<1>3. CASE AcceptFails
  <2>1. Orderly
    BY <1>0, <1>3, SameClients DEF AcceptFails
  <2>2. TypeOK'
    BY <1>0, <1>3 DEF AcceptFails, EndWith, TypeOK, Pcs, Outcomes
  <2>3. fault
    BY <1>3 DEF AcceptFails, WebInv, Blameless
  <2> QED BY <1>3, <2>1, <2>2, <2>3, OrderlyStep DEF AcceptFails, EndWith, WebInv, ServesSomeone,
        SavedLast, Serving, ErrorsHaveACause
<1>4. ASSUME NEW c \in Clients, Accept(c) PROVE WebInv'
  <2> DEFINE end == [client[c] EXCEPT !.state = IF @ = "queued" THEN "open" ELSE @]
  <2>1. client[c] \in Ends /\ client[c].state \in {"queued", "left"}
    BY <1>0, <1>4 DEF TypeOK, Accept
  <2>2. end \in Ends /\ end.request = client[c].request /\ end.answer = client[c].answer
    BY <2>1 DEF Ends
  <2>3. end.state \in {"open", "left"} /\ (end.state = "left" => client[c].state = "left")
    BY <2>1 DEF Ends
  <2>4. /\ client' \in [Clients -> Ends] /\ client'[c] = end
        /\ \A d \in Clients \ {c} : client'[d] = client[d]
    BY <1>0, <1>4, <2>2, OneEnd DEF Accept
  <2> HIDE DEF end
  <2>5. Orderly
    BY <1>0, <1>4, <2>1, <2>2, <2>3, <2>4 DEF Accept, Orderly, TypeOK
  <2>6. TypeOK'
    BY <1>0, <1>4, <2>4 DEF Accept, TypeOK, Pcs
  <2>7. ServesSomeone'
    BY <1>4, <2>3, <2>4 DEF Accept, ServesSomeone, Serving
  <2> QED BY <1>4, <2>5, <2>6, <2>7, OrderlyStep DEF Accept, WebInv, SavedLast, Blameless,
        ErrorsHaveACause
<1> QED
  BY <1>1, <1>2, <1>3, <1>4

\* The steps of read_http_request.
LEMMA ReadStep ==
  ASSUME WebInv, Read \/ ReadEnd \/ ReadFails
  PROVE  WebInv'
<1>0. /\ TypeOK /\ fault \in BOOLEAN /\ pc \in Serving /\ conn \in Clients
      /\ client[conn].state \in {"open", "left"} /\ client[conn].sent \in 0 .. 3 /\ got \in 0 .. 3
  BY EndFacts DEF WebInv, TypeOK, ServesSomeone, Serving, Read, ReadEnd, ReadFails
<1>1. CASE Read
  <2>1. PICK n \in (got + 1) .. client[conn].sent :
          IF Request.form = "huge" /\ n >= Need(Request)
            THEN Fail
            ELSE /\ got' = n
                 /\ pc' = IF n >= Need(Request) THEN "handle" ELSE "read"
                 /\ UNCHANGED <<conn, client, outcome>>
    BY <1>1 DEF Read
  <2>2. CASE Request.form = "huge" /\ n >= Need(Request)
    <3>1. fault
      BY <1>0, <2>2 DEF WebInv, Blameless, Proper, Request
    <3> QED BY <1>0, <1>1, <2>1, <2>2, <3>1, FailCloses DEF Read
  <2>3. CASE ~(Request.form = "huge" /\ n >= Need(Request))
    <3>1. n \in 0 .. 3
      BY <1>0
    <3>2. Orderly
      BY <1>0, <1>1, <2>1, <2>3, SameClients DEF Read
    <3>3. TypeOK'
      BY <1>0, <1>1, <2>1, <2>3, <3>1 DEF Read, TypeOK, Pcs
    <3>4. Request' = Request
      BY <2>1, <2>3 DEF Request
    <3>5. pc' = "handle" => got' >= Need(Request)'
      BY <2>1, <2>3, <3>4 DEF Need
    <3> QED BY <1>0, <1>1, <2>1, <2>3, <3>2, <3>3, <3>5, OrderlyStep DEF Read, WebInv,
          ServesSomeone, SavedLast, Serving, Blameless, ErrorsHaveACause
  <2> QED BY <2>2, <2>3
<1>2. CASE ReadEnd
  <2>1. fault
    BY <1>0, <1>2 DEF ReadEnd, WebInv, Blameless
  <2>2. Orderly
    BY <1>0, <1>2, SameClients DEF ReadEnd
  <2>3. TypeOK'
    BY <1>0, <1>2 DEF ReadEnd, TypeOK, Pcs
  <2> QED BY <1>0, <1>2, <2>1, <2>2, <2>3, OrderlyStep DEF ReadEnd, WebInv, ServesSomeone,
        SavedLast, Serving, ErrorsHaveACause
<1>3. CASE ReadFails
  BY <1>0, <1>3, FailCloses DEF ReadFails
<1> QED
  BY <1>1, <1>2, <1>3

LEMMA RespondCloses ==
  ASSUME WebInv, pc \in Serving, NEW text \in Answers, Respond(text),
         text = "saved" => memory.parses /\ Request.body \in memory.entries,
         UNCHANGED <<memory, expired, fault>>
  PROVE  Orderly
<1>1. TypeOK /\ conn \in Clients /\ client[conn].state # "free" /\ fault \in BOOLEAN
  BY DEF WebInv, ServesSomeone, TypeOK
<1>2. PICK heard \in BOOLEAN :
        client' = [client EXCEPT
          ![conn].state = "closed",
          ![conn].answer = IF heard /\ client[conn].state = "open" THEN text ELSE "none"]
  BY DEF Respond
<1> DEFINE told == IF heard /\ client[conn].state = "open" THEN text ELSE "none"
<1>3. told \in Answers /\ (told = "saved" => text = "saved")
  BY DEF Answers
<1>4. client' = [client EXCEPT ![conn] =
                   [client[conn] EXCEPT !.state = "closed", !.answer = told]]
  BY <1>1, <1>2 DEF TypeOK, Ends
<1> HIDE DEF told
<1> QED
  BY <1>1, <1>3, <1>4, Closing

\* The steps of handle_request up to the save.
LEMMA HandleStep ==
  ASSUME WebInv, Serve \/ ServeFails \/ Malformed \/ SaveRequested
  PROVE  WebInv'
<1>0. /\ TypeOK /\ fault \in BOOLEAN /\ pc \in Serving /\ pc = "handle" /\ conn \in Clients
      /\ client[conn].state \in {"open", "left"} /\ got \in 0 .. 3
      /\ Request \in Requests /\ Request \in Gets \cup Saves
  BY EndFacts, WebAssumption DEF WebInv, TypeOK, ServesSomeone, Serving, Serve, ServeFails,
    Malformed, SaveRequested, Request
<1>f. ~fault => Proper(Request) /\ got >= Need(Request) /\ client[conn].state # "left"
  BY <1>0 DEF WebInv, Blameless, Request
<1>1. CASE Serve
  <2> DEFINE text == ReplyTo(Request)
  <2>1. text \in Answers /\ text # "saved"
    <3>1. Request.path \in {"page", "session", "other", "save"}
      BY <1>0 DEF Gets, Saves
    <3> QED BY <1>1, <3>1 DEF Serve, ReplyTo, Answers
  <2>2. Respond(text) /\ UNCHANGED <<memory, expired, fault>>
    BY <1>1 DEF Serve
  <2> HIDE DEF text
  <2>3. Orderly
    BY <1>0, <2>1, <2>2, RespondCloses
  <2>4. TypeOK'
    BY <1>0, <1>1, <2>3 DEF Serve, TypeOK, Orderly, Pcs
  <2> QED BY <1>0, <1>1, <2>3, <2>4, OrderlyStep DEF Serve, WebInv, ServesSomeone, SavedLast,
        Serving, Blameless, ErrorsHaveACause
<1>2. CASE ServeFails
  <2>1. fault' = TRUE
    BY <1>0, <1>2, <1>f DEF ServeFails, Unreachable
  <2> QED BY <1>0, <1>2, <2>1, FailCloses DEF ServeFails
<1>3. CASE Malformed
  <2>1. fault
    <3>1. Proper(Request) /\ got >= Need(Request) =>
            /\ Request.form # "binary"
            /\ Request.path = "save" => got = 3 /\ Request.body # Garbled
      BY <1>0, WebAssumption DEF Proper, Need
    <3>2. \/ Request.form = "binary"
          \/ Request.path = "save" /\ (got # 3 \/ Request.body = Garbled)
      BY <1>0, <1>3 DEF Malformed
    <3> QED BY <1>f, <3>1, <3>2
  <2>2. fault' = TRUE
    BY <1>0, <1>3, <2>1 DEF Malformed
  <2> QED BY <1>0, <1>3, <2>2, FailCloses DEF Malformed
<1>4. CASE SaveRequested
  <2>1. Orderly
    BY <1>0, <1>4, SameClients DEF SaveRequested
  <2>2. TypeOK'
    BY <1>0, <1>4 DEF SaveRequested, TypeOK, Pcs
  <2>3. Request' = Request
    BY <1>4 DEF SaveRequested, Request
  <2> QED BY <1>0, <1>4, <2>1, <2>2, <2>3, OrderlyStep DEF SaveRequested, WebInv, ServesSomeone,
        SavedLast, Serving, Blameless, ErrorsHaveACause
<1> QED
  BY <1>1, <1>2, <1>3, <1>4

\* The save and its confirmation.
LEMMA SaveStep ==
  ASSUME WebInv, Save \/ SaveFails \/ Confirm \/ ConfirmFails
  PROVE  WebInv'
<1>0. /\ TypeOK /\ fault \in BOOLEAN /\ pc \in Serving /\ conn \in Clients
      /\ client[conn].state \in {"open", "left"}
  BY DEF WebInv, TypeOK, ServesSomeone, Serving, Save, SaveFails, Confirm, ConfirmFails
<1>1. CASE Save
  <2>1. /\ memory' \in Files /\ memory'.parses = memory.parses
        /\ memory'.entries = memory.entries \cup {Request.body}
    BY <1>0, <1>1 DEF Save, TypeOK, Files
  <2>2. Orderly
    BY <1>0, <1>1, <2>1 DEF Save, TypeOK, Orderly
  <2>3. TypeOK'
    BY <1>0, <1>1, <2>1 DEF Save, TypeOK, Pcs
  <2>4. Request' = Request /\ approved = {}
    BY <1>1 DEF Save, Request, WebInv, SavedLast
  <2> QED BY <1>0, <1>1, <2>1, <2>2, <2>3, <2>4, OrderlyStep DEF Save, WebInv, ServesSomeone,
        SavedLast, Serving, Blameless, ErrorsHaveACause
<1>2. CASE SaveFails
  BY <1>0, <1>2, FailCloses DEF SaveFails
<1>3. CASE Confirm
  <2>1. memory.parses /\ Request.body \in memory.entries
    BY <1>3 DEF Confirm, WebInv, SavedLast
  <2>2. "saved" \in Answers
    BY DEF Answers
  <2>3. Orderly
    BY <1>0, <1>3, <2>1, <2>2, RespondCloses DEF Confirm
  <2>4. TypeOK'
    BY <1>0, <1>3, <2>3 DEF Confirm, EndWith, TypeOK, Orderly, Pcs, Outcomes
  <2> QED BY <1>0, <1>3, <2>3, <2>4, OrderlyStep DEF Confirm, EndWith, WebInv, ServesSomeone,
        SavedLast, Serving, Blameless, ErrorsHaveACause
<1>4. CASE ConfirmFails
  <2>1. fault' = TRUE
    BY <1>0, <1>4 DEF ConfirmFails, Unreachable, WebInv, Blameless
  <2> QED BY <1>0, <1>4, <2>1, FailCloses DEF ConfirmFails
<1> QED
  BY <1>1, <1>2, <1>3, <1>4

LEMMA WebInvStep == WebInv /\ [Next]_vars => WebInv'
<1> SUFFICES ASSUME WebInv, [Next]_vars PROVE WebInv'
  OBVIOUS
<1>0. TypeOK /\ fault \in BOOLEAN
  BY DEF WebInv, TypeOK
<1>1. CASE Server
  BY <1>1, LoopStep, ReadStep, HandleStep, SaveStep DEF Server, Alone, Answering
<1>2. CASE Cancel
  <2>1. Orderly
    BY <1>0, <1>2, SameClients DEF Cancel
  <2>2. TypeOK'
    BY <1>0, <1>2 DEF Cancel, EndWith, TypeOK, Pcs, Outcomes
  <2> QED BY <1>2, <2>1, <2>2, OrderlyStep DEF Cancel, EndWith, WebInv, ServesSomeone, SavedLast,
        Serving, Blameless, ErrorsHaveACause
<1>3. CASE TimePasses
  BY <1>0, <1>3 DEF TimePasses, WebInv, TypeOK, ServesSomeone, SavedLast, Serving, Request,
    ToldMeansSaved, Blameless, ErrorsHaveACause
<1>4. CASE UNCHANGED vars
  BY <1>0, <1>4 DEF vars, WebInv, TypeOK, ServesSomeone, SavedLast, Serving, Request,
    ToldMeansSaved, Blameless, ErrorsHaveACause
<1> QED
  BY <1>1, <1>2, <1>3, <1>4, ClientStep DEF Next

LEMMA WebInvHolds == Spec => []WebInv
  BY InitInv, WebInvStep, PTL DEF Spec

\* Every variable keeps its type, whatever clients connect, send and leave.
THEOREM WebTyping == Spec => []TypeOK
<1>1. WebInv => TypeOK
  BY DEF WebInv
<1> QED
  BY <1>1, WebInvHolds, PTL

\* A client told that its mapping is saved finds it in the memory file, for
\* any number of clients and requests.
THEOREM ToldIsSaved == Spec => []ToldMeansSaved
<1>1. WebInv => ToldMeansSaved
  BY DEF WebInv
<1> QED
  BY <1>1, WebInvHolds, PTL

\* Whole, proper requests over a sound memory file never end the session
\* with an error, however their bytes are cut into reads.
THEOREM ErrorsAreCaused == Spec => []ErrorsHaveACause
<1>1. WebInv => ErrorsHaveACause
  BY DEF WebInv
<1> QED
  BY <1>1, WebInvHolds, PTL

LEMMA SessionStep == WebInv /\ [Next]_vars => [Session!Next]_(Session!vars)
<1> SUFFICES ASSUME WebInv, [Next]_vars PROVE [Session!Next]_(Session!vars)
  OBVIOUS
<1>1. ASSUME UNCHANGED <<approved, outcome>> PROVE Session!Next \/ UNCHANGED Session!vars
  BY <1>1 DEF Session!vars
<1>2. ASSUME outcome = "waiting", UNCHANGED approved,
             \/ outcome' = "timeout" /\ approved = {}
             \/ outcome' = "ok" /\ approved # {}
             \/ outcome' \in {"error", "cancelled"}
      PROVE Session!Next
  BY <1>2 DEF Session!Next, Session!End
<1>3. CASE Server
  <2>0. outcome = "waiting" \/ UNCHANGED <<approved, outcome>>
    BY <1>3 DEF WebInv, SavedLast, Server, Alone, Answering, CheckDeadline, WouldBlock, Accept, AcceptFails, Read,
      ReadEnd, ReadFails, Serve, ServeFails, Malformed, SaveRequested, Save, SaveFails, Confirm,
      ConfirmFails
  <2>1. CASE Save
    BY <2>1 DEF Save, WebInv, SavedLast, Session!Next, Session!Approve
  <2>2. CASE CheckDeadline
    <3>1. /\ UNCHANGED approved /\ approved = {}
          /\ outcome' = "timeout" \/ UNCHANGED outcome
      BY <2>2 DEF CheckDeadline, EndWith, WebInv, SavedLast
    <3> QED BY <1>1, <1>2, <2>0, <3>1
  <2>3. CASE Confirm
    BY <1>1, <1>2, <2>0, <2>3 DEF Confirm, EndWith, WebInv, SavedLast
  <2>4. CASE Read
    <3>1. UNCHANGED approved /\ (outcome' = "error" \/ UNCHANGED outcome)
      BY <2>4 DEF Read, Fail, EndWith
    <3> QED BY <1>1, <1>2, <2>0, <3>1
  <2>5. CASE AcceptFails \/ ReadFails \/ ServeFails \/ Malformed \/ SaveFails \/ ConfirmFails
    BY <1>1, <1>2, <2>0, <2>5 DEF AcceptFails, ReadFails, ServeFails, Malformed, SaveFails,
      ConfirmFails, Fail, EndWith
  <2>6. CASE WouldBlock \/ (\E c \in Clients : Accept(c)) \/ ReadEnd \/ Serve \/ SaveRequested
    BY <1>1, <2>6 DEF WouldBlock, Accept, ReadEnd, Serve, SaveRequested
  <2> QED BY <1>3, <2>1, <2>2, <2>3, <2>4, <2>5, <2>6 DEF Server, Alone, Answering
<1>4. CASE Cancel
  BY <1>2, <1>4 DEF Cancel, EndWith, WebInv, SavedLast
<1>5. CASE TimePasses \/ \E c \in Clients : Connect(c) \/ Send(c) \/ Leave(c)
  BY <1>1, <1>5 DEF TimePasses, Connect, Send, Leave
<1>6. CASE UNCHANGED vars
  BY <1>1, <1>6 DEF vars
<1> QED
  BY <1>3, <1>4, <1>5, <1>6 DEF Next

\* The server implements the abstract session: at most one approval is
\* saved, before a good end and never before a timeout.
THEOREM SessionIsImplemented == Spec => ImplementsSession
<1>1. Init => Session!Init
  BY DEF Init, Session!Init
<1> QED
  BY <1>1, SessionStep, WebInvHolds, PTL DEF Spec, ImplementsSession, Session!Spec
=============================================================================
