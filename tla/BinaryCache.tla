----------------------------- MODULE BinaryCache -----------------------------
(***************************************************************************)
(* The npm launcher's binary cache: each call of ensureSemsqlBinary looks  *)
(* for the native binary in the cache, and otherwise fetches the release   *)
(* manifest and the asset, verifies it, writes it to a temporary file      *)
(* named after the process and renames that over the cached path.          *)
(*                                                                         *)
(* Calls of one process share its temporary path, and processes share the  *)
(* cache.  A path names a file; an open file keeps being written whatever  *)
(* happens to its name.                                                    *)
(***************************************************************************)
EXTENDS Naturals

CONSTANTS
  Callers, Pids, PidOf,   \* calls in progress, processes, the process of a call
  Bodies,                 \* what a download may bring
  Assets,                 \* manifest entries a call may be given
  Sizes, SizeOf, Digests, DigestOf,
  NoSize,                 \* a manifest entry without the optional size
  Files,                  \* file objects of the cache directory
  Binary,                 \* the cached path; temporary paths are named by Pids
  Absent, Truncated,      \* no file at a path; a file whose content is not written
  NoBody, NoAsset,
  MaxRedirects,
  MaxCrashes              \* bound of a check

ASSUME CacheAssumption ==
  /\ PidOf \in [Callers -> Pids]
  /\ SizeOf \in [Bodies -> Sizes] /\ DigestOf \in [Bodies -> Digests]
  /\ Assets \subseteq [sha256 : Digests, size : Sizes \cup {NoSize}]
  /\ NoSize \notin Sizes
  /\ Binary \notin Pids
  /\ Absent \notin Files
  /\ Truncated \notin Bodies /\ NoBody \notin Bodies /\ NoAsset \notin Assets
  /\ MaxRedirects \in Nat /\ MaxCrashes \in Nat

VARIABLES
  name,      \* the file at each path
  content,   \* the content of each file
  call,      \* the progress of each call
  stranded,  \* history: processes that left their temporary file behind
  crashes

vars == <<name, content, call, stranded, crashes>>

Paths == {Binary} \cup Pids
Temp(c) == PidOf[c]

Fetching == {"manifest", "body"}
Writing == {"write", "writing", "chmod", "rename", "cleanup"}
Settled == {"returned", "failed"}
\* "hung": a response broke off after it began, and the promise never settles.
CallPcs == {"idle", "hung"} \cup Fetching \cup Writing \cup Settled

Calls == [pc : CallPcs, hops : 0..MaxRedirects, asset : Assets \cup {NoAsset},
          body : Bodies \cup {NoBody}, file : Files \cup {Absent}]

At(pc) == [pc |-> pc, hops |-> 0, asset |-> NoAsset, body |-> NoBody, file |-> Absent]

Matches(a, b) == (a.size # NoSize => SizeOf[b] = a.size) /\ DigestOf[b] = a.sha256

Genuine == {b \in Bodies : \E a \in Assets : Matches(a, b)}

Free(f) == f \notin {name[p] : p \in Paths} /\ \A c \in Callers : call[c].file # f

Init ==
  /\ name = [p \in Paths |-> Absent]
  /\ content = [f \in Files |-> Truncated]
  /\ call = [c \in Callers |-> At("idle")]
  /\ stranded = {}
  /\ crashes = 0

---------------------------------------------------------------------------
(* Looking and fetching.                                                   *)

\* existsSync: a cached binary is returned as it is.
CallCached(c) ==
  /\ call[c].pc \in {"idle"} \cup Settled
  /\ name[Binary] # Absent
  /\ call' = [call EXCEPT ![c] = At("returned")]
  /\ UNCHANGED <<name, content, stranded, crashes>>

\* Otherwise the environment may forbid the download (SKIP_DOWNLOAD, a dev
\* build without manifest), or the manifest is asked for.
CallMisses(c) ==
  /\ call[c].pc \in {"idle"} \cup Settled
  /\ name[Binary] = Absent
  /\ \E pc \in {"failed", "manifest"} : call' = [call EXCEPT ![c] = At(pc)]
  /\ UNCHANGED <<name, content, stranded, crashes>>

\* A bug: the limit is not checked (the count wraps to stay finite).
RedirectedUnlimited(c) ==
  /\ call[c].pc \in Fetching
  /\ call' = [call EXCEPT ![c].hops = (@ + 1) % (MaxRedirects + 1)]
  /\ UNCHANGED <<name, content, stranded, crashes>>

\* A bug: one redirect too many.
RedirectedOnceMore(c) ==
  /\ call[c].pc \in Fetching
  /\ call' = IF call[c].hops <= MaxRedirects THEN [call EXCEPT ![c].hops = @ + 1]
                                              ELSE [call EXCEPT ![c] = At("failed")]
  /\ UNCHANGED <<name, content, stranded, crashes>>

\* A redirect is followed with one hop more, up to the limit.
Redirected(c) ==
  /\ call[c].pc \in Fetching
  /\ call' = IF call[c].hops < MaxRedirects THEN [call EXCEPT ![c].hops = @ + 1]
                                             ELSE [call EXCEPT ![c] = At("failed")]
  /\ UNCHANGED <<name, content, stranded, crashes>>

\* An HTTP or connection error, a manifest that does not parse, has no entry
\* for the platform or has one that validateAsset rejects.
FetchFails(c) ==
  /\ call[c].pc \in Fetching
  /\ call' = [call EXCEPT ![c] = At("failed")]
  /\ UNCHANGED <<name, content, stranded, crashes>>

\* The response is listened to for data and end only.
ResponseBreaksOff(c) ==
  /\ call[c].pc \in Fetching
  /\ call' = [call EXCEPT ![c] = At("hung")]
  /\ UNCHANGED <<name, content, stranded, crashes>>

ManifestArrives(c) ==
  /\ call[c].pc = "manifest"
  /\ \E a \in Assets : call' = [call EXCEPT ![c] = [At("body") EXCEPT !.asset = a]]
  /\ UNCHANGED <<name, content, stranded, crashes>>

\* A bug: the digest is compared only when the manifest has no size.
BodyArrivesSizeOnly(c) ==
  /\ call[c].pc = "body"
  /\ \E b \in Bodies :
       LET a == call[c].asset
       IN call' = [call EXCEPT ![c] =
            IF (IF a.size = NoSize THEN Matches(a, b) ELSE SizeOf[b] = a.size)
            THEN [At("write") EXCEPT !.body = b] ELSE At("failed")]
  /\ UNCHANGED <<name, content, stranded, crashes>>

\* Size and digest decide whether the bytes go any further.
BodyArrives(c) ==
  /\ call[c].pc = "body"
  /\ \E b \in Bodies :
       call' = [call EXCEPT ![c] = IF Matches(call[c].asset, b)
                                   THEN [At("write") EXCEPT !.body = b] ELSE At("failed")]
  /\ UNCHANGED <<name, content, stranded, crashes>>

---------------------------------------------------------------------------
(* Publishing.                                                             *)

\* open with O_CREAT and O_TRUNC.  (A check gives Files enough members.)
OpenAt(c, p) ==
  LET f == IF name[p] # Absent THEN name[p] ELSE CHOOSE x \in Files : Free(x)
  IN /\ call[c].pc = "write"
     /\ name[p] # Absent \/ \E x \in Files : Free(x)
     /\ name' = [name EXCEPT ![p] = f]
     /\ content' = [content EXCEPT ![f] = Truncated]
     /\ call' = [call EXCEPT ![c].pc = "writing", ![c].file = f]
     /\ UNCHANGED <<stranded, crashes>>

\* A bug: the binary is written where it is looked for.
OpenInPlace(c) == OpenAt(c, Binary)

OpenTemp(c) == OpenAt(c, Temp(c))

WriteBody(c) ==
  /\ call[c].pc = "writing"
  /\ content' = [content EXCEPT ![call[c].file] = call[c].body]
  /\ call' = [call EXCEPT ![c] = At("chmod")]
  /\ UNCHANGED <<name, stranded, crashes>>

\* The directory cannot be made or the file not opened ...
OpenFails(c) ==
  /\ call[c].pc = "write"
  /\ call' = [call EXCEPT ![c] = At("failed")]
  /\ UNCHANGED <<name, content, stranded, crashes>>

Chmod(c) ==
  /\ call[c].pc = "chmod"
  /\ name[Temp(c)] # Absent
  /\ call' = [call EXCEPT ![c] = At("rename")]
  /\ UNCHANGED <<name, content, stranded, crashes>>

\* A call that gives up, and leaves its temporary file if it still has one.
GiveUp(c) ==
  /\ call' = [call EXCEPT ![c] = At("failed")]
  /\ stranded' = IF name[Temp(c)] = Absent THEN stranded ELSE stranded \cup {Temp(c)}
  /\ UNCHANGED <<name, content, crashes>>

\* The name is gone, or the system refuses a file that is there; chmod is
\* outside the try block, and nothing is removed.
ChmodFails(c) == call[c].pc = "chmod" /\ GiveUp(c)

\* ... or the disk is full, and nothing removes what was written so far.
WriteFails(c) == call[c].pc = "writing" /\ GiveUp(c)

Rename(c) ==
  /\ call[c].pc = "rename"
  /\ name[Temp(c)] # Absent
  /\ name' = [name EXCEPT ![Binary] = name[Temp(c)], ![Temp(c)] = Absent]
  /\ call' = [call EXCEPT ![c] = At("returned")]
  /\ UNCHANGED <<content, stranded, crashes>>

\* The name is gone, or the system refuses (a running binary on Windows).
RenameFails(c) ==
  /\ call[c].pc = "rename"
  /\ call' = [call EXCEPT ![c] = At("cleanup")]
  /\ UNCHANGED <<name, content, stranded, crashes>>

\* A bug: another process is taken to have put the binary there.
CleanupReturningPath(c) ==
  /\ call[c].pc = "cleanup"
  /\ name' = [name EXCEPT ![Temp(c)] = Absent]
  /\ call' = [call EXCEPT ![c] = At("returned")]
  /\ UNCHANGED <<content, stranded, crashes>>

\* A bug: the error is thrown on, and the temporary file stays.
CleanupLeavingTemp(c) ==
  /\ call[c].pc = "cleanup"
  /\ call' = [call EXCEPT ![c] = At("failed")]
  /\ UNCHANGED <<name, content, stranded, crashes>>

Cleanup(c) ==
  /\ call[c].pc = "cleanup"
  /\ name' = [name EXCEPT ![Temp(c)] = Absent]
  /\ call' = [call EXCEPT ![c] = At("failed")]
  /\ UNCHANGED <<content, stranded, crashes>>

\* rm is refused, and its error takes the place of the rename's.
CleanupFails(c) == call[c].pc = "cleanup" /\ GiveUp(c)

\* The process dies with all its calls.
Crash(p) ==
  /\ crashes < MaxCrashes
  /\ \E c \in Callers : PidOf[c] = p /\ call[c].pc # "idle"
  /\ crashes' = crashes + 1
  /\ call' = [c \in Callers |-> IF PidOf[c] = p THEN At("idle") ELSE call[c]]
  /\ stranded' = IF name[p] = Absent THEN stranded ELSE stranded \cup {p}
  /\ UNCHANGED <<name, content>>

\* Node ends a process that only waits for promises nothing will settle.
Exit(p) ==
  /\ \E c \in Callers : PidOf[c] = p /\ call[c].pc = "hung"
  /\ \A c \in Callers : PidOf[c] = p => call[c].pc \in {"idle", "hung"} \cup Settled
  /\ call' = [c \in Callers |-> IF PidOf[c] = p THEN At("idle") ELSE call[c]]
  /\ UNCHANGED <<name, content, stranded, crashes>>

Fetch(c) ==
  \/ Redirected(c) \/ FetchFails(c) \/ ResponseBreaksOff(c)
  \/ ManifestArrives(c) \/ BodyArrives(c)

Publish(c) ==
  \/ OpenTemp(c) \/ OpenFails(c) \/ WriteBody(c) \/ WriteFails(c)
  \/ Chmod(c) \/ ChmodFails(c) \/ Rename(c) \/ RenameFails(c) \/ Cleanup(c) \/ CleanupFails(c)

Next ==
  \/ \E c \in Callers : CallCached(c) \/ CallMisses(c) \/ Fetch(c) \/ Publish(c)
  \/ \E p \in Pids : Crash(p) \/ Exit(p)

\* The event loop runs the continuation of each file operation.  Nothing is
\* assumed of servers: downloadBytes sets no timeout on a request.
Fairness == \A c \in Callers : WF_vars(Publish(c))

Spec == Init /\ [][Next]_vars /\ Fairness

---------------------------------------------------------------------------
(* Properties                                                              *)

\* Each variable keeps the form the code gives it.
TypeOK ==
  /\ name \in [Paths -> Files \cup {Absent}]
  /\ content \in [Files -> Bodies \cup {Truncated}]
  /\ call \in [Callers -> Calls]
  /\ stranded \subseteq Pids
  /\ crashes \in 0..MaxCrashes

\* "SHA-256 mismatch still prevents caching": whatever is at the cached path
\* is whole and matched a manifest, at every moment and after every crash,
\* since existsSync is all a later call looks at.
CachedIsVerified == name[Binary] # Absent => content[name[Binary]] \in Genuine

\* A path that was returned names a whole, verified binary to launch.
ReturnedCanBeLaunched ==
  \A c \in Callers : call[c].pc = "returned" =>
    name[Binary] # Absent /\ content[name[Binary]] \in Genuine

\* A process has no temporary file left once its calls are over, unless it
\* died, its disk was full while it wrote, or a chmod or the removal itself
\* was refused: a refused rename alone leaves none behind.
TempIsTransient ==
  \A p \in Pids : name[p] # Absent =>
    p \in stranded \/ \E c \in Callers : PidOf[c] = p /\ call[c].pc \in Writing

\* A cached binary, which may be running, is replaced as a whole: it neither
\* disappears nor changes in place.
CacheReplacedWhole ==
  [][name[Binary] # Absent =>
       /\ name'[Binary] # Absent
       /\ name'[Binary] = name[Binary] => content'[name[Binary]] = content[name[Binary]]]_vars

\* One request of the call is never answered, or broke off in its middle.
Unanswered(c) ==
  /\ <>[](call[c].pc \in Fetching \cup {"hung"})
  /\ <>[][call'[c] = call[c]]_call

\* Every call returns or throws (or dies with its process), however servers
\* redirect and whatever fails on disk, unless one request stays unanswered:
\* no other chain of events keeps a call from ending.
EveryCallSettles ==
  \A c \in Callers : []<>(call[c].pc \in Settled \cup {"idle"}) \/ Unanswered(c)
=============================================================================
