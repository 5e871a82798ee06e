-------------------------- MODULE BinaryCacheProofs --------------------------
(***************************************************************************)
(* Proofs about BinaryCache: when each process has one call at a time, the *)
(* cached binary is always whole and verified, and what a call returned    *)
(* can be launched, for any number of processes, crashes and downloads.    *)
(***************************************************************************)
EXTENDS BinaryCache, TLAPS

\* Two calls of one process would share a temporary path.
OneCallPerProcess == \A c, d \in Callers : PidOf[c] = PidOf[d] => c = d

LEMMA AtType ==
  ASSUME NEW pc \in CallPcs
  PROVE  /\ At(pc) \in Calls
         /\ At(pc).pc = pc /\ At(pc).file = Absent /\ At(pc).body = NoBody
  BY CacheAssumption DEF At, Calls

LEMMA CallStep ==
  ASSUME TypeOK, NEW c \in Callers, NEW run \in Calls, call' = [call EXCEPT ![c] = run]
  PROVE  /\ call' \in [Callers -> Calls]
         /\ call'[c] = run
         /\ \A d \in Callers \ {c} : call'[d] = call[d]
  BY DEF TypeOK

\* A file is named once, so a temporary file is never the cached one ...
NamesDiffer ==
  \A p, q \in Paths : p # q /\ name[p] # Absent => name[p] # name[q]

\* ... a call knows its asset and writes the file its temporary path names, with bytes that
\* matched; once written, that file has them ...
Sound(c) ==
  /\ call[c].pc = "body" => call[c].asset \in Assets
  /\ call[c].pc \in {"write", "writing"} => call[c].body \in Genuine
  /\ call[c].pc = "writing" => call[c].file \in Files /\ name[Temp(c)] = call[c].file
  /\ call[c].pc \in {"chmod", "rename"} =>
       name[Temp(c)] # Absent /\ content[name[Temp(c)]] \in Genuine
  /\ call[c].pc = "returned" => name[Binary] # Absent

\* ... which makes the cached binary verified at every step.
CacheInv ==
  /\ TypeOK
  /\ NamesDiffer
  /\ CachedIsVerified
  /\ \A c \in Callers : Sound(c)

LEMMA InitInv == Init => CacheInv
<1> SUFFICES ASSUME Init PROVE CacheInv
  OBVIOUS
<1>1. TypeOK
  BY AtType, CacheAssumption DEF Init, TypeOK, CallPcs
<1>2. \A c \in Callers : call[c].pc = "idle"
  BY DEF Init, At
<1> QED
  BY <1>1, <1>2 DEF Init, CacheInv, NamesDiffer, CachedIsVerified, Sound, Paths

\* A step of a call that touches no file and does not enter the writing
\* phase keeps the invariant.
LEMMA QuietStep ==
  ASSUME CacheInv, NEW c \in Callers, NEW run \in Calls,
         call' = [call EXCEPT ![c] = run],
         UNCHANGED <<name, content, stranded, crashes>>,
         run.pc \notin Writing,
         run.pc = "body" => run.asset \in Assets,
         run.pc = "returned" => name[Binary] # Absent
  PROVE  CacheInv'
<1>1. TypeOK'
  BY CallStep DEF CacheInv, TypeOK
<1>2. call'[c] = run /\ \A d \in Callers \ {c} : call'[d] = call[d]
  BY CallStep DEF CacheInv
<1>3. Sound(c)'
  BY <1>2 DEF Sound, Writing
<1>4. \A d \in Callers \ {c} : Sound(d)'
  BY <1>2 DEF CacheInv, Sound, Temp
<1> QED
  BY <1>1, <1>3, <1>4 DEF CacheInv, NamesDiffer, CachedIsVerified

LEMMA LookAndFetch ==
  ASSUME CacheInv, NEW c \in Callers, CallCached(c) \/ CallMisses(c) \/ Fetch(c)
  PROVE  CacheInv'
<1>0. TypeOK /\ call[c] \in Calls /\ Sound(c)
  BY DEF CacheInv, TypeOK
<1>i. \A pc \in {"failed", "manifest", "returned", "hung", "body", "write"} :
         At(pc) \in Calls /\ At(pc).pc = pc
  BY AtType DEF CallPcs, Fetching, Writing, Settled
<1>1. CASE CallCached(c)
  BY <1>1, <1>i, QuietStep DEF CallCached, Writing
<1>2. CASE CallMisses(c)
  BY <1>2, <1>i, QuietStep DEF CallMisses, Writing
<1>3. CASE Redirected(c)
  <2>1. call[c].hops \in 0..MaxRedirects
    BY <1>0 DEF Calls
  <2>2. CASE call[c].hops < MaxRedirects
    <3>1. call[c].hops + 1 \in 0..MaxRedirects
      BY <2>1, <2>2, CacheAssumption
    <3> DEFINE next == [call[c] EXCEPT !.hops = @ + 1]
    <3>2. next \in Calls /\ next.pc = call[c].pc /\ next.asset = call[c].asset
      BY <1>0, <3>1 DEF Calls
    <3>3. call[c].pc \in Fetching
      BY <1>3 DEF Redirected
    <3>4. call' = [call EXCEPT ![c] = next]
      BY <1>3, <2>2 DEF Redirected
    <3>5. UNCHANGED <<name, content, stranded, crashes>>
      BY <1>3 DEF Redirected
    <3> HIDE DEF next
    <3>6. next.pc \notin Writing /\ next.pc # "returned"
      BY <3>2, <3>3 DEF Writing, Fetching
    <3>7. next.pc = "body" => next.asset \in Assets
      BY <1>0, <3>2 DEF Sound
    <3> QED BY <3>2, <3>4, <3>5, <3>6, <3>7, QuietStep
  <2>3. CASE ~(call[c].hops < MaxRedirects)
    <3>1. call' = [call EXCEPT ![c] = At("failed")]
      BY <1>3, <2>3 DEF Redirected
    <3> QED BY <1>3, <1>i, <3>1, QuietStep DEF Redirected, Writing
  <2> QED BY <2>2, <2>3
<1>4. CASE FetchFails(c) \/ ResponseBreaksOff(c)
  BY <1>4, <1>i, QuietStep DEF FetchFails, ResponseBreaksOff, Writing
<1>5. CASE ManifestArrives(c)
  <2>1. PICK a \in Assets : call' = [call EXCEPT ![c] = [At("body") EXCEPT !.asset = a]]
    BY <1>5 DEF ManifestArrives
  <2>2. /\ [At("body") EXCEPT !.asset = a] \in Calls
        /\ [At("body") EXCEPT !.asset = a].pc = "body"
        /\ [At("body") EXCEPT !.asset = a].asset = a
    BY <1>i DEF Calls
  <2> QED BY <1>5, <2>1, <2>2, QuietStep DEF ManifestArrives, Writing
<1>6. CASE BodyArrives(c)
  <2>1. PICK b \in Bodies :
          call' = [call EXCEPT ![c] = IF Matches(call[c].asset, b)
                                      THEN [At("write") EXCEPT !.body = b] ELSE At("failed")]
    BY <1>6 DEF BodyArrives
  <2>2. CASE ~Matches(call[c].asset, b)
    BY <1>6, <1>i, <2>1, <2>2, QuietStep DEF BodyArrives, Writing
  <2>3. CASE Matches(call[c].asset, b)
    <3> DEFINE run == [At("write") EXCEPT !.body = b]
    <3>1. run \in Calls /\ run.pc = "write" /\ run.body = b
      BY <1>i DEF Calls
    <3>2. call' = [call EXCEPT ![c] = run]
      BY <2>1, <2>3
    <3> HIDE DEF run
    <3>3. call'[c] = run /\ (\A d \in Callers \ {c} : call'[d] = call[d]) /\ TypeOK'
      BY <1>0, <1>6, <3>1, <3>2, CallStep DEF BodyArrives, TypeOK
    <3>4. b \in Genuine
      BY <1>0, <1>6, <2>3 DEF BodyArrives, Sound, Genuine
    <3>5. UNCHANGED <<name, content>>
      BY <1>6 DEF BodyArrives
    <3>6. Sound(c)'
      BY <3>1, <3>3, <3>4 DEF Sound
    <3>7. \A d \in Callers \ {c} : Sound(d)'
      BY <3>3, <3>5 DEF CacheInv, Sound, Temp
    <3> QED BY <3>3, <3>5, <3>6, <3>7 DEF CacheInv, NamesDiffer, CachedIsVerified
  <2> QED BY <2>2, <2>3
<1> QED
  BY <1>1, <1>2, <1>3, <1>4, <1>5, <1>6 DEF Fetch

LEMMA OpenStep ==
  ASSUME OneCallPerProcess, CacheInv, NEW c \in Callers, OpenTemp(c)
  PROVE  CacheInv'
<1> DEFINE p == Temp(c)
           f == IF name[p] # Absent THEN name[p] ELSE CHOOSE x \in Files : Free(x)
           run == [call[c] EXCEPT !.pc = "writing", !.file = f]
<1>0. TypeOK /\ call[c] \in Calls /\ Sound(c) /\ NamesDiffer /\ p \in Paths /\ p # Binary
  BY CacheAssumption DEF CacheInv, TypeOK, Temp, Paths
<1>1. f \in Files /\ (name[p] = Absent => Free(f))
  BY <1>0 DEF OpenTemp, OpenAt, TypeOK
<1>2. /\ call[c].pc = "write"
      /\ name' = [name EXCEPT ![p] = f]
      /\ content' = [content EXCEPT ![f] = Truncated]
      /\ call' = [call EXCEPT ![c] = run]
      /\ UNCHANGED <<stranded, crashes>>
  BY DEF OpenTemp, OpenAt
<1>3. \A s \in Paths \ {p} : name[s] # f
  BY <1>0, <1>1 DEF NamesDiffer, Free
<1> HIDE DEF f
<1>4. run \in Calls /\ run.pc = "writing" /\ run.file = f /\ run.body = call[c].body
  BY <1>0, <1>1 DEF Calls, CallPcs, Writing
<1> HIDE DEF run
<1>5. call'[c] = run /\ (\A d \in Callers \ {c} : call'[d] = call[d]) /\ call' \in [Callers -> Calls]
  BY <1>0, <1>2, <1>4, CallStep
<1>6. TypeOK'
  BY <1>0, <1>1, <1>2, <1>5 DEF TypeOK
<1>7. name'[p] = f /\ \A s \in Paths \ {p} : name'[s] = name[s]
  BY <1>0, <1>2 DEF TypeOK
<1>8. \A x \in Files \ {f} : content'[x] = content[x]
  BY <1>0, <1>2 DEF TypeOK
<1>9. NamesDiffer'
  BY <1>0, <1>3, <1>7 DEF NamesDiffer
<1>10. CachedIsVerified'
  BY <1>0, <1>3, <1>7, <1>8 DEF CachedIsVerified, CacheInv, Paths, TypeOK
<1>11. Sound(c)'
  BY <1>0, <1>1, <1>2, <1>4, <1>5, <1>7 DEF Sound
<1>12. ASSUME NEW d \in Callers \ {c} PROVE Sound(d)'
  <2>1. Temp(d) \in Paths \ {p} /\ Binary \in Paths \ {p}
    BY <1>0, CacheAssumption DEF OneCallPerProcess, Temp, Paths
  <2>2. call'[d] = call[d] /\ name'[Temp(d)] = name[Temp(d)] /\ name'[Binary] = name[Binary]
    BY <1>5, <1>7, <2>1
  <2>3. name[Temp(d)] # Absent => content'[name[Temp(d)]] = content[name[Temp(d)]]
    BY <1>0, <1>3, <1>8, <2>1 DEF TypeOK
  <2> QED BY <2>2, <2>3 DEF CacheInv, Sound, Temp
<1> QED
  BY <1>6, <1>9, <1>10, <1>11, <1>12 DEF CacheInv

LEMMA WriteStep ==
  ASSUME OneCallPerProcess, CacheInv, NEW c \in Callers, WriteBody(c)
  PROVE  CacheInv'
<1> DEFINE p == Temp(c)
           f == call[c].file
<1>i. p \in Paths /\ p # Binary
  BY CacheAssumption DEF Temp, Paths
<1>0. /\ TypeOK /\ call[c] \in Calls /\ Sound(c) /\ NamesDiffer /\ p \in Paths /\ p # Binary
      /\ call[c].pc = "writing"
  BY <1>i DEF CacheInv, TypeOK, WriteBody
<1>1. f \in Files /\ name[p] = f /\ call[c].body \in Genuine /\ Genuine \subseteq Bodies
  BY <1>0 DEF Sound, Genuine
<1>2. content' = [content EXCEPT ![f] = call[c].body] /\ UNCHANGED <<name, stranded, crashes>>
  BY DEF WriteBody
<1>3. /\ call' \in [Callers -> Calls]
      /\ call'[c].pc = "chmod"
      /\ \A d \in Callers \ {c} : call'[d] = call[d]
  BY <1>0, AtType, CallStep DEF WriteBody, CallPcs, Writing
<1>4. \A s \in Paths \ {p} : name[s] # f
  BY <1>0, <1>1, CacheAssumption DEF NamesDiffer
<1>5. content'[f] \in Genuine /\ \A x \in Files \ {f} : content'[x] = content[x]
  BY <1>0, <1>1, <1>2 DEF TypeOK
<1>6. TypeOK'
  BY <1>0, <1>1, <1>2, <1>3 DEF TypeOK
<1>7. CachedIsVerified'
  BY <1>0, <1>2, <1>4, <1>5 DEF CachedIsVerified, CacheInv, Paths, TypeOK
<1>8. Sound(c)'
  BY <1>1, <1>2, <1>3, <1>5, CacheAssumption DEF Sound, Temp
<1>9. ASSUME NEW d \in Callers \ {c} PROVE Sound(d)'
  <2>1. Temp(d) \in Paths \ {p}
    BY <1>0, CacheAssumption DEF OneCallPerProcess, Temp, Paths
  <2>2. name[Temp(d)] # Absent => content'[name[Temp(d)]] = content[name[Temp(d)]]
    BY <1>0, <1>4, <1>5, <2>1 DEF TypeOK
  <2> QED BY <1>2, <1>3, <2>2 DEF CacheInv, Sound, Temp
<1> QED
  BY <1>0, <1>2, <1>6, <1>7, <1>8, <1>9 DEF CacheInv, NamesDiffer

\* A name that disappears, other than the cached one.
LEMMA UnnameStep ==
  ASSUME OneCallPerProcess, CacheInv, NEW c \in Callers, Cleanup(c)
  PROVE  CacheInv'
<1> DEFINE p == Temp(c)
<1>0. TypeOK /\ p \in Paths /\ p # Binary
  BY CacheAssumption DEF CacheInv, TypeOK, Temp, Paths
<1>1. name' = [name EXCEPT ![p] = Absent] /\ UNCHANGED <<content, stranded, crashes>>
  BY DEF Cleanup
<1>2. /\ call' \in [Callers -> Calls]
      /\ call'[c].pc = "failed"
      /\ \A d \in Callers \ {c} : call'[d] = call[d]
  BY <1>0, AtType, CallStep DEF Cleanup, CallPcs, Settled
<1>3. TypeOK'
  BY <1>0, <1>1, <1>2 DEF TypeOK
<1>4. name'[p] = Absent /\ \A s \in Paths \ {p} : name'[s] = name[s]
  BY <1>0, <1>1 DEF TypeOK
<1>5. NamesDiffer' /\ CachedIsVerified'
  BY <1>0, <1>1, <1>4 DEF CacheInv, NamesDiffer, CachedIsVerified, Paths
<1>6. Sound(c)'
  BY <1>2 DEF Sound
<1>7. ASSUME NEW d \in Callers \ {c} PROVE Sound(d)'
  <2>1. Temp(d) \in Paths \ {p} /\ Binary \in Paths \ {p}
    BY <1>0, CacheAssumption DEF OneCallPerProcess, Temp, Paths
  <2> QED BY <1>1, <1>2, <1>4, <2>1 DEF CacheInv, Sound, Temp
<1> QED
  BY <1>3, <1>5, <1>6, <1>7 DEF CacheInv

LEMMA RenameStep ==
  ASSUME OneCallPerProcess, CacheInv, NEW c \in Callers, Rename(c)
  PROVE  CacheInv'
<1> DEFINE p == Temp(c)
<1>0. TypeOK /\ Sound(c) /\ NamesDiffer /\ p \in Paths /\ p # Binary /\ Binary \in Paths
  BY CacheAssumption DEF CacheInv, TypeOK, Temp, Paths
<1>1. /\ name' = [name EXCEPT ![Binary] = name[p], ![p] = Absent]
      /\ UNCHANGED <<content, stranded, crashes>>
  BY DEF Rename
<1>2. /\ call' \in [Callers -> Calls]
      /\ call'[c].pc = "returned"
      /\ \A d \in Callers \ {c} : call'[d] = call[d]
  BY <1>0, AtType, CallStep DEF Rename, CallPcs, Settled
<1>3. TypeOK'
  BY <1>0, <1>1, <1>2 DEF TypeOK
<1>4. /\ name'[p] = Absent /\ name'[Binary] = name[p]
      /\ \A s \in Paths \ {p, Binary} : name'[s] = name[s]
  BY <1>0, <1>1 DEF TypeOK
<1>5. name[p] # Absent /\ content[name[p]] \in Genuine
  BY <1>0 DEF Rename, Sound
<1>6. NamesDiffer'
  BY <1>0, <1>4 DEF NamesDiffer
<1>7. CachedIsVerified'
  BY <1>1, <1>4, <1>5 DEF CachedIsVerified
<1>8. Sound(c)'
  BY <1>2, <1>4, <1>5 DEF Sound
<1>9. ASSUME NEW d \in Callers \ {c} PROVE Sound(d)'
  <2>1. Temp(d) \in Paths \ {p, Binary}
    BY <1>0, CacheAssumption DEF OneCallPerProcess, Temp, Paths
  <2> QED BY <1>1, <1>2, <1>4, <1>5, <2>1 DEF CacheInv, Sound, Temp
<1> QED
  BY <1>3, <1>6, <1>7, <1>8, <1>9 DEF CacheInv

LEMMA PublishStep ==
  ASSUME OneCallPerProcess, CacheInv, NEW c \in Callers, Publish(c)
  PROVE  CacheInv'
<1>0. TypeOK /\ Sound(c) /\ Temp(c) \in Pids
  BY CacheAssumption DEF CacheInv, Temp
<1>1. CASE OpenFails(c) \/ GiveUp(c)
  <2>0. /\ call'[c].pc = "failed"
        /\ \A d \in Callers \ {c} : call'[d] = call[d]
        /\ call' \in [Callers -> Calls]
    BY <1>0, <1>1, AtType, CallStep DEF OpenFails, GiveUp, CallPcs, Settled
  <2>1. TypeOK' /\ UNCHANGED <<name, content>>
    BY <1>0, <1>1, <2>0 DEF OpenFails, GiveUp, TypeOK
  <2> QED BY <2>0, <2>1 DEF CacheInv, NamesDiffer, CachedIsVerified, Sound, Temp
<1>2. CASE Chmod(c)
  <2>1. call'[c].pc = "rename" /\ (\A d \in Callers \ {c} : call'[d] = call[d]) /\ TypeOK'
    BY <1>0, <1>2, AtType, CallStep DEF Chmod, TypeOK, CallPcs, Writing
  <2>2. Sound(c)'
    BY <1>0, <1>2, <2>1 DEF Chmod, Sound, Temp
  <2>3. \A d \in Callers \ {c} : Sound(d)'
    BY <1>2, <2>1 DEF Chmod, CacheInv, Sound, Temp
  <2> QED BY <1>2, <2>1, <2>2, <2>3 DEF Chmod, CacheInv, NamesDiffer, CachedIsVerified
<1>3. CASE RenameFails(c)
  <2>1. call'[c].pc = "cleanup" /\ (\A d \in Callers \ {c} : call'[d] = call[d]) /\ TypeOK'
    BY <1>0, <1>3, AtType, CallStep DEF RenameFails, TypeOK, CallPcs, Writing
  <2> QED BY <1>3, <2>1 DEF RenameFails, CacheInv, NamesDiffer, CachedIsVerified, Sound, Temp
<1> QED
  BY <1>1, <1>2, <1>3, OpenStep, WriteStep, UnnameStep, RenameStep
     DEF Publish, WriteFails, ChmodFails, CleanupFails

\* A process that ends leaves the files as they are.
LEMMA EndStep ==
  ASSUME CacheInv, NEW p \in Pids, Crash(p) \/ Exit(p)
  PROVE  CacheInv'
<1>1. call' = [c \in Callers |-> IF PidOf[c] = p THEN At("idle") ELSE call[c]]
  BY DEF Crash, Exit
<1>2. At("idle") \in Calls /\ At("idle").pc = "idle"
  BY AtType DEF CallPcs
<1>3. UNCHANGED <<name, content>> /\ stranded' \subseteq Pids /\ crashes' \in 0..MaxCrashes
  BY CacheAssumption DEF Crash, Exit, CacheInv, TypeOK
<1>4. TypeOK'
  BY <1>1, <1>2, <1>3 DEF CacheInv, TypeOK
<1>5. \A c \in Callers : Sound(c)'
  BY <1>1, <1>2, <1>3 DEF CacheInv, Sound, Temp
<1> QED
  BY <1>3, <1>4, <1>5 DEF CacheInv, NamesDiffer, CachedIsVerified

LEMMA CacheInvHolds == ASSUME OneCallPerProcess PROVE Spec => []CacheInv
<1>1. CacheInv /\ [Next]_vars => CacheInv'
  <2> SUFFICES ASSUME CacheInv, [Next]_vars PROVE CacheInv'
    OBVIOUS
  <2>1. CASE UNCHANGED vars
    BY <2>1 DEF vars, CacheInv, TypeOK, NamesDiffer, CachedIsVerified, Sound, Temp
  <2> QED BY <2>1, OneCallPerProcess, LookAndFetch, PublishStep, EndStep DEF Next
<1> QED
  BY <1>1, InitInv, PTL DEF Spec

\* With one call per process, no crash, failure or interleaving leaves bytes
\* at the cached path that did not match a manifest.
THEOREM CacheIsVerified == ASSUME OneCallPerProcess PROVE Spec => []CachedIsVerified
<1>1. CacheInv => CachedIsVerified
  BY DEF CacheInv
<1> QED
  BY <1>1, OneCallPerProcess, CacheInvHolds, PTL

\* Then a path that was returned stays good to launch, too.
THEOREM ReturnedIsGood == ASSUME OneCallPerProcess PROVE Spec => []ReturnedCanBeLaunched
<1>1. CacheInv => ReturnedCanBeLaunched
  BY DEF CacheInv, CachedIsVerified, ReturnedCanBeLaunched, Sound
<1> QED
  BY <1>1, OneCallPerProcess, CacheInvHolds, PTL

\* And a cached binary, which may be running, never disappears and is never
\* written to: it is only replaced.
THEOREM CachedIsUntouched == ASSUME OneCallPerProcess PROVE Spec => CacheReplacedWhole
<1> DEFINE Whole == name[Binary] # Absent =>
                      /\ name'[Binary] # Absent
                      /\ name'[Binary] = name[Binary] =>
                           content'[name[Binary]] = content[name[Binary]]
<1>1. CacheInv /\ [Next]_vars => [Whole]_vars
  <2> SUFFICES ASSUME CacheInv, Next, name[Binary] # Absent PROVE Whole
    OBVIOUS
  <2>0. TypeOK /\ NamesDiffer /\ Binary \in Paths /\ name[Binary] \in Files
    BY DEF CacheInv, TypeOK, Paths
  <2>1. ASSUME NEW c \in Callers, Publish(c) PROVE Whole
    <3>0. Temp(c) \in Paths /\ Temp(c) # Binary /\ Sound(c)
      BY CacheAssumption DEF Temp, Paths, CacheInv
    <3>1. CASE OpenTemp(c)
      <4> DEFINE f == IF name[Temp(c)] # Absent THEN name[Temp(c)]
                                                ELSE CHOOSE x \in Files : Free(x)
      <4>1. f \in Files /\ f # name[Binary]
        BY <2>0, <3>0, <3>1 DEF OpenTemp, OpenAt, NamesDiffer, Free, TypeOK
      <4>2. name' = [name EXCEPT ![Temp(c)] = f] /\ content' = [content EXCEPT ![f] = Truncated]
        BY <3>1 DEF OpenTemp, OpenAt
      <4> HIDE DEF f
      <4> QED BY <2>0, <3>0, <4>1, <4>2 DEF TypeOK
    <3>2. CASE WriteBody(c)
      <4>1. name[Temp(c)] = call[c].file /\ call[c].file # name[Binary] /\ call[c].file \in Files
        BY <2>0, <3>0, <3>2, CacheAssumption DEF WriteBody, Sound, NamesDiffer
      <4> QED BY <2>0, <3>2, <4>1 DEF WriteBody, TypeOK
    <3>3. CASE Rename(c)
      <4>1. name'[Binary] = name[Temp(c)] /\ UNCHANGED content
        BY <2>0, <3>0, <3>3 DEF Rename, TypeOK
      <4> QED BY <3>3, <4>1 DEF Rename
    <3>4. CASE OpenFails(c) \/ GiveUp(c) \/ Chmod(c) \/ RenameFails(c) \/ Cleanup(c)
      BY <2>0, <3>0, <3>4 DEF OpenFails, GiveUp, Chmod, RenameFails, Cleanup, TypeOK
    <3> QED BY <2>1, <3>1, <3>2, <3>3, <3>4 DEF Publish, WriteFails, ChmodFails, CleanupFails
  <2>2. CASE UNCHANGED <<name, content>>
    BY <2>2
  <2> QED BY <2>1, <2>2 DEF Next, CallCached, CallMisses, Fetch, Redirected, FetchFails,
        ResponseBreaksOff, ManifestArrives, BodyArrives, Crash, Exit
<1> QED
  BY <1>1, OneCallPerProcess, CacheInvHolds, PTL DEF Spec, CacheReplacedWhole

\* With one call per process, each variable of the cache keeps its type.
THEOREM CacheTyping == ASSUME OneCallPerProcess PROVE Spec => []TypeOK
<1>1. CacheInv => TypeOK
  BY DEF CacheInv
<1> QED
  BY <1>1, OneCallPerProcess, CacheInvHolds, PTL

\* A temporary file belongs to a call that has opened it, unless it was left
\* behind: a call that is about to open it does not count.
Opened == {"writing", "chmod", "rename", "cleanup"}
TempInv ==
  \A p \in Pids : name[p] # Absent =>
    p \in stranded \/ \E c \in Callers : PidOf[c] = p /\ call[c].pc \in Opened

LEMMA TempKept ==
  ASSUME TempInv, UNCHANGED name, stranded \subseteq stranded',
         \A c \in Callers : call[c].pc \in Opened =>
           call'[c].pc \in Opened \/ PidOf[c] \in stranded' \/ name[PidOf[c]] = Absent
  PROVE  TempInv'
  BY DEF TempInv

\* A call that gives its temporary path another file, or none.
LEMMA TempMoved ==
  ASSUME TempInv, NEW c \in Callers, stranded \subseteq stranded',
         \A p \in Pids \ {Temp(c)} : name'[p] = name[p],
         \A d \in Callers \ {c} : call'[d] = call[d],
         name'[Temp(c)] = Absent \/ call'[c].pc \in Opened
  PROVE  TempInv'
<1> SUFFICES ASSUME NEW p \in Pids, name'[p] # Absent
             PROVE  p \in stranded' \/ \E d \in Callers : PidOf[d] = p /\ call'[d].pc \in Opened
  BY DEF TempInv
<1>1. CASE p = Temp(c)
  BY <1>1 DEF Temp
<1>2. CASE p # Temp(c)
  BY <1>2 DEF TempInv, Temp
<1> QED
  BY <1>1, <1>2

LEMMA TempPublish ==
  ASSUME CacheInv, TempInv, NEW c \in Callers, Publish(c)
  PROVE  TempInv'
<1>0. /\ TypeOK /\ call[c] \in Calls /\ Temp(c) \in Pids /\ Temp(c) \in Paths
      /\ Binary \notin Pids /\ Pids \subseteq Paths
  BY CacheAssumption DEF CacheInv, TypeOK, Temp, Paths
<1>1. CASE OpenTemp(c)
  <2>1. PICK f : name' = [name EXCEPT ![Temp(c)] = f]
    BY <1>1 DEF OpenTemp, OpenAt
  <2>2. \A p \in Pids \ {Temp(c)} : name'[p] = name[p]
    BY <1>0, <2>1 DEF TypeOK
  <2>3. PICK g : call' = [call EXCEPT ![c].pc = "writing", ![c].file = g]
    BY <1>1 DEF OpenTemp, OpenAt
  <2>4. call'[c].pc = "writing" /\ \A d \in Callers \ {c} : call'[d] = call[d]
    BY <1>0, <2>3 DEF TypeOK, Calls
  <2> QED
    BY <1>1, <2>2, <2>4, TempMoved DEF OpenTemp, OpenAt, Opened
<1>2. CASE WriteBody(c) \/ OpenFails(c) \/ GiveUp(c) \/ Chmod(c) \/ RenameFails(c)
  <2>1. PICK pc \in {"chmod", "rename", "cleanup", "failed"} :
          /\ call' = [call EXCEPT ![c] = At(pc)]
          /\ pc = "failed" /\ call[c].pc \in Opened =>
               PidOf[c] \in stranded' \/ name[PidOf[c]] = Absent
    BY <1>2 DEF WriteBody, OpenFails, GiveUp, Chmod, RenameFails, Opened, Temp
  <2>2. call'[c].pc = pc /\ \A d \in Callers \ {c} : call'[d] = call[d]
    BY <1>0, <2>1, AtType, CallStep DEF CallPcs, Writing, Settled
  <2>3. UNCHANGED name /\ stranded \subseteq stranded'
    BY <1>2 DEF WriteBody, OpenFails, GiveUp, Chmod, RenameFails
  <2> QED
    BY <2>1, <2>2, <2>3, TempKept DEF Opened
<1>3. CASE Rename(c) \/ Cleanup(c)
  <2>1. \A d \in Callers \ {c} : call'[d] = call[d]
    BY <1>0, <1>3 DEF Rename, Cleanup, TypeOK
  <2>2. /\ name'[Temp(c)] = Absent
        /\ \A p \in Pids \ {Temp(c)} : name'[p] = name[p]
    BY <1>0, <1>3 DEF Rename, Cleanup, TypeOK
  <2>3. stranded' = stranded
    BY <1>3 DEF Rename, Cleanup
  <2> QED
    BY <2>1, <2>2, <2>3, TempMoved
<1> QED
  BY <1>1, <1>2, <1>3 DEF Publish, WriteFails, ChmodFails, CleanupFails

LEMMA TempFetch ==
  ASSUME CacheInv, TempInv, NEW c \in Callers, CallCached(c) \/ CallMisses(c) \/ Fetch(c)
  PROVE  TempInv'
<1>1. call[c].pc \in {"idle"} \cup Settled \cup Fetching
  BY DEF CallCached, CallMisses, Fetch, Redirected, FetchFails, ResponseBreaksOff,
         ManifestArrives, BodyArrives, Fetching
<1>2. \A d \in Callers \ {c} : call'[d] = call[d]
  BY DEF CallCached, CallMisses, Fetch, Redirected, FetchFails, ResponseBreaksOff,
         ManifestArrives, BodyArrives, CacheInv, TypeOK
<1>3. UNCHANGED <<name, stranded>>
  BY DEF CallCached, CallMisses, Fetch, Redirected, FetchFails, ResponseBreaksOff,
         ManifestArrives, BodyArrives
<1> QED
  BY <1>1, <1>2, <1>3, TempKept DEF Opened, Settled, Fetching

LEMMA TempEnd ==
  ASSUME CacheInv, TempInv, NEW p \in Pids, Crash(p) \/ Exit(p)
  PROVE  TempInv'
<1>1. \A c \in Callers : PidOf[c] # p => call'[c] = call[c]
  BY DEF Crash, Exit
<1>2. UNCHANGED name /\ stranded \subseteq stranded'
  BY DEF Crash, Exit
<1>3. ASSUME NEW c \in Callers, PidOf[c] = p, call[c].pc \in Opened
      PROVE  p \in stranded' \/ name[p] = Absent
  BY <1>3 DEF Crash, Exit, Opened, Settled
<1> QED
  BY <1>1, <1>2, <1>3, TempKept

\* A temporary file is in use, or was left by a crash, a failed write, a
\* refused chmod or a refused removal; a refused rename leaves none.
THEOREM TempsAreTransient == ASSUME OneCallPerProcess PROVE Spec => []TempIsTransient
<1>1. Init => TempInv
  BY DEF Init, TempInv, Paths
<1>2. CacheInv /\ TempInv /\ [Next]_vars => TempInv'
  <2> SUFFICES ASSUME CacheInv, TempInv, [Next]_vars PROVE TempInv'
    OBVIOUS
  <2>1. CASE UNCHANGED vars
    BY <2>1 DEF vars, TempInv
  <2> QED
    BY <2>1, TempPublish, TempFetch, TempEnd DEF Next
<1>3. TempInv => TempIsTransient
  BY DEF TempInv, TempIsTransient, Opened, Writing
<1> QED
  BY <1>1, <1>2, <1>3, OneCallPerProcess, CacheInvHolds, PTL DEF Spec
==============================================================================
