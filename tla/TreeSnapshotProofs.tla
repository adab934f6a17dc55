-------------------------- MODULE TreeSnapshotProofs --------------------------
(* Proofs about TreeSnapshot for all trees, limits, pipe capacities and       *)
(* numbers of troubles: a call leaves no process and no thread behind, and    *)
(* what a command has answered is what the caller is told.  The last part is  *)
(* about the invariant from which SnapshotProofs concludes that a snapshot    *)
(* that is returned is complete: processes and threads keep it.               *)
EXTENDS TreeSnapshot, TLAPS

---------------------------------------------------------------------------
(* Processes and threads, and the steps that are not the caller's *)

Shape ==
    /\ mode \in Modes /\ cur \in Process
    /\ child \in [Process -> {"none", "running", "closing", "exited", "reaped"}]
    /\ thread \in [Thread -> {"none", "run", "send", "end", "joined"}]

Background ==
    \/ Environment \/ Finish
    \/ \E p \in Process : Published(p)
    \/ \E t \in Thread : ThreadStep(t)

\* What processes and threads do by themselves: a child that runs may die, a thread that
\* runs may end, and the caller is where it was.
ChildrenGoOn ==
    \A p \in Process :
        child'[p] = child[p] \/ (child[p] \notin {"none", "reaped"} /\ child'[p] \in {"closing", "exited"})
ThreadsGoOn ==
    \A t \in Thread :
        thread'[t] = thread[t] \/ (thread[t] \in {"run", "send"} /\ thread'[t] \in {"run", "send", "end"})

\* A step of the processes.
LEMMA ProcessFrame ==
    ASSUME Shape, Environment \/ \E p \in Process : Published(p)
    PROVE  Shape' /\ UNCHANGED <<tree, mode, threadVars, request, open, callVars>> /\ ChildrenGoOn
<1> USE DEF callVars, Process
<1>1. CASE ListWrites \/ BlobAnswers \/ (\E p \in Process : Complain(p) \/ DescendantExits(p))
           \/ (\E p \in Process, pipes \in {{"out"}, {"err"}} : Fork(p, pipes))
  <2>1. UNCHANGED <<tree, mode, threadVars, request, open, callVars, child>>
    BY Zenon, <1>1 DEF ListWrites, BlobAnswers, Complain, DescendantExits, Fork
  <2> QED
    BY <2>1 DEF Shape, ChildrenGoOn, threadVars
<1>2. ASSUME NEW p \in Process, child[p] = "running" \/ child[p] = "closing",
             \/ child' = [child EXCEPT ![p] = "closing"]
             \/ child' = [child EXCEPT ![p] = "exited"],
             UNCHANGED <<tree, mode, threadVars, request, open, callVars>>
      PROVE  Shape' /\ ChildrenGoOn
  BY <1>2 DEF Shape, ChildrenGoOn, threadVars
<1>3. ASSUME NEW p \in Process, Exit(p) \/ \E partial \in BOOLEAN : Crash(p, partial)
      PROVE  Shape' /\ UNCHANGED <<tree, mode, threadVars, request, open, callVars>> /\ ChildrenGoOn
  <2>1. /\ child[p] = "running" /\ child' = [child EXCEPT ![p] = "closing"]
        /\ UNCHANGED <<tree, mode, threadVars, request, open, callVars>>
    BY Zenon, <1>3 DEF Exit, Crash, Alive, Dies
  <2> QED
    BY Zenon, <1>2, <2>1
<1>4. ASSUME NEW p \in Process, Published(p)
      PROVE  Shape' /\ UNCHANGED <<tree, mode, threadVars, request, open, callVars>> /\ ChildrenGoOn
  <2>1. /\ child[p] = "closing" /\ child' = [child EXCEPT ![p] = "exited"]
        /\ UNCHANGED <<tree, mode, threadVars, request, open, callVars>>
    BY Zenon, <1>4 DEF Published
  <2> QED
    BY Zenon, <1>2, <2>1
<1> QED
  BY Zenon, <1>1, <1>3, <1>4 DEF Environment

\* A step of a thread.
LEMMA ThreadFrame ==
    ASSUME Shape, NEW t \in Thread, ThreadStep(t)
    PROVE  /\ Shape' /\ ThreadsGoOn
           /\ UNCHANGED <<tree, mode, child, status, holds, emitted, asked, open, callVars>>
<1>1. CASE Reader(t)
  <2>1. /\ UNCHANGED <<tree, mode, child, status, holds, emitted, asked, open, callVars>>
        /\ thread[t] = "run" /\ thread' \in {thread, [thread EXCEPT ![t] = "send"]}
    BY Zenon, <1>1 DEF Reader, BoundedRead, Send
  <2> QED
    BY <2>1 DEF Shape, ThreadsGoOn, callVars
<1>2. CASE Delivers(t)
  <2>1. /\ UNCHANGED <<tree, mode, child, status, holds, emitted, asked, open, callVars>>
        /\ thread[t] = "send"
        /\ thread' \in {[thread EXCEPT ![t] = "end"], [thread EXCEPT ![t] = "run"]}
    BY Zenon, <1>2 DEF Delivers, processVars
  <2> QED
    BY <2>1 DEF Shape, ThreadsGoOn, callVars
<1>3. CASE t = "listOut" /\ ListingReader
  <2>1. /\ UNCHANGED <<tree, mode, child, status, holds, emitted, asked, open, callVars>>
        /\ thread[t] = "run" /\ thread' = [thread EXCEPT ![t] = "send"]
    BY Zenon, <1>3 DEF ListingReader, Send
  <2> QED
    BY <2>1 DEF Shape, ThreadsGoOn, callVars
<1>4. CASE t = "blobOut" /\ ResponseReader
  <2>1. /\ UNCHANGED <<tree, mode, child, status, holds, emitted, asked, open, callVars>>
        /\ thread[t] = "run"
        /\ thread' \in {thread, [thread EXCEPT ![t] = "send"], [thread EXCEPT ![t] = "end"]}
    BY Zenon, <1>4 DEF ResponseReader, Send
  <2> QED
    BY <2>1 DEF Shape, ThreadsGoOn, callVars
<1> QED
  BY <1>1, <1>2, <1>3, <1>4 DEF ThreadStep

\* Together.
LEMMA BackgroundFrame ==
    ASSUME Shape, Background
    PROVE  Shape' /\ UNCHANGED <<tree, mode, callVars>> /\ ChildrenGoOn /\ ThreadsGoOn
<1>1. CASE Environment \/ \E p \in Process : Published(p)
  <2>1. Shape' /\ UNCHANGED <<tree, mode, threadVars, callVars>> /\ ChildrenGoOn
    BY <1>1, ProcessFrame
  <2> QED
    BY <2>1 DEF ThreadsGoOn, threadVars
<1>2. CASE \E t \in Thread : ThreadStep(t)
  BY <1>2, ThreadFrame DEF ChildrenGoOn
<1>3. CASE Finish
  BY <1>3 DEF Finish, vars, processVars, threadVars, callVars, Shape, ChildrenGoOn, ThreadsGoOn
<1> QED
  BY <1>1, <1>2, <1>3 DEF Background

---------------------------------------------------------------------------
(* Nothing is left behind *)

Draining == {"pollOut", "pollErr", "tryWait", "check"}
Reading == {"next", "listen", "send", "write", "await", "grace"}

\* Neither the process nor a thread that reads its pipes is there any more.
Gone(p) ==
    /\ child[p] \in {"none", "reaped"}
    /\ thread[OutOf(p)] \in {"none", "joined"} /\ thread[ErrOf(p)] \in {"none", "joined"}

\* The caller joins the threads of a process that is reaped.
Joining(p) ==
    /\ child[p] = "reaped"
    /\ \/ joins = <<OutOf(p), ErrOf(p)>>
       \/ joins = <<ErrOf(p)>> /\ thread[OutOf(p)] = "joined"
       \/ joins = <<>> /\ thread[OutOf(p)] = "joined" /\ thread[ErrOf(p)] = "joined"

\* The listing: gone before it starts and after its threads are joined.
ListInv ==
    /\ pc \in {"spawnList", "spawnBlob", "listStatus", "blobStatus", "done"} => Gone("list")
    /\ (pc \in Draining /\ cur = "blob") \/ (pc \in Reading /\ mode = "file") => Gone("list")
\* The blob process: it outlives the listing only in mode "stream".
BlobInv ==
    /\ pc \in {"spawnBlob", "visitFailed", "blobStatus", "done"} => Gone("blob")
    /\ (pc \in {"spawnList", "listStatus"} \/ (pc \in Draining /\ cur = "list")) /\ mode # "stream"
         => Gone("blob")
    /\ thread["blobOut"] = "joined" => Gone("blob") \/ (pc = "join" /\ then # "listStatus")
\* What is joined, and where the caller goes then.
JoinInv ==
    pc = "join" =>
        \/ then = "listStatus" /\ Joining("list") /\ (mode # "stream" => Gone("blob"))
        \/ then \in {"done", "blobStatus"} /\ Joining("blob") /\ Gone("list")
        \/ then = "visitFailed" /\ Joining("blob") /\ mode = "stream"
\* Where the caller is in each mode, and which process it waits for.
PlaceInv ==
    /\ pc \in Reading \union {"spawnBlob"} => mode \in {"file", "stream"}
    /\ pc \in {"listen", "visitFailed"} => mode = "stream"
    /\ pc \in Reading \union {"spawnList", "spawnBlob"} => got = {}
    /\ pc \in Reading \union {"spawnList", "spawnBlob", "visitFailed", "listStatus"} => cur = "list"
    /\ pc = "join" /\ then \in {"listStatus", "visitFailed"} => cur = "list"
    /\ pc \in Draining /\ "status" \in got => child[cur] = "reaped"

LeftInv == ListInv /\ BlobInv /\ JoinInv /\ PlaceInv

\* Processes and threads that go on by themselves.
LEMMA BackgroundLeaves == ASSUME Shape, LeftInv, Background PROVE LeftInv'
<1>1. UNCHANGED <<mode, pc, cur, got, joins, then>> /\ ChildrenGoOn /\ ThreadsGoOn
  BY BackgroundFrame DEF callVars
<1>2. \A p \in Process : Gone(p) => Gone(p)'
  BY <1>1 DEF Gone, ChildrenGoOn, ThreadsGoOn, Process, Thread, OutOf, ErrOf
<1>3. \A p \in Process : Joining(p) => Joining(p)'
  BY <1>1 DEF Joining, ChildrenGoOn, ThreadsGoOn, Process, Thread, OutOf, ErrOf
<1>4. (Gone("list") => Gone("list")') /\ (Gone("blob") => Gone("blob")')
      /\ (Joining("list") => Joining("list")') /\ (Joining("blob") => Joining("blob")')
  BY <1>2, <1>3 DEF Process
<1>5. thread'["blobOut"] = "joined" => thread["blobOut"] = "joined"
  BY <1>1 DEF ThreadsGoOn, Thread
<1>6. child[cur] = "reaped" => child'[cur] = "reaped"
  BY <1>1 DEF ChildrenGoOn, Shape
<1>7. ListInv' /\ JoinInv'
  BY <1>1, <1>4 DEF LeftInv, ListInv, JoinInv
<1>8. BlobInv' /\ PlaceInv'
  BY <1>1, <1>4, <1>5, <1>6 DEF LeftInv, BlobInv, PlaceInv
<1> QED
  BY <1>7, <1>8 DEF LeftInv

\* The listing is given up, or has ended: its threads are joined next.
LEMMA ListJoins ==
    ASSUME Shape, LeftInv, UNCHANGED <<thread, mode, cur>>, cur = "list",
           child'["list"] = "reaped", child'["blob"] = child["blob"],
           pc' = "join", then' = "listStatus", joins' = <<"listOut", "listErr">>,
           pc # "join", mode # "stream" => Gone("blob")
    PROVE  LeftInv'
<1>1. Gone("blob") => Gone("blob")'
  BY DEF Gone, OutOf, ErrOf
<1>2. Joining("list")'
  BY DEF Joining, OutOf, ErrOf
<1> QED
  BY <1>1, <1>2 DEF LeftInv, ListInv, BlobInv, JoinInv, PlaceInv, Draining, Reading

\* The blob process is given up, or has ended: its threads are joined next.
LEMMA BlobJoins ==
    ASSUME Shape, LeftInv, UNCHANGED <<thread, mode, cur>>,
           child'["blob"] = "reaped", child'["list"] = child["list"],
           pc' = "join", joins' = <<"blobOut", "blobErr">>,
           \/ then' \in {"done", "blobStatus"} /\ Gone("list")
           \/ then' = "visitFailed" /\ mode = "stream" /\ cur = "list"
    PROVE  LeftInv'
<1>1. Gone("list") => Gone("list")'
  BY DEF Gone, OutOf, ErrOf
<1>2. Joining("blob")'
  BY DEF Joining, OutOf, ErrOf
<1> QED
  BY <1>1, <1>2 DEF LeftInv, ListInv, BlobInv, JoinInv, PlaceInv, Draining, Reading

\* FailList, from a place where the listing is at work.
LEMMA FailListLeaves ==
    ASSUME Shape, LeftInv, NEW error, FailList(error), UNCHANGED <<thread, mode, cur>>, cur = "list",
           pc # "join", mode # "stream" => Gone("blob")
    PROVE  LeftInv' /\ Shape'
<1>1. /\ child' = [child EXCEPT !["list"] = "reaped"]
      /\ pc' = "join" /\ then' = "listStatus" /\ joins' = <<"listOut", "listErr">>
  BY Zenon DEF FailList, JoinThen, terminate_process_group
<1>2. child'["list"] = "reaped" /\ child'["blob"] = child["blob"] /\ Shape'
  BY <1>1 DEF Shape, Process
<1> QED
  BY <1>1, <1>2, ListJoins

\* CatFileBatch::abort
LEMMA AbortLeaves ==
    ASSUME Shape, LeftInv, NEW error, NEW next, Abort(error, next), UNCHANGED <<thread, mode, cur>>,
           \/ next \in {"done", "blobStatus"} /\ Gone("list")
           \/ next = "visitFailed" /\ mode = "stream" /\ cur = "list"
    PROVE  LeftInv' /\ Shape'
<1>1. /\ child' = [child EXCEPT !["blob"] = "reaped"]
      /\ pc' = "join" /\ then' = next /\ joins' = <<"blobOut", "blobErr">>
  BY Zenon DEF Abort, JoinThen, terminate_process_group
<1>2. child'["blob"] = "reaped" /\ child'["list"] = child["list"] /\ Shape'
  BY <1>1 DEF Shape, Process
<1> QED
  BY <1>1, <1>2, BlobJoins

\* An error of read_blob, in each mode.
LEMMA AbortReadLeaves ==
    ASSUME Shape, LeftInv, pc \in Reading, NEW error, Abort(error, AfterAbort),
           UNCHANGED <<thread, mode, cur>>
    PROVE  LeftInv' /\ Shape'
<1>1. mode \in {"file", "stream"} /\ cur = "list" /\ (mode = "file" => Gone("list"))
  BY DEF LeftInv, PlaceInv, ListInv
<1>2. CASE mode = "file"
  <2>1. AfterAbort = "done"
    BY <1>2 DEF AfterAbort
  <2>2. Abort(error, "done")
    BY Zenon, <2>1
  <2> QED
    BY Zenon, <1>1, <1>2, <2>2, AbortLeaves
<1>3. CASE mode = "stream"
  <2>1. AfterAbort = "visitFailed"
    BY <1>3 DEF AfterAbort
  <2>2. Abort(error, "visitFailed")
    BY Zenon, <2>1
  <2> QED
    BY Zenon, <1>1, <1>3, <2>2, AbortLeaves
<1> QED
  BY <1>1, <1>2, <1>3

\* Waiting for a process fails.
LEMMA DrainFails ==
    ASSUME Shape, LeftInv, pc \in Draining, NEW error, FailDrain(error), UNCHANGED <<thread, mode, cur>>
    PROVE  LeftInv' /\ Shape'
<1>1. CASE cur = "list"
  <2>1. FailList(error)
    BY Zenon, <1>1 DEF FailDrain
  <2>2. pc # "join" /\ (mode # "stream" => Gone("blob"))
    BY <1>1 DEF LeftInv, BlobInv, Draining
  <2> QED
    BY Zenon, <1>1, <2>1, <2>2, FailListLeaves
<1>2. CASE cur = "blob"
  <2>1. Abort(error, "done")
    BY <1>2 DEF FailDrain
  <2>2. Gone("list")
    BY <1>2 DEF LeftInv, ListInv
  <2> QED
    BY Zenon, <2>1, <2>2, AbortLeaves
<1> QED
  BY <1>1, <1>2 DEF Shape, Process

\* The caller goes on without touching processes or threads.
LEMMA StaysReading ==
    ASSUME Shape, LeftInv, UNCHANGED <<child, thread, mode, cur, got>>,
           pc \in Reading, pc' \in Reading, pc' = "listen" => mode = "stream"
    PROVE  LeftInv' /\ Shape'
BY DEF LeftInv, ListInv, BlobInv, JoinInv, PlaceInv, Gone, Draining, Reading, Shape

\* The same in the loop that waits for a process, where the status is still to come.
LEMMA StaysDraining ==
    ASSUME Shape, LeftInv, UNCHANGED <<child, thread, mode, cur>>, pc \in Draining, pc' \in Draining,
           "status" \in got' => "status" \in got
    PROVE  LeftInv' /\ Shape'
BY DEF LeftInv, ListInv, BlobInv, JoinInv, PlaceInv, Gone, Draining, Reading, Shape

\* The call returns when both processes are gone.
LEMMA CallReturns ==
    ASSUME Shape, LeftInv, UNCHANGED <<child, thread, mode, cur>>, pc' = "done",
           Gone("list"), Gone("blob")
    PROVE  LeftInv' /\ Shape'
BY DEF LeftInv, ListInv, BlobInv, JoinInv, PlaceInv, Gone, Draining, Reading, Shape

\* Starting a process and its threads.
LEMMA SpawnLeaves ==
    ASSUME Shape, LeftInv, SpawnList \/ SpawnBlob \/ SpawnFails PROVE LeftInv' /\ Shape'
<1>1. CASE SpawnList
  <2>1. /\ child' = [child EXCEPT !["list"] = "running"] /\ UNCHANGED <<mode, cur, got>>
        /\ thread' = [thread EXCEPT !["listOut"] = "run", !["listErr"] = "run"]
        /\ pc = "spawnList" /\ pc' = IF mode = "stream" THEN "listen" ELSE "pollOut"
    BY <1>1 DEF SpawnList, Spawn, OutOf, ErrOf
  <2>2. Shape' /\ (Gone("blob") => Gone("blob")') /\ thread'["blobOut"] = thread["blobOut"]
    BY <2>1 DEF Shape, Gone, OutOf, ErrOf, Process, Thread
  <2>3. cur = "list" /\ got = {}
    BY <2>1 DEF LeftInv, PlaceInv
  <2> QED
    BY <2>1, <2>2, <2>3 DEF LeftInv, ListInv, BlobInv, JoinInv, PlaceInv, Draining, Reading
<1>2. CASE SpawnBlob
  <2>1. /\ child' = [child EXCEPT !["blob"] = "running"] /\ UNCHANGED <<mode, cur, got>>
        /\ thread' = [thread EXCEPT !["blobOut"] = "run", !["blobErr"] = "run"]
        /\ pc = "spawnBlob" /\ pc' = IF mode = "file" THEN "next" ELSE "spawnList"
    BY <1>2 DEF SpawnBlob, Spawn, OutOf, ErrOf
  <2>2. Shape' /\ (Gone("list") => Gone("list")') /\ thread'["blobOut"] = "run"
    BY <2>1 DEF Shape, Gone, OutOf, ErrOf, Process, Thread
  <2>3. cur = "list" /\ got = {} /\ mode \in {"file", "stream"} /\ Gone("list")
    BY <2>1 DEF LeftInv, PlaceInv, ListInv
  <2> QED
    BY <2>1, <2>2, <2>3 DEF LeftInv, ListInv, BlobInv, JoinInv, PlaceInv, Draining, Reading
<1>3. CASE SpawnFails
  <2>1. UNCHANGED <<thread, mode, cur>> /\ pc \in {"spawnList", "spawnBlob"}
    BY Zenon, <1>3 DEF SpawnFails, threadVars
  <2>2. Gone("list")
    BY <2>1 DEF LeftInv, ListInv
  <2>3. CASE pc = "spawnList" /\ mode = "stream"
    <3>1. Abort("spawn", "done")
      BY Zenon, <1>3, <2>3 DEF SpawnFails
    <3> QED
      BY Zenon, <2>1, <2>2, <3>1, AbortLeaves
  <2>4. CASE ~(pc = "spawnList" /\ mode = "stream")
    <3>1. pc' = "done" /\ child' = child
      BY Zenon, <1>3, <2>4 DEF SpawnFails
    <3>2. Gone("blob")
      BY <2>1, <2>4 DEF LeftInv, BlobInv
    <3> QED
      BY Zenon, <2>1, <2>2, <3>1, <3>2, CallReturns
  <2> QED
    BY <2>3, <2>4
<1> QED
  BY <1>1, <1>2, <1>3

\* Joining one thread after the other.
LEMMA JoinLeaves == ASSUME Shape, LeftInv, Join PROVE LeftInv' /\ Shape'
<1>1. pc = "join" /\ UNCHANGED <<child, mode, cur, got, then>>
  BY Zenon DEF Join, processVars
<1>2. CASE joins = <<>>
  <2>1. pc' = then /\ UNCHANGED <<thread, joins>>
    BY Zenon, <1>2 DEF Join
  <2>2. \A p \in Process : Joining(p) => Gone(p)
    BY <1>2 DEF Joining, Gone, Process, OutOf, ErrOf
  <2>3. \A p \in Process : Gone(p) => Gone(p)'
    BY <1>1, <2>1 DEF Gone
  <2>4. /\ (Joining("list") => Gone("list")') /\ (Joining("blob") => Gone("blob")')
        /\ (Gone("list") => Gone("list")') /\ (Gone("blob") => Gone("blob")')
    BY <2>2, <2>3 DEF Process
  <2> QED
    BY <1>1, <2>1, <2>4 DEF LeftInv, ListInv, BlobInv, JoinInv, PlaceInv, Draining, Reading, Shape
<1>3. CASE joins # <<>>
  <2>1. /\ thread[Head(joins)] = "end" /\ thread' = [thread EXCEPT ![Head(joins)] = "joined"]
        /\ joins' = Tail(joins) /\ pc' = pc
    BY Zenon, <1>3 DEF Join
  <2>2. ASSUME NEW p \in Process, Joining(p)
        PROVE  Joining(p)' /\ Head(joins) \in {OutOf(p), ErrOf(p)}
    <3>1. CASE joins = <<OutOf(p), ErrOf(p)>>
      BY <1>1, <2>1, <2>2, <3>1 DEF Joining, Shape, Process, Thread, OutOf, ErrOf
    <3>2. CASE joins = <<ErrOf(p)>> /\ thread[OutOf(p)] = "joined"
      BY <1>1, <2>1, <2>2, <3>2 DEF Joining, Shape, Process, Thread, OutOf, ErrOf
    <3> QED
      BY <1>3, <2>2, <3>1, <3>2 DEF Joining
  <2>3. \A p \in Process : Gone(p) => Gone(p)'
    BY <1>1, <2>1 DEF Gone, Shape, Process, Thread, OutOf, ErrOf
  <2>4. Shape'
    BY Zenon, <1>1, <2>1 DEF Shape
  <2>5. /\ (Joining("list") => Joining("list")') /\ (Joining("blob") => Joining("blob")')
        /\ (Gone("list") => Gone("list")') /\ (Gone("blob") => Gone("blob")')
        /\ Joining("list") => Head(joins) \in {"listOut", "listErr"}
    BY <2>2, <2>3 DEF Process, OutOf, ErrOf
  <2>6. Joining("list") => thread'["blobOut"] = thread["blobOut"]
    BY <2>1, <2>5 DEF Shape, Thread
  <2>7. JoinInv'
    BY <1>1, <2>1, <2>5 DEF LeftInv, JoinInv
  <2>8. BlobInv'
    BY <1>1, <2>1, <2>5, <2>6 DEF LeftInv, BlobInv, JoinInv, Draining
  <2>9. ListInv' /\ PlaceInv'
    BY <1>1, <2>1 DEF LeftInv, ListInv, PlaceInv, Draining, Reading
  <2> QED
    BY <2>4, <2>7, <2>8, <2>9 DEF LeftInv
<1> QED
  BY <1>2, <1>3

\* Waiting for a process: polls, try_wait, and the check that ends the loop.
LEMMA DrainLeaves ==
    ASSUME Shape, LeftInv, PollOut \/ PollErr \/ TryWait \/ Check \/ CheckTimeout PROVE LeftInv' /\ Shape'
<1>1. ASSUME NEW what \in {"out", "err"}, NEW t, NEW next \in Draining, pc \in Draining, Poll(what, t, next)
      PROVE  LeftInv' /\ Shape'
  <2>1. UNCHANGED <<thread, mode, cur>>
    BY Zenon, <1>1 DEF Poll, LoopUnchanged
  <2>2. \/ pc' = next /\ child' = child /\ got' \in {got, got \union {what}}
        \/ FailDrain("io")
    BY Zenon, <1>1 DEF Poll
  <2>3. CASE FailDrain("io")
    BY Zenon, <1>1, <2>1, <2>3, DrainFails
  <2>4. CASE pc' = next /\ child' = child /\ got' \in {got, got \union {what}}
    BY <1>1, <2>1, <2>4, StaysDraining
  <2> QED
    BY <2>2, <2>3, <2>4
<1>2. CASE PollOut
  <2>1. pc \in Draining /\ Poll("out", OutOf(cur), "pollErr")
    BY <1>2 DEF PollOut, Draining
  <2> QED
    BY <1>1, <2>1 DEF Draining
<1>3. CASE PollErr
  <2>1. pc \in Draining /\ Poll("err", ErrOf(cur), "tryWait")
    BY <1>3 DEF PollErr, Draining
  <2> QED
    BY <1>1, <2>1 DEF Draining
<1>4. CASE TryWait
  <2>1. UNCHANGED <<thread, mode, cur>> /\ pc = "tryWait" /\ pc' = "check"
    BY Zenon, <1>4 DEF TryWait, LoopUnchanged
  <2>2. CASE child[cur] = "exited"
    <3>1. child' = [child EXCEPT ![cur] = "reaped"]
      BY Zenon, <1>4, <2>2 DEF TryWait
    <3>2. Shape' /\ child'[cur] = "reaped" /\ \A p \in Process : p # cur => child'[p] = child[p]
      BY <2>1, <3>1 DEF Shape
    <3>3. \A p \in Process : Gone(p) => Gone(p)'
      BY <2>1, <3>2 DEF Gone
    <3>4. (Gone("list") => Gone("list")') /\ (Gone("blob") => Gone("blob")')
      BY <3>3 DEF Process
    <3> QED
      BY <2>1, <3>2, <3>4 DEF LeftInv, ListInv, BlobInv, JoinInv, PlaceInv, Draining, Reading
  <2>3. CASE child[cur] # "exited"
    <3>1. UNCHANGED <<child, got>>
      BY Zenon, <1>4, <2>3 DEF TryWait
    <3>2. pc \in Draining /\ pc' \in Draining
      BY <2>1 DEF Draining
    <3> QED
      BY Zenon, <2>1, <3>1, <3>2, StaysDraining
  <2> QED
    BY <2>2, <2>3
<1>5. CASE Check \/ CheckTimeout
  <2>1. UNCHANGED <<thread, mode, cur, got>> /\ pc = "check"
    BY Zenon, <1>5 DEF Check, CheckTimeout, LoopUnchanged
  <2>2. pc \in Draining
    BY <2>1 DEF Draining
  <2>3. \/ \E error : FailDrain(error)
        \/ got = Wanted /\ Complete
        \/ Again
    BY Zenon, <1>5 DEF Check, CheckTimeout
  <2>4. ASSUME NEW error, FailDrain(error) PROVE LeftInv' /\ Shape'
    BY Zenon, <2>1, <2>2, <2>4, DrainFails
  <2>5. CASE Again
    <3>1. pc' \in Draining /\ child' = child
      BY <2>5 DEF Again, Draining
    <3> QED
      BY Zenon, <2>1, <2>2, <3>1, StaysDraining
  <2>6. CASE got = Wanted /\ Complete
    <3>1. child' = child /\ pc' = "join"
      BY Zenon, <2>6 DEF Complete, JoinThen
    <3>2. child[cur] = "reaped"
      BY <2>2, <2>6 DEF LeftInv, PlaceInv, Wanted
    <3>3. Shape'
      BY <2>1, <3>1 DEF Shape
    <3>4. CASE cur = "list"
      <4>1. then' = "listStatus" /\ joins' = <<"listOut", "listErr">>
        BY <2>6, <3>4 DEF Complete, JoinThen, OutOf, ErrOf
      <4>2. pc # "join" /\ (mode # "stream" => Gone("blob"))
        BY <2>1, <2>2, <3>4 DEF LeftInv, BlobInv
      <4> QED
        BY <2>1, <3>1, <3>2, <3>3, <3>4, <4>1, <4>2, ListJoins
    <3>5. CASE cur = "blob"
      <4>1. then' = "blobStatus" /\ joins' = <<"blobOut", "blobErr">>
        BY <2>6, <3>5 DEF Complete, JoinThen, OutOf, ErrOf
      <4>2. Gone("list")
        BY <2>2, <3>5 DEF LeftInv, ListInv
      <4> QED
        BY <2>1, <3>1, <3>2, <3>3, <3>5, <4>1, <4>2, BlobJoins
    <3> QED
      BY <3>4, <3>5 DEF Shape, Process
  <2> QED
    BY <2>3, <2>4, <2>5, <2>6
<1> QED
  BY <1>2, <1>3, <1>4, <1>5

\* What the caller does when the threads of a process are joined.
LEMMA StatusLeaves ==
    ASSUME Shape, LeftInv, ListStatus \/ BlobStatus \/ Answered \/ Captured PROVE LeftInv' /\ Shape'
<1>1. CASE ListStatus
  <2>1. /\ UNCHANGED <<thread, mode>> /\ pc = "listStatus" /\ mode \in {"file", "stream"}
    BY Zenon, <1>1 DEF ListStatus, threadVars
  <2>2. Gone("list") /\ cur = "list" /\ (mode # "stream" => Gone("blob"))
    BY <2>1 DEF LeftInv, ListInv, BlobInv, PlaceInv
  <2>3. \/ /\ mode = "stream" /\ cur' = cur /\ \E error : Abort(error, "done")
        \/ /\ ~(mode = "stream" /\ thread["blobOut"] # "joined") /\ \E error : Returned(error)
        \/ /\ mode = "file" /\ pc' = "spawnBlob" /\ UNCHANGED <<child, cur>> /\ got' = {}
        \/ /\ mode # "file" /\ pc' = "pollErr" /\ cur' = "blob" /\ child' = child /\ got' = {}
    BY Zenon, <1>1 DEF ListStatus
  <2>4. ASSUME mode = "stream", cur' = cur, NEW error, Abort(error, "done") PROVE LeftInv' /\ Shape'
    BY Zenon, <2>1, <2>2, <2>4, AbortLeaves
  <2>5. ASSUME ~(mode = "stream" /\ thread["blobOut"] # "joined"), NEW error, Returned(error)
        PROVE  LeftInv' /\ Shape'
    <3>1. pc' = "done" /\ UNCHANGED <<child, cur>>
      BY Zenon, <2>5 DEF Returned
    <3>2. Gone("blob")
      BY Zenon, <2>1, <2>2, <2>5 DEF LeftInv, BlobInv
    <3> QED
      BY Zenon, <2>1, <2>2, <3>1, <3>2, CallReturns
  <2>6. CASE mode = "file" /\ pc' = "spawnBlob" /\ UNCHANGED <<child, cur>> /\ got' = {}
    <3>1. Gone("list")' /\ Gone("blob")' /\ Shape'
      BY Zenon, <2>1, <2>2, <2>6 DEF Gone, Shape
    <3> QED
      BY <2>1, <2>2, <2>6, <3>1 DEF LeftInv, ListInv, BlobInv, JoinInv, PlaceInv, Draining, Reading
  <2>7. CASE mode # "file" /\ pc' = "pollErr" /\ cur' = "blob" /\ child' = child /\ got' = {}
    <3>1. Gone("list")' /\ (Gone("blob") => Gone("blob")') /\ Shape'
      BY <2>1, <2>2, <2>7 DEF Gone, Shape, Process
    <3> QED
      BY <2>1, <2>2, <2>7, <3>1 DEF LeftInv, ListInv, BlobInv, JoinInv, PlaceInv, Draining, Reading
  <2> QED
    BY <2>3, <2>4, <2>5, <2>6, <2>7
<1>2. CASE BlobStatus \/ Answered \/ Captured
  <2>1. /\ UNCHANGED <<thread, mode, child, cur>> /\ pc' = "done"
        /\ pc = "blobStatus" \/ (pc = "listStatus" /\ mode \in {"ask", "output"})
    BY Zenon, <1>2 DEF BlobStatus, Answered, Captured, Returned, threadVars
  <2>2. Gone("list") /\ Gone("blob")
    BY <2>1 DEF LeftInv, ListInv, BlobInv
  <2> QED
    BY Zenon, <2>1, <2>2, CallReturns
<1> QED
  BY <1>1, <1>2

\* Reading entries and blobs.
LEMMA ReadLeaves ==
    ASSUME Shape, LeftInv,
           \/ NextFile \/ Listen \/ ListenTimeout \/ VisitFailed
           \/ SendRequest \/ WriteRequest \/ Await \/ AwaitTimeout \/ Grace
    PROVE  LeftInv' /\ Shape'
<1> USE DEF ReadUnchanged, Kept
<1>1. CASE NextFile
  <2>1. UNCHANGED <<thread, mode, got>> /\ pc = "next" /\ mode = "file"
    BY Zenon, <1>1 DEF NextFile
  <2>2. pc \in Reading /\ Gone("list") /\ cur = "list" /\ got = {}
    BY <2>1 DEF LeftInv, ListInv, PlaceInv, Reading
  <2>3. \/ pc' = "pollErr" /\ cur' = "blob" /\ child' = child
        \/ Abort("hostile", "done") /\ cur' = cur
        \/ pc' = "send" /\ UNCHANGED <<child, cur>>
    BY Zenon, <1>1 DEF NextFile
  <2>4. CASE pc' = "pollErr" /\ cur' = "blob" /\ child' = child
    <3>1. Gone("list")' /\ (Gone("blob") => Gone("blob")') /\ Shape'
      BY <2>1, <2>2, <2>4 DEF Gone, Shape, Process
    <3> QED
      BY <2>1, <2>2, <2>4, <3>1 DEF LeftInv, ListInv, BlobInv, JoinInv, PlaceInv, Draining, Reading
  <2>5. CASE Abort("hostile", "done") /\ cur' = cur
    BY Zenon, <2>1, <2>2, <2>5, AbortLeaves
  <2>6. CASE pc' = "send" /\ UNCHANGED <<child, cur>>
    BY <2>1, <2>2, <2>6, StaysReading DEF Reading
  <2> QED
    BY <2>3, <2>4, <2>5, <2>6
<1>2. CASE Listen \/ ListenTimeout \/ VisitFailed
  <2>1. UNCHANGED <<thread, mode, cur, got>> /\ pc \in {"listen", "visitFailed"}
    BY Zenon, <1>2 DEF Listen, ListenTimeout, VisitFailed
  <2>2. pc # "join" /\ mode = "stream" /\ cur = "list"
    BY <2>1 DEF LeftInv, PlaceInv, Reading
  <2>3. \/ \E error : FailList(error)
        \/ pc = "listen" /\ pc' = "send" /\ child' = child
        \/ pc = "listen" /\ pc' = "pollErr" /\ child' = child
    BY Zenon, <1>2 DEF Listen, ListenTimeout, VisitFailed
  <2>4. ASSUME NEW error, FailList(error) PROVE LeftInv' /\ Shape'
    BY Zenon, <2>1, <2>2, <2>4, FailListLeaves
  <2>5. CASE pc = "listen" /\ pc' = "send" /\ child' = child
    BY SMTT(30), <2>1, <2>5, StaysReading DEF Reading
  <2>6. CASE pc = "listen" /\ pc' = "pollErr" /\ child' = child
    <3>1. got = {}
      BY <2>6 DEF LeftInv, PlaceInv, Reading
    <3>2. (Gone("blob") => Gone("blob")') /\ Shape'
      BY <2>1, <2>6 DEF Gone, Shape
    <3> QED
      BY <2>1, <2>2, <2>6, <3>1, <3>2 DEF LeftInv, ListInv, BlobInv, JoinInv, PlaceInv, Draining, Reading
  <2> QED
    BY <2>3, <2>4, <2>5, <2>6
<1>3. CASE SendRequest \/ WriteRequest \/ Await \/ AwaitTimeout \/ Grace
  <2>1. UNCHANGED <<thread, mode, cur, got>> /\ pc \in Reading
    BY Zenon, <1>3 DEF SendRequest, WriteRequest, Await, AwaitTimeout, Grace, Reading
  <2>2. \/ \E error : Abort(error, AfterAbort)
        \/ pc' \in {"write", "await", "grace"} /\ child' = child
        \/ pc' = (IF mode = "file" THEN "next" ELSE "listen") /\ child' = child
        \/ mode = "file" /\ Abort("hostile", "done")
        \/ mode # "file" /\ FailList("hostile")
    <3>1. CASE SendRequest \/ WriteRequest \/ AwaitTimeout \/ Grace
      BY Zenon, <3>1 DEF SendRequest, WriteRequest, AwaitTimeout, Grace
    <3>2. CASE Await
      BY Zenon, <3>2 DEF Await, TooLarge
    <3> QED
      BY <1>3, <3>1, <3>2
  <2>3. mode \in {"file", "stream"} /\ (mode = "file" => Gone("list")) /\ cur = "list"
    BY <2>1 DEF LeftInv, ListInv, PlaceInv
  <2>4. ASSUME NEW error, Abort(error, AfterAbort) PROVE LeftInv' /\ Shape'
    BY Zenon, <2>1, <2>4, AbortReadLeaves
  <2>5. CASE /\ child' = child
             /\ pc' \in {"write", "await", "grace"} \/ pc' = (IF mode = "file" THEN "next" ELSE "listen")
    BY <2>1, <2>3, <2>5, StaysReading DEF Reading
  <2>6. CASE mode = "file" /\ Abort("hostile", "done")
    BY Zenon, <2>1, <2>3, <2>6, AbortLeaves
  <2>7. CASE mode # "file" /\ FailList("hostile")
    <3>1. pc # "join" /\ mode = "stream"
      BY <2>1, <2>3, <2>7 DEF Reading
    <3> QED
      BY Zenon, <2>1, <2>3, <2>7, <3>1, FailListLeaves
  <2> QED
    BY <2>2, <2>4, <2>5, <2>6, <2>7
<1> QED
  BY <1>1, <1>2, <1>3

\* The invariant holds throughout every call.
THEOREM LeftInvariant == Spec => [](Shape /\ LeftInv)
<1>1. Init => Shape /\ LeftInv
  <2> SUFFICES ASSUME Init PROVE Shape /\ LeftInv
    OBVIOUS
  <2>1. /\ child = [p \in Process |-> "none"] /\ thread = [t \in Thread |-> "none"]
        /\ pc = (IF mode = "stream" THEN "spawnBlob" ELSE "spawnList") /\ cur = "list" /\ got = {}
        /\ mode \in Modes
    BY SnapshotAssumption DEF Init, Of
  <2>2. Shape /\ Gone("list") /\ Gone("blob") /\ thread["blobOut"] = "none"
    BY <2>1 DEF Shape, Gone, Process, Thread, OutOf, ErrOf
  <2> QED
    BY <2>1, <2>2 DEF LeftInv, ListInv, BlobInv, JoinInv, PlaceInv, Draining, Reading
<1>2. Shape /\ LeftInv /\ [Next]_vars => (Shape /\ LeftInv)'
  <2> SUFFICES ASSUME Shape, LeftInv, [Next]_vars PROVE LeftInv' /\ Shape'
    OBVIOUS
  <2>1. CASE Background
    BY <2>1, BackgroundLeaves, BackgroundFrame
  <2>2. CASE Caller /\ ~Done
    BY ZenonT(60), <2>2, JoinLeaves, SpawnLeaves, DrainLeaves, StatusLeaves, ReadLeaves DEF Caller
  <2>3. CASE Done \/ UNCHANGED vars
    <3>1. UNCHANGED <<mode, child, thread, pc, cur, got, joins, then>>
      BY Zenon, <2>3 DEF Done, vars, processVars, threadVars, callVars
    <3>2. \A p \in Process : (Gone(p) => Gone(p)') /\ (Joining(p) => Joining(p)')
      BY <3>1 DEF Gone, Joining
    <3>3. (Gone("list") => Gone("list")') /\ (Gone("blob") => Gone("blob")')
          /\ (Joining("list") => Joining("list")') /\ (Joining("blob") => Joining("blob")')
      BY <3>2 DEF Process
    <3> QED
      BY <3>1, <3>3 DEF LeftInv, ListInv, BlobInv, JoinInv, PlaceInv, Shape
  <2> QED
    BY <2>1, <2>2, <2>3 DEF Next, Background
<1> QED
  BY <1>1, <1>2, PTL DEF Spec

\* When a call has returned, every thread that it started is joined and every child is
\* reaped, whatever the processes did and at whichever step it failed.
THEOREM NothingIsLeftBehind == Spec => []NothingLeftBehind
<1>1. Shape /\ LeftInv => NothingLeftBehind
  BY DEF LeftInv, ListInv, BlobInv, Gone, NothingLeftBehind, Process, Thread, OutOf, ErrOf
<1> QED
  BY <1>1, LeftInvariant, PTL

---------------------------------------------------------------------------
(* What the caller of exit_one_is_false is told *)

StatusTrue == (status["list"] = "ok" => tree = <<>>) /\ (status["list"] = "one" => tree # <<>>)

\* The status of a command is its answer from its death on, and the caller has it before
\* it joins the threads of a command that it has not given up.
AskInv ==
    /\ status \in [Process -> {"ok", "one", "code", "signal"}] /\ cur = "list"
    /\ pc \in Draining \union {"spawnList", "join", "listStatus", "done"}
    /\ pc = "spawnList" => got = {}
    /\ pc = "join" => then = "listStatus"
    /\ child["list"] \in {"closing", "exited"} \/ "status" \in got => StatusTrue
    /\ "status" \in got => child["list"] = "reaped"
    /\ pc \in {"join", "listStatus"} /\ fault = "none" => "status" \in got
    /\ fault # "ok" /\ (pc # "done" => fault # "no" /\ result = "none")
    /\ pc = "done" => (fault = "none" => tree = <<>>) /\ (fault = "no" => tree # <<>>)
    /\ (result = "ok" => fault = "none") /\ (result = "no" => fault = "no")

AnswerInv == mode = "ask" => AskInv

\* No step changes what is read, or how.
LEMMA TreeKept == ASSUME Shape, [Next]_vars PROVE UNCHANGED <<tree, mode>>
<1>1. CASE Background
  BY Zenon, <1>1, BackgroundFrame
<1>2. CASE Caller
  BY Zenon, <1>2 DEF Caller, Join, SpawnList, SpawnBlob, Spawn, SpawnFails, PollOut, PollErr, Poll, TryWait,
     Check, CheckTimeout, ListStatus, BlobStatus, Answered, Captured, NextFile, Listen, ListenTimeout,
     VisitFailed, SendRequest, WriteRequest, Await, AwaitTimeout, Grace, Done, LoopUnchanged, ReadUnchanged
<1>3. CASE UNCHANGED vars
  BY Zenon, <1>3 DEF vars
<1> QED
  BY Zenon, <1>1, <1>2, <1>3 DEF Next, Background

\* A command exits with its answer, or dies with a status that is none.
LEMMA BackgroundAnswers ==
    ASSUME Shape, mode = "ask", AskInv, Background PROVE AskInv'
<1>1. UNCHANGED <<tree, mode, callVars>> /\ ChildrenGoOn
  BY Zenon, BackgroundFrame
<1>2. ASSUME status' \in [Process -> {"ok", "one", "code", "signal"}],
             child'["list"] \in {"closing", "exited"} => StatusTrue',
             "status" \in got => status'["list"] = status["list"]
      PROVE  AskInv'
  <2>1. UNCHANGED <<pc, cur, got, then, fault, result>>
    BY Zenon, <1>1 DEF callVars
  <2>2. "status" \in got => child'["list"] = "reaped"
    BY <1>1 DEF AskInv, ChildrenGoOn, Process
  <2>3. "status" \in got => StatusTrue'
    BY Zenon, <1>1, <1>2 DEF AskInv, StatusTrue
  <2> QED
    BY Zenon, <1>1, <1>2, <2>1, <2>2, <2>3 DEF AskInv
<1>3. ASSUME NEW p \in Process, NEW s \in {"ok", "one", "code", "signal"}, child[p] = "running", Dies(p, s),
             s = "ok" => tree = <<>>, s = "one" => tree # <<>>
      PROVE  AskInv'
  <2>1. /\ status' \in [Process -> {"ok", "one", "code", "signal"}] /\ status'[p] = s
        /\ \A q \in Process \ {p} : status'[q] = status[q] /\ child'[q] = child[q]
    BY <1>3 DEF Dies, AskInv, Shape
  <2>2. CASE p = "list"
    <3>1. StatusTrue' /\ "status" \notin got
      BY <1>1, <1>3, <2>1, <2>2 DEF StatusTrue, AskInv
    <3> QED
      BY Zenon, <1>2, <2>1, <3>1
  <2>3. CASE p # "list"
    <3>1. status'["list"] = status["list"] /\ child'["list"] = child["list"]
      BY <2>1, <2>3 DEF Process
    <3>2. child'["list"] \in {"closing", "exited"} => StatusTrue'
      BY Zenon, <1>1, <3>1 DEF StatusTrue, AskInv
    <3> QED
      BY Zenon, <1>2, <2>1, <3>1, <3>2
  <2> QED
    BY <2>2, <2>3
<1>4. ASSUME NEW p \in Process, Exit(p) PROVE AskInv'
  <2>1. child[p] = "running" /\ Dies(p, IF tree # <<>> THEN "one" ELSE "ok")
    BY <1>4 DEF Exit, Alive
  <2>2. CASE tree = <<>>
    BY <1>3, <2>1, <2>2
  <2>3. CASE tree # <<>>
    BY <1>3, <2>1, <2>3
  <2> QED
    BY <2>2, <2>3
<1>5. ASSUME NEW p \in Process, NEW partial \in BOOLEAN, Crash(p, partial) PROVE AskInv'
  <2>1. child[p] = "running" /\ \E s \in {"code", "signal"} : Dies(p, s)
    BY <1>5 DEF Crash, Alive
  <2> QED
    BY <1>3, <2>1
<1>6. ASSUME UNCHANGED status,
             child'["list"] \in {"closing", "exited"} => child["list"] \in {"closing", "exited"}
      PROVE  AskInv'
  <2>1. child'["list"] \in {"closing", "exited"} => StatusTrue'
    BY Zenon, <1>1, <1>6 DEF AskInv, StatusTrue
  <2>2. status' \in [Process -> {"ok", "one", "code", "signal"}]
    BY Zenon, <1>6 DEF AskInv
  <2> QED
    BY Zenon, <1>2, <1>6, <2>1, <2>2
<1>7. ASSUME NEW p \in Process, Published(p) PROVE AskInv'
  <2>1. status' = status /\ child[p] = "closing" /\ child' = [child EXCEPT ![p] = "exited"]
    BY Zenon, <1>7 DEF Published
  <2>2. child'["list"] \in {"closing", "exited"} => child["list"] \in {"closing", "exited"}
    BY <2>1 DEF Shape, Process
  <2> QED
    BY Zenon, <1>6, <2>1, <2>2
<1>8. CASE \/ ListWrites \/ BlobAnswers \/ Finish \/ \E t \in Thread : ThreadStep(t)
           \/ \E p \in Process : Complain(p) \/ DescendantExits(p)
           \/ \E p \in Process, pipes \in {{"out"}, {"err"}} : Fork(p, pipes)
  <2>1. UNCHANGED <<child, status>>
    BY Zenon, <1>8, ThreadFrame DEF ListWrites, BlobAnswers, Finish, vars, processVars, Complain,
       DescendantExits, Fork
  <2> QED
    BY Zenon, <1>6, <2>1
<1> QED
  BY Zenon, <1>4, <1>5, <1>7, <1>8 DEF Background, Environment

\* The listing is given up with an error.
LEMMA FailAnswers ==
    ASSUME Shape, mode = "ask", AskInv, pc \in Draining, UNCHANGED <<tree, status, cur, got, result>>,
           NEW error \in {"io", "limit", "timeout"}, FailList(error)
    PROVE  AskInv'
<1>1. /\ child' = [child EXCEPT !["list"] = "reaped"] /\ fault' = error
      /\ pc' = "join" /\ then' = "listStatus"
  BY Zenon DEF FailList, JoinThen, terminate_process_group
<1>2. child'["list"] = "reaped"
  BY <1>1 DEF Shape, Process
<1>3. pc # "done" /\ pc # "spawnList"
  BY DEF Draining
<1>4. "status" \in got => StatusTrue'
  BY Zenon DEF AskInv, StatusTrue
<1> QED
  BY <1>1, <1>2, <1>3, <1>4 DEF AskInv

\* The caller stays in the loop that waits, with nothing new or with the end of a pipe.
LEMMA WaitsAnswers ==
    ASSUME mode = "ask", AskInv, UNCHANGED <<tree, status, child, cur, fault, result>>,
           pc \in Draining, pc' \in Draining, "status" \in got' => "status" \in got
    PROVE  AskInv'
<1>1. pc' \notin {"spawnList", "join", "listStatus", "done"} /\ pc # "done"
  BY DEF Draining
<1>2. StatusTrue => StatusTrue'
  BY Zenon DEF StatusTrue
<1> QED
  BY <1>1, <1>2 DEF AskInv

\* The loop that waits for the command and its pipes.
LEMMA DrainAnswers ==
    ASSUME Shape, LeftInv, mode = "ask", AskInv, UNCHANGED <<tree, mode>>,
           PollOut \/ PollErr \/ TryWait \/ Check \/ CheckTimeout
    PROVE  AskInv'
<1>0. cur = "list"
  BY Zenon DEF AskInv
<1>1. ASSUME NEW what \in {"out", "err"}, NEW t, NEW next \in Draining, pc \in Draining, Poll(what, t, next)
      PROVE  AskInv'
  <2>1. UNCHANGED <<tree, status, cur, result>>
    BY Zenon, <1>1 DEF Poll, LoopUnchanged
  <2>2. \/ pc' = next /\ UNCHANGED <<child, fault>> /\ got' \in {got, got \union {what}}
        \/ FailDrain("io") /\ got' = got
    BY Zenon, <1>1 DEF Poll
  <2>3. CASE FailDrain("io") /\ got' = got
    <3>1. FailList("io")
      BY Zenon, <1>0, <2>3 DEF FailDrain
    <3> QED
      BY Zenon, <1>1, <2>1, <2>3, <3>1, FailAnswers
  <2>4. CASE pc' = next /\ UNCHANGED <<child, fault>> /\ got' \in {got, got \union {what}}
    <3>1. "status" \in got' => "status" \in got
      BY <1>1, <2>4
    <3> QED
      BY Zenon, <1>1, <2>1, <2>4, <3>1, WaitsAnswers
  <2> QED
    BY Zenon, <2>2, <2>3, <2>4
<1>2. CASE PollOut
  <2>1. pc \in Draining /\ Poll("out", OutOf(cur), "pollErr") /\ "pollErr" \in Draining
    BY <1>2 DEF PollOut, Draining
  <2> QED
    BY <1>1, <2>1
<1>3. CASE PollErr
  <2>1. pc \in Draining /\ Poll("err", ErrOf(cur), "tryWait") /\ "tryWait" \in Draining
    BY <1>3 DEF PollErr, Draining
  <2> QED
    BY <1>1, <2>1
<1>4. CASE TryWait
  <2>1. /\ UNCHANGED <<tree, status, cur, result, fault, then>> /\ pc = "tryWait" /\ pc' = "check"
    BY Zenon, <1>4 DEF TryWait, LoopUnchanged
  <2>2. CASE child["list"] = "exited"
    <3>1. child' = [child EXCEPT !["list"] = "reaped"] /\ got' = got \union {"status"}
      BY Zenon, <1>0, <1>4, <2>2 DEF TryWait
    <3>2. child'["list"] = "reaped"
      BY <3>1 DEF Shape, Process
    <3>3. StatusTrue'
      BY Zenon, <2>1, <2>2 DEF AskInv, StatusTrue
    <3> QED
      BY <2>1, <3>2, <3>3 DEF AskInv, Draining
  <2>3. CASE child["list"] # "exited"
    <3>1. UNCHANGED <<child, got>>
      BY Zenon, <1>0, <1>4, <2>3 DEF TryWait
    <3>2. pc \in Draining /\ pc' \in Draining
      BY <2>1 DEF Draining
    <3> QED
      BY Zenon, <2>1, <3>1, <3>2, WaitsAnswers
  <2> QED
    BY <2>2, <2>3
<1>5. CASE Check \/ CheckTimeout
  <2>1. UNCHANGED <<tree, status, cur, got, result>> /\ pc = "check"
    BY Zenon, <1>5 DEF Check, CheckTimeout, LoopUnchanged
  <2>2. pc \in Draining /\ OverflowError = "limit"
    BY <2>1 DEF Draining, OverflowError
  <2>3. FailDrain(OverflowError) \/ FailDrain("timeout") \/ (got = Wanted /\ Complete) \/ Again
    BY Zenon, <1>5 DEF Check, CheckTimeout
  <2>4. CASE FailDrain(OverflowError) \/ FailDrain("timeout")
    <3>1. FailList("limit") \/ FailList("timeout")
      BY Zenon, <1>0, <2>2, <2>4 DEF FailDrain
    <3> QED
      BY <2>1, <2>2, <3>1, FailAnswers
  <2>5. CASE Again
    <3>1. pc' \in Draining /\ UNCHANGED <<child, fault>>
      BY <2>5 DEF Again, Draining
    <3> QED
      BY Zenon, <2>1, <2>2, <3>1, WaitsAnswers
  <2>6. CASE got = Wanted /\ Complete
    <3>1. UNCHANGED <<child, fault>> /\ pc' = "join" /\ then' = "listStatus"
      BY <1>0, <2>6 DEF Complete, JoinThen
    <3>2. "status" \in got
      BY <1>0, <2>6 DEF Wanted
    <3>3. StatusTrue'
      BY Zenon, <2>1, <3>2 DEF AskInv, StatusTrue
    <3> QED
      BY <2>1, <3>1, <3>2, <3>3 DEF AskInv
  <2> QED
    BY Zenon, <2>3, <2>4, <2>5, <2>6
<1> QED
  BY Zenon, <1>2, <1>3, <1>4, <1>5

\* The rest of what the caller does in this mode.
LEMMA CallAnswers ==
    ASSUME Shape, LeftInv, mode = "ask", AskInv, UNCHANGED <<tree, mode>>, Caller PROVE AskInv'
<1>1. CASE SpawnList
  <2>1. /\ child' = [child EXCEPT !["list"] = "running"] /\ pc = "spawnList" /\ pc' = "pollOut"
        /\ UNCHANGED <<status, cur, got, then, fault, result>>
    BY <1>1 DEF SpawnList, Spawn
  <2>2. child'["list"] = "running" /\ "status" \notin got
    BY <2>1 DEF Shape, Process, AskInv
  <2> QED
    BY <2>1, <2>2 DEF AskInv, Draining
<1>2. CASE SpawnFails
  <2>1. fault' = "spawn" /\ pc' = "done" /\ pc = "spawnList" /\ UNCHANGED <<child, status, cur, got, result>>
    BY <1>2 DEF SpawnFails, AskInv, Draining
  <2>2. StatusTrue => StatusTrue'
    BY Zenon, <2>1 DEF StatusTrue
  <2> QED
    BY SMTT(30), <2>1, <2>2 DEF AskInv
<1>3. CASE Join
  <2>1. UNCHANGED <<child, status, cur, got, then, fault, result>> /\ pc = "join" /\ pc' \in {"join", then}
    BY Zenon, <1>3 DEF Join, processVars
  <2>2. StatusTrue => StatusTrue'
    BY Zenon, <2>1 DEF StatusTrue
  <2> QED
    BY <2>1, <2>2 DEF AskInv
<1>4. CASE Answered
  <2>1. UNCHANGED <<child, status, cur, got, result>> /\ pc = "listStatus" /\ pc' = "done"
    BY Zenon, <1>4 DEF Answered, Returned
  <2>2. StatusTrue => StatusTrue'
    BY Zenon, <2>1 DEF StatusTrue
  <2>3. CASE fault # "none"
    <3>1. fault' = fault
      BY SMTT(30), <1>4, <2>3 DEF Answered, Returned
    <3> QED
      BY <2>1, <2>2, <2>3, <3>1 DEF AskInv
  <2>4. CASE fault = "none"
    <3>1. StatusTrue
      BY Zenon, <2>1, <2>4 DEF AskInv
    <3>2. fault' = IF status["list"] = "ok" THEN "none" ELSE IF status["list"] = "one" THEN "no" ELSE "exit"
      BY <1>4, <2>4 DEF Answered, Returned
    <3> QED
      BY <2>1, <2>2, <2>4, <3>1, <3>2 DEF AskInv, StatusTrue
  <2> QED
    BY <2>3, <2>4
<1>5. CASE Done
  <2>1. /\ UNCHANGED <<child, status, cur, got, then, fault, pc>> /\ pc = "done"
        /\ result' = IF fault = "none" THEN "ok" ELSE fault
    BY Zenon, <1>5 DEF Done, processVars
  <2>2. StatusTrue => StatusTrue'
    BY Zenon, <2>1 DEF StatusTrue
  <2> QED
    BY <2>1, <2>2 DEF AskInv
<1>6. pc \in Draining \union {"spawnList", "join", "listStatus", "done"}
  BY Zenon DEF AskInv
<1>7. /\ ~SpawnBlob /\ ~ListStatus /\ ~BlobStatus /\ ~Captured /\ ~NextFile /\ ~Listen /\ ~ListenTimeout
      /\ ~VisitFailed /\ ~SendRequest /\ ~WriteRequest /\ ~Await /\ ~AwaitTimeout /\ ~Grace
  BY <1>6 DEF SpawnBlob, ListStatus, BlobStatus, Captured, NextFile, Listen, ListenTimeout, VisitFailed,
     SendRequest, WriteRequest, Await, AwaitTimeout, Grace, Draining
<1> QED
  BY Zenon, <1>1, <1>2, <1>3, <1>4, <1>5, <1>7, DrainAnswers DEF Caller

\* The status of a command is its answer, from its death to the caller's return.
THEOREM AnswerInvariant == Spec => []AnswerInv
<1>1. Init => AnswerInv
  BY DEF Init, AnswerInv, AskInv, StatusTrue, Of, Process, Draining
<1>2. Shape /\ LeftInv /\ AnswerInv /\ [Next]_vars => AnswerInv'
  <2> SUFFICES ASSUME Shape, LeftInv, mode = "ask", AskInv, [Next]_vars PROVE AskInv'
    BY Zenon, TreeKept DEF AnswerInv
  <2>1. UNCHANGED <<tree, mode>>
    BY Zenon, TreeKept
  <2>2. CASE UNCHANGED vars
    <3>1. UNCHANGED <<child, status, cur, got, then, fault, pc, result>>
      BY Zenon, <2>2 DEF vars, processVars, callVars
    <3> QED
      BY Zenon, <2>1, <3>1 DEF AskInv, StatusTrue
  <2> QED
    BY Zenon, <2>1, <2>2, BackgroundAnswers, CallAnswers DEF Next, Background
<1> QED
  BY <1>1, <1>2, LeftInvariant, PTL DEF Spec

\* What exit_one_is_false reports is what the command has answered: a command that died,
\* failed or was given up is an error, and never a no.
THEOREM AnswerIsTrue == Spec => []AnswerTrue
<1>1. AnswerInv => AnswerTrue
  BY DEF AnswerInv, AskInv, AnswerTrue
<1> QED
  BY <1>1, AnswerInvariant, PTL

---------------------------------------------------------------------------
(* What a snapshot holds *)

Piece == [kind : {"record", "partial"}, id : Nat]
Message == [kind : {"record", "partial", "hostile", "ok", "io"}, id : Nat]
File == [path : Nat, blob : Nat]

\* What the listing writes for the record at i, and what the snapshot has of it.
Rec(i) == [kind |-> "record", id |-> tree[i]]
Read(n) == Len(files) = n /\ \A j \in 1 .. n : files[j] = [path |-> tree[j], blob |-> tree[j]]

Domains ==
    /\ DOMAIN status = Process /\ DOMAIN out = Process
    /\ DOMAIN kept = Thread /\ DOMAIN message = Thread /\ DOMAIN channel = Thread
Carried ==
    /\ tree \in Seq(Nat) /\ emitted \in 0 .. Len(tree) /\ entry \in Nat /\ files \in Seq(File)
    /\ out["list"] \in Seq(Piece) /\ kept["listOut"] \in Seq(Message) /\ channel["listOut"] \in Seq(Message)
    /\ thread["listOut"] = "send" => message["listOut"] \in Message

\* Every error is on record from where it happens to the return.
FaultInv ==
    /\ pc \in Draining \union Reading \union {"spawnList", "spawnBlob", "blobStatus"} => fault = "none"
    /\ pc = "join" /\ then = "blobStatus" => fault = "none"
    /\ pc = "join" /\ then \in {"done", "visitFailed"} => fault # "none"
    /\ pc = "visitFailed" => fault # "none"
    /\ fault # "ok" /\ (result # "none" => pc = "done") /\ (result = "ok" => fault = "none")

\* A listing that ends by itself, with success, has written everything.
StatusInv ==
    /\ child["list"] \in {"none", "running"} => status["list"] = "ok"
    /\ pc = "spawnList" \/ (pc = "spawnBlob" /\ mode = "stream") => child["list"] = "none"
    /\ child["list"] = "none" =>
         thread["listOut"] = "none" /\ channel["listOut"] = <<>> /\ kept["listOut"] = <<>>
    /\ child["list"] \notin {"none", "running"} /\ fault = "none" /\ status["list"] = "ok"
         => emitted = Len(tree)

\* What the reader has and what is in the pipe are what the listing has written, unless
\* it died on the way or the reader dropped what exceeds its limit.
FlowInv ==
    /\ mode = "stream" => "listOut" \notin overflow
    /\ "listOut" \notin overflow /\ status["list"] = "ok" =>
         /\ Len(kept["listOut"]) + Len(out["list"]) = emitted
         /\ \A j \in 1 .. Len(out["list"]) : out["list"][j] = Rec(Len(kept["listOut"]) + j)
         /\ mode # "stream" => \A j \in 1 .. Len(kept["listOut"]) : kept["listOut"][j] = Rec(j)

\* The reader's message that it is at the end is true of the pipe from then on.
Drained == child["list"] \notin {"none", "running"} /\ out["list"] = <<>>
Ended ==
    \/ thread["listOut"] = "send" /\ message["listOut"].kind = "ok"
    \/ channel["listOut"] # <<>> /\ channel["listOut"][1].kind = "ok"
    \/ cur = "list" /\ (IF mode = "stream" THEN pc \in Draining ELSE "out" \in got)
\* The caller has found the listing and its readers at their ends.
Past == fault = "none" /\ (pc = "listStatus" \/ (pc = "join" /\ then = "listStatus"))
EndInv ==
    /\ Ended => Drained \/ "listOut" \in overflow
    /\ Past => Drained /\ "listOut" \notin overflow

\* The listing is not over.
Before ==
    \/ pc \in {"spawnList", "listStatus"} \/ (pc \in Draining /\ cur = "list")
    \/ pc = "join" /\ then = "listStatus"

\* Mode "file": the capture is whole before an entry of it is read.
Asking == {"send", "write", "await"}
Listed == Len(kept["listOut"]) = Len(tree) /\ \A j \in 1 .. Len(tree) : kept["listOut"][j] = Rec(j)
FileInv ==
    /\ pc \in {"spawnBlob", "spawnList"} \/ (mode # "stream" /\ Before) => files = <<>>
    /\ mode = "file" /\ pc \in Reading \union {"spawnBlob"} => Drained /\ Listed
    /\ mode = "file" /\ pc \in Reading => Len(files) <= Len(tree) /\ Read(Len(files))
    /\ mode = "file" /\ pc \in Asking => Len(files) < Len(tree) /\ entry = tree[Len(files) + 1]

\* Mode "stream": the records read are in the snapshot, in the caller's hand, in the
\* channel and in the reader's, in this order.
InHand == IF pc \in Asking \union {"grace"} THEN 1 ELSE 0
InChannel == IF channel["listOut"] # <<>> /\ channel["listOut"][1].kind # "ok" THEN 1 ELSE 0
InReader == IF thread["listOut"] = "send" /\ message["listOut"].kind # "ok" THEN 1 ELSE 0
InOrder ==
    /\ Read(Len(files)) /\ Len(files) + InHand + InChannel + InReader = Len(kept["listOut"])
    /\ pc \in Asking => entry = tree[Len(files) + 1]
    /\ channel["listOut"] # <<>> /\ channel["listOut"][1].kind = "record" =>
         channel["listOut"][1] = Rec(Len(files) + InHand + 1)
    /\ channel["listOut"] # <<>> /\ channel["listOut"][1].kind = "ok" => thread["listOut"] \in {"end", "joined"}
    /\ thread["listOut"] = "send" /\ message["listOut"].kind = "record" =>
         message["listOut"] = Rec(Len(kept["listOut"]))
StreamInv ==
    /\ mode = "stream" /\ pc \in Reading \union {"spawnList", "spawnBlob"} => "entry_rx" \in open
    /\ mode = "stream" /\ status["list"] = "ok" /\ pc \in Reading => InOrder
    /\ mode = "stream" /\ status["list"] = "ok" /\ ((pc \in Draining /\ cur = "list") \/ Past)
         => Read(Len(kept["listOut"]))

\* From the end of the entries on the snapshot is whole.
AllRead ==
    \/ pc \in Draining /\ cur = "blob"
    \/ pc = "join" /\ then = "blobStatus"
    \/ pc = "blobStatus"
    \/ pc = "done" /\ fault = "none"
DoneInv == AllRead => Read(Len(tree))

\* One request is on its way at a time, and it is for the entry in the caller's hand.
Quiet ==
    request = <<>> /\ kept["blobOut"] = <<>> /\ thread["blobOut"] # "send" /\ channel["blobOut"] = <<>>
OnItsWay ==
    \/ /\ request = <<entry>> /\ kept["blobOut"] = <<>> /\ thread["blobOut"] # "send"
       /\ channel["blobOut"] = <<>>
    \/ /\ request = <<>> /\ kept["blobOut"] = <<entry>> /\ thread["blobOut"] # "send"
       /\ channel["blobOut"] = <<>>
    \/ /\ request = <<>> /\ kept["blobOut"] = <<>> /\ thread["blobOut"] = "send" /\ channel["blobOut"] = <<>>
       /\ message["blobOut"].kind = "record" => message["blobOut"].id = entry
    \/ /\ request = <<>> /\ kept["blobOut"] = <<>> /\ thread["blobOut"] # "send"
       /\ channel["blobOut"] # <<>>
       /\ channel["blobOut"][1].kind = "record" => channel["blobOut"][1].id = entry
RequestInv ==
    /\ pc \in {"spawnBlob", "spawnList", "next", "listen", "send"} => Quiet
    /\ pc \in {"write", "await"} => OnItsWay
    /\ thread["blobOut"] = "none" => request = <<>> /\ kept["blobOut"] = <<>> /\ channel["blobOut"] = <<>>
    /\ pc \in Reading \/ (pc = "spawnList" /\ mode = "stream") => thread["blobOut"] # "none"
    /\ pc = "spawnBlob" \/ (mode # "stream" /\ Before) => thread["blobOut"] = "none"

SnapInv ==
    /\ Domains /\ Carried /\ FaultInv /\ StatusInv /\ FlowInv /\ EndInv /\ FileInv /\ StreamInv
    /\ DoneInv /\ RequestInv

WholeInv == mode # "ask" => SnapInv

\* Sequences that grow at the end and shrink at the front.
LEMMA AppendFacts ==
    ASSUME NEW S, NEW s \in Seq(S), NEW x \in S
    PROVE  /\ Append(s, x) \in Seq(S) /\ Len(Append(s, x)) = Len(s) + 1 /\ Len(s) \in Nat
           /\ \A i \in 1 .. Len(s) : Append(s, x)[i] = s[i]
           /\ Append(s, x)[Len(s) + 1] = x
OBVIOUS

\* The same for what is taken from the front.
LEMMA TailFacts ==
    ASSUME NEW S, NEW s \in Seq(S), s # <<>>
    PROVE  /\ Tail(s) \in Seq(S) /\ Len(Tail(s)) = Len(s) - 1 /\ Len(s) \in Nat \ {0}
           /\ Head(s) = s[1] /\ Head(s) \in S
           /\ \A i \in 1 .. Len(s) - 1 : Tail(s)[i] = s[i + 1]
OBVIOUS

\* What a step leaves alone of the listing, of the requests, and of the caller.
ChildSame == child'["list"] = child["list"] /\ status'["list"] = status["list"]
PipeSame == out'["list"] = out["list"] /\ emitted' = emitted
ReaderSame == thread'["listOut"] = thread["listOut"] /\ message'["listOut"] = message["listOut"]
KeptSame ==
    kept'["listOut"] = kept["listOut"] /\ ("listOut" \in overflow' <=> "listOut" \in overflow)
ChannelSame == channel'["listOut"] = channel["listOut"]
ListSame == ChildSame /\ PipeSame /\ ReaderSame /\ KeptSame /\ ChannelSame
BlobSame ==
    /\ request' = request /\ kept'["blobOut"] = kept["blobOut"] /\ thread'["blobOut"] = thread["blobOut"]
    /\ message'["blobOut"] = message["blobOut"] /\ channel'["blobOut"] = channel["blobOut"]
CallSame == UNCHANGED <<tree, mode, open, pc, cur, got, then, fault, entry, files, result>>

\* The steps of the listing and of its reader.
ListEmits ==
    /\ child["list"] = "running" /\ emitted < Len(tree) /\ emitted' = emitted + 1
    /\ out'["list"] = Append(out["list"], Rec(emitted + 1))
    /\ ChildSame /\ ReaderSame /\ KeptSame /\ ChannelSame
ListExits ==
    /\ child["list"] = "running" /\ emitted = Len(tree)
    /\ child'["list"] = "closing" /\ status'["list"] = "ok"
    /\ PipeSame /\ ReaderSame /\ KeptSame /\ ChannelSame
ListCrashes ==
    /\ child["list"] = "running" /\ child'["list"] = "closing" /\ status'["list"] # "ok"
    /\ \/ out'["list"] = out["list"]
       \/ emitted < Len(tree) /\ out'["list"] = Append(out["list"], [kind |-> "partial", id |-> 0])
    /\ emitted' = emitted /\ ReaderSame /\ KeptSame /\ ChannelSame
ListReports ==
    /\ child["list"] = "closing" /\ child'["list"] = "exited" /\ status'["list"] = status["list"]
    /\ PipeSame /\ ReaderSame /\ KeptSame /\ ChannelSame
ReaderEnds ==
    /\ thread["listOut"] = "run" /\ child["list"] # "running" /\ out["list"] = <<>>
    /\ thread'["listOut"] = "send" /\ message'["listOut"] = Ok
    /\ ChildSame /\ PipeSame /\ KeptSame /\ ChannelSame
ReaderFails ==
    /\ thread["listOut"] = "run" /\ thread'["listOut"] = "send" /\ message'["listOut"] = Error("io")
    /\ mode # "stream" /\ ChildSame /\ PipeSame /\ KeptSame /\ ChannelSame
ReaderSpills ==
    /\ thread["listOut"] = "run" /\ mode # "stream" /\ out["list"] # <<>>
    /\ out'["list"] = Tail(out["list"]) /\ emitted' = emitted /\ Len(kept["listOut"]) + 1 > OutLimit
    /\ "listOut" \in overflow' /\ kept'["listOut"] = kept["listOut"]
    /\ thread'["listOut"] = "send" /\ message'["listOut"] = Ok
    /\ ChildSame /\ ChannelSame
ReaderKeeps ==
    /\ thread["listOut"] = "run" /\ mode # "stream" /\ out["list"] # <<>>
    /\ out'["list"] = Tail(out["list"]) /\ emitted' = emitted
    /\ kept'["listOut"] = Append(kept["listOut"], Head(out["list"]))
    /\ "listOut" \in overflow' <=> "listOut" \in overflow
    /\ ChildSame /\ ReaderSame /\ ChannelSame
ReaderParses ==
    /\ thread["listOut"] = "run" /\ mode = "stream" /\ out["list"] # <<>>
    /\ out'["list"] = Tail(out["list"]) /\ emitted' = emitted
    /\ thread'["listOut"] = "send" /\ message'["listOut"] \in {Head(out["list"]), Error("hostile")}
    /\ kept'["listOut"] = Append(kept["listOut"], message'["listOut"])
    /\ "listOut" \in overflow' <=> "listOut" \in overflow
    /\ ChildSame /\ ChannelSame
ReaderDelivers ==
    /\ thread["listOut"] = "send" /\ thread'["listOut"] \in {"run", "end"}
    /\ message["listOut"].kind # "record" => thread'["listOut"] = "end"
    /\ \/ "entry_rx" \notin open /\ ChannelSame
       \/ channel["listOut"] = <<>> /\ channel'["listOut"] = <<message["listOut"]>>
    /\ ChildSame /\ PipeSame /\ KeptSame
ListSteps ==
    \/ ListEmits \/ ListExits \/ ListCrashes \/ ListReports
    \/ ReaderEnds \/ ReaderFails \/ ReaderSpills \/ ReaderKeeps \/ ReaderParses \/ ReaderDelivers

\* The steps of the reader of answers.
TakesRequest ==
    /\ thread["blobOut"] = "run" /\ kept["blobOut"] = <<>> /\ request # <<>>
    /\ kept'["blobOut"] = request /\ request' = <<>>
    /\ UNCHANGED <<thread, message, channel>>
EndsAnswers ==
    /\ thread["blobOut"] = "run" /\ thread'["blobOut"] = "end" /\ UNCHANGED <<request, kept, message, channel>>
Answers ==
    /\ thread["blobOut"] = "run" /\ kept["blobOut"] # <<>>
    /\ thread'["blobOut"] = "send" /\ kept'["blobOut"] = <<>>
    /\ message'["blobOut"].kind = "record" => message'["blobOut"].id = kept["blobOut"][1]
    /\ UNCHANGED <<request, channel>>
DeliversAnswer ==
    /\ thread["blobOut"] = "send" /\ channel["blobOut"] = <<>> /\ channel'["blobOut"] = <<message["blobOut"]>>
    /\ thread'["blobOut"] \in {"run", "end"} /\ UNCHANGED <<request, kept>>
BlobSteps == TakesRequest \/ EndsAnswers \/ Answers \/ DeliversAnswer

\* What the processes do is a step of the listing, or none of these.
LEMMA ProcessSteps ==
    ASSUME Shape, Domains, Carried, mode # "ask", Environment \/ \E p \in Process : Published(p)
    PROVE  Domains' /\ CallSame /\ BlobSame /\ (ListSame \/ ListSteps)
<1>0. /\ UNCHANGED <<tree, mode, threadVars, request, open, callVars>>
  BY Zenon, ProcessFrame
<1>1. CallSame /\ BlobSame /\ ReaderSame /\ KeptSame /\ ChannelSame /\ UNCHANGED <<kept, message, channel>>
  BY Zenon, <1>0 DEF CallSame, BlobSame, ReaderSame, KeptSame, ChannelSame, threadVars, callVars
<1>2. DOMAIN child = Process
  BY DEF Shape
<1>3. CASE ListWrites
  <2>1. /\ child["list"] = "running" /\ emitted < Len(tree) /\ emitted' = emitted + 1
        /\ out' = [out EXCEPT !["list"] = Append(@, Rec(emitted + 1))] /\ UNCHANGED <<child, status>>
    BY Zenon, <1>3 DEF ListWrites, Alive, Put, Rec
  <2>2. out'["list"] = Append(out["list"], Rec(emitted + 1)) /\ Domains'
    BY <1>1, <2>1 DEF Domains, Process
  <2> QED
    BY Zenon, <1>1, <2>1, <2>2 DEF ListSteps, ListEmits, ChildSame
<1>4. CASE BlobAnswers
  <2>1. UNCHANGED <<child, status, emitted>> /\ \E x : out' = [out EXCEPT !["blob"] = x]
    BY Zenon, <1>4 DEF BlobAnswers, Put
  <2>2. out'["list"] = out["list"] /\ Domains'
    BY <1>1, <2>1 DEF Domains, Process
  <2> QED
    BY Zenon, <1>1, <2>1, <2>2 DEF ListSame, ChildSame, PipeSame
<1>5. CASE \/ \E p \in Process : Complain(p) \/ DescendantExits(p)
           \/ \E p \in Process, pipes \in {{"out"}, {"err"}} : Fork(p, pipes)
  <2>1. UNCHANGED <<child, status, emitted, out>>
    BY Zenon, <1>5 DEF Complain, DescendantExits, Fork
  <2> QED
    BY Zenon, <1>1, <2>1 DEF ListSame, ChildSame, PipeSame, Domains
<1>6. ASSUME NEW p \in Process, NEW s, Dies(p, s), DOMAIN out' = Process, emitted' = emitted,
             out'["list"] = out["list"] \/ p = "list", child[p] = "running",
             p = "list" => \/ s = "ok" /\ emitted = Len(tree) /\ out' = out
                           \/ s # "ok" /\ out'["list"] = out["list"]
                           \/ /\ s # "ok" /\ emitted < Len(tree)
                              /\ out'["list"] = Append(out["list"], [kind |-> "partial", id |-> 0])
      PROVE  Domains' /\ (ListSame \/ ListSteps)
  <2>1. child' = [child EXCEPT ![p] = "closing"] /\ status' = [status EXCEPT ![p] = s]
    BY ZenonT(60), <1>6 DEF Dies
  <2>2. Domains'
    BY <1>1, <1>6, <2>1 DEF Domains
  <2>3. CASE p = "list"
    <3>1. child'["list"] = "closing" /\ status'["list"] = s
      BY <1>2, <2>1, <2>3 DEF Domains, Process
    <3> QED
      BY Zenon, <1>1, <1>6, <2>2, <2>3, <3>1 DEF ListSteps, ListExits, ListCrashes, PipeSame
  <2>4. CASE p # "list"
    <3>1. ChildSame
      BY <1>2, <2>1, <2>4 DEF Domains, Process, ChildSame
    <3> QED
      BY Zenon, <1>1, <1>6, <2>2, <2>4, <3>1 DEF ListSame, PipeSame
  <2> QED
    BY Zenon, <2>3, <2>4
<1>7. ASSUME NEW p \in Process, Exit(p) PROVE Domains' /\ (ListSame \/ ListSteps)
  <2>1. child[p] = "running" /\ Dies(p, "ok") /\ UNCHANGED <<out, emitted>> /\ (p = "list" => emitted = Len(tree))
    BY <1>7 DEF Exit, Alive, Finished
  <2>2. DOMAIN out' = Process
    BY Zenon, <2>1 DEF Domains
  <2> QED
    BY Zenon, <1>6, <2>1, <2>2
<1>8. ASSUME NEW p \in Process, NEW partial \in BOOLEAN, Crash(p, partial)
      PROVE  Domains' /\ (ListSame \/ ListSteps)
  <2> DEFINE cut == [kind |-> "partial", id |-> 0]
  <2>1. /\ child[p] = "running" /\ Dies(p, "signal") /\ emitted' = emitted
        /\ out' = out \/ (out' = [out EXCEPT ![p] = Append(@, cut)] /\ (p = "list" => emitted # Len(tree)))
    BY <1>8 DEF Crash, Alive, Put, Finished
  <2> HIDE DEF cut
  <2>2. /\ DOMAIN out' = Process /\ (out'["list"] = out["list"] \/ p = "list")
        /\ \/ out'["list"] = out["list"]
           \/ out'["list"] = Append(out["list"], cut) /\ emitted # Len(tree)
    BY <2>1 DEF Domains, Process
  <2>4. emitted # Len(tree) => emitted < Len(tree)
    BY DEF Carried
  <2>3. "signal" # "ok"
    OBVIOUS
  <2> QED
    BY Zenon, <1>6, <2>1, <2>2, <2>3, <2>4 DEF cut
<1>9. ASSUME NEW p \in Process, Published(p) PROVE Domains' /\ (ListSame \/ ListSteps)
  <2>1. /\ child[p] = "closing" /\ child' = [child EXCEPT ![p] = "exited"]
        /\ UNCHANGED <<status, out, emitted>>
    BY Zenon, <1>9 DEF Published
  <2>2. Domains'
    BY Zenon, <1>1, <2>1 DEF Domains
  <2>3. CASE p = "list"
    <3>1. child["list"] = "closing" /\ child'["list"] = "exited"
      BY <1>2, <2>1, <2>3 DEF Process
    <3> QED
      BY Zenon, <1>1, <2>1, <2>2, <3>1 DEF ListSteps, ListReports, PipeSame
  <2>4. CASE p # "list"
    <3>1. child'["list"] = child["list"]
      BY <1>2, <2>1, <2>4 DEF Process
    <3> QED
      BY Zenon, <1>1, <2>1, <2>2, <3>1 DEF ListSame, PipeSame, ChildSame
  <2> QED
    BY Zenon, <2>3, <2>4
<1> QED
  BY Zenon, <1>1, <1>3, <1>4, <1>5, <1>7, <1>8, <1>9 DEF Environment

\* So is what a bounded reader does, of the listing if it is the one that captures it.
LEMMA ReaderSteps ==
    ASSUME Shape, Domains, mode # "ask", NEW t \in Thread, Reader(t)
    PROVE  Domains' /\ BlobSame /\ (ListSame \/ ListSteps)
<1>1. UNCHANGED <<child, status, emitted, channel, request>> /\ thread[t] = "run"
  BY Zenon DEF Reader, BoundedRead
<1>2. ChildSame /\ ChannelSame
  BY Zenon, <1>1 DEF ChildSame, ChannelSame
<1>3. CASE t \in {"listErr", "blobErr"}
  <2>1. /\ UNCHANGED out /\ thread' \in {thread, [thread EXCEPT ![t] = "send"]}
        /\ kept' = kept \/ \E x : kept' = [kept EXCEPT ![t] = x]
        /\ message' = message \/ \E x : message' = [message EXCEPT ![t] = x]
        /\ overflow' \in {overflow, overflow \union {t}}
    BY Zenon, <1>3 DEF Reader, BoundedRead, Send, Take
  <2>2. "listOut" # t /\ "blobOut" # t /\ "listOut" \in Thread /\ "blobOut" \in Thread
    BY SMTT(30), <1>3 DEF Thread
  <2>3. /\ DOMAIN kept' = Thread /\ kept'["listOut"] = kept["listOut"] /\ kept'["blobOut"] = kept["blobOut"]
    BY SMTT(30), <2>1, <2>2 DEF Domains
  <2>4. /\ DOMAIN message' = Thread /\ message'["listOut"] = message["listOut"]
        /\ message'["blobOut"] = message["blobOut"]
    BY <2>1, <2>2 DEF Domains
  <2>5. thread'["listOut"] = thread["listOut"] /\ thread'["blobOut"] = thread["blobOut"]
    BY <2>1, <2>2 DEF Shape
  <2>6. "listOut" \in overflow' <=> "listOut" \in overflow
    BY <2>1, <2>2
  <2>7. Domains'
    BY Zenon, <1>1, <2>1, <2>3, <2>4 DEF Domains
  <2> QED
    BY ZenonT(60), <1>1, <1>2, <2>1, <2>3, <2>4, <2>5, <2>6, <2>7
    DEF ListSame, BlobSame, PipeSame, ReaderSame, KeptSame
<1>4. CASE t = "listOut" /\ mode # "stream" /\ BoundedRead(t, "out", OutLimit)
  <2>0. "listOut" \in Thread /\ "blobOut" \in Thread /\ "listOut" # "blobOut" /\ ProcessOf(t) = "list"
        /\ "list" \in Process
    BY Zenon, <1>4 DEF Thread, ProcessOf, Process
  <2>1. \/ Eof("list", "out") /\ Send(t, Ok) /\ UNCHANGED <<kept, overflow, out>>
        \/ /\ out["list"] # <<>> /\ out' = [out EXCEPT !["list"] = Tail(@)]
           /\ overflow' = overflow \union {t} /\ Send(t, Ok) /\ UNCHANGED kept /\ Len(kept[t]) + 1 > OutLimit
        \/ /\ out["list"] # <<>> /\ out' = [out EXCEPT !["list"] = Tail(@)]
           /\ kept' = [kept EXCEPT ![t] = Append(@, Head(out["list"]))] /\ UNCHANGED <<thread, message, overflow>>
        \/ Send(t, Error("io")) /\ UNCHANGED <<kept, overflow, out>>
    BY Zenon, <1>4, <2>0 DEF BoundedRead, Take
  <2>2. ASSUME NEW m, Send(t, m)
        PROVE  /\ thread'["listOut"] = "send" /\ message'["listOut"] = m
               /\ thread'["blobOut"] = thread["blobOut"] /\ message'["blobOut"] = message["blobOut"]
               /\ DOMAIN message' = Thread
    BY <1>4, <2>0, <2>2 DEF Send, Shape, Domains
  <2>3. CASE Eof("list", "out") /\ Send(t, Ok) /\ UNCHANGED <<kept, overflow, out>>
    <3>1. child["list"] # "running" /\ out["list"] = <<>>
      BY <2>3 DEF Eof, Writers
    <3>2. Domains' /\ BlobSame /\ PipeSame /\ KeptSame
      BY Zenon, <1>1, <2>2, <2>3 DEF Domains, BlobSame, PipeSame, KeptSame
    <3> QED
      BY ZenonT(60), <1>1, <1>2, <1>4, <2>2, <2>3, <3>1, <3>2 DEF ListSteps, ReaderEnds
  <2>4. CASE /\ out["list"] # <<>> /\ out' = [out EXCEPT !["list"] = Tail(@)]
             /\ overflow' = overflow \union {t} /\ Send(t, Ok) /\ UNCHANGED kept /\ Len(kept[t]) + 1 > OutLimit
    <3>1. out'["list"] = Tail(out["list"]) /\ DOMAIN out' = Process /\ "listOut" \in overflow'
      BY <1>4, <2>0, <2>4 DEF Domains
    <3>2. Domains' /\ BlobSame
      BY Zenon, <1>1, <2>2, <2>4, <3>1 DEF Domains, BlobSame
    <3> QED
      BY ZenonT(60), <1>1, <1>2, <1>4, <2>2, <2>4, <3>1, <3>2 DEF ListSteps, ReaderSpills
  <2>5. CASE /\ out["list"] # <<>> /\ out' = [out EXCEPT !["list"] = Tail(@)]
             /\ kept' = [kept EXCEPT ![t] = Append(@, Head(out["list"]))] /\ UNCHANGED <<thread, message, overflow>>
    <3>1. out'["list"] = Tail(out["list"]) /\ DOMAIN out' = Process /\ DOMAIN kept' = Thread
          /\ kept'["listOut"] = Append(kept["listOut"], Head(out["list"])) /\ kept'["blobOut"] = kept["blobOut"]
      BY <1>4, <2>0, <2>5 DEF Domains
    <3>2. Domains' /\ BlobSame /\ ReaderSame
      BY Zenon, <1>1, <2>5, <3>1 DEF Domains, BlobSame, ReaderSame
    <3> QED
      BY ZenonT(60), <1>1, <1>2, <1>4, <2>5, <3>1, <3>2 DEF ListSteps, ReaderKeeps
  <2>6. CASE Send(t, Error("io")) /\ UNCHANGED <<kept, overflow, out>>
    <3>1. Domains' /\ BlobSame /\ PipeSame /\ KeptSame
      BY Zenon, <1>1, <2>2, <2>6 DEF Domains, BlobSame, PipeSame, KeptSame
    <3> QED
      BY Zenon, <1>1, <1>2, <1>4, <2>2, <2>6, <3>1 DEF ListSteps, ReaderFails
  <2> QED
    BY Zenon, <2>1, <2>3, <2>4, <2>5, <2>6
<1> QED
  BY Zenon, <1>3, <1>4 DEF Reader

\* The reader that parses the listing.
LEMMA ListingSteps ==
    ASSUME Shape, Domains, mode # "ask", ListingReader
    PROVE  Domains' /\ BlobSame /\ (ListSame \/ ListSteps)
<1>0. "listOut" \in Thread /\ "blobOut" \in Thread /\ "listOut" # "blobOut" /\ "list" \in Process
  BY DEF Thread, Process
<1>1. /\ UNCHANGED <<child, status, emitted, channel, request, overflow>> /\ thread["listOut"] = "run"
      /\ mode = "stream"
  BY Zenon DEF ListingReader
<1>2. ChildSame /\ ChannelSame
  BY Zenon, <1>1 DEF ChildSame, ChannelSame
<1>3. ASSUME NEW m, Send("listOut", m)
      PROVE  /\ thread'["listOut"] = "send" /\ message'["listOut"] = m
             /\ thread'["blobOut"] = thread["blobOut"] /\ message'["blobOut"] = message["blobOut"]
             /\ DOMAIN message' = Thread
  BY <1>0, <1>3 DEF Send, Shape, Domains
<1>4. CASE Eof("list", "out") /\ Send("listOut", Ok) /\ UNCHANGED <<kept, out>>
  <2>1. child["list"] # "running" /\ out["list"] = <<>>
    BY <1>4 DEF Eof, Writers
  <2>2. Domains' /\ BlobSame /\ PipeSame /\ KeptSame
    BY Zenon, <1>1, <1>3, <1>4 DEF Domains, BlobSame, PipeSame, KeptSame
  <2> QED
    BY ZenonT(60), <1>1, <1>2, <1>3, <1>4, <2>1, <2>2 DEF ListSteps, ReaderEnds
<1>5. CASE /\ out["list"] # <<>> /\ Send("listOut", Parse(Head(out["list"]), kept["listOut"]))
           /\ kept' = [kept EXCEPT !["listOut"] = Append(@, Parse(Head(out["list"]), kept["listOut"]))]
           /\ out' = [out EXCEPT !["list"] = Tail(@)]
  <2> DEFINE m == Parse(Head(out["list"]), kept["listOut"])
  <2>1. m \in {Head(out["list"]), Error("hostile")}
    BY Zenon DEF Parse
  <2>2. out["list"] # <<>> /\ Send("listOut", m) /\ kept' = [kept EXCEPT !["listOut"] = Append(@, m)]
        /\ out' = [out EXCEPT !["list"] = Tail(@)]
    BY Zenon, <1>5
  <2> HIDE DEF m
  <2>3. out'["list"] = Tail(out["list"]) /\ DOMAIN out' = Process /\ DOMAIN kept' = Thread
        /\ kept'["listOut"] = Append(kept["listOut"], m) /\ kept'["blobOut"] = kept["blobOut"]
    BY <1>0, <2>2 DEF Domains
  <2>4. Domains' /\ BlobSame /\ message'["listOut"] = m /\ thread'["listOut"] = "send"
    BY Zenon, <1>1, <1>3, <2>2, <2>3 DEF Domains, BlobSame
  <2>5. "listOut" \in overflow' <=> "listOut" \in overflow
    BY Zenon, <1>1
  <2> QED
    BY Zenon, <1>1, <1>2, <2>1, <2>2, <2>3, <2>4, <2>5 DEF ListSteps, ReaderParses
<1> QED
  BY Zenon, <1>4, <1>5 DEF ListingReader

\* The reader of answers.
LEMMA ResponseSteps ==
    ASSUME Shape, Domains, mode # "ask", ResponseReader
    PROVE  Domains' /\ ListSame /\ BlobSteps
<1>0. "listOut" \in Thread /\ "blobOut" \in Thread /\ "listOut" # "blobOut" /\ "list" \in Process /\ "list" # "blob"
  BY DEF Thread, Process
<1>1. UNCHANGED <<child, status, emitted, channel, overflow>> /\ thread["blobOut"] = "run"
  BY Zenon DEF ResponseReader
<1>2. /\ thread' = thread \/ \E x : thread' = [thread EXCEPT !["blobOut"] = x]
      /\ kept' = kept \/ \E x : kept' = [kept EXCEPT !["blobOut"] = x]
      /\ message' = message \/ \E x : message' = [message EXCEPT !["blobOut"] = x]
      /\ out' = out \/ \E x : out' = [out EXCEPT !["blob"] = x]
  BY Zenon DEF ResponseReader, Send
<1>3. /\ thread'["listOut"] = thread["listOut"] /\ kept'["listOut"] = kept["listOut"]
      /\ message'["listOut"] = message["listOut"] /\ out'["list"] = out["list"]
      /\ DOMAIN kept' = Thread /\ DOMAIN message' = Thread /\ DOMAIN out' = Process
  BY <1>0, <1>2 DEF Shape, Domains
<1>4. Domains' /\ ListSame
  BY Zenon, <1>1, <1>3 DEF Domains, ListSame, ChildSame, PipeSame, ReaderSame, KeptSame, ChannelSame
<1>5. CASE /\ Expected = <<>> /\ request # <<>> /\ kept' = [kept EXCEPT !["blobOut"] = request] /\ request' = <<>>
           /\ UNCHANGED <<thread, message, out>>
  <2>1. kept'["blobOut"] = request
    BY <1>0, <1>5 DEF Domains
  <2> QED
    BY Zenon, <1>1, <1>4, <1>5, <2>1 DEF BlobSteps, TakesRequest, Expected
<1>6. CASE thread' = [thread EXCEPT !["blobOut"] = "end"] /\ UNCHANGED <<kept, message, out, request>>
  <2>1. thread'["blobOut"] = "end"
    BY <1>0, <1>6 DEF Shape
  <2> QED
    BY Zenon, <1>1, <1>4, <1>6, <2>1 DEF BlobSteps, EndsAnswers
<1>7. CASE /\ Expected # <<>> /\ Send("blobOut", read_cat_file_response)
           /\ kept' = [kept EXCEPT !["blobOut"] = <<>>] /\ UNCHANGED request
  <2>1. thread'["blobOut"] = "send" /\ message'["blobOut"] = read_cat_file_response /\ kept'["blobOut"] = <<>>
    BY Zenon, <1>0, <1>7 DEF Shape, Domains, Send
  <2>2. read_cat_file_response.kind = "record" => read_cat_file_response.id = kept["blobOut"][1]
    BY DEF read_cat_file_response, Error, Expected
  <2> QED
    BY ZenonT(60), <1>1, <1>4, <1>7, <2>1, <2>2 DEF BlobSteps, Answers, Expected
<1> QED
  BY Zenon, <1>5, <1>6, <1>7 DEF ResponseReader

\* A message that is delivered.
LEMMA DeliverySteps ==
    ASSUME Shape, Domains, mode # "ask", NEW t \in Thread, Delivers(t)
    PROVE  Domains' /\ (ListSame \/ ListSteps) /\ (BlobSame \/ BlobSteps)
<1>0. "listOut" \in Thread /\ "blobOut" \in Thread /\ "listOut" # "blobOut"
  BY DEF Thread
<1>1. /\ UNCHANGED <<child, status, out, emitted, kept, overflow, request>> /\ thread[t] = "send"
      /\ message' = [message EXCEPT ![t] = <<>>]
      /\ thread' = [thread EXCEPT ![t] = IF Ends(t) THEN "end" ELSE "run"]
      /\ channel' = IF t = "listOut" /\ "entry_rx" \notin open THEN channel
                    ELSE [channel EXCEPT ![t] = <<message[t]>>]
      /\ channel[t] = <<>> \/ (t = "listOut" /\ "entry_rx" \notin open)
  BY Zenon DEF Delivers, processVars
<1>2. ChildSame /\ PipeSame /\ KeptSame
  BY ZenonT(60), <1>1 DEF ChildSame, PipeSame, KeptSame
<1>3. /\ DOMAIN message' = Thread /\ DOMAIN channel' = Thread /\ thread'[t] \in {"run", "end"}
      /\ Ends(t) => thread'[t] = "end"
      /\ \A u \in Thread \ {t} : thread'[u] = thread[u] /\ message'[u] = message[u] /\ channel'[u] = channel[u]
  BY <1>1 DEF Domains, Shape
<1>4. Domains'
  BY Zenon, <1>1, <1>3 DEF Domains
<1>5. CASE t = "listOut"
  <2>1. BlobSame
    BY ZenonT(60), <1>0, <1>1, <1>3, <1>5 DEF BlobSame
  <2>2. \/ "entry_rx" \notin open /\ ChannelSame
        \/ channel["listOut"] = <<>> /\ channel'["listOut"] = <<message["listOut"]>>
    BY <1>0, <1>1, <1>5 DEF Domains, ChannelSame
  <2>3. message["listOut"].kind # "record" => Ends(t)
    BY <1>5 DEF Ends
  <2> QED
    BY Zenon, <1>1, <1>2, <1>3, <1>4, <1>5, <2>1, <2>2, <2>3 DEF ListSteps, ReaderDelivers
<1>6. CASE t # "listOut"
  <2>1. ListSame
    BY Zenon, <1>0, <1>2, <1>3, <1>6 DEF ListSame, ReaderSame, ChannelSame
  <2>2. CASE t # "blobOut"
    BY Zenon, <1>0, <1>1, <1>3, <1>4, <2>1, <2>2 DEF BlobSame
  <2>3. CASE t = "blobOut"
    <3>1. channel["blobOut"] = <<>> /\ channel'["blobOut"] = <<message["blobOut"]>>
      BY <1>0, <1>1, <1>6, <2>3 DEF Domains
    <3> QED
      BY ZenonT(60), <1>1, <1>3, <1>4, <2>1, <2>3, <3>1 DEF BlobSteps, DeliversAnswer
  <2> QED
    BY Zenon, <2>2, <2>3
<1> QED
  BY Zenon, <1>5, <1>6

\* Together: every step that is not the caller's.
LEMMA BackgroundSteps ==
    ASSUME Shape, Domains, Carried, mode # "ask", Background
    PROVE  Domains' /\ CallSame /\ (ListSame \/ ListSteps) /\ (BlobSame \/ BlobSteps)
<1>1. CASE Environment \/ \E p \in Process : Published(p)
  BY Zenon, <1>1, ProcessSteps
<1>2. CASE Finish
  <2>1. UNCHANGED <<tree, mode, child, status, out, emitted, thread, kept, message, channel, overflow, request, open, pc,
                    cur, got, then, fault, entry, files, result>>
    BY Zenon, <1>2 DEF Finish, vars, processVars, threadVars, callVars
  <2> QED
    BY Zenon, <2>1 DEF Domains, CallSame, ListSame, ChildSame, PipeSame, ReaderSame, KeptSame, ChannelSame, BlobSame
<1>3. ASSUME NEW t \in Thread, ThreadStep(t)
      PROVE  Domains' /\ CallSame /\ (ListSame \/ ListSteps) /\ (BlobSame \/ BlobSteps)
  <2>1. CallSame
    <3>1. UNCHANGED <<tree, mode, open, callVars>>
      BY Zenon, <1>3, ThreadFrame
    <3> QED
      BY Zenon, <3>1 DEF CallSame, callVars
  <2> QED
    BY Zenon, <1>3, <2>1, ReaderSteps, ListingSteps, ResponseSteps, DeliverySteps DEF ThreadStep
<1> QED
  BY Zenon, <1>1, <1>2, <1>3 DEF Background

\* A pipe that is drained stays so, and nothing more comes from it.
LEMMA DrainedStays ==
    ASSUME ListSame \/ ListSteps, Drained
    PROVE  /\ Drained' /\ kept'["listOut"] = kept["listOut"] /\ status'["list"] = status["list"]
           /\ "listOut" \in overflow' <=> "listOut" \in overflow
<1> USE DEF ChildSame, PipeSame, KeptSame, Drained
<1>1. CASE ListSame
  BY Zenon, <1>1 DEF ListSame
<1>2. CASE ListEmits \/ ListExits \/ ListCrashes \/ ReaderSpills \/ ReaderKeeps \/ ReaderParses
  BY Zenon, <1>2 DEF ListEmits, ListExits, ListCrashes, ReaderSpills, ReaderKeeps, ReaderParses
<1>3. CASE ListReports
  BY <1>3 DEF ListReports
<1>4. CASE ReaderEnds \/ ReaderFails \/ ReaderDelivers
  BY Zenon, <1>4 DEF ReaderEnds, ReaderFails, ReaderDelivers
<1> QED
  BY Zenon, <1>1, <1>2, <1>3, <1>4 DEF ListSteps

\* What is carried keeps its type.
LEMMA ListCarries ==
    ASSUME Carried, CallSame, ListSame \/ ListSteps
    PROVE  Carried'
<1> DEFINE L == "listOut"
<1>0. /\ Ok \in Message /\ Error("io") \in Message /\ Error("hostile") \in Message
      /\ [kind |-> "partial", id |-> 0] \in Piece /\ Piece \subseteq Message
  BY DEF Ok, Error, Message, Piece
<1>1. UNCHANGED <<tree, entry, files, open>>
  BY Zenon DEF CallSame
<1>2. ASSUME PipeSame, kept'[L] = kept[L], channel'[L] = channel[L],
             thread'[L] = "send" => thread[L] = "send" /\ message'[L] = message[L]
      PROVE  Carried'
  BY Zenon, <1>1, <1>2 DEF Carried, PipeSame
<1>3. CASE ListSame \/ ListExits \/ ListReports
  BY Zenon, <1>2, <1>3 DEF ListSame, ListExits, ListReports, PipeSame, KeptSame, ChannelSame, ReaderSame
<1>4. CASE ListEmits
  <2>1. emitted' \in 0 .. Len(tree) /\ Rec(emitted + 1) \in Piece
    BY SMTT(30), <1>4 DEF ListEmits, Carried, Rec, Piece
  <2>2. out'["list"] \in Seq(Piece)
    BY <1>4, <2>1 DEF ListEmits, Carried
  <2> QED
    BY ZenonT(60), <1>1, <1>4, <2>1, <2>2 DEF ListEmits, Carried, KeptSame, ChannelSame, ReaderSame
<1>5. CASE ListCrashes
  <2>1. out'["list"] \in Seq(Piece)
    <3>1. ASSUME NEW x \in Piece PROVE Append(out["list"], x) \in Seq(Piece)
      BY <3>1 DEF Carried
    <3> QED
      BY Zenon, <1>0, <1>5, <3>1 DEF ListCrashes, Carried
  <2> QED
    BY Zenon, <1>1, <1>5, <2>1 DEF ListCrashes, Carried, KeptSame, ChannelSame, ReaderSame
<1>6. CASE ReaderEnds \/ ReaderFails
  BY Zenon, <1>0, <1>1, <1>6 DEF ReaderEnds, ReaderFails, Carried, PipeSame, KeptSame, ChannelSame
<1>7. CASE ReaderSpills \/ ReaderKeeps \/ ReaderParses
  <2>1. out["list"] # <<>> /\ out'["list"] = Tail(out["list"]) /\ emitted' = emitted
    BY Zenon, <1>7 DEF ReaderSpills, ReaderKeeps, ReaderParses
  <2>2. out'["list"] \in Seq(Piece) /\ Head(out["list"]) \in Piece
    BY <2>1 DEF Carried
  <2>3. CASE ReaderSpills
    BY Zenon, <1>0, <1>1, <2>1, <2>2, <2>3 DEF ReaderSpills, Carried, ChannelSame
  <2>4. CASE ReaderKeeps
    <3>1. kept'[L] \in Seq(Message)
      BY <1>0, <2>2, <2>4 DEF ReaderKeeps, Carried
    <3> QED
      BY ZenonT(60), <1>1, <2>1, <2>2, <2>4, <3>1 DEF ReaderKeeps, Carried, ChannelSame, ReaderSame
  <2>5. CASE ReaderParses
    <3>1. message'[L] \in Message
      BY Zenon, <1>0, <2>2, <2>5 DEF ReaderParses
    <3>2. kept'[L] \in Seq(Message)
      BY <2>5, <3>1 DEF ReaderParses, Carried
    <3> QED
      BY ZenonT(60), <1>1, <2>1, <2>2, <2>5, <3>1, <3>2 DEF ReaderParses, Carried, ChannelSame
  <2> QED
    BY Zenon, <1>7, <2>3, <2>4, <2>5
<1>8. CASE ReaderDelivers
  <2>1. message[L] \in Message /\ thread'[L] # "send"
    BY <1>8 DEF ReaderDelivers, Carried
  <2>2. <<message[L]>> \in Seq(Message)
    BY <2>1
  <2>3. channel'[L] \in Seq(Message)
    BY Zenon, <1>8, <2>2 DEF ReaderDelivers, Carried, ChannelSame
  <2> QED
    BY ZenonT(60), <1>1, <1>8, <2>1, <2>3 DEF ReaderDelivers, Carried, PipeSame, KeptSame
<1> QED
  BY Zenon, <1>3, <1>4, <1>5, <1>6, <1>7, <1>8 DEF ListSteps

\* How the listing ended.
LEMMA ListStatuses ==
    ASSUME Carried, StatusInv, CallSame, ListSame \/ ListSteps
    PROVE  StatusInv'
<1> USE DEF StatusInv
<1>1. UNCHANGED <<tree, mode, pc, fault>>
  BY Zenon DEF CallSame
<1>2. CASE ListSame
  BY ZenonT(60), <1>1, <1>2 DEF ListSame, ChildSame, PipeSame, KeptSame, ChannelSame, ReaderSame
<1>3. CASE ListEmits \/ ListExits
  BY Zenon, <1>1, <1>3 DEF ListEmits, ListExits, ChildSame, PipeSame, KeptSame, ChannelSame, ReaderSame
<1>4. CASE ListCrashes \/ ListReports
  BY Zenon, <1>1, <1>4 DEF ListCrashes, ListReports, PipeSame, KeptSame, ChannelSame, ReaderSame
<1>5. ASSUME ChildSame, emitted' = emitted, thread["listOut"] # "none" PROVE StatusInv'
  BY Zenon, <1>1, <1>5 DEF ChildSame
<1>6. CASE ReaderEnds \/ ReaderFails \/ ReaderSpills \/ ReaderKeeps \/ ReaderParses \/ ReaderDelivers
  <2>1. ChildSame /\ emitted' = emitted /\ thread["listOut"] \in {"run", "send"}
    BY Zenon, <1>6 DEF ReaderEnds, ReaderFails, ReaderSpills, ReaderKeeps, ReaderParses, ReaderDelivers, PipeSame
  <2> QED
    BY Zenon, <1>5, <2>1
<1> QED
  BY Zenon, <1>2, <1>3, <1>4, <1>6 DEF ListSteps

\* What has been written is in the reader's hands or in the pipe.
LEMMA ListFlows ==
    ASSUME Carried, StatusInv, FlowInv, CallSame, ListSame \/ ListSteps
    PROVE  FlowInv'
<1> DEFINE K == kept["listOut"]
           P == out["list"]
<1>0. K \in Seq(Message) /\ P \in Seq(Piece) /\ Len(K) \in Nat /\ Len(P) \in Nat /\ emitted \in Nat
  BY DEF Carried
<1>1. mode' = mode /\ tree' = tree /\ \A j : Rec(j)' = Rec(j)
  BY Zenon DEF CallSame, Rec
<1>2. ASSUME PipeSame, KeptSame, status'["list"] = "ok" => status["list"] = "ok" PROVE FlowInv'
  BY Zenon, <1>1, <1>2 DEF FlowInv, PipeSame, KeptSame
<1>3. CASE ListSame \/ ListReports \/ ReaderEnds \/ ReaderFails \/ ReaderDelivers
  BY Zenon, <1>2, <1>3 DEF ListSame, ListReports, ReaderEnds, ReaderFails, ReaderDelivers, ChildSame
<1>4. CASE ListExits
  <2>1. status["list"] = "ok"
    BY <1>4 DEF ListExits, StatusInv
  <2> QED
    BY Zenon, <1>2, <1>4, <2>1 DEF ListExits
<1>5. CASE ListEmits
  <2>1. status["list"] = "ok" /\ kept'["listOut"] = K /\ emitted' = emitted + 1
        /\ out'["list"] = Append(P, Rec(emitted + 1)) /\ ("listOut" \in overflow' <=> "listOut" \in overflow)
    BY <1>5 DEF ListEmits, StatusInv, KeptSame
  <2>2. SUFFICES ASSUME "listOut" \notin overflow
                 PROVE  /\ Len(K) + Len(out'["list"]) = emitted + 1
                        /\ \A j \in 1 .. Len(out'["list"]) : out'["list"][j] = Rec(Len(K) + j)
    BY Zenon, <1>1, <2>1 DEF FlowInv
  <2>3. Len(K) + Len(P) = emitted /\ \A j \in 1 .. Len(P) : P[j] = Rec(Len(K) + j)
    BY ZenonT(60), <2>1, <2>2 DEF FlowInv
  <2>4. Rec(emitted + 1) \in Piece
    BY SMTT(30), <1>5 DEF ListEmits, Carried, Rec, Piece
  <2>5. /\ Len(out'["list"]) = Len(P) + 1 /\ out'["list"][Len(P) + 1] = Rec(emitted + 1)
        /\ \A j \in 1 .. Len(P) : out'["list"][j] = P[j]
    BY <1>0, <2>1, <2>4, AppendFacts
  <2> HIDE DEF K, P
  <2>6. Len(K) + Len(out'["list"]) = emitted + 1 /\ Len(K) + (Len(P) + 1) = emitted + 1
    <3>1. Len(K) \in Nat /\ Len(P) \in Nat /\ Len(K) + Len(P) = emitted /\ Len(out'["list"]) = Len(P) + 1
      BY Zenon, <1>0, <2>3, <2>5
    <3> QED
      BY <3>1
  <2>7. ASSUME NEW j \in 1 .. Len(out'["list"]) PROVE out'["list"][j] = Rec(Len(K) + j)
    <3>1. j \in 1 .. Len(P) \/ j = Len(P) + 1
      BY <1>0, <2>5, <2>7
    <3> QED
      BY Zenon, <2>3, <2>5, <2>6, <3>1
  <2> QED
    BY ZenonT(60), <2>6, <2>7
<1>6. CASE ListCrashes
  BY Zenon, <1>1, <1>6 DEF FlowInv, ListCrashes, KeptSame
<1>7. CASE ReaderSpills
  BY Zenon, <1>1, <1>7 DEF FlowInv, ReaderSpills
<1>8. ASSUME out["list"] # <<>>, out'["list"] = Tail(P), emitted' = emitted, ChildSame, NEW m,
             kept'["listOut"] = Append(K, m), m \in Message, mode # "stream" => m = Head(P),
             "listOut" \in overflow' <=> "listOut" \in overflow
      PROVE  FlowInv'
  <2>1. SUFFICES ASSUME "listOut" \notin overflow, status["list"] = "ok"
                 PROVE  /\ Len(kept'["listOut"]) + Len(out'["list"]) = emitted
                        /\ \A j \in 1 .. Len(out'["list"]) : out'["list"][j] = Rec(Len(kept'["listOut"]) + j)
                        /\ mode # "stream" => \A j \in 1 .. Len(kept'["listOut"]) : kept'["listOut"][j] = Rec(j)
    BY Zenon, <1>1, <1>8 DEF FlowInv, ChildSame
  <2>2. /\ Len(K) + Len(P) = emitted /\ \A j \in 1 .. Len(P) : P[j] = Rec(Len(K) + j)
        /\ mode # "stream" => \A j \in 1 .. Len(K) : K[j] = Rec(j)
    BY ZenonT(60), <2>1 DEF FlowInv
  <2>3. /\ Len(Tail(P)) = Len(P) - 1 /\ Len(P) > 0 /\ Head(P) = P[1]
        /\ \A j \in 1 .. Len(P) - 1 : Tail(P)[j] = P[j + 1]
    BY SMTT(30), <1>0, <1>8, TailFacts
  <2>4. /\ Len(Append(K, m)) = Len(K) + 1 /\ Append(K, m)[Len(K) + 1] = m
        /\ \A j \in 1 .. Len(K) : Append(K, m)[j] = K[j]
    BY <1>0, <1>8, AppendFacts
  <2> HIDE DEF K, P
  <2>5. Len(Append(K, m)) + Len(Tail(P)) = emitted
    <3>1. /\ Len(K) \in Nat /\ Len(P) \in Nat /\ Len(K) + Len(P) = emitted
          /\ Len(Append(K, m)) = Len(K) + 1 /\ Len(Tail(P)) = Len(P) - 1
      BY Zenon, <1>0, <2>2, <2>3, <2>4
    <3>2. \A a, b \in Nat : (a + 1) + (b - 1) = a + b
      OBVIOUS
    <3> QED
      BY Zenon, <3>1, <3>2
  <2>6. ASSUME NEW j \in 1 .. Len(Tail(P)) PROVE Tail(P)[j] = Rec(Len(Append(K, m)) + j)
    <3>1. j \in 1 .. Len(P) - 1 /\ j + 1 \in 1 .. Len(P) /\ Len(Append(K, m)) + j = Len(K) + (j + 1)
      BY <1>0, <2>3, <2>4, <2>6
    <3> QED
      BY ZenonT(60), <2>2, <2>3, <3>1
  <2>7. ASSUME mode # "stream", NEW j \in 1 .. Len(Append(K, m)) PROVE Append(K, m)[j] = Rec(j)
    <3>1. (j \in 1 .. Len(K) \/ j = Len(K) + 1) /\ 1 \in 1 .. Len(P)
      BY SMTT(30), <1>0, <2>3, <2>4, <2>7
    <3> QED
      BY ZenonT(60), <1>8, <2>2, <2>3, <2>4, <2>7, <3>1
  <2> QED
    BY Zenon, <1>8, <2>5, <2>6, <2>7
<1>9. Piece \subseteq Message /\ Error("hostile") \in Message /\ (P # <<>> => Head(P) \in Piece)
  <2>1. P # <<>> => Head(P) \in Piece
    BY <1>0
  <2> QED
    BY <2>1 DEF Piece, Message, Error
<1>10. CASE ReaderKeeps
  BY Zenon, <1>8, <1>9, <1>10 DEF ReaderKeeps
<1>11. CASE ReaderParses
  BY Zenon, <1>8, <1>9, <1>11 DEF ReaderParses
<1> QED
  BY Zenon, <1>3, <1>4, <1>5, <1>6, <1>7, <1>10, <1>11 DEF ListSteps

\* Ended is what the reader or the caller has seen: none of it is undone by these steps.
LEMMA ListEnds ==
    ASSUME Carried, StatusInv, FlowInv, EndInv, CallSame, ListSame \/ ListSteps
    PROVE  EndInv'
<1> DEFINE L == "listOut"
<1>1. UNCHANGED <<tree, mode, pc, cur, got, then, fault>>
  BY Zenon DEF CallSame
<1>2. Past' => Drained' /\ L \notin overflow'
  <2>1. Past' => Past
    BY Zenon, <1>1 DEF Past
  <2> QED
    BY Zenon, <2>1, DrainedStays DEF EndInv
<1>3. Drained => Drained'
  BY Zenon, DrainedStays
<1>4. ASSUME L \in overflow PROVE L \in overflow'
  <2>1. CASE ListSame
    BY Zenon, <1>4, <2>1 DEF ListSame, KeptSame
  <2>2. CASE ListEmits \/ ListExits \/ ListCrashes \/ ListReports \/ ReaderEnds
    BY Zenon, <1>4, <2>2 DEF ListEmits, ListExits, ListCrashes, ListReports, ReaderEnds, KeptSame
  <2>3. CASE ReaderFails \/ ReaderSpills \/ ReaderKeeps \/ ReaderParses \/ ReaderDelivers
    BY Zenon, <1>4, <2>3 DEF ReaderFails, ReaderSpills, ReaderKeeps, ReaderParses, ReaderDelivers, KeptSame
  <2> QED
    BY Zenon, <2>1, <2>2, <2>3 DEF ListSteps
<1>5. ASSUME Ended' => Ended PROVE EndInv'
  BY Zenon, <1>2, <1>3, <1>4, <1>5 DEF EndInv
<1>6. ASSUME thread'[L] = "send" /\ message'[L].kind = "ok" => thread[L] = "send" /\ message[L].kind = "ok",
             channel'[L] # <<>> /\ channel'[L][1].kind = "ok" =>
                \/ channel[L] # <<>> /\ channel[L][1].kind = "ok"
                \/ thread[L] = "send" /\ message[L].kind = "ok"
      PROVE  EndInv'
  <2>1. Ended' => Ended
    BY Zenon, <1>1, <1>6 DEF Ended
  <2> QED
    BY Zenon, <1>5, <2>1
<1>7. CASE ListSame \/ ListEmits \/ ListExits \/ ListCrashes \/ ListReports \/ ReaderKeeps
  <2>1. ReaderSame /\ ChannelSame
    BY Zenon, <1>7 DEF ListSame, ListEmits, ListExits, ListCrashes, ListReports, ReaderKeeps
  <2> QED
    BY Zenon, <1>6, <2>1 DEF ReaderSame, ChannelSame
<1>8. CASE ReaderFails \/ ReaderParses
  <2>1. ChannelSame
    BY Zenon, <1>8 DEF ReaderFails, ReaderParses
  <2>2. message'[L].kind # "ok"
    <3>1. CASE ReaderFails
      BY <3>1 DEF ReaderFails, Error
    <3>2. CASE ReaderParses
      <4>1. Head(out["list"]) \in Piece
        BY <3>2 DEF ReaderParses, Carried
      <4>2. Head(out["list"]).kind # "ok" /\ Error("hostile").kind # "ok"
        BY <4>1 DEF Piece, Error
      <4> QED
        BY ZenonT(60), <3>2, <4>2 DEF ReaderParses
    <3> QED
      BY ZenonT(60), <1>8, <3>1, <3>2
  <2> QED
    BY Zenon, <1>6, <2>1, <2>2 DEF ChannelSame
<1>9. CASE ReaderDelivers
  <2>1. thread[L] = "send" /\ thread'[L] # "send"
    BY <1>9 DEF ReaderDelivers
  <2>2. ASSUME channel'[L] = <<message[L]>> PROVE channel'[L][1] = message[L]
    BY <2>2
  <2> QED
    BY Zenon, <1>6, <1>9, <2>1, <2>2 DEF ReaderDelivers, ChannelSame
<1>10. CASE ReaderEnds
  <2>1. Drained
    BY <1>10 DEF ReaderEnds, Drained, StatusInv
  <2> QED
    BY Zenon, <1>2, <1>3, <2>1 DEF EndInv
<1>11. CASE ReaderSpills
  BY Zenon, <1>2, <1>11 DEF EndInv, ReaderSpills
<1> QED
  BY Zenon, <1>7, <1>8, <1>9, <1>10, <1>11 DEF ListSteps

\* Nothing of the capture changes once it is whole.
LEMMA ListCaptured ==
    ASSUME FileInv, CallSame, ListSame \/ ListSteps
    PROVE  FileInv'
<1>1. UNCHANGED <<tree, mode, pc, cur, then, entry, files>> /\ Before' = Before
  BY Zenon DEF CallSame, Before
<1>2. Drained => Drained' /\ (Listed => Listed')
  BY Zenon, <1>1, DrainedStays DEF Listed, Rec
<1>3. \A n : Read(n)' = Read(n)
  BY Zenon, <1>1 DEF Read
<1> QED
  BY Zenon, <1>1, <1>2, <1>3 DEF FileInv

\* The records on their way keep their order.
LEMMA ListOrders ==
    ASSUME Carried, StatusInv, FlowInv, EndInv, StreamInv, CallSame, ListSame \/ ListSteps
    PROVE  StreamInv'
<1> DEFINE L == "listOut"
<1>0. kept[L] \in Seq(Message) /\ Len(kept[L]) \in Nat /\ Len(files) \in Nat /\ out["list"] \in Seq(Piece)
  BY DEF Carried
<1>1. UNCHANGED <<tree, mode, pc, cur, then, fault, entry, files, open>>
  BY Zenon DEF CallSame
<1>2. /\ \A n : Read(n)' = Read(n) /\ Rec(n)' = Rec(n)
      /\ InHand' = InHand /\ InHand \in {0, 1} /\ InChannel \in {0, 1} /\ InReader \in {0, 1}
  BY Zenon, <1>1 DEF Read, Rec, InHand, InChannel, InReader
<1>3. status'["list"] = "ok" => status["list"] = "ok"
  <2>1. CASE ListExits
    BY <2>1 DEF ListExits, StatusInv
  <2>2. CASE ListCrashes
    BY Zenon, <2>2 DEF ListCrashes
  <2>3. CASE ListSame \/ ListEmits \/ ListReports \/ ReaderEnds \/ ReaderFails
    BY Zenon, <2>3 DEF ListSame, ListEmits, ListReports, ReaderEnds, ReaderFails, ChildSame
  <2>4. CASE ReaderSpills \/ ReaderKeeps \/ ReaderParses \/ ReaderDelivers
    BY Zenon, <2>4 DEF ReaderSpills, ReaderKeeps, ReaderParses, ReaderDelivers, ChildSame
  <2> QED
    BY Zenon, <2>1, <2>2, <2>3, <2>4 DEF ListSteps
<1>4. SUFFICES ASSUME mode = "stream", status["list"] = "ok", pc \in Reading, InOrder, "entry_rx" \in open
               PROVE  InOrder'
  <2>1. ASSUME mode = "stream", (pc \in Draining /\ cur = "list") \/ Past PROVE Drained
    BY Zenon, <2>1 DEF EndInv, Ended, FlowInv
  <2>2. Past' = Past
    BY Zenon, <1>1 DEF Past
  <2>3. ASSUME mode = "stream", status["list"] = "ok", (pc \in Draining /\ cur = "list") \/ Past
        PROVE  Read(Len(kept[L]))' = Read(Len(kept[L])) /\ Read(Len(kept[L]))
    <3>1. kept'[L] = kept[L]
      BY Zenon, <2>1, <2>3, DrainedStays
    <3> QED
      BY Zenon, <1>1, <2>3, <3>1 DEF StreamInv, Read
  <2> QED
    BY Zenon, <1>1, <1>3, <1>4, <2>2, <2>3 DEF StreamInv
<1>5. CASE ReaderSame /\ ChannelSame /\ KeptSame
  <2>1. InChannel' = InChannel /\ InReader' = InReader
    BY ZenonT(60), <1>5 DEF InChannel, InReader, ReaderSame, ChannelSame
  <2> QED
    BY Zenon, <1>1, <1>2, <1>4, <1>5, <2>1 DEF InOrder, Read, Rec, ReaderSame, ChannelSame, KeptSame
<1>6. CASE ReaderEnds
  <2>1. /\ thread[L] = "run" /\ thread'[L] = "send" /\ message'[L].kind = "ok"
        /\ channel'[L] = channel[L] /\ kept'[L] = kept[L]
    BY SMTT(30), <1>6 DEF ReaderEnds, ChannelSame, KeptSame, Ok
  <2>2. InChannel' = InChannel /\ InReader' = InReader
    BY ZenonT(60), <2>1 DEF InChannel, InReader
  <2>3. ~(channel[L] # <<>> /\ channel[L][1].kind = "ok")
    BY <1>4, <2>1 DEF InOrder
  <2> QED
    BY ZenonT(60), <1>1, <1>2, <1>4, <2>1, <2>2, <2>3 DEF InOrder
<1>7. CASE ReaderParses
  <2>0. /\ thread[L] = "run" /\ thread'[L] = "send" /\ channel'[L] = channel[L]
        /\ kept'[L] = Append(kept[L], message'[L]) /\ out["list"] # <<>>
        /\ message'[L] \in {Head(out["list"]), Error("hostile")}
    BY Zenon, <1>7 DEF ReaderParses, ChannelSame
  <2>1. Head(out["list"]) = Rec(Len(kept[L]) + 1)
    <3>1. \A j \in 1 .. Len(out["list"]) : out["list"][j] = Rec(Len(kept[L]) + j)
      BY Zenon, <1>4 DEF FlowInv
    <3>2. 1 \in 1 .. Len(out["list"]) /\ Head(out["list"]) = out["list"][1]
      BY SMTT(30), <1>0, <2>0, TailFacts
    <3> QED
      BY Zenon, <3>1, <3>2
  <2>2. /\ message'[L].kind # "ok" /\ (message'[L].kind = "record" => message'[L] = Rec(Len(kept[L]) + 1))
    BY <2>0, <2>1 DEF Rec, Error
  <2>3. message'[L] \in Message
    <3>1. Head(out["list"]) \in Piece
      BY <1>0, <2>0
    <3>2. Piece \subseteq Message /\ Error("hostile") \in Message
      BY Zenon DEF Piece, Message, Error
    <3> QED
      BY ZenonT(60), <2>0, <3>1, <3>2
  <2>4. Len(kept'[L]) = Len(kept[L]) + 1
    BY SMTT(30), <1>0, <2>0, <2>3, AppendFacts
  <2>5. InChannel' = InChannel /\ InReader' = 1 /\ InReader = 0
    BY Zenon, <2>0, <2>2 DEF InChannel, InReader
  <2>6. ~(channel[L] # <<>> /\ channel[L][1].kind = "ok")
    BY ZenonT(60), <1>4, <2>0 DEF InOrder
  <2>7. Len(files) + InHand + InChannel + 1 = Len(kept[L]) + 1
    BY <1>0, <1>2, <1>4, <2>5 DEF InOrder
  <2> QED
    BY Zenon, <1>1, <1>2, <1>4, <2>0, <2>2, <2>4, <2>5, <2>6, <2>7 DEF InOrder
<1>8. CASE ReaderDelivers
  <2>0. /\ thread[L] = "send" /\ thread'[L] \in {"run", "end"} /\ channel[L] = <<>>
        /\ message[L].kind # "record" => thread'[L] = "end"
        /\ channel'[L] = <<message[L]>> /\ kept'[L] = kept[L]
    BY Zenon, <1>4, <1>8 DEF ReaderDelivers, KeptSame
  <2>1. channel'[L] # <<>> /\ channel'[L][1] = message[L]
    BY SMTT(30), <2>0
  <2>2. InChannel = 0 /\ InReader' = 0 /\ InChannel' = InReader
    BY ZenonT(60), <2>0, <2>1 DEF InChannel, InReader
  <2>3. Len(files) + InHand + InReader = Len(kept[L])
    BY SMTT(30), <1>0, <1>2, <1>4, <2>2 DEF InOrder
  <2>4. message[L].kind = "record" => message[L] = Rec(Len(files) + InHand + 1)
    BY <1>4, <2>0, <2>3 DEF InOrder, InReader
  <2>5. Len(files) + InHand + InReader + 0 = Len(kept[L])
    BY SMTT(30), <1>0, <1>2, <2>3
  <2>6. thread'[L] # "send" /\ (message[L].kind = "ok" => thread'[L] = "end")
    BY <2>0
  <2> QED
    BY Zenon, <1>1, <1>2, <1>4, <2>0, <2>1, <2>2, <2>4, <2>5, <2>6 DEF InOrder
<1>9. CASE ListSame \/ ListEmits \/ ListExits \/ ListCrashes \/ ListReports
  BY Zenon, <1>5, <1>9 DEF ListSame, ListEmits, ListExits, ListCrashes, ListReports
<1>10. CASE ReaderFails \/ ReaderSpills \/ ReaderKeeps
  BY Zenon, <1>4, <1>10 DEF ReaderFails, ReaderSpills, ReaderKeeps
<1> QED
  BY Zenon, <1>6, <1>7, <1>8, <1>9, <1>10 DEF ListSteps

\* A request that is taken, answered and delivered stays the one that was made.
LEMMA BlobRequests ==
    ASSUME RequestInv, CallSame, BlobSame \/ BlobSteps
    PROVE  RequestInv'
<1> DEFINE B == "blobOut"
<1>1. UNCHANGED <<mode, pc, cur, then, entry>>
  BY Zenon DEF CallSame
<1>2. CASE BlobSame
  <2>1. Quiet' = Quiet /\ OnItsWay' = OnItsWay /\ Before' = Before
    BY Zenon, <1>1, <1>2 DEF BlobSame, Quiet, OnItsWay, Before
  <2> QED
    BY Zenon, <1>1, <1>2, <2>1 DEF RequestInv, BlobSame
<1>3. CASE BlobSteps
  <2>1. thread[B] \in {"run", "send"} /\ thread'[B] \in {"run", "send", "end"}
    BY <1>3 DEF BlobSteps, TakesRequest, EndsAnswers, Answers, DeliversAnswer
  <2>2. Before' = Before
    BY Zenon, <1>1 DEF Before
  <2>3. Quiet => Quiet'
    <3>1. ASSUME Quiet PROVE EndsAnswers
      BY Zenon, <1>3, <3>1 DEF BlobSteps, TakesRequest, Answers, DeliversAnswer, Quiet
    <3>2. ASSUME Quiet, EndsAnswers PROVE Quiet'
      BY <3>2 DEF Quiet, EndsAnswers
    <3> QED
      BY Zenon, <3>1, <3>2
  <2>4. ASSUME OnItsWay PROVE OnItsWay'
    <3>0. <<entry>> # <<>> /\ <<entry>>[1] = entry
      BY Zenon
    <3>1. CASE TakesRequest
      <4>1. /\ request = <<entry>> /\ kept'[B] = <<entry>> /\ request' = <<>>
            /\ thread'[B] = "run" /\ channel[B] = <<>> /\ channel'[B] = channel[B]
        BY ZenonT(60), <2>4, <3>0, <3>1 DEF OnItsWay, TakesRequest
      <4> QED
        BY Zenon, <1>1, <4>1 DEF OnItsWay
    <3>2. CASE EndsAnswers
      BY <1>1, <2>4, <3>2 DEF OnItsWay, EndsAnswers
    <3>3. CASE Answers
      <4>1. /\ request' = <<>> /\ kept[B] = <<entry>> /\ kept'[B] = <<>> /\ thread'[B] = "send"
            /\ channel'[B] = <<>> /\ (message'[B].kind = "record" => message'[B].id = kept[B][1])
        BY <2>4, <3>3 DEF OnItsWay, Answers
      <4> QED
        BY ZenonT(60), <1>1, <3>0, <4>1 DEF OnItsWay
    <3>4. CASE DeliversAnswer
      <4>1. /\ request' = <<>> /\ kept'[B] = <<>> /\ thread'[B] # "send" /\ channel'[B] = <<message[B]>>
            /\ message[B].kind = "record" => message[B].id = entry
        BY SMTT(30), <2>4, <3>4 DEF OnItsWay, DeliversAnswer
      <4>2. channel'[B] # <<>> /\ channel'[B][1] = message[B]
        BY <4>1
      <4> QED
        BY ZenonT(60), <1>1, <4>1, <4>2 DEF OnItsWay
    <3> QED
      BY Zenon, <1>3, <3>1, <3>2, <3>3, <3>4 DEF BlobSteps
  <2>5. thread[B] # "none" /\ thread'[B] # "none"
    BY <2>1
  <2> QED
    BY ZenonT(60), <1>1, <2>2, <2>3, <2>4, <2>5 DEF RequestInv
<1> QED
  BY Zenon, <1>2, <1>3

\* Processes and threads keep the invariant.
LEMMA BackgroundSnaps ==
    ASSUME Shape, mode # "ask", SnapInv, Background
    PROVE  SnapInv'
<1>1. Domains' /\ CallSame /\ (ListSame \/ ListSteps) /\ (BlobSame \/ BlobSteps)
  BY Zenon, BackgroundSteps DEF SnapInv
<1>2. Carried' /\ StatusInv' /\ FlowInv' /\ EndInv' /\ FileInv' /\ StreamInv' /\ RequestInv'
  BY Zenon, <1>1, ListCarries, ListStatuses, ListFlows, ListEnds, ListCaptured, ListOrders, BlobRequests DEF SnapInv
<1>3. FaultInv' /\ DoneInv'
  BY Zenon, <1>1 DEF SnapInv, CallSame, FaultInv, DoneInv, AllRead, Read
<1> QED
  BY Zenon, <1>1, <1>2, <1>3 DEF SnapInv
=============================================================================
