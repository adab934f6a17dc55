---------------------------- MODULE SnapshotProofs ----------------------------
(* Proof that a snapshot that is returned is complete, for all trees, limits,  *)
(* pipe capacities and numbers of troubles.  TreeSnapshotProofs defines the    *)
(* inductive invariant and shows that processes and threads keep it; here are  *)
(* the steps of the caller, and the theorem.                                   *)
EXTENDS TreeSnapshotProofs

---------------------------------------------------------------------------
(* What the steps of the caller have in common *)

\* What no step of the caller touches.
CallerSame == UNCHANGED <<tree, mode, status, out, emitted, kept, message, overflow>>

\* What its steps, but for those that start a process, do to the rest.
Moves ==
    /\ CallerSame /\ DOMAIN channel' = Thread
    /\ channel'["listOut"] \in {channel["listOut"], <<>>} /\ channel'["blobOut"] \in {channel["blobOut"], <<>>}
    /\ \A t \in {"listOut", "blobOut"} : thread'[t] = thread[t] \/ (thread[t] = "end" /\ thread'[t] = "joined")
    /\ \/ child'["list"] = child["list"]
       \/ child'["list"] = "reaped" /\ (child["list"] \notin {"none", "running"} \/ fault' # "none")
    /\ pc' # "spawnList" /\ (pc' = "spawnBlob" => mode # "stream")
    /\ fault' = fault \/ fault' # "none"
    /\ entry' \in Nat /\ files' \in Seq(File)

\* The part of the invariant that such a step cannot disturb.
LEMMA MovesKeep ==
    ASSUME SnapInv, Moves
    PROVE  /\ Domains' /\ Carried' /\ StatusInv' /\ FlowInv'
           /\ Drained => Drained'
<1> DEFINE L == "listOut"
<1>0. UNCHANGED <<tree, mode, status, out, emitted, kept, message, overflow>>
  BY Zenon DEF Moves, CallerSame
<1>1. /\ channel'[L] \in {channel[L], <<>>} /\ DOMAIN channel' = Thread /\ entry' \in Nat /\ files' \in Seq(File)
      /\ thread'[L] = thread[L] \/ (thread[L] = "end" /\ thread'[L] = "joined")
  BY DEF Moves
<1>2. Domains' /\ FlowInv'
  BY Zenon, <1>0, <1>1 DEF SnapInv, Domains, FlowInv, Rec
<1>3. Carried'
  <2>1. <<>> \in Seq(Message) /\ (thread'[L] = "send" => thread[L] = "send")
    BY <1>1
  <2>2. channel'[L] \in Seq(Message)
    BY Zenon, <1>1, <2>1 DEF SnapInv, Carried
  <2> QED
    BY Zenon, <1>0, <1>1, <2>1, <2>2 DEF SnapInv, Carried
<1>4. StatusInv'
  <2>1. /\ StatusInv
        /\ \/ child'["list"] = child["list"]
           \/ child'["list"] = "reaped" /\ (child["list"] \notin {"none", "running"} \/ fault' # "none")
        /\ pc' # "spawnList" /\ (pc' = "spawnBlob" => mode # "stream")
        /\ fault' = fault \/ fault' # "none"
    BY Zenon DEF SnapInv, Moves
  <2> QED
    BY <1>0, <1>1, <2>1 DEF StatusInv
<1>5. Drained => Drained'
  BY <1>0 DEF Moves, Drained
<1> QED
  BY Zenon, <1>2, <1>3, <1>4, <1>5

\* The caller gives up: the error is on record, and nothing is said of the snapshot.
LEMMA GiveUpSnaps ==
    ASSUME SnapInv, Moves, UNCHANGED <<thread, request, cur, got, files, result>>, pc # "done",
           pc' = "join", fault' \notin {"none", "ok"}, then' \in {"listStatus", "done", "visitFailed"},
           then' = "listStatus" /\ mode # "stream" => Before
    PROVE  SnapInv'
<1>0. UNCHANGED <<tree, mode, message, overflow, kept>>
  BY Zenon DEF Moves, CallerSame
<1>1. Domains' /\ Carried' /\ StatusInv' /\ FlowInv' /\ (Drained => Drained')
  BY Zenon, MovesKeep
<1>2. FaultInv'
  BY DEF SnapInv, FaultInv, Draining, Reading
<1>3. EndInv'
  <2>1. channel'["listOut"] \in {channel["listOut"], <<>>} /\ pc' \notin Draining /\ ~Past'
    BY DEF Moves, Past, Draining
  <2>2. Ended' => Ended
    BY <1>0, <2>1 DEF Ended
  <2> QED
    BY Zenon, <1>0, <1>1, <2>1, <2>2 DEF SnapInv, EndInv
<1>4. FileInv' /\ StreamInv' /\ DoneInv'
  <2>1. pc' \notin Reading \union {"spawnBlob", "spawnList"} \union Draining \union Asking /\ ~Past' /\ ~AllRead'
    BY DEF Reading, Draining, Asking, Past, AllRead
  <2>2. mode' # "stream" /\ Before' => files' = <<>>
    <3>1. Before' => then' = "listStatus"
      BY DEF Before, Draining
    <3> QED
      BY Zenon, <1>0, <3>1 DEF SnapInv, FileInv
  <2> QED
    BY <2>1, <2>2 DEF FileInv, StreamInv, DoneInv
<1>5. RequestInv'
  <2>1. channel'["blobOut"] \in {channel["blobOut"], <<>>}
    BY Zenon DEF Moves
  <2>2. Before' => then' = "listStatus"
    BY DEF Before, Draining
  <2>3. mode' # "stream" /\ Before' => thread'["blobOut"] = "none"
    BY Zenon, <1>0, <2>2 DEF SnapInv, RequestInv
  <2>4. thread'["blobOut"] = "none" => request' = <<>> /\ kept'["blobOut"] = <<>> /\ channel'["blobOut"] = <<>>
    BY <1>0, <2>1 DEF SnapInv, RequestInv
  <2>5. pc' \notin Reading \union {"spawnBlob", "spawnList", "next", "listen", "send", "write", "await"}
    BY DEF Reading
  <2> QED
    BY <2>3, <2>4, <2>5 DEF RequestInv
<1> QED
  BY Zenon, <1>1, <1>2, <1>3, <1>4, <1>5 DEF SnapInv

\* The caller returns, with an error or with all of the tree.
LEMMA ReturnSnaps ==
    ASSUME SnapInv, Moves, UNCHANGED <<thread, channel, request, cur, got, result>>, pc # "done",
           pc' = "done", fault' # "ok", fault' = "none" => Read(Len(tree))'
    PROVE  SnapInv'
<1>0. UNCHANGED <<tree, mode, message, overflow, kept>>
  BY Zenon DEF Moves, CallerSame
<1>1. Domains' /\ Carried' /\ StatusInv' /\ FlowInv' /\ (Drained => Drained')
  BY Zenon, MovesKeep
<1>2. pc' \notin Reading \union Draining \union Asking
      /\ pc' \notin {"spawnBlob", "spawnList", "next", "listen", "send", "write", "await"} /\ ~Past' /\ ~Before'
  BY DEF Reading, Draining, Asking, Past, Before
<1>3. FaultInv'
  BY DEF SnapInv, FaultInv, Draining, Reading
<1>4. EndInv'
  <2>1. Ended' => Ended
    BY <1>0, <1>2 DEF Ended
  <2> QED
    BY Zenon, <1>0, <1>1, <1>2, <2>1 DEF SnapInv, EndInv
<1>5. FileInv' /\ StreamInv' /\ DoneInv'
  BY <1>0, <1>2 DEF FileInv, StreamInv, DoneInv, AllRead
<1>6. RequestInv'
  <2>1. thread'["blobOut"] = "none" => request' = <<>> /\ kept'["blobOut"] = <<>> /\ channel'["blobOut"] = <<>>
    BY <1>0 DEF SnapInv, RequestInv
  <2> QED
    BY <1>2, <2>1 DEF RequestInv
<1> QED
  BY Zenon, <1>1, <1>3, <1>4, <1>5, <1>6 DEF SnapInv

---------------------------------------------------------------------------
(* Joining, and waiting for a process *)

\* Threads are joined.
LEMMA JoinSnaps == ASSUME Shape, LeftInv, SnapInv, Join PROVE SnapInv'
<1>1. /\ CallerSame /\ pc = "join" /\ UNCHANGED <<child, channel, open, request, cur, got, then, fault, entry, files, result>>
  BY Zenon DEF Join, CallerSame, processVars
<1>2. /\ \/ pc' = then /\ thread' = thread
         \/ pc' = pc /\ thread[Head(joins)] = "end" /\ thread' = [thread EXCEPT ![Head(joins)] = "joined"]
      /\ then \in {"listStatus", "done", "blobStatus", "visitFailed"}
  BY DEF Join, LeftInv, JoinInv
<1>3. \A t \in Thread : thread'[t] = thread[t] \/ (thread[t] = "end" /\ thread'[t] = "joined")
  BY <1>2 DEF Shape
<1>4. Moves
  <2>1. entry' \in Nat /\ files' \in Seq(File) /\ DOMAIN channel' = Thread
    BY Zenon, <1>1 DEF SnapInv, Carried, Domains
  <2>2. \A t \in {"listOut", "blobOut"} : thread'[t] = thread[t] \/ (thread[t] = "end" /\ thread'[t] = "joined")
    BY <1>3 DEF Thread
  <2>3. pc' # "spawnList" /\ pc' # "spawnBlob"
    BY <1>1, <1>2
  <2> QED
    BY Zenon, <1>1, <2>1, <2>2, <2>3 DEF Moves
<1>5. Domains' /\ Carried' /\ StatusInv' /\ FlowInv' /\ (Drained => Drained')
  BY Zenon, <1>4, MovesKeep
<1>6. UNCHANGED <<tree, mode, message, overflow, kept>>
  BY Zenon, <1>1 DEF CallerSame
<1>7. /\ pc' \in {"join", "listStatus", "done", "blobStatus", "visitFailed"}
      /\ pc' \notin Reading \union Draining \union Asking
      /\ pc' \notin {"spawnBlob", "spawnList", "next", "listen", "send", "write", "await"}
      /\ pc' = "join" \/ pc' = then
  BY <1>1, <1>2 DEF Reading, Draining, Asking
<1>8. FaultInv'
  BY <1>1, <1>7 DEF SnapInv, FaultInv, Draining, Reading
<1>9. (Past' => Past) /\ (Before' => Before) /\ (AllRead' => AllRead)
  <2>1. pc' = "done" => fault # "none"
    BY <1>1, <1>7 DEF SnapInv, FaultInv
  <2> QED
    BY <1>1, <1>7, <2>1 DEF Past, Before, AllRead
<1>10. thread'["listOut"] = "send" => thread["listOut"] = "send"
  BY <1>3 DEF Thread
<1>11. EndInv'
  <2>1. Ended' => Ended
    BY Zenon, <1>1, <1>6, <1>7, <1>10 DEF Ended
  <2> QED
    BY Zenon, <1>5, <1>6, <1>9, <2>1 DEF SnapInv, EndInv
<1>12. \A n : Read(n)' = Read(n)
  BY Zenon, <1>1, <1>6 DEF Read
<1>13. FileInv' /\ DoneInv'
  BY Zenon, <1>1, <1>6, <1>7, <1>9, <1>12 DEF SnapInv, FileInv, DoneInv, Read
<1>14. StreamInv'
  <2>1. Read(Len(kept["listOut"]))' = Read(Len(kept["listOut"])) /\ status' = status
    BY Zenon, <1>1, <1>6 DEF Read, CallerSame
  <2> QED
    BY Zenon, <1>6, <1>7, <1>9, <2>1 DEF SnapInv, StreamInv
<1>15. RequestInv'
  <2>1. thread'["blobOut"] = "none" <=> thread["blobOut"] = "none"
    BY <1>3 DEF Thread
  <2> QED
    BY Zenon, <1>1, <1>6, <1>7, <1>9, <2>1 DEF SnapInv, RequestInv
<1> QED
  BY Zenon, <1>5, <1>8, <1>11, <1>13, <1>14, <1>15 DEF SnapInv

\* A turn of the loop that waits for a process and the readers of its pipes.
LEMMA TurnSnaps ==
    ASSUME SnapInv, Moves, UNCHANGED <<thread, request, cur, then, fault, entry, files, result>>,
           pc \in Draining, pc' \in Draining,
           "out" \in got' /\ cur = "list" =>
               "out" \in got \/ (channel["listOut"] # <<>> /\ channel["listOut"][1].kind = "ok")
    PROVE  SnapInv'
<1>0. UNCHANGED <<tree, mode, status, message, overflow, kept>>
  BY Zenon DEF Moves, CallerSame
<1>1. Domains' /\ Carried' /\ StatusInv' /\ FlowInv' /\ (Drained => Drained')
  BY Zenon, MovesKeep
<1>2. /\ pc' \notin Reading \union {"spawnBlob", "spawnList", "blobStatus", "listStatus", "join", "done", "visitFailed"}
      /\ pc' \notin {"next", "listen", "send", "write", "await"}
      /\ pc' \notin Asking /\ ~Past' /\ (Before' => Before) /\ (AllRead' => AllRead) /\ pc # "done"
  BY DEF Reading, Draining, Asking, Past, Before, AllRead
<1>3. FaultInv'
  <2>1. pc \in Draining \union Reading \union {"spawnList", "spawnBlob", "blobStatus"}
    BY DEF Draining
  <2>2. fault = "none" /\ result = "none"
    BY Zenon, <1>2, <2>1 DEF SnapInv, FaultInv
  <2> QED
    BY <1>2, <2>2 DEF FaultInv
<1>4. EndInv'
  <2>1. channel'["listOut"] \in {channel["listOut"], <<>>}
    BY Zenon DEF Moves
  <2>2. Ended' => Ended
    BY <1>0, <2>1 DEF Ended
  <2> QED
    BY Zenon, <1>0, <1>1, <1>2, <2>2 DEF SnapInv, EndInv
<1>5. \A n : Read(n)' = Read(n)
  BY Zenon, <1>0 DEF Read
<1>6. FileInv' /\ DoneInv' /\ StreamInv'
  <2>1. FileInv'
    BY <1>0, <1>2 DEF SnapInv, FileInv
  <2>2. DoneInv'
    BY Zenon, <1>0, <1>2, <1>5 DEF SnapInv, DoneInv, Read
  <2>3. Read(Len(kept["listOut"]))' = Read(Len(kept["listOut"]))
    BY Zenon, <1>0 DEF Read
  <2>4. pc' \notin Reading \union {"spawnList", "spawnBlob"}
    BY <1>2
  <2>5. StreamInv'
    BY Zenon, <1>0, <1>2, <2>3, <2>4 DEF SnapInv, StreamInv
  <2> QED
    BY Zenon, <2>1, <2>2, <2>5
<1>7. RequestInv'
  <2>1. channel'["blobOut"] \in {channel["blobOut"], <<>>}
    BY Zenon DEF Moves
  <2>2. thread'["blobOut"] = "none" => request' = <<>> /\ kept'["blobOut"] = <<>> /\ channel'["blobOut"] = <<>>
    BY <1>0, <2>1 DEF SnapInv, RequestInv
  <2>3. mode' # "stream" /\ Before' => thread'["blobOut"] = "none"
    BY Zenon, <1>0, <1>2 DEF SnapInv, RequestInv
  <2> QED
    BY <1>2, <2>2, <2>3 DEF RequestInv
<1> QED
  BY Zenon, <1>1, <1>3, <1>4, <1>6, <1>7 DEF SnapInv

\* The loop has everything: the readers have ended, and exceeded no limit.
LEMMA CompleteSnaps ==
    ASSUME SnapInv, Moves, UNCHANGED <<thread, channel, request, cur, got, fault, entry, files, result>>,
           pc \in Draining, pc' = "join", then' = IF cur = "list" THEN "listStatus" ELSE "blobStatus",
           cur \in Process, cur = "list" => "listOut" \notin overflow /\ (mode # "stream" => "out" \in got)
    PROVE  SnapInv'
<1>0. UNCHANGED <<tree, mode, status, message, overflow, kept>>
  BY Zenon DEF Moves, CallerSame
<1>1. Domains' /\ Carried' /\ StatusInv' /\ FlowInv' /\ (Drained => Drained')
  BY Zenon, MovesKeep
<1>2. /\ pc' \notin Reading \union Draining \union Asking
      /\ pc' \notin {"spawnBlob", "spawnList", "next", "listen", "send", "write", "await"}
      /\ (Past' => cur = "list") /\ (Before' => Before) /\ (AllRead' => AllRead) /\ pc # "done"
  BY DEF Reading, Draining, Asking, Past, Before, AllRead, Process
<1>3. FaultInv'
  <2>1. pc \in Draining \union Reading \union {"spawnList", "spawnBlob", "blobStatus"}
    BY DEF Draining
  <2>2. fault = "none" /\ result = "none"
    BY Zenon, <1>2, <2>1 DEF SnapInv, FaultInv
  <2>3. then' \notin {"done", "visitFailed"} /\ pc' # "visitFailed"
    OBVIOUS
  <2> QED
    BY <2>2, <2>3 DEF FaultInv
<1>4. EndInv'
  <2>1. Ended' => Ended
    BY <1>0, <1>2 DEF Ended
  <2>2. ASSUME cur = "list" PROVE Drained
    <3>1. Ended /\ "listOut" \notin overflow
      BY <2>2 DEF Ended
    <3> QED
      BY Zenon, <3>1 DEF SnapInv, EndInv
  <2> QED
    BY ZenonT(60), <1>0, <1>1, <1>2, <2>1, <2>2 DEF SnapInv, EndInv
<1>5. \A n : Read(n)' = Read(n)
  BY Zenon, <1>0 DEF Read
<1>6. FileInv' /\ DoneInv' /\ StreamInv'
  <2>1. FileInv'
    BY <1>0, <1>2 DEF SnapInv, FileInv
  <2>2. DoneInv'
    BY Zenon, <1>0, <1>2, <1>5 DEF SnapInv, DoneInv, Read
  <2>3. Read(Len(kept["listOut"]))' = Read(Len(kept["listOut"]))
    BY Zenon, <1>0 DEF Read
  <2>4. pc' \notin Reading \union {"spawnList", "spawnBlob"}
    BY <1>2
  <2>5. StreamInv'
    BY Zenon, <1>0, <1>2, <2>3, <2>4 DEF SnapInv, StreamInv
  <2> QED
    BY Zenon, <2>1, <2>2, <2>5
<1>7. RequestInv'
  <2>1. thread'["blobOut"] = "none" => request' = <<>> /\ kept'["blobOut"] = <<>> /\ channel'["blobOut"] = <<>>
    BY Zenon, <1>0 DEF SnapInv, RequestInv
  <2>2. mode' # "stream" /\ Before' => thread'["blobOut"] = "none"
    BY Zenon, <1>0, <1>2 DEF SnapInv, RequestInv
  <2> QED
    BY <1>2, <2>1, <2>2 DEF RequestInv
<1> QED
  BY Zenon, <1>1, <1>3, <1>4, <1>6, <1>7 DEF SnapInv

\* What the caller takes from the channels.
Receives ==
    /\ DOMAIN channel' = Thread
    /\ channel'["listOut"] \in {channel["listOut"], <<>>} /\ channel'["blobOut"] \in {channel["blobOut"], <<>>}

\* FailList and Abort, with any error.
LEMMA FailListSnaps ==
    ASSUME Shape, SnapInv, NEW error, FailList(error), error \notin {"none", "ok"}, CallerSame, Receives,
           UNCHANGED <<thread, request, cur, got, entry, files, result>>, pc # "done", mode # "stream" => Before
    PROVE  SnapInv'
<1>1. child' = [child EXCEPT !["list"] = "reaped"] /\ fault' = error /\ pc' = "join" /\ then' = "listStatus"
  BY Zenon DEF FailList, terminate_process_group, JoinThen
<1>2. child'["list"] = "reaped" /\ fault' # "none" /\ pc' # "spawnList" /\ pc' # "spawnBlob"
  BY <1>1 DEF Shape, Process
<1>3. entry' \in Nat /\ files' \in Seq(File)
  BY Zenon DEF SnapInv, Carried
<1>4. Moves
  BY Zenon, <1>2, <1>3 DEF Moves, Receives
<1>5. fault' \notin {"none", "ok"} /\ then' \in {"listStatus", "done", "visitFailed"}
  BY Zenon, <1>1
<1> QED
  BY Zenon, <1>1, <1>4, <1>5, GiveUpSnaps

\* The same for the blob process.
LEMMA AbortSnaps ==
    ASSUME Shape, SnapInv, NEW error, NEW next, Abort(error, next), next \in {"done", "visitFailed"},
           error \notin {"none", "ok"}, CallerSame, Receives,
           UNCHANGED <<thread, request, cur, got, entry, files, result>>, pc # "done"
    PROVE  SnapInv'
<1>1. child' = [child EXCEPT !["blob"] = "reaped"] /\ fault' = error /\ pc' = "join" /\ then' = next
  BY Zenon DEF Abort, terminate_process_group, JoinThen
<1>2. child'["list"] = child["list"] /\ fault' # "none" /\ pc' # "spawnList" /\ pc' # "spawnBlob"
  BY <1>1 DEF Shape, Process
<1>3. entry' \in Nat /\ files' \in Seq(File)
  BY Zenon DEF SnapInv, Carried
<1>4. Moves
  BY Zenon, <1>2, <1>3 DEF Moves, Receives
<1>5. fault' \notin {"none", "ok"} /\ then' \in {"listStatus", "done", "visitFailed"} /\ then' # "listStatus"
  BY <1>1
<1> QED
  BY Zenon, <1>1, <1>4, <1>5, GiveUpSnaps

\* Waiting for a process fails.
LEMMA FailDrainSnaps ==
    ASSUME Shape, SnapInv, pc \in Draining, NEW error, FailDrain(error), error \notin {"none", "ok"}, CallerSame,
           Receives, UNCHANGED <<thread, request, cur, got, entry, files, result>>
    PROVE  SnapInv'
<1>1. pc # "done" /\ (cur = "list" => Before)
  BY DEF Draining, Before
<1>2. CASE cur = "list"
  BY Zenon, <1>1, <1>2, FailListSnaps DEF FailDrain
<1>3. CASE cur # "list"
  BY Zenon, <1>1, <1>3, AbortSnaps DEF FailDrain
<1> QED
  BY Zenon, <1>2, <1>3

\* try_recv on the channel of a reader.
LEMMA PollSnaps ==
    ASSUME Shape, SnapInv, pc \in Draining, NEW next \in Draining,
           \/ Poll("out", OutOf(cur), next)
           \/ Poll("err", ErrOf(cur), next)
    PROVE  SnapInv'
<1>1. PICK what \in {"out", "err"}, t \in Thread :
        /\ Poll(what, t, next) /\ (what = "out" => t = OutOf(cur)) /\ (what = "err" => t = ErrOf(cur))
  <2>1. OutOf(cur) \in Thread /\ ErrOf(cur) \in Thread
    BY DEF OutOf, ErrOf, Thread
  <2> QED
    BY Zenon, <2>1
<1>2. CallerSame /\ UNCHANGED <<thread, request, cur, entry, files, result>>
  BY Zenon, <1>1 DEF Poll, LoopUnchanged, CallerSame
<1>3. CASE pc' = next /\ UNCHANGED <<got, channel, child, holds, fault, open, joins, then>>
  <2>1. Moves
    <3>1. entry' \in Nat /\ files' \in Seq(File) /\ DOMAIN channel' = Thread
      BY Zenon, <1>2, <1>3 DEF SnapInv, Carried, Domains
    <3>2. pc' # "spawnList" /\ pc' # "spawnBlob"
      BY <1>3 DEF Draining
    <3> QED
      BY Zenon, <1>2, <1>3, <3>1, <3>2 DEF Moves
  <2> QED
    BY Zenon, <1>2, <1>3, <2>1, TurnSnaps
<1>4. ASSUME channel' = [channel EXCEPT ![t] = <<>>] PROVE Receives
  BY <1>4 DEF Receives, SnapInv, Domains, Thread
<1>5. CASE /\ channel[t] # <<>> /\ channel' = [channel EXCEPT ![t] = <<>>] /\ channel[t][1].kind = "ok"
           /\ got' = got \union {what} /\ pc' = next /\ UNCHANGED <<child, holds, fault, open, joins, then>>
  <2>1. Moves
    <3>1. entry' \in Nat /\ files' \in Seq(File)
      BY Zenon, <1>2 DEF SnapInv, Carried
    <3>2. pc' # "spawnList" /\ pc' # "spawnBlob"
      BY <1>5 DEF Draining
    <3> QED
      BY Zenon, <1>2, <1>4, <1>5, <3>1, <3>2 DEF Moves, Receives
  <2>2. "out" \in got' /\ cur = "list" =>
            "out" \in got \/ (channel["listOut"] # <<>> /\ channel["listOut"][1].kind = "ok")
    <3>1. cur = "list" /\ what = "out" => t = "listOut"
      BY <1>1 DEF OutOf
    <3>2. what # "out" => ("out" \in got' => "out" \in got)
      BY <1>5
    <3> QED
      BY Zenon, <1>5, <3>1, <3>2
  <2> QED
    BY Zenon, <1>2, <1>5, <2>1, <2>2, TurnSnaps
<1>6. CASE channel' = [channel EXCEPT ![t] = <<>>] /\ FailDrain("io") /\ UNCHANGED got
  <2>1. "io" \notin {"none", "ok"}
    OBVIOUS
  <2> QED
    BY Zenon, <1>2, <1>4, <1>6, <2>1, FailDrainSnaps
<1> QED
  BY Zenon, <1>1, <1>3, <1>5, <1>6 DEF Poll

\* The loop that waits for a process and the readers of its pipes.
LEMMA DrainSnaps ==
    ASSUME Shape, LeftInv, SnapInv, PollOut \/ PollErr \/ TryWait \/ Check \/ CheckTimeout
    PROVE  SnapInv'
<1>1. CASE PollOut \/ PollErr
  <2>1. pc \in Draining /\ "pollErr" \in Draining /\ "tryWait" \in Draining
    BY <1>1 DEF PollOut, PollErr, Draining
  <2> QED
    BY Zenon, <1>1, <2>1, PollSnaps DEF PollOut, PollErr
<1>2. pc \in {"tryWait", "check"} => pc \in Draining /\ pc # "done"
  BY DEF Draining
<1>3. entry \in Nat /\ files \in Seq(File) /\ DOMAIN channel = Thread
  BY Zenon DEF SnapInv, Carried, Domains
<1>4. CASE TryWait
  <2>1. /\ CallerSame /\ UNCHANGED <<thread, channel, request, cur, then, fault, entry, files, result>>
        /\ pc = "tryWait" /\ pc' = "check"
        /\ \/ child[cur] = "exited" /\ child' = [child EXCEPT ![cur] = "reaped"] /\ got' = got \union {"status"}
           \/ UNCHANGED <<child, got>>
    BY Zenon, <1>4 DEF TryWait, LoopUnchanged, CallerSame
  <2>2. pc' \in Draining /\ pc' # "spawnList" /\ pc' # "spawnBlob" /\ ("out" \in got' => "out" \in got)
    BY <2>1 DEF Draining
  <2>3. \/ child'["list"] = child["list"]
        \/ child'["list"] = "reaped" /\ child["list"] \notin {"none", "running"}
    BY <2>1 DEF Shape, Process
  <2>4. Moves
    BY Zenon, <1>3, <2>1, <2>2, <2>3 DEF Moves
  <2> QED
    BY Zenon, <1>2, <2>1, <2>2, <2>4, TurnSnaps
<1>5. CASE Check \/ CheckTimeout
  <2>1. /\ CallerSame /\ UNCHANGED <<thread, channel, request, cur, got, entry, files, result>> /\ pc = "check"
        /\ \/ FailDrain(OverflowError) \/ FailDrain("timeout")
           \/ Exceeded = {} /\ got = Wanted /\ Complete
           \/ Again
    BY Zenon, <1>5 DEF Check, CheckTimeout, LoopUnchanged, CallerSame
  <2>2. CASE FailDrain(OverflowError) \/ FailDrain("timeout")
    <3>1. Receives
      BY Zenon, <1>3, <2>1 DEF Receives
    <3>2. OverflowError \notin {"none", "ok"} /\ "timeout" \notin {"none", "ok"}
      BY DEF OverflowError
    <3> QED
      BY Zenon, <1>2, <2>1, <2>2, <3>1, <3>2, FailDrainSnaps
  <2>3. CASE Exceeded = {} /\ got = Wanted /\ Complete
    <3>1. /\ pc' = "join" /\ then' = (IF cur = "list" THEN "listStatus" ELSE "blobStatus")
          /\ UNCHANGED <<child, fault>>
      BY Zenon, <2>3 DEF Complete, JoinThen
    <3>2. pc' # "spawnList" /\ pc' # "spawnBlob"
      BY <3>1
    <3>3. Moves
      BY Zenon, <1>3, <2>1, <3>1, <3>2 DEF Moves
    <3>4. cur = "list" => "listOut" \notin overflow /\ (mode # "stream" => "out" \in got)
      BY <2>3 DEF Exceeded, OutOf, Wanted
    <3>5. cur \in Process
      BY Zenon DEF Shape
    <3> QED
      BY Zenon, <1>2, <2>1, <3>1, <3>3, <3>4, <3>5, CompleteSnaps
  <2>4. CASE Again
    <3>1. pc' = "pollOut" /\ UNCHANGED <<child, fault, then>>
      BY Zenon, <2>4 DEF Again
    <3>2. pc' \in Draining /\ pc' # "spawnList" /\ pc' # "spawnBlob"
      BY <3>1 DEF Draining
    <3>3. Moves
      BY Zenon, <1>3, <2>1, <3>1, <3>2 DEF Moves
    <3> QED
      BY Zenon, <1>2, <2>1, <3>1, <3>2, <3>3, TurnSnaps
  <2> QED
    BY Zenon, <2>1, <2>2, <2>3, <2>4
<1> QED
  BY Zenon, <1>1, <1>4, <1>5

---------------------------------------------------------------------------
(* The end of a process, and its start *)

\* A listing that has ended without an error is there as a whole.
LEMMA ListedWhole ==
    ASSUME SnapInv, Past, status["list"] = "ok"
    PROVE  /\ Drained /\ emitted = Len(tree) /\ Len(kept["listOut"]) = Len(tree) /\ Len(tree) \in Nat
           /\ mode # "stream" => Listed
           /\ mode = "stream" => Read(Len(tree))
<1>1. Drained /\ "listOut" \notin overflow
  BY Zenon DEF SnapInv, EndInv
<1>2. emitted = Len(tree)
  BY <1>1 DEF SnapInv, StatusInv, Drained, Past
<1>3. /\ Len(kept["listOut"]) + Len(out["list"]) = emitted
      /\ mode # "stream" => \A j \in 1 .. Len(kept["listOut"]) : kept["listOut"][j] = Rec(j)
  BY Zenon, <1>1 DEF SnapInv, FlowInv
<1>4. Len(kept["listOut"]) = Len(tree) /\ Len(tree) \in Nat
  <2>1. Len(kept["listOut"]) \in Nat /\ Len(out["list"]) = 0 /\ Len(tree) \in Nat
    BY <1>1 DEF SnapInv, Carried, Drained
  <2> QED
    BY SMTT(30), <1>2, <1>3, <2>1
<1>5. mode = "stream" => Read(Len(kept["listOut"]))
  BY Zenon DEF SnapInv, StreamInv
<1> QED
  BY Zenon, <1>1, <1>2, <1>3, <1>4, <1>5 DEF Listed

\* The listing has been captured, and its entries are read next.
LEMMA CaptureSnaps ==
    ASSUME SnapInv, Moves, UNCHANGED <<thread, channel, request, cur, then, fault, entry, files, result>>,
           pc = "listStatus", mode = "file", fault = "none", status["list"] = "ok", pc' = "spawnBlob", got' = {}
    PROVE  SnapInv'
<1>0. UNCHANGED <<tree, mode, status, message, overflow, kept>>
  BY Zenon DEF Moves, CallerSame
<1>1. Domains' /\ Carried' /\ StatusInv' /\ FlowInv' /\ (Drained => Drained')
  BY Zenon, MovesKeep
<1>2. Past /\ Before /\ mode # "stream"
  BY DEF Past, Before
<1>3. Drained /\ Listed
  BY Zenon, <1>2, ListedWhole
<1>4. /\ pc' \notin Reading \union Draining \union Asking
      /\ pc' \notin {"spawnList", "blobStatus", "listStatus", "join", "done", "visitFailed", "write", "await"}
      /\ ~Past' /\ ~Before' /\ ~AllRead'
  BY DEF Reading, Draining, Asking, Past, Before, AllRead
<1>5. FaultInv'
  BY <1>4 DEF SnapInv, FaultInv
<1>6. EndInv'
  <2>1. Drained'
    BY Zenon, <1>1, <1>3
  <2> QED
    BY Zenon, <1>4, <2>1 DEF EndInv
<1>7. FileInv' /\ DoneInv' /\ StreamInv'
  <2>1. files = <<>>
    BY Zenon, <1>2 DEF SnapInv, FileInv
  <2>2. Drained' /\ Listed'
    BY Zenon, <1>0, <1>1, <1>3 DEF Listed, Rec
  <2>3. mode' # "stream"
    BY <1>0
  <2> QED
    BY Zenon, <1>4, <2>1, <2>2, <2>3 DEF FileInv, DoneInv, StreamInv
<1>8. RequestInv'
  <2>1. thread["blobOut"] = "none"
    BY Zenon, <1>2 DEF SnapInv, RequestInv
  <2>2. Quiet' /\ thread'["blobOut"] = "none"
    BY <1>0, <2>1 DEF SnapInv, RequestInv, Quiet
  <2>3. mode' # "stream"
    BY <1>0
  <2> QED
    BY Zenon, <1>4, <2>2, <2>3 DEF RequestInv, Quiet
<1> QED
  BY ZenonT(60), <1>1, <1>5, <1>6, <1>7, <1>8 DEF SnapInv

\* The entries are over, and the blob process is waited for.
LEMMA OverSnaps ==
    ASSUME SnapInv, Moves, UNCHANGED <<thread, channel, request, then, fault, entry, files, result>>,
           pc' = "pollErr", cur' = "blob", fault = "none", pc # "done", Read(Len(tree)),
           "out" \in got' => "out" \in got
    PROVE  SnapInv'
<1>0. UNCHANGED <<tree, mode, status, message, overflow, kept>>
  BY Zenon DEF Moves, CallerSame
<1>1. Domains' /\ Carried' /\ StatusInv' /\ FlowInv' /\ (Drained => Drained')
  BY Zenon, MovesKeep
<1>2. /\ pc' \notin Reading \union Asking
      /\ pc' \notin {"spawnBlob", "spawnList", "blobStatus", "listStatus", "join", "done", "visitFailed"}
      /\ pc' \notin {"next", "listen", "send", "write", "await"}
      /\ ~Past' /\ ~Before' /\ cur' # "list"
  BY DEF Reading, Draining, Asking, Past, Before
<1>3. FaultInv'
  BY <1>2 DEF SnapInv, FaultInv
<1>4. EndInv'
  <2>1. Ended' => Ended
    BY <1>0, <1>2 DEF Ended
  <2> QED
    BY Zenon, <1>0, <1>1, <1>2, <2>1 DEF SnapInv, EndInv
<1>5. Read(Len(tree))'
  BY Zenon, <1>0 DEF Read
<1>6. FileInv' /\ DoneInv' /\ StreamInv'
  BY Zenon, <1>2, <1>5 DEF FileInv, DoneInv, StreamInv
<1>7. RequestInv'
  <2>1. thread'["blobOut"] = "none" => request' = <<>> /\ kept'["blobOut"] = <<>> /\ channel'["blobOut"] = <<>>
    BY Zenon, <1>0 DEF SnapInv, RequestInv
  <2> QED
    BY <1>2, <2>1 DEF RequestInv
<1> QED
  BY Zenon, <1>1, <1>3, <1>4, <1>6, <1>7 DEF SnapInv

\* The threads of a process are joined, and its status decides.
LEMMA StatusSnaps ==
    ASSUME Shape, LeftInv, SnapInv, mode # "ask", ListStatus \/ BlobStatus \/ Answered \/ Captured
    PROVE  SnapInv'
<1>1. entry \in Nat /\ files \in Seq(File) /\ DOMAIN channel = Thread
  BY Zenon DEF SnapInv, Carried, Domains
<1>2. fault # "ok" /\ (pc = "listStatus" /\ fault = "none" => Past)
  BY Zenon DEF SnapInv, FaultInv, Past
<1>3. ASSUME NEW error, Returned(error), CallerSame, UNCHANGED <<thread, channel, request, entry, result>>,
             files' \in Seq(File), pc # "done", error # "ok", error = fault \/ error # "none",
             error = "none" => Read(Len(tree))'
      PROVE  SnapInv'
  <2>1. fault' = error /\ pc' = "done" /\ UNCHANGED <<child, cur, got>>
    BY Zenon, <1>3 DEF Returned
  <2>2. pc' # "spawnList" /\ pc' # "spawnBlob"
    BY <2>1
  <2>3. Moves
    BY Zenon, <1>1, <1>3, <2>1, <2>2 DEF Moves
  <2> QED
    BY Zenon, <1>3, <2>1, <2>3, ReturnSnaps
<1>4. CASE ListStatus
  <2> DEFINE error == IF fault = "none" /\ status["list"] # "ok" THEN "exit" ELSE fault
  <2>1. /\ CallerSame /\ UNCHANGED <<thread, channel, request, entry, files, result>>
        /\ pc = "listStatus" /\ mode \in {"file", "stream"}
    BY Zenon, <1>4 DEF ListStatus, CallerSame, threadVars
  <2>2. \/ error # "none" /\ Abort(error, "done") /\ UNCHANGED <<cur, got>>
        \/ error # "none" /\ Returned(error)
        \/ /\ error = "none" /\ got' = {} /\ UNCHANGED <<child, then, fault>>
           /\ \/ mode = "file" /\ pc' = "spawnBlob" /\ UNCHANGED cur
              \/ mode = "stream" /\ pc' = "pollErr" /\ cur' = "blob"
    BY <1>4, <2>1 DEF ListStatus
  <2>3. error # "ok" /\ (error = "none" => fault = "none" /\ status["list"] = "ok") /\ pc # "done"
    BY <1>2, <2>1
  <2> HIDE DEF error
  <2>4. CASE error # "none" /\ Abort(error, "done") /\ UNCHANGED <<cur, got>>
    <3>1. Receives
      BY Zenon, <1>1, <2>1 DEF Receives
    <3>2. error \notin {"none", "ok"}
      BY <2>3, <2>4
    <3> QED
      BY Zenon, <2>1, <2>3, <2>4, <3>1, <3>2, AbortSnaps
  <2>5. CASE error # "none" /\ Returned(error)
    BY Zenon, <1>1, <1>3, <2>1, <2>3, <2>5
  <2>6. ASSUME error = "none", UNCHANGED <<child, fault>>, pc' # "spawnList", pc' = "spawnBlob" => mode # "stream"
        PROVE  Moves
    BY Zenon, <1>1, <2>1, <2>6 DEF Moves
  <2>7. CASE /\ error = "none" /\ got' = {} /\ UNCHANGED <<child, then, fault>>
             /\ mode = "file" /\ pc' = "spawnBlob" /\ UNCHANGED cur
    <3>1. Moves
      BY <2>6, <2>7
    <3> QED
      BY Zenon, <2>1, <2>3, <2>7, <3>1, CaptureSnaps
  <2>8. CASE /\ error = "none" /\ got' = {} /\ UNCHANGED <<child, then, fault>>
             /\ mode = "stream" /\ pc' = "pollErr" /\ cur' = "blob"
    <3>1. Moves
      BY <2>6, <2>8
    <3>2. Read(Len(tree))
      BY Zenon, <1>2, <2>1, <2>3, <2>8, ListedWhole
    <3>3. "out" \in got' => "out" \in got
      BY <2>8
    <3> QED
      BY ZenonT(60), <2>1, <2>3, <2>8, <3>1, <3>2, <3>3, OverSnaps
  <2> QED
    BY Zenon, <2>2, <2>4, <2>5, <2>7, <2>8
<1>5. CASE BlobStatus
  <2>1. /\ CallerSame /\ UNCHANGED <<thread, channel, request, entry, files, result>> /\ pc = "blobStatus"
        /\ \E error \in {"exit", "none"} : Returned(error)
    BY <1>5 DEF BlobStatus, CallerSame, threadVars
  <2>2. pc # "done" /\ Read(Len(tree)) /\ fault = "none"
    BY <2>1 DEF SnapInv, DoneInv, AllRead, FaultInv
  <2>3. Read(Len(tree))'
    BY Zenon, <2>1, <2>2 DEF Read, CallerSame
  <2>4. "exit" # "ok" /\ "none" # "ok" /\ "exit" # "none"
    OBVIOUS
  <2> QED
    BY Zenon, <1>1, <1>3, <2>1, <2>2, <2>3, <2>4
<1>6. CASE Captured
  <2> DEFINE error == IF fault = "none" /\ status["list"] # "ok" THEN "exit" ELSE fault
             K == kept["listOut"]
  <2>1. /\ CallerSame /\ UNCHANGED <<thread, channel, request, entry, result>> /\ pc = "listStatus" /\ mode = "output"
        /\ Returned(error) /\ files' = [i \in 1 .. Len(K) |-> [path |-> K[i].id, blob |-> K[i].id]]
    BY Zenon, <1>6 DEF Captured, CallerSame, threadVars
  <2>2. error # "ok" /\ (error = "none" => fault = "none" /\ status["list"] = "ok") /\ pc # "done"
        /\ (error = fault \/ error # "none")
    BY <1>2, <2>1
  <2>3. files' \in Seq(File)
    <3>1. K \in Seq(Message) /\ Len(K) \in Nat
      BY DEF SnapInv, Carried
    <3>2. ASSUME NEW i \in 1 .. Len(K) PROVE [path |-> K[i].id, blob |-> K[i].id] \in File
      <4>1. K[i] \in Message
        BY <3>1
      <4> QED
        BY <4>1 DEF Message, File
    <3> HIDE DEF K
    <3>3. files' \in [1 .. Len(K) -> File]
      BY <2>1, <3>2
    <3> QED
      BY <3>1, <3>3
  <2>4. ASSUME error = "none" PROVE Read(Len(tree))'
    <3>1. Listed /\ Len(K) = Len(tree) /\ Len(tree) \in Nat /\ tree' = tree
      BY ZenonT(60), <1>2, <2>1, <2>2, <2>4, ListedWhole DEF CallerSame
    <3>2. ASSUME NEW j \in 1 .. Len(tree) PROVE files'[j] = [path |-> tree[j], blob |-> tree[j]]
      <4>1. K[j] = Rec(j)
        BY Zenon, <3>1, <3>2 DEF Listed
      <4>2. K[j].id = tree[j]
        BY SMTT(30), <4>1 DEF Rec
      <4> QED
        BY Zenon, <2>1, <3>1, <4>2
    <3>3. Len(files') = Len(tree)
      BY <2>1, <3>1
    <3> QED
      BY ZenonT(60), <3>1, <3>2, <3>3 DEF Read
  <2> HIDE DEF error
  <2> QED
    BY Zenon, <1>3, <2>1, <2>2, <2>3, <2>4
<1>7. CASE Answered
  BY Zenon, <1>7 DEF Answered
<1> QED
  BY Zenon, <1>4, <1>5, <1>6, <1>7

\* The listing is started.
LEMMA SpawnListSnaps ==
    ASSUME Shape, LeftInv, SnapInv, mode # "ask", SpawnList PROVE SnapInv'
<1> DEFINE L == "listOut"
<1>1. /\ CallerSame /\ UNCHANGED <<channel, request, open, cur, got, then, fault, entry, files, result>>
      /\ pc = "spawnList" /\ pc' = (IF mode = "stream" THEN "listen" ELSE "pollOut")
      /\ child' = [child EXCEPT !["list"] = "running"]
      /\ thread' = [thread EXCEPT ![OutOf("list")] = "run", ![ErrOf("list")] = "run"]
  BY Zenon DEF SpawnList, Spawn, CallerSame
<1>2. child'["list"] = "running" /\ thread'[L] = "run" /\ thread'["blobOut"] = thread["blobOut"]
  BY <1>1 DEF Shape, Process, Thread, OutOf, ErrOf
<1>3. UNCHANGED <<tree, mode, status, out, emitted, kept, message, overflow>>
  BY Zenon, <1>1 DEF CallerSame
<1>4. cur = "list" /\ got = {}
  BY ZenonT(60), <1>1 DEF LeftInv, PlaceInv
<1>5. child["list"] = "none" /\ channel[L] = <<>> /\ kept[L] = <<>> /\ status["list"] = "ok"
  BY <1>1 DEF SnapInv, StatusInv
<1>6. Domains' /\ Carried' /\ FlowInv'
  <2>1. thread'[L] # "send"
    BY <1>2
  <2> QED
    BY Zenon, <1>1, <1>3, <2>1 DEF SnapInv, Domains, Carried, FlowInv, Rec
<1>7. FaultInv'
  BY ZenonT(60), <1>1 DEF SnapInv, FaultInv, Draining, Reading
<1>8. StatusInv'
  BY ZenonT(60), <1>1, <1>2, <1>3, <1>5 DEF StatusInv
<1>9. EndInv'
  BY ZenonT(60), <1>1, <1>2, <1>3, <1>4, <1>5 DEF EndInv, Ended, Past, Draining
<1>10. files = <<>> /\ Before /\ (mode = "stream" => "entry_rx" \in open)
  BY Zenon, <1>1 DEF SnapInv, FileInv, StreamInv, Before
<1>11. FileInv' /\ DoneInv'
  BY ZenonT(60), <1>1, <1>3, <1>4, <1>10 DEF FileInv, DoneInv, AllRead, Reading, Draining, Asking
<1>12. StreamInv'
  <2>1. Read(0)' /\ Len(files') = 0 /\ Len(kept'[L]) = 0
    BY SMTT(30), <1>1, <1>3, <1>5, <1>10 DEF Read
  <2>2. ASSUME mode = "stream" PROVE InOrder'
    <3>1. InHand' = 0 /\ InChannel' = 0 /\ InReader' = 0 /\ pc' \notin Asking
      BY ZenonT(60), <1>1, <1>2, <1>5, <2>2 DEF InHand, InChannel, InReader, Asking
    <3>2. Len(files') + InHand' + InChannel' + InReader' = Len(kept'[L]) /\ Read(Len(files))'
      BY SMTT(30), <2>1, <3>1 DEF Read
    <3> QED
      BY ZenonT(60), <1>1, <1>2, <1>5, <3>1, <3>2 DEF InOrder, Read
  <2>3. pc' \notin {"spawnBlob", "spawnList"} /\ (mode = "stream" => pc' \notin Draining) /\ ~Past'
    BY Zenon, <1>1 DEF Draining, Past
  <2> QED
    BY ZenonT(60), <1>1, <1>3, <1>10, <2>2, <2>3 DEF StreamInv
<1>13. RequestInv'
  <2>1. Quiet /\ (mode = "stream" => thread["blobOut"] # "none") /\ (mode # "stream" => thread["blobOut"] = "none")
    BY <1>1, <1>10 DEF SnapInv, RequestInv
  <2>2. Quiet'
    BY Zenon, <1>1, <1>2, <1>3, <2>1 DEF Quiet
  <2> QED
    BY ZenonT(60), <1>1, <1>2, <1>3, <2>1, <2>2 DEF RequestInv, Quiet, Reading, Before, Draining
<1> QED
  BY ZenonT(60), <1>6, <1>7, <1>8, <1>9, <1>11, <1>12, <1>13 DEF SnapInv

\* The blob process is started.
LEMMA SpawnBlobSnaps ==
    ASSUME Shape, LeftInv, SnapInv, SpawnBlob PROVE SnapInv'
<1> DEFINE L == "listOut"
<1>1. /\ CallerSame /\ UNCHANGED <<channel, request, open, cur, got, then, fault, entry, files, result>>
      /\ pc = "spawnBlob" /\ pc' = (IF mode = "file" THEN "next" ELSE "spawnList")
      /\ child' = [child EXCEPT !["blob"] = "running"]
      /\ thread' = [thread EXCEPT ![OutOf("blob")] = "run", ![ErrOf("blob")] = "run"]
  BY Zenon DEF SpawnBlob, Spawn, CallerSame
<1>2. child'["list"] = child["list"] /\ thread'[L] = thread[L] /\ thread'["blobOut"] = "run"
  BY <1>1 DEF Shape, Process, Thread, OutOf, ErrOf
<1>3. UNCHANGED <<tree, mode, status, out, emitted, kept, message, overflow>>
  BY Zenon, <1>1 DEF CallerSame
<1>4. cur = "list" /\ got = {} /\ mode \in {"file", "stream"}
  BY <1>1 DEF LeftInv, PlaceInv
<1>6. Domains' /\ Carried' /\ FlowInv'
  BY Zenon, <1>1, <1>2, <1>3 DEF SnapInv, Domains, Carried, FlowInv, Rec
<1>7. FaultInv'
  BY ZenonT(60), <1>1 DEF SnapInv, FaultInv, Draining, Reading
<1>8. StatusInv'
  BY <1>1, <1>2, <1>3, <1>4 DEF SnapInv, StatusInv
<1>9. Drained => Drained'
  BY Zenon, <1>2, <1>3 DEF Drained
<1>10. EndInv'
  <2>1. Ended' => Ended
    BY ZenonT(60), <1>1, <1>2, <1>3, <1>4 DEF Ended, Draining
  <2>2. ~Past'
    BY <1>1 DEF Past
  <2> QED
    BY ZenonT(60), <1>3, <1>9, <2>1, <2>2 DEF SnapInv, EndInv
<1>11. FileInv' /\ DoneInv'
  <2>1. files = <<>> /\ (mode = "file" => Drained /\ Listed)
    BY Zenon, <1>1 DEF SnapInv, FileInv
  <2>2. mode = "file" => Drained' /\ Listed'
    BY Zenon, <1>3, <1>9, <2>1 DEF Listed, Rec
  <2>3. files' = <<>> /\ Len(files') <= Len(tree') /\ Read(Len(files))'
    <3>1. Len(files') = 0 /\ Len(tree') \in Nat
      BY SMTT(30), <1>1, <1>3, <2>1 DEF SnapInv, Carried
    <3> QED
      BY SMTT(30), <1>1, <2>1, <3>1 DEF Read
  <2> QED
    BY ZenonT(60), <1>1, <1>3, <1>4, <2>2, <2>3 DEF FileInv, DoneInv, AllRead, Reading, Draining, Asking
<1>12. StreamInv'
  <2>1. mode = "stream" => "entry_rx" \in open
    BY Zenon, <1>1 DEF SnapInv, StreamInv
  <2> QED
    BY <1>1, <1>3, <2>1 DEF StreamInv, Past, Reading, Draining
<1>13. RequestInv'
  <2>1. Quiet
    BY Zenon, <1>1 DEF SnapInv, RequestInv
  <2>2. Quiet'
    BY ZenonT(60), <1>1, <1>2, <1>3, <2>1 DEF Quiet
  <2>3. mode # "stream" => ~Before'
    BY <1>1, <1>4 DEF Before, Draining
  <2> QED
    BY ZenonT(60), <1>1, <1>2, <1>3, <2>2, <2>3 DEF RequestInv
<1> QED
  BY Zenon, <1>6, <1>7, <1>8, <1>10, <1>11, <1>12, <1>13 DEF SnapInv

\* A process cannot be started.
LEMMA SpawnFailsSnaps ==
    ASSUME Shape, LeftInv, SnapInv, SpawnFails PROVE SnapInv'
<1>1. /\ CallerSame /\ UNCHANGED <<thread, channel, request, cur, got, entry, files, result>>
      /\ pc \in {"spawnList", "spawnBlob"}
      /\ \/ Abort("spawn", "done")
         \/ fault' = "spawn" /\ pc' = "done" /\ UNCHANGED child
  BY Zenon DEF SpawnFails, CallerSame, threadVars
<1>2. entry' \in Nat /\ files' \in Seq(File) /\ DOMAIN channel' = Thread
  BY Zenon, <1>1 DEF SnapInv, Carried, Domains
<1>3. pc # "done" /\ "spawn" \notin {"none", "ok"}
  BY <1>1
<1>4. CASE Abort("spawn", "done")
  <2>1. Receives
    BY Zenon, <1>1, <1>2 DEF Receives
  <2> QED
    BY Zenon, <1>1, <1>3, <1>4, <2>1, AbortSnaps
<1>5. CASE fault' = "spawn" /\ pc' = "done" /\ UNCHANGED child
  <2>1. pc' # "spawnList" /\ pc' # "spawnBlob" /\ fault' # "none" /\ fault' # "ok"
    BY <1>5
  <2>2. Moves
    BY Zenon, <1>1, <1>2, <1>5, <2>1 DEF Moves
  <2> QED
    BY Zenon, <1>1, <1>3, <1>5, <2>1, <2>2, ReturnSnaps
<1> QED
  BY Zenon, <1>1, <1>4, <1>5

---------------------------------------------------------------------------
(* Entries and blobs *)

\* The part of the invariant that reading an entry or a blob cannot disturb.
LEMMA ReadingKeeps ==
    ASSUME SnapInv, Moves, UNCHANGED <<thread, cur, got, then, fault, result>>, pc \in Reading, pc' \in Reading
    PROVE  /\ Domains' /\ Carried' /\ StatusInv' /\ FlowInv' /\ FaultInv' /\ EndInv' /\ DoneInv'
           /\ Drained => Drained'
<1>0. UNCHANGED <<tree, mode, status, message, overflow, kept>>
  BY Zenon DEF Moves, CallerSame
<1>1. Domains' /\ Carried' /\ StatusInv' /\ FlowInv' /\ (Drained => Drained')
  BY Zenon, MovesKeep
<1>2. /\ pc' \notin Draining \union {"spawnBlob", "spawnList", "blobStatus", "listStatus", "join", "done", "visitFailed"}
      /\ pc # "done"
  BY DEF Reading, Draining
<1>3. FaultInv'
  <2>1. pc \in Draining \union Reading \union {"spawnList", "spawnBlob", "blobStatus"}
    BY Zenon
  <2>2. fault = "none" /\ result = "none"
    BY Zenon, <1>2, <2>1 DEF SnapInv, FaultInv
  <2> QED
    BY <1>2, <2>2 DEF FaultInv
<1>4. EndInv'
  <2>1. channel'["listOut"] \in {channel["listOut"], <<>>} /\ ~Past'
    BY ZenonT(60), <1>2 DEF Moves, Past
  <2>2. Ended' => Ended
    BY <1>0, <1>2, <2>1 DEF Ended
  <2> QED
    BY Zenon, <1>0, <1>1, <2>1, <2>2 DEF SnapInv, EndInv
<1>5. DoneInv'
  BY <1>2 DEF DoneInv, AllRead
<1> QED
  BY Zenon, <1>1, <1>3, <1>4, <1>5

\* A request is made for the entry in the caller's hand, or its answer was incomplete.
LEMMA AskingSnaps ==
    ASSUME SnapInv, Moves, UNCHANGED <<thread, cur, got, then, fault, result, entry, files, open>>,
           channel'["listOut"] = channel["listOut"], pc \in Asking, pc' \in Asking \union {"grace"}, pc' # "send",
           pc' \in {"write", "await"} => OnItsWay',
           thread["blobOut"] # "none"
    PROVE  SnapInv'
<1> DEFINE L == "listOut"
<1>0. UNCHANGED <<tree, mode, status, message, overflow, kept>>
  BY Zenon DEF Moves, CallerSame
<1>1. /\ pc \in Reading /\ pc' \in Reading /\ pc' \notin Draining
      /\ pc' \notin {"spawnBlob", "spawnList", "next", "listen", "send"} /\ ~Past' /\ ~Before'
  BY DEF Asking, Reading, Past, Before, Draining
<1>2. /\ Domains' /\ Carried' /\ StatusInv' /\ FlowInv' /\ FaultInv' /\ EndInv' /\ DoneInv'
      /\ Drained => Drained'
  BY Zenon, <1>1, ReadingKeeps
<1>3. Read(Len(files))' = Read(Len(files)) /\ (\A n : Rec(n)' = Rec(n)) /\ (Listed => Listed')
  BY Zenon, <1>0 DEF Read, Rec, Listed
<1>4. FileInv'
  BY Zenon, <1>0, <1>1, <1>2, <1>3 DEF SnapInv, FileInv
<1>5. StreamInv'
  <2>1. InHand' = InHand /\ InChannel' = InChannel /\ InReader' = InReader
    BY <1>0 DEF InHand, InChannel, InReader, Asking
  <2>2. InOrder => InOrder'
    BY Zenon, <1>0, <1>3, <2>1 DEF InOrder
  <2> QED
    BY Zenon, <1>0, <1>1, <2>2 DEF SnapInv, StreamInv
<1>6. RequestInv'
  BY Zenon, <1>1 DEF RequestInv
<1> QED
  BY Zenon, <1>2, <1>4, <1>5, <1>6 DEF SnapInv

\* An entry of the listing, captured or streamed, is taken in hand.
LEMMA EntrySnaps ==
    ASSUME SnapInv, Moves, UNCHANGED <<thread, request, cur, got, then, fault, result, files, open>>,
           channel'["blobOut"] = channel["blobOut"], pc \in {"next", "listen"}, pc' = "send",
           mode = "file" =>
               Len(files) < Len(tree) /\ entry' = tree[Len(files) + 1],
           mode = "stream" =>
               /\ channel["listOut"] # <<>> /\ channel["listOut"][1].kind = "record" /\ channel'["listOut"] = <<>>
               /\ entry' = channel["listOut"][1].id
    PROVE  SnapInv'
<1> DEFINE L == "listOut"
<1>0. UNCHANGED <<tree, mode, status, message, overflow, kept>>
  BY Zenon DEF Moves, CallerSame
<1>1. /\ pc \in Reading /\ pc' \in Reading /\ pc' \notin Draining /\ pc' \notin {"spawnBlob", "spawnList"}
      /\ ~Past' /\ ~Before' /\ pc' \in Asking /\ pc \notin Asking \union {"grace"}
  BY DEF Asking, Reading, Past, Before, Draining
<1>2. /\ Domains' /\ Carried' /\ StatusInv' /\ FlowInv' /\ FaultInv' /\ EndInv' /\ DoneInv'
      /\ Drained => Drained'
  BY Zenon, <1>1, ReadingKeeps
<1>3. Read(Len(files))' = Read(Len(files)) /\ (\A n : Rec(n)' = Rec(n)) /\ (Listed => Listed')
  BY Zenon, <1>0 DEF Read, Rec, Listed
<1>4. FileInv'
  BY Zenon, <1>0, <1>1, <1>2, <1>3 DEF SnapInv, FileInv
<1>5. StreamInv'
  <2>1. ASSUME mode = "stream", InOrder PROVE InOrder'
    <3>1. /\ InHand = 0 /\ InHand' = 1 /\ InChannel = 1 /\ InChannel' = 0 /\ InReader' = InReader /\ InReader \in {0, 1}
      BY ZenonT(60), <1>0, <1>1, <2>1 DEF InHand, InChannel, InReader
    <3>2. Len(files) \in Nat
      BY SMTT(30) DEF SnapInv, Carried
    <3>3. /\ Len(files) + InHand' + InChannel' + InReader' = Len(kept[L])
          /\ Len(files) + InHand + 1 = Len(files) + 1
      BY <2>1, <3>1, <3>2 DEF InOrder
    <3>4. channel[L][1] = Rec(Len(files) + 1)
      BY ZenonT(60), <2>1, <3>3 DEF InOrder
    <3>5. entry' = tree[Len(files) + 1]
      BY <2>1, <3>4 DEF Rec
    <3> QED
      BY ZenonT(60), <1>0, <1>3, <2>1, <3>3, <3>5 DEF InOrder
  <2> QED
    BY Zenon, <1>0, <1>1, <2>1 DEF SnapInv, StreamInv
<1>6. RequestInv'
  <2>1. Quiet /\ thread["blobOut"] # "none"
    BY ZenonT(60), <1>1 DEF SnapInv, RequestInv
  <2>2. Quiet' /\ thread'["blobOut"] # "none" /\ pc' \notin {"write", "await"}
    BY <1>0, <2>1 DEF Quiet
  <2> QED
    BY ZenonT(60), <1>1, <2>2 DEF RequestInv
<1> QED
  BY Zenon, <1>2, <1>4, <1>5, <1>6 DEF SnapInv

\* The blob of the entry is there.
LEMMA BlobSnaps ==
    ASSUME SnapInv, Moves, UNCHANGED <<thread, request, cur, got, then, fault, result, entry, open>>,
           channel'["listOut"] = channel["listOut"], channel'["blobOut"] = <<>>, pc = "await",
           channel["blobOut"] # <<>>, channel["blobOut"][1].kind = "record",
           files' = Append(files, [path |-> entry, blob |-> channel["blobOut"][1].id]),
           pc' = (IF mode = "file" THEN "next" ELSE "listen"), mode \in {"file", "stream"}
    PROVE  SnapInv'
<1> DEFINE L == "listOut"
<1>0. UNCHANGED <<tree, mode, status, message, overflow, kept>>
  BY Zenon DEF Moves, CallerSame
<1>1. /\ pc \in Reading /\ pc' \in Reading /\ pc' \notin Draining /\ pc' \notin {"spawnBlob", "spawnList"}
      /\ ~Past' /\ ~Before' /\ pc \in Asking /\ pc' \notin Asking \union {"grace"}
  BY DEF Asking, Reading, Past, Before, Draining
<1>2. /\ Domains' /\ Carried' /\ StatusInv' /\ FlowInv' /\ FaultInv' /\ EndInv' /\ DoneInv'
      /\ Drained => Drained'
  BY ZenonT(60), <1>1, ReadingKeeps
<1>3. /\ request = <<>> /\ kept["blobOut"] = <<>> /\ thread["blobOut"] # "send"
      /\ channel["blobOut"][1].id = entry
  BY Zenon DEF SnapInv, RequestInv, OnItsWay
<1>4. /\ files \in Seq(File) /\ Len(files) \in Nat /\ Len(tree) \in Nat /\ entry \in Nat
      /\ Len(kept[L]) \in Nat /\ [path |-> entry, blob |-> entry] \in File
  BY SMTT(30) DEF SnapInv, Carried, File
<1>5. /\ Len(files') = Len(files) + 1 /\ files'[Len(files) + 1] = [path |-> entry, blob |-> entry]
      /\ \A j \in 1 .. Len(files) : files'[j] = files[j]
  BY <1>3, <1>4, AppendFacts
<1>6. ASSUME Read(Len(files)), entry = tree[Len(files) + 1] PROVE Read(Len(files))'
  <2>1. ASSUME NEW j \in 1 .. Len(files') PROVE files'[j] = [path |-> tree[j], blob |-> tree[j]]
    <3>1. j \in 1 .. Len(files) \/ j = Len(files) + 1
      BY <1>4, <1>5, <2>1
    <3> QED
      BY ZenonT(60), <1>5, <1>6, <3>1 DEF Read
  <2> QED
    BY Zenon, <1>0, <2>1 DEF Read
<1>7. (\A n : Rec(n)' = Rec(n)) /\ (Listed => Listed')
  BY Zenon, <1>0 DEF Rec, Listed
<1>8. FileInv'
  <2>1. ASSUME mode = "file" PROVE Len(files') <= Len(tree) /\ Read(Len(files))' /\ Drained' /\ Listed'
    <3>1. Drained /\ Listed /\ Read(Len(files)) /\ Len(files) < Len(tree) /\ entry = tree[Len(files) + 1]
      BY ZenonT(60), <1>1, <2>1 DEF SnapInv, FileInv
    <3>2. Len(files') <= Len(tree)
      BY SMTT(30), <1>4, <1>5, <3>1
    <3> QED
      BY ZenonT(60), <1>2, <1>6, <1>7, <3>1, <3>2
  <2>2. pc' \notin Asking
    BY <1>1
  <2> QED
    BY Zenon, <1>0, <1>1, <2>1, <2>2 DEF FileInv
<1>9. StreamInv'
  <2>1. ASSUME mode = "stream", InOrder PROVE InOrder'
    <3>1. /\ InHand = 1 /\ InHand' = 0 /\ InChannel' = InChannel /\ InReader' = InReader
          /\ InReader \in {0, 1} /\ InChannel \in {0, 1}
      BY Zenon, <1>0, <1>1 DEF InHand, InChannel, InReader
    <3>2. Read(Len(files))' /\ pc' \notin Asking
      BY ZenonT(60), <1>1, <1>6, <2>1 DEF InOrder
    <3>3. /\ Len(files') + InHand' + InChannel' + InReader' = Len(kept[L])
          /\ Len(files') + InHand' + 1 = Len(files) + InHand + 1
      BY SMTT(30), <1>4, <1>5, <2>1, <3>1 DEF InOrder
    <3> QED
      BY ZenonT(60), <1>0, <1>7, <2>1, <3>2, <3>3 DEF InOrder
  <2> QED
    BY Zenon, <1>0, <1>1, <2>1 DEF SnapInv, StreamInv
<1>10. RequestInv'
  <2>1. Quiet' /\ thread'["blobOut"] # "none" /\ pc' \notin {"write", "await"}
    <3>1. thread["blobOut"] # "none"
      BY Zenon, <1>1 DEF SnapInv, RequestInv
    <3>2. request' = <<>> /\ kept'["blobOut"] = <<>> /\ thread'["blobOut"] = thread["blobOut"]
      BY ZenonT(60), <1>0, <1>3
    <3>3. pc' \notin {"write", "await"}
      OBVIOUS
    <3> QED
      BY Zenon, <1>3, <3>1, <3>2, <3>3 DEF Quiet
  <2> QED
    BY Zenon, <1>1, <2>1 DEF RequestInv
<1> QED
  BY Zenon, <1>2, <1>8, <1>9, <1>10 DEF SnapInv

\* The streamed listing is over: every record of it is in the snapshot.
LEMMA HeardSnaps ==
    ASSUME SnapInv, Moves, UNCHANGED <<thread, request, cur, got, then, fault, result, entry, files>>,
           channel'["blobOut"] = channel["blobOut"], pc = "listen", pc' = "pollErr", mode = "stream", cur = "list",
           channel["listOut"] # <<>>, channel["listOut"][1].kind = "ok"
    PROVE  SnapInv'
<1> DEFINE L == "listOut"
<1>0. UNCHANGED <<tree, mode, status, message, overflow, kept>>
  BY Zenon DEF Moves, CallerSame
<1>1. Domains' /\ Carried' /\ StatusInv' /\ FlowInv' /\ (Drained => Drained')
  BY ZenonT(60), MovesKeep
<1>2. /\ pc' \notin Reading \union Asking /\ pc \in Reading /\ pc # "done"
      /\ pc' \notin {"spawnBlob", "spawnList", "blobStatus", "listStatus", "join", "done", "visitFailed"}
      /\ pc' \notin {"next", "listen", "send", "write", "await"} /\ ~Past' /\ ~AllRead'
  BY Zenon DEF Reading, Draining, Asking, Past, AllRead
<1>3. FaultInv'
  <2>1. pc \in Draining \union Reading \union {"spawnList", "spawnBlob", "blobStatus"}
    BY Zenon, <1>2
  <2>2. fault = "none" /\ result = "none"
    BY Zenon, <1>2, <2>1 DEF SnapInv, FaultInv
  <2> QED
    BY <1>2, <2>2 DEF FaultInv
<1>4. EndInv'
  <2>1. Drained' \/ L \in overflow'
    BY ZenonT(60), <1>0, <1>1 DEF SnapInv, EndInv, Ended
  <2> QED
    BY Zenon, <1>2, <2>1 DEF EndInv
<1>5. FileInv' /\ DoneInv'
  <2>1. mode' = "stream"
    BY Zenon, <1>0
  <2> QED
    BY <1>2, <2>1 DEF FileInv, DoneInv
<1>6. StreamInv'
  <2>1. ASSUME status["list"] = "ok" PROVE Read(Len(kept[L]))
    <3>1. InOrder
      BY ZenonT(60), <1>2, <2>1 DEF SnapInv, StreamInv
    <3>2. InHand = 0 /\ InChannel = 0 /\ InReader = 0
      BY ZenonT(60), <3>1 DEF InOrder, InHand, InChannel, InReader, Asking
    <3>3. Len(files) = Len(kept[L])
      <4>1. Len(files) \in Nat
        BY DEF SnapInv, Carried
      <4> QED
        BY SMTT(30), <3>1, <3>2, <4>1 DEF InOrder
    <3> QED
      BY Zenon, <3>1, <3>3 DEF InOrder
  <2>2. Read(Len(kept[L]))' = Read(Len(kept[L]))
    BY Zenon, <1>0 DEF Read
  <2>3. pc' \notin Reading \union {"spawnList", "spawnBlob"}
    BY Zenon, <1>2
  <2> QED
    BY Zenon, <1>0, <2>1, <2>2, <2>3 DEF StreamInv
<1>7. RequestInv'
  <2>1. thread'["blobOut"] = "none" => request' = <<>> /\ kept'["blobOut"] = <<>> /\ channel'["blobOut"] = <<>>
    BY ZenonT(60), <1>0 DEF SnapInv, RequestInv
  <2>2. mode' = "stream"
    BY Zenon, <1>0
  <2> QED
    BY Zenon, <1>2, <2>1, <2>2 DEF RequestInv
<1> QED
  BY ZenonT(60), <1>1, <1>3, <1>4, <1>5, <1>6, <1>7 DEF SnapInv

\* TreeFileSource::next_file
LEMMA NextFileSnaps == ASSUME Shape, LeftInv, SnapInv, NextFile PROVE SnapInv'
<1> DEFINE K == kept["listOut"]
           i == Len(files) + 1
           record == Parse(K[i], SubSeq(K, 1, i - 1))
<1>1. /\ CallerSame /\ UNCHANGED <<thread, channel, request, got, files, result>> /\ pc = "next" /\ mode = "file"
  BY Zenon DEF NextFile, CallerSame, ReadUnchanged
<1>2. \/ i > Len(K) /\ pc' = "pollErr" /\ cur' = "blob" /\ UNCHANGED <<child, then, fault, entry>>
      \/ Abort("hostile", "done") /\ UNCHANGED <<cur, entry>>
      \/ ~(i > Len(K)) /\ record.kind = "record" /\ pc' = "send" /\ entry' = record.id
         /\ UNCHANGED <<child, open, then, fault, cur>>
  BY ZenonT(60) DEF NextFile, Kept
<1>3. /\ Listed /\ Read(Len(files)) /\ Len(files) <= Len(tree) /\ fault = "none"
  BY Zenon, <1>1 DEF SnapInv, FileInv, FaultInv, Reading
<1>4. /\ entry \in Nat /\ files \in Seq(File) /\ DOMAIN channel = Thread
      /\ Len(files) \in Nat /\ Len(tree) \in Nat /\ tree \in Seq(Nat) /\ Len(K) = Len(tree)
  BY <1>3 DEF SnapInv, Carried, Domains, Listed
<1>5. CASE i > Len(K) /\ pc' = "pollErr" /\ cur' = "blob" /\ UNCHANGED <<child, then, fault, entry>>
  <2>1. Len(files) = Len(tree) /\ pc' # "spawnList" /\ pc' # "spawnBlob" /\ pc # "done"
    BY SMTT(30), <1>1, <1>3, <1>4, <1>5
  <2>2. Moves
    BY Zenon, <1>1, <1>4, <1>5, <2>1 DEF Moves
  <2>3. Read(Len(tree)) /\ ("out" \in got' => "out" \in got)
    BY Zenon, <1>1, <1>3, <2>1
  <2> QED
    BY ZenonT(60), <1>1, <1>3, <1>5, <2>1, <2>2, <2>3, OverSnaps
<1>6. CASE Abort("hostile", "done") /\ UNCHANGED <<cur, entry>>
  <2>1. "hostile" \notin {"none", "ok"} /\ pc # "done"
    BY <1>1
  <2>2. Receives
    BY Zenon, <1>1, <1>4 DEF Receives
  <2> QED
    BY ZenonT(60), <1>1, <1>6, <2>1, <2>2, AbortSnaps
<1>7. CASE ~(i > Len(K)) /\ record.kind = "record" /\ pc' = "send" /\ entry' = record.id
           /\ UNCHANGED <<child, open, then, fault, cur>>
  <2>1. i \in 1 .. Len(tree) /\ Len(files) < Len(tree) /\ tree[i] \in Nat
    BY <1>4, <1>7
  <2>2. K[i] = Rec(i)
    BY Zenon, <1>3, <2>1 DEF Listed
  <2>3. record \in {K[i], Error("hostile")}
    BY Zenon DEF Parse
  <2>4. entry' = tree[i]
    <3>1. Error("hostile").kind # "record"
      BY DEF Error
    <3>2. record = Rec(i)
      BY Zenon, <1>7, <2>2, <2>3, <3>1
    <3> HIDE DEF record
    <3> QED
      BY ZenonT(60), <1>7, <3>2 DEF Rec
  <2>5. pc' # "spawnList" /\ pc' # "spawnBlob" /\ entry' \in Nat /\ pc \in {"next", "listen"} /\ mode # "stream"
    BY Zenon, <1>1, <1>7, <2>1, <2>4
  <2>6. Moves
    BY Zenon, <1>1, <1>4, <1>7, <2>5 DEF Moves
  <2> QED
    BY ZenonT(60), <1>1, <1>7, <2>1, <2>4, <2>5, <2>6, EntrySnaps
<1> QED
  BY ZenonT(60), <1>2, <1>5, <1>6, <1>7

\* The loop of stream_tree_listing.
LEMMA ListenSnaps ==
    ASSUME Shape, LeftInv, SnapInv, Listen \/ ListenTimeout \/ VisitFailed PROVE SnapInv'
<1> DEFINE L == "listOut"
<1>1. /\ CallerSame /\ UNCHANGED <<thread, request, cur, got, files, result>> /\ pc \in {"listen", "visitFailed"}
  BY Zenon DEF Listen, ListenTimeout, VisitFailed, CallerSame, ReadUnchanged
<1>2. mode = "stream" /\ cur = "list" /\ pc # "done"
  BY <1>1 DEF LeftInv, PlaceInv, Reading
<1>3. entry \in Nat /\ files \in Seq(File) /\ DOMAIN channel = Thread /\ channel[L] \in Seq(Message)
  BY Zenon DEF SnapInv, Carried, Domains
<1>4. \/ \E error \in {"limit", "hostile", "timeout"} : FailList(error) /\ UNCHANGED entry
      \/ pc = "visitFailed" /\ FailList(fault) /\ UNCHANGED entry
      \/ /\ pc = "listen" /\ channel[L] # <<>> /\ channel' = [channel EXCEPT ![L] = <<>>]
         /\ UNCHANGED <<child, open, then, fault>>
         /\ \/ channel[L][1].kind = "record" /\ pc' = "send" /\ entry' = channel[L][1].id
            \/ channel[L][1].kind = "ok" /\ pc' = "pollErr" /\ UNCHANGED entry
  BY Zenon DEF Listen, ListenTimeout, VisitFailed, Kept
<1>5. channel' = channel \/ channel' = [channel EXCEPT ![L] = <<>>]
  BY Zenon DEF Listen, ListenTimeout, VisitFailed
<1>6. Receives /\ channel'["blobOut"] = channel["blobOut"]
  BY <1>3, <1>5 DEF Receives, Thread
<1>7. ASSUME NEW error, FailList(error), error \notin {"none", "ok"}, UNCHANGED entry PROVE SnapInv'
  BY ZenonT(60), <1>1, <1>2, <1>6, <1>7, FailListSnaps
<1>8. CASE \E error \in {"limit", "hostile", "timeout"} : FailList(error) /\ UNCHANGED entry
  <2>1. \A error \in {"limit", "hostile", "timeout"} : error \notin {"none", "ok"}
    OBVIOUS
  <2> QED
    BY Zenon, <1>7, <1>8, <2>1
<1>9. CASE pc = "visitFailed" /\ FailList(fault) /\ UNCHANGED entry
  <2>1. fault \notin {"none", "ok"}
    BY <1>9 DEF SnapInv, FaultInv
  <2> QED
    BY ZenonT(60), <1>7, <1>9, <2>1
<1>10. CASE /\ pc = "listen" /\ channel[L] # <<>> /\ channel' = [channel EXCEPT ![L] = <<>>]
            /\ UNCHANGED <<child, open, then, fault>>
            /\ \/ channel[L][1].kind = "record" /\ pc' = "send" /\ entry' = channel[L][1].id
               \/ channel[L][1].kind = "ok" /\ pc' = "pollErr" /\ UNCHANGED entry
  <2>1. channel'[L] = <<>>
    BY Zenon, <1>3, <1>10 DEF Thread
  <2>2. channel[L][1].id \in Nat
    <3>1. channel[L][1] \in Message
      BY SMTT(30), <1>3, <1>10
    <3> QED
      BY Zenon, <3>1 DEF Message
  <2>3. pc' # "spawnList" /\ pc' # "spawnBlob" /\ entry' \in Nat
    BY SMTT(30), <1>3, <1>10, <2>2
  <2>4. Moves
    BY ZenonT(60), <1>1, <1>3, <1>6, <1>10, <2>3 DEF Moves, Receives
  <2>5. mode # "file" /\ pc \in {"next", "listen"}
    BY <1>2, <1>10
  <2>6. CASE channel[L][1].kind = "record" /\ pc' = "send" /\ entry' = channel[L][1].id
    BY ZenonT(60), <1>1, <1>6, <1>10, <2>1, <2>4, <2>5, <2>6, EntrySnaps
  <2>7. CASE channel[L][1].kind = "ok" /\ pc' = "pollErr" /\ UNCHANGED entry
    BY ZenonT(60), <1>1, <1>2, <1>6, <1>10, <2>4, <2>7, HeardSnaps
  <2> QED
    BY ZenonT(60), <1>10, <2>6, <2>7
<1> QED
  BY Zenon, <1>4, <1>8, <1>9, <1>10

\* CatFileBatch::read_blob
LEMMA ReadSnaps ==
    ASSUME Shape, LeftInv, SnapInv, SendRequest \/ WriteRequest \/ Await \/ AwaitTimeout \/ Grace
    PROVE  SnapInv'
<1> DEFINE B == "blobOut"
<1>1. /\ CallerSame /\ UNCHANGED <<thread, cur, got, entry, result>> /\ pc \in {"send", "write", "await", "grace"}
  BY Zenon DEF SendRequest, WriteRequest, Await, AwaitTimeout, Grace, CallerSame, ReadUnchanged
<1>2. mode \in {"file", "stream"} /\ cur = "list" /\ pc # "done"
  BY <1>1 DEF LeftInv, PlaceInv, Reading
<1>3. entry \in Nat /\ files \in Seq(File) /\ DOMAIN channel = Thread /\ thread[B] # "none"
  <2>1. pc \in Reading
    BY <1>1 DEF Reading
  <2> QED
    BY Zenon, <2>1 DEF SnapInv, Carried, Domains, RequestInv
<1>4. channel' = channel \/ channel' = [channel EXCEPT ![B] = <<>>]
  BY Zenon DEF SendRequest, WriteRequest, Await, AwaitTimeout, Grace
<1>5. Receives /\ channel'["listOut"] = channel["listOut"]
  BY <1>3, <1>4 DEF Receives, Thread
<1>6. ASSUME NEW error, error \notin {"none", "ok"}, UNCHANGED <<request, files>>,
             \/ Abort(error, AfterAbort) \/ Abort(error, "done")
             \/ mode # "file" /\ FailList(error)
      PROVE  SnapInv'
  <2>1. AfterAbort \in {"done", "visitFailed"}
    BY DEF AfterAbort
  <2>2. CASE Abort(error, AfterAbort) \/ Abort(error, "done")
    BY ZenonT(60), <1>1, <1>2, <1>5, <1>6, <2>1, <2>2, AbortSnaps
  <2>3. CASE mode # "file" /\ FailList(error)
    <3>1. mode = "stream"
      BY <1>2, <2>3
    <3> QED
      BY ZenonT(60), <1>1, <1>2, <1>5, <1>6, <2>3, <3>1, FailListSnaps
  <2> QED
    BY Zenon, <1>6, <2>2, <2>3
<1>7. ASSUME UNCHANGED <<child, fault>>, files' \in Seq(File), pc' # "spawnList", pc' # "spawnBlob" PROVE Moves
  BY Zenon, <1>1, <1>3, <1>5, <1>7 DEF Moves, Receives
<1>8. ASSUME UNCHANGED <<child, open, then, fault, files>>, pc \in Asking, pc' \in {"write", "await", "grace"},
             pc' # "grace" => OnItsWay'
      PROVE  SnapInv'
  <2>1. /\ pc' # "spawnList" /\ pc' # "spawnBlob" /\ pc' \in Asking \union {"grace"} /\ pc' # "send"
        /\ pc' \in {"write", "await"} => OnItsWay'
    BY <1>8 DEF Asking
  <2>2. Moves
    BY Zenon, <1>3, <1>7, <1>8, <2>1
  <2> QED
    BY ZenonT(60), <1>1, <1>3, <1>5, <1>8, <2>1, <2>2, AskingSnaps
<1>9. CASE SendRequest
  <2>1. /\ pc = "send" /\ request' = <<entry>> /\ pc' = "write" /\ UNCHANGED <<child, open, then, fault, files, channel>>
    BY Zenon, <1>9 DEF SendRequest, Kept
  <2>2. OnItsWay'
    <3>1. Quiet
      BY <2>1 DEF SnapInv, RequestInv
    <3> QED
      BY ZenonT(60), <1>1, <2>1, <3>1 DEF Quiet, OnItsWay, CallerSame
  <2>3. pc \in Asking /\ pc' \in {"write", "await", "grace"}
    BY <2>1 DEF Asking
  <2> QED
    BY Zenon, <1>8, <2>1, <2>2, <2>3
<1>10. CASE WriteRequest
  <2>1. /\ pc = "write" /\ UNCHANGED <<request, channel, files>>
        /\ \/ pc' = "await" /\ UNCHANGED <<child, open, then, fault>>
           \/ Abort("io", AfterAbort)
    BY Zenon, <1>10 DEF WriteRequest, Kept
  <2>2. CASE pc' = "await" /\ UNCHANGED <<child, open, then, fault>>
    <3>1. OnItsWay
      BY <2>1 DEF SnapInv, RequestInv
    <3>2. OnItsWay'
      BY Zenon, <1>1, <2>1, <3>1 DEF OnItsWay, CallerSame
    <3>3. pc \in Asking /\ pc' \in {"write", "await", "grace"}
      BY <2>1, <2>2 DEF Asking
    <3> QED
      BY ZenonT(60), <1>8, <2>1, <2>2, <3>2, <3>3
  <2>3. CASE Abort("io", AfterAbort)
    <3>1. "io" \notin {"none", "ok"}
      OBVIOUS
    <3> QED
      BY Zenon, <1>6, <2>1, <2>3, <3>1
  <2> QED
    BY Zenon, <2>1, <2>2, <2>3
<1>11. CASE Await
  <2> DEFINE m == channel[B][1]
  <2>1. pc = "await" /\ UNCHANGED request
    BY Zenon, <1>11 DEF Await
  <2>2. \/ Abort("limit", AfterAbort) /\ UNCHANGED files
        \/ /\ channel[B] # <<>> /\ channel' = [channel EXCEPT ![B] = <<>>]
           /\ \/ /\ m.kind = "record" /\ files' = Append(files, [path |-> entry, blob |-> m.id])
                 /\ pc' = (IF mode = "file" THEN "next" ELSE "listen") /\ UNCHANGED <<child, open, then, fault>>
              \/ pc' = "grace" /\ UNCHANGED <<child, open, then, fault, files>>
              \/ TooLarge /\ UNCHANGED files
              \/ Abort("hostile", AfterAbort) /\ UNCHANGED files
    BY Zenon, <1>11 DEF Await, Kept
  <2>3. "limit" \notin {"none", "ok"} /\ "hostile" \notin {"none", "ok"}
    OBVIOUS
  <2>4. CASE (Abort("limit", AfterAbort) \/ Abort("hostile", AfterAbort) \/ TooLarge) /\ UNCHANGED files
    BY Zenon, <1>6, <2>1, <2>3, <2>4 DEF TooLarge
  <2>5. CASE pc' = "grace" /\ UNCHANGED <<child, open, then, fault, files>>
    <3>1. pc \in Asking /\ pc' \in {"write", "await", "grace"}
      BY <2>1, <2>5 DEF Asking
    <3> QED
      BY Zenon, <1>8, <2>5, <3>1
  <2>6. CASE /\ channel[B] # <<>> /\ channel' = [channel EXCEPT ![B] = <<>>]
             /\ m.kind = "record" /\ files' = Append(files, [path |-> entry, blob |-> m.id])
             /\ pc' = (IF mode = "file" THEN "next" ELSE "listen") /\ UNCHANGED <<child, open, then, fault>>
    <3>1. m.id = entry
      BY ZenonT(60), <2>1, <2>6 DEF SnapInv, RequestInv, OnItsWay
    <3>2. [path |-> entry, blob |-> m.id] \in File
      BY <1>3, <3>1 DEF File
    <3> HIDE DEF m
    <3>3. files' \in Seq(File)
      BY ZenonT(60), <1>3, <2>6, <3>2, AppendFacts
    <3>4. pc' # "spawnList" /\ pc' # "spawnBlob" /\ channel'[B] = <<>>
      BY <1>3, <2>6 DEF Thread
    <3>5. Moves
      BY Zenon, <1>7, <2>6, <3>3, <3>4
    <3> QED
      BY ZenonT(60), <1>1, <1>2, <1>5, <2>1, <2>6, <3>4, <3>5, BlobSnaps DEF m
  <2> QED
    BY Zenon, <2>2, <2>4, <2>5, <2>6
<1>12. CASE AwaitTimeout \/ Grace
  <2>1. UNCHANGED <<request, files>> /\ \E error \in {"timeout", "exit", "hostile"} : Abort(error, AfterAbort)
    BY <1>12 DEF AwaitTimeout, Grace
  <2>2. \A error \in {"timeout", "exit", "hostile"} : error \notin {"none", "ok"}
    OBVIOUS
  <2> QED
    BY ZenonT(60), <1>6, <2>1, <2>2
<1> QED
  BY Zenon, <1>9, <1>10, <1>11, <1>12

\* The result is there.
LEMMA DoneSnaps == ASSUME SnapInv, Done PROVE SnapInv'
<1>1. /\ pc = "done" /\ result' = (IF fault = "none" THEN "ok" ELSE fault)
      /\ UNCHANGED <<tree, mode, child, status, out, emitted, thread, kept, message, channel, overflow, request, open, pc, cur,
                     got, then, fault, entry, files>>
  BY Zenon DEF Done, processVars, threadVars
<1>2. Domains' /\ Carried' /\ StatusInv' /\ FlowInv'
  BY ZenonT(60), <1>1 DEF SnapInv, Domains, Carried, StatusInv, FlowInv, Rec
<1>3. FaultInv'
  BY <1>1 DEF SnapInv, FaultInv
<1>4. EndInv' /\ FileInv'
  BY ZenonT(60), <1>1 DEF SnapInv, EndInv, FileInv, Ended, Drained, Past, Before, Listed, Read, Rec
<1>5. StreamInv'
  BY <1>1 DEF StreamInv, Past, Reading, Draining
<1>6. DoneInv' /\ RequestInv'
  BY Zenon, <1>1 DEF SnapInv, DoneInv, AllRead, Read, RequestInv, Quiet, OnItsWay, Before
<1> QED
  BY Zenon, <1>2, <1>3, <1>4, <1>5, <1>6 DEF SnapInv

---------------------------------------------------------------------------
(* The theorem *)

\* The invariant holds throughout every call that reads a tree or an output.
THEOREM SnapshotInvariant == Spec => []WholeInv
<1>1. Init => WholeInv
  <2> SUFFICES ASSUME Init PROVE SnapInv
    BY DEF WholeInv
  <2>1. /\ mode \in DOMAIN Trees /\ tree \in Trees[mode] /\ emitted = 0 /\ overflow = {} /\ request = <<>>
        /\ child = [p \in Process |-> "none"] /\ status = [p \in Process |-> "ok"] /\ out = [p \in Process |-> <<>>]
        /\ thread = [t \in Thread |-> "none"] /\ kept = [t \in Thread |-> <<>>]
        /\ message = [t \in Thread |-> <<>>] /\ channel = [t \in Thread |-> <<>>]
        /\ open = {"entry_rx", "request_tx"} /\ pc = (IF mode = "stream" THEN "spawnBlob" ELSE "spawnList")
        /\ cur = "list" /\ got = {} /\ then = "none" /\ fault = "none" /\ entry = 0 /\ files = <<>> /\ result = "none"
    BY ZenonT(60) DEF Init, Of
  <2>2. tree \in Seq(Nat) /\ Len(tree) \in Nat
    BY SMTT(30), <2>1, SnapshotAssumption
  <2>3. /\ child["list"] = "none" /\ status["list"] = "ok" /\ out["list"] = <<>>
        /\ thread["listOut"] = "none" /\ thread["blobOut"] = "none" /\ kept["listOut"] = <<>>
        /\ kept["blobOut"] = <<>> /\ channel["listOut"] = <<>> /\ channel["blobOut"] = <<>>
    BY Zenon, <2>1 DEF Process, Thread
  <2>4. Domains
    BY <2>1 DEF Domains
  <2>5. Carried
    <3>1. <<>> \in Seq(Message) /\ <<>> \in Seq(Piece) /\ <<>> \in Seq(File) /\ 0 \in 0 .. Len(tree) /\ 0 \in Nat
      BY SMTT(30), <2>2
    <3>2. thread["listOut"] # "send"
      BY ZenonT(60), <2>3
    <3> QED
      BY ZenonT(60), <2>1, <2>2, <2>3, <3>1, <3>2 DEF Carried
  <2>6. FaultInv /\ StatusInv /\ EndInv
    BY <2>1, <2>3 DEF FaultInv, StatusInv, EndInv, Ended, Past, Draining
  <2>7. FlowInv
    <3>1. Len(<<>>) = 0 /\ 1 .. 0 = {} /\ 0 + 0 = 0
      BY SMTT(30)
    <3> QED
      BY Zenon, <2>1, <2>3, <3>1 DEF FlowInv
  <2>8. FileInv /\ StreamInv /\ DoneInv
    BY ZenonT(60), <2>1, <2>3 DEF FileInv, StreamInv, DoneInv, AllRead, Past, Reading, Draining, Asking
  <2>9. RequestInv
    BY <2>1, <2>3 DEF RequestInv, Quiet, Reading, Before, Draining
  <2> QED
    BY ZenonT(60), <2>4, <2>5, <2>6, <2>7, <2>8, <2>9 DEF SnapInv
<1>2. Shape /\ LeftInv /\ WholeInv /\ [Next]_vars => WholeInv'
  <2> SUFFICES ASSUME Shape, LeftInv, mode # "ask", SnapInv, [Next]_vars PROVE SnapInv'
    BY Zenon, TreeKept DEF WholeInv
  <2>1. CASE Background
    BY Zenon, <2>1, BackgroundSnaps
  <2>2. CASE Join \/ SpawnList \/ SpawnBlob \/ SpawnFails
    BY Zenon, <2>2, JoinSnaps, SpawnListSnaps, SpawnBlobSnaps, SpawnFailsSnaps
  <2>3. CASE PollOut \/ PollErr \/ TryWait \/ Check \/ CheckTimeout \/ ListStatus \/ BlobStatus \/ Answered \/ Captured
    BY Zenon, <2>3, DrainSnaps, StatusSnaps
  <2>4. CASE \/ NextFile \/ Listen \/ ListenTimeout \/ VisitFailed
             \/ SendRequest \/ WriteRequest \/ Await \/ AwaitTimeout \/ Grace \/ Done
    BY ZenonT(60), <2>4, NextFileSnaps, ListenSnaps, ReadSnaps, DoneSnaps
  <2>5. CASE UNCHANGED vars
    <3>1. /\ CallSame /\ ListSame /\ BlobSame /\ UNCHANGED <<status, out, kept, message, channel>>
      BY Zenon, <2>5 DEF vars, processVars, threadVars, callVars, CallSame, ListSame, BlobSame, ChildSame, PipeSame,
         ReaderSame, KeptSame, ChannelSame
    <3>2. Carried' /\ StatusInv' /\ FlowInv' /\ EndInv' /\ FileInv' /\ StreamInv' /\ RequestInv'
      BY ZenonT(60), <3>1, ListCarries, ListStatuses, ListFlows, ListEnds, ListCaptured, ListOrders, BlobRequests
      DEF SnapInv
    <3>3. Domains' /\ FaultInv' /\ DoneInv'
      BY Zenon, <3>1 DEF SnapInv, Domains, CallSame, FaultInv, DoneInv, AllRead, Read
    <3> QED
      BY Zenon, <3>2, <3>3 DEF SnapInv
  <2> QED
    BY Zenon, <2>1, <2>2, <2>3, <2>4, <2>5 DEF Next, Caller, Background
<1> QED
  BY <1>1, <1>2, LeftInvariant, PTL DEF Spec

\* A snapshot or an output that is returned is all of it, in order, and each blob is the
\* one that was asked for, for trees, limits and pipes of every size: whatever was cut off
\* at a limit or by a death on the way has made the call an error.
THEOREM SnapshotIsComplete == Spec => []SnapshotComplete
<1>1. WholeInv => SnapshotComplete
  <2> SUFFICES ASSUME SnapInv, result = "ok"
               PROVE  files = [i \in 1 .. Len(tree) |-> [path |-> tree[i], blob |-> tree[i]]]
    BY Zenon DEF SnapshotComplete, WholeInv
  <2>1. Read(Len(tree))
    BY DEF SnapInv, FaultInv, DoneInv, AllRead
  <2>2. DOMAIN files = 1 .. Len(files) /\ files = [i \in DOMAIN files |-> files[i]]
    BY DEF SnapInv, Carried
  <2> QED
    BY <2>1, <2>2 DEF Read
<1> QED
  BY <1>1, SnapshotInvariant, PTL

=============================================================================
