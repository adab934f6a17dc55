----------------------------- MODULE TreeSnapshot -----------------------------
(* Git subprocesses.  To read the tree of a commit, one process lists the       *)
(* entries, one answers requests for blobs, and for each of them threads read   *)
(* the pipes, with bounds, and hand their results to the caller through         *)
(* channels of capacity one.  In mode "file" (synchronisation) the listing is   *)
(* captured in a file before it is parsed (run_snapshot_command_to_file and     *)
(* TreeFileSource); in mode "stream" (bootstrap) a thread parses it while it    *)
(* arrives (collect_tree_files).  In the two other modes a single command, here *)
(* the process that lists, is run for its output ("output": GitRunner::output)  *)
(* or for its exit status ("ask": exit_one_is_false, for which an empty tree    *)
(* stands for the answer yes).                                                  *)
(*                                                                              *)
(* A process may be slow, hang, complain on stderr, die at any point, or start  *)
(* a descendant that stays in its process group and keeps pipes open.  Time may *)
(* always have passed a deadline when it is looked at.  A record is a number,   *)
(* its path and its blob; 0 stands for a record that is not a canonical file.   *)
EXTENDS Integers, Sequences

CONSTANTS
    Trees,          \* mode -> trees to read: sequences of records
    HostileBlobs,   \* blobs whose answer is malformed, missing or too large
    OutLimit,       \* MAX_TREE_OUTPUT
    ErrLimit,       \* MAX_SMALL_OUTPUT
    MaxBytes,       \* MAX_TOTAL_CANONICAL_BYTES; the size of a blob is its number
    PipeCapacity,   \* records that fit into a pipe
    MaxTroubles,    \* bound on complaints, descendants, deaths and read errors
    PromptExit      \* the status of a dead child is there within the 100 ms of read_blob

Modes == {"file", "stream", "output", "ask"}

ASSUME SnapshotAssumption ==
    /\ Trees \in [Modes -> SUBSET Seq(Nat)]
    /\ {OutLimit, ErrLimit, MaxBytes, PipeCapacity, MaxTroubles} \subseteq Nat

Process == {"list", "blob"}
Thread == {"listOut", "listErr", "blobOut", "blobErr"}
OutOf(p) == IF p = "list" THEN "listOut" ELSE "blobOut"
ErrOf(p) == IF p = "list" THEN "listErr" ELSE "blobErr"
ProcessOf(t) == IF t \in {"listOut", "listErr"} THEN "list" ELSE "blob"

VARIABLES
    tree, mode,
    child,      \* process -> "none", "running", "closing" (dying), "exited" or "reaped"
    status,     \* process -> how it ended: "ok", "one", "code" (another code) or "signal"
    holds,      \* process -> pipes that a descendant in its group keeps open
    out, err,   \* process -> what is in its pipes
    troubles,   \* complaints, descendants, deaths and read errors so far
    emitted,    \* records that the listing has written
    asked,      \* requests in the stdin of the blob process
    thread,     \* thread -> "none", "run", "send", "end" or "joined"
    kept,       \* thread -> what it has read
    message,    \* thread -> what it sends
    channel,    \* thread -> its channel to the caller
    overflow,   \* threads that have raised their overflow flag
    request,    \* the request channel of the blob process
    open,       \* what the caller has not dropped: "entry_rx", "request_tx"
    pc, cur, got, joins, then, fault, entry, files, result

processVars == <<child, status, holds, out, err, troubles, emitted, asked>>
threadVars == <<thread, kept, message, channel, overflow>>
callVars == <<pc, cur, got, joins, then, fault, entry, files, result>>
vars == <<tree, mode, processVars, threadVars, request, open, callVars>>

Of(S, x) == [i \in S |-> x]

Init ==
    /\ mode \in DOMAIN Trees /\ tree \in Trees[mode]
    /\ child = Of(Process, "none") /\ status = Of(Process, "ok") /\ holds = Of(Process, {})
    /\ out = Of(Process, <<>>) /\ err = Of(Process, 0) /\ troubles = 0
    /\ emitted = 0 /\ asked = <<>>
    /\ thread = Of(Thread, "none") /\ kept = Of(Thread, <<>>) /\ message = Of(Thread, <<>>)
    /\ channel = Of(Thread, <<>>) /\ overflow = {}
    /\ request = <<>> /\ open = {"entry_rx", "request_tx"}
    /\ pc = (IF mode = "stream" THEN "spawnBlob" ELSE "spawnList")
    /\ cur = "list" /\ got = {} /\ joins = <<>> /\ then = "none" /\ fault = "none"
    /\ entry = 0 /\ files = <<>> /\ result = "none"

---------------------------------------------------------------------------
(* The processes *)

Alive(p) == pc # "done" /\ child[p] = "running"
Trouble == troubles < MaxTroubles /\ troubles' = troubles + 1
Reads(t) == thread[t] \in {"run", "send"}
Room(p) == Len(out[p]) < PipeCapacity /\ Reads(OutOf(p))
Put(p, x) == out' = [out EXCEPT ![p] = Append(@, x)]

ListWrites ==
    /\ Alive("list") /\ mode # "ask" /\ emitted < Len(tree) /\ Room("list")
    /\ Put("list", [kind |-> "record", id |-> tree[emitted + 1]]) /\ emitted' = emitted + 1
    /\ UNCHANGED <<tree, mode, child, status, holds, err, troubles, asked, threadVars, request, open, callVars>>
BlobAnswers ==
    /\ Alive("blob") /\ asked # <<>> /\ Room("blob")
    /\ Put("blob", [kind |-> IF Head(asked) \in HostileBlobs THEN "hostile" ELSE "record",
                    id |-> Head(asked)])
    /\ asked' = Tail(asked)
    /\ UNCHANGED <<tree, mode, child, status, holds, err, troubles, emitted, threadVars, request, open, callVars>>
Complain(p) ==
    /\ Alive(p) /\ err[p] = 0 /\ Reads(ErrOf(p)) /\ Trouble
    /\ err' = [err EXCEPT ![p] = 1]
    /\ UNCHANGED <<tree, mode, child, status, holds, out, emitted, asked, threadVars, request, open, callVars>>
\* A descendant inherits the pipes, and lives on when the child has exited.
Fork(p, pipes) ==
    /\ Alive(p) /\ holds[p] = {} /\ Trouble
    /\ holds' = [holds EXCEPT ![p] = pipes]
    /\ UNCHANGED <<tree, mode, child, status, out, err, emitted, asked, threadVars, request, open, callVars>>

DescendantExits(p) ==
    /\ pc # "done" /\ holds[p] # {}
    /\ holds' = [holds EXCEPT ![p] = {}]
    /\ UNCHANGED <<tree, mode, child, status, out, err, troubles, emitted, asked, threadVars, request, open, callVars>>

Dies(p, s) == child' = [child EXCEPT ![p] = "closing"] /\ status' = [status EXCEPT ![p] = s]
Finished(p) ==
    IF p = "list" THEN mode = "ask" \/ emitted = Len(tree) ELSE asked = <<>> /\ "request_tx" \notin open
Exit(p) ==
    /\ Alive(p) /\ Finished(p) /\ Dies(p, IF mode = "ask" /\ tree # <<>> THEN "one" ELSE "ok")
    /\ UNCHANGED <<tree, mode, holds, out, err, troubles, emitted, asked, threadVars, request, open, callVars>>
\* Death at any point, within a record too; its code matters only to exit_one_is_false.
Crash(p, partial) ==
    /\ Alive(p) /\ Trouble
    /\ \E s \in IF mode = "ask" THEN {"code", "signal"} ELSE {"signal"} : Dies(p, s)
    /\ IF partial
       THEN ~Finished(p) /\ Room(p) /\ Put(p, [kind |-> "partial", id |-> 0])
       ELSE UNCHANGED out
    /\ UNCHANGED <<tree, mode, holds, err, emitted, asked, threadVars, request, open, callVars>>
\* The kernel closes the files of a dying process before its status is there.
Published(p) ==
    /\ child[p] = "closing" /\ child' = [child EXCEPT ![p] = "exited"]
    /\ UNCHANGED <<tree, mode, status, holds, out, err, troubles, emitted, asked, threadVars, request, open, callVars>>

Environment ==
    \/ ListWrites \/ BlobAnswers
    \/ \E p \in Process : Complain(p) \/ DescendantExits(p) \/ Exit(p) \/ (\E partial \in BOOLEAN : Crash(p, partial))
    \/ \E p \in Process, pipes \in {{"out"}, {"err"}} : Fork(p, pipes)

---------------------------------------------------------------------------
(* The threads *)

Writers(p, pipe) == child[p] = "running" \/ pipe \in holds[p]
Eof(p, pipe) == ~Writers(p, pipe) /\ (IF pipe = "out" THEN out[p] = <<>> ELSE err[p] = 0)

Send(t, m) == thread' = [thread EXCEPT ![t] = "send"] /\ message' = [message EXCEPT ![t] = m]
Ok == [kind |-> "ok", id |-> 0]
Error(kind) == [kind |-> kind, id |-> 0]
Take(p, pipe) ==
    IF pipe = "out" THEN out' = [out EXCEPT ![p] = Tail(@)] /\ UNCHANGED err
    ELSE err' = [err EXCEPT ![p] = 0] /\ UNCHANGED out

\* spawn_bounded_reader and spawn_bounded_file_writer: to the end of the pipe, to the
\* limit, or to an error.
BoundedRead(t, pipe, limit) ==
    LET p == ProcessOf(t)
    IN  /\ thread[t] = "run"
        /\ \/ Eof(p, pipe) /\ Send(t, Ok) /\ UNCHANGED <<kept, overflow, out, err, troubles>>
           \/ /\ ~Eof(p, pipe) /\ (IF pipe = "out" THEN out[p] # <<>> ELSE err[p] > 0)
              /\ Take(p, pipe) /\ UNCHANGED troubles
              /\ IF Len(kept[t]) + 1 > limit
                 THEN overflow' = overflow \union {t} /\ Send(t, Ok) /\ UNCHANGED kept
                 ELSE /\ kept' = [kept EXCEPT ![t] = Append(@, IF pipe = "out" THEN Head(out[p]) ELSE Ok)]
                      /\ UNCHANGED <<thread, message, overflow>>
           \/ Trouble /\ Send(t, Error("io")) /\ UNCHANGED <<kept, overflow, out, err>>

Reader(t) ==
    /\ \/ t \in {"listErr", "blobErr"} /\ BoundedRead(t, "err", ErrLimit)
       \/ t = "listOut" /\ mode # "stream" /\ BoundedRead(t, "out", OutLimit)
    /\ UNCHANGED <<tree, mode, child, status, holds, emitted, asked, channel, request, open, callVars>>

\* TreeListingCursor::next_entry after the records in seen.
Parse(record, seen) ==
    IF record.kind = "partial" THEN Error("hostile")
    ELSE IF record.id = 0 \/ (seen # <<>> /\ seen[Len(seen)].id >= record.id) THEN Error("hostile")
    ELSE record

\* The listing reader of stream_tree_listing.
ListingReader ==
    /\ mode = "stream" /\ thread["listOut"] = "run"
    /\ \/ Eof("list", "out") /\ Send("listOut", Ok) /\ UNCHANGED <<kept, out>>
       \/ /\ out["list"] # <<>>
          /\ LET record == Parse(Head(out["list"]), kept["listOut"])
             IN  /\ Send("listOut", record)
                 /\ kept' = [kept EXCEPT !["listOut"] = Append(@, record)]
          /\ out' = [out EXCEPT !["list"] = Tail(@)]
    /\ UNCHANGED <<tree, mode, child, status, holds, err, troubles, emitted, asked, channel, overflow, request, open, callVars>>

\* The response reader of CatFileBatch: it waits for a request, or for the end of them,
\* and then reads one answer.
Expected == kept["blobOut"]
read_cat_file_response ==
    IF out["blob"] = <<>> \/ Head(out["blob"]).kind = "partial" THEN Error("partial")
    ELSE IF Head(out["blob"]).kind = "hostile" \/ Head(out["blob"]).id # Expected[1] THEN Error("hostile")
    ELSE Head(out["blob"])
ResponseReader ==
    /\ thread["blobOut"] = "run"
    /\ \/ /\ Expected = <<>> /\ request # <<>>
          /\ kept' = [kept EXCEPT !["blobOut"] = request] /\ request' = <<>>
          /\ UNCHANGED <<thread, message, out>>
       \/ /\ Expected = <<>> /\ request = <<>> /\ "request_tx" \notin open
          /\ thread' = [thread EXCEPT !["blobOut"] = "end"]
          /\ UNCHANGED <<kept, message, out, request>>
       \/ /\ Expected # <<>> /\ (out["blob"] # <<>> \/ Eof("blob", "out"))
          /\ Send("blobOut", read_cat_file_response)
          /\ out' = [out EXCEPT !["blob"] = IF @ = <<>> THEN @ ELSE Tail(@)]
          /\ kept' = [kept EXCEPT !["blobOut"] = <<>>]
          /\ UNCHANGED request
    /\ UNCHANGED <<tree, mode, child, status, holds, err, troubles, emitted, asked, channel, overflow, open, callVars>>

\* Sending blocks while the channel is full, and fails when the receiver is dropped.
Ends(t) ==
    CASE t = "listOut" -> mode # "stream" \/ "entry_rx" \notin open \/ message[t].kind # "record"
      [] t = "blobOut" -> message[t].kind # "record"
      [] OTHER -> TRUE
Delivers(t) ==
    /\ thread[t] = "send"
    /\ channel[t] = <<>> \/ (t = "listOut" /\ "entry_rx" \notin open)
    /\ channel' = IF t = "listOut" /\ "entry_rx" \notin open THEN channel
                  ELSE [channel EXCEPT ![t] = <<message[t]>>]
    /\ thread' = [thread EXCEPT ![t] = IF Ends(t) THEN "end" ELSE "run"]
    /\ message' = [message EXCEPT ![t] = <<>>]
    /\ UNCHANGED <<tree, mode, processVars, kept, overflow, request, open, callVars>>

ThreadStep(t) ==
    \/ Reader(t) \/ Delivers(t)
    \/ t = "listOut" /\ ListingReader
    \/ t = "blobOut" /\ ResponseReader
---------------------------------------------------------------------------
(* The caller: starting and ending processes *)

\* Mutant: only the child is killed, not its process group.
terminate_child(p) ==
    /\ child' = [child EXCEPT ![p] = "reaped"]
    /\ UNCHANGED holds

\* The group is killed and the child waited for, unless it has been already.
terminate_process_group(p) ==
    /\ child' = [child EXCEPT ![p] = "reaped"]
    /\ holds' = [holds EXCEPT ![p] = {}]

JoinThen(threads, next) == joins' = threads /\ then' = next /\ pc' = "join"

\* An error of the listing: its processes are killed and its threads joined; dropping
\* entry_rx lets a reader go that waits in send.
FailList(error) ==
    /\ terminate_process_group("list") /\ fault' = error
    /\ open' = open \ {"entry_rx"}
    /\ JoinThen(<<"listOut", "listErr">>, "listStatus")

\* CatFileBatch::abort, also as it is dropped.
Abort(error, next) ==
    /\ terminate_process_group("blob") /\ fault' = error
    /\ open' = open \ {"request_tx"}
    /\ JoinThen(<<"blobOut", "blobErr">>, next)

\* Where an error of read_blob leads: out of the loop, or out of the visitor.
AfterAbort == IF mode = "file" THEN "done" ELSE "visitFailed"

Join ==
    /\ pc = "join"
    /\ IF joins = <<>> THEN pc' = then /\ UNCHANGED <<thread, joins>>
       ELSE /\ thread[Head(joins)] = "end"
            /\ thread' = [thread EXCEPT ![Head(joins)] = "joined"]
            /\ joins' = Tail(joins) /\ UNCHANGED pc
    /\ UNCHANGED <<tree, mode, processVars, kept, message, channel, overflow, request, open,
                   cur, got, then, fault, entry, files, result>>

Spawn(p, next) ==
    /\ child' = [child EXCEPT ![p] = "running"]
    /\ thread' = [thread EXCEPT ![OutOf(p)] = "run", ![ErrOf(p)] = "run"]
    /\ pc' = next
    /\ UNCHANGED <<tree, mode, status, holds, out, err, troubles, emitted, asked, kept, message, channel,
                   overflow, request, open, cur, got, joins, then, fault, entry, files, result>>
SpawnList == pc = "spawnList" /\ Spawn("list", IF mode = "stream" THEN "listen" ELSE "pollOut")
SpawnBlob == pc = "spawnBlob" /\ Spawn("blob", IF mode = "file" THEN "next" ELSE "spawnList")
SpawnFails ==
    /\ pc \in {"spawnList", "spawnBlob"}
    /\ IF pc = "spawnList" /\ mode = "stream" THEN Abort("spawn", "done")
       ELSE fault' = "spawn" /\ pc' = "done" /\ UNCHANGED <<child, holds, open, joins, then>>
    /\ UNCHANGED <<tree, mode, status, out, err, troubles, emitted, asked, threadVars, request,
                   cur, got, entry, files, result>>

---------------------------------------------------------------------------
(* The caller: waiting for a process and the readers of its pipes *)

Wanted == IF cur = "list" /\ mode # "stream" THEN {"out", "err", "status"} ELSE {"err", "status"}
FailDrain(error) == IF cur = "list" THEN FailList(error) ELSE Abort(error, "done")
LoopUnchanged == <<tree, mode, status, out, err, troubles, emitted, asked, kept, message, overflow, request,
                   cur, entry, files, result>>

\* poll_writer and poll_reader: try_recv on a channel.
Poll(what, t, next) ==
    /\ IF what \notin Wanted \ got \/ channel[t] = <<>>
       THEN pc' = next /\ UNCHANGED <<got, channel, child, holds, fault, open, joins, then>>
       ELSE /\ channel' = [channel EXCEPT ![t] = <<>>]
            /\ IF channel[t][1].kind = "ok"
               THEN /\ got' = got \union {what} /\ pc' = next
                    /\ UNCHANGED <<child, holds, fault, open, joins, then>>
               ELSE FailDrain("io") /\ UNCHANGED got
    /\ UNCHANGED <<LoopUnchanged, thread>>
PollOut == pc = "pollOut" /\ Poll("out", OutOf(cur), "pollErr")
PollErr == pc = "pollErr" /\ Poll("err", ErrOf(cur), "tryWait")
TryWait ==
    /\ pc = "tryWait" /\ pc' = "check"
    /\ IF child[cur] = "exited"
       THEN child' = [child EXCEPT ![cur] = "reaped"] /\ got' = got \union {"status"}
       ELSE UNCHANGED <<child, got>>
    /\ UNCHANGED <<LoopUnchanged, thread, channel, holds, fault, open, joins, then>>

Exceeded == overflow \intersect {OutOf(cur), ErrOf(cur)}
\* More of a listing than MAX_TREE_OUTPUT is the data's fault.
OverflowError == IF "listOut" \in Exceeded /\ mode = "file" THEN "hostile" ELSE "limit"
Complete ==
    /\ open' = open \ {"entry_rx"}
    /\ JoinThen(<<OutOf(cur), ErrOf(cur)>>, IF cur = "list" THEN "listStatus" ELSE "blobStatus")
    /\ UNCHANGED <<child, holds, fault>>
Again == pc' = "pollOut" /\ UNCHANGED <<child, holds, fault, open, joins, then>>

\* Mutant: the loop ends as soon as it has everything.
CheckCompleteFirst ==
    /\ pc = "check"
    /\ IF got = Wanted THEN Complete
       ELSE IF Exceeded # {} THEN FailDrain(OverflowError)
       ELSE Again
    /\ UNCHANGED <<LoopUnchanged, thread, channel, got>>

Check ==
    /\ pc = "check"
    /\ IF Exceeded # {} THEN FailDrain(OverflowError)
       ELSE IF got = Wanted THEN Complete
       ELSE Again
    /\ UNCHANGED <<LoopUnchanged, thread, channel, got>>
\* The deadline is looked at after the flags and before the loop's end.
CheckTimeout ==
    /\ pc = "check" /\ Exceeded = {} /\ FailDrain("timeout")
    /\ UNCHANGED <<LoopUnchanged, thread, channel, got>>

Returned(error) == fault' = error /\ pc' = "done" /\ UNCHANGED <<child, holds, open, joins, then, cur, got>>
\* Mutant: the blob process is forgotten when the listing has failed.
ListStatusForgets ==
    /\ pc = "listStatus" /\ mode \in {"file", "stream"}
    /\ LET error == IF fault = "none" /\ status["list"] # "ok" THEN "exit" ELSE fault
       IN  IF error # "none" THEN Returned(error)
           ELSE /\ IF mode = "file"
                   THEN pc' = "spawnBlob" /\ UNCHANGED <<open, cur>>
                   ELSE pc' = "pollErr" /\ cur' = "blob" /\ open' = open \ {"request_tx"}
                /\ got' = {} /\ UNCHANGED <<child, holds, joins, then, fault>>
    /\ UNCHANGED <<tree, mode, status, out, err, troubles, emitted, asked, threadVars, request, entry, files, result>>

\* The listing has ended and its threads are joined.
ListStatus ==
    /\ pc = "listStatus" /\ mode \in {"file", "stream"}
    /\ LET error == IF fault = "none" /\ status["list"] # "ok" THEN "exit" ELSE fault
       IN  IF error # "none"
           THEN IF mode = "stream" /\ thread["blobOut"] # "joined"
                THEN Abort(error, "done") /\ UNCHANGED <<cur, got>>
                ELSE Returned(error)
           ELSE /\ IF mode = "file"
                   THEN pc' = "spawnBlob" /\ UNCHANGED <<open, cur>>
                   ELSE pc' = "pollErr" /\ cur' = "blob" /\ open' = open \ {"request_tx"}
                /\ got' = {} /\ UNCHANGED <<child, holds, joins, then, fault>>
    /\ UNCHANGED <<tree, mode, status, out, err, troubles, emitted, asked, threadVars, request, entry, files, result>>
\* The end of CatFileBatch::finish.
BlobStatus ==
    /\ pc = "blobStatus" /\ Returned(IF status["blob"] # "ok" THEN "exit" ELSE "none")
    /\ UNCHANGED <<tree, mode, status, out, err, troubles, emitted, asked, threadVars, request, entry, files, result>>

\* Mutant: every other exit status than zero is a no.
AnsweredByCode ==
    /\ pc = "listStatus" /\ mode = "ask"
    /\ Returned(IF fault # "none" THEN fault
                ELSE IF status["list"] = "ok" THEN "none" ELSE "no")
    /\ UNCHANGED <<tree, mode, status, out, err, troubles, emitted, asked, threadVars, request, entry, files, result>>

\* GitRunner::exit_one_is_false
Answered ==
    /\ pc = "listStatus" /\ mode = "ask"
    /\ Returned(IF fault # "none" THEN fault
                ELSE CASE status["list"] = "ok" -> "none"
                       [] status["list"] = "one" -> "no"
                       [] OTHER -> "exit")
    /\ UNCHANGED <<tree, mode, status, out, err, troubles, emitted, asked, threadVars, request, entry, files, result>>
\* GitRunner::output
Captured ==
    /\ pc = "listStatus" /\ mode = "output"
    /\ Returned(IF fault = "none" /\ status["list"] # "ok" THEN "exit" ELSE fault)
    /\ files' = [i \in 1 .. Len(kept["listOut"]) |-> [path |-> kept["listOut"][i].id, blob |-> kept["listOut"][i].id]]
    /\ UNCHANGED <<tree, mode, status, out, err, troubles, emitted, asked, threadVars, request, entry, result>>

---------------------------------------------------------------------------
(* The caller: entries and blobs *)

ReadUnchanged == <<tree, mode, status, out, err, troubles, thread, kept, message, overflow>>
Kept == <<child, holds, open, joins, then, fault>>

Total(s) ==
    LET sum[n \in 0 .. Len(s)] == IF n = 0 THEN 0 ELSE sum[n - 1] + s[n] IN sum[Len(s)]
Bytes(read) == Total([i \in 1 .. Len(read) |-> read[i].blob])

\* TreeFileSource::next_file on the captured listing.
NextFile ==
    /\ pc = "next" /\ mode = "file"
    /\ LET spool == kept["listOut"]
           i == Len(files) + 1
           record == Parse(spool[i], SubSeq(spool, 1, i - 1))
       IN  IF i > Len(spool)
           THEN /\ pc' = "pollErr" /\ cur' = "blob" /\ open' = open \ {"request_tx"}
                /\ UNCHANGED <<child, holds, joins, then, fault, entry>>
           ELSE IF record.kind # "record"
           THEN Abort("hostile", "done") /\ UNCHANGED <<cur, entry>>
           ELSE pc' = "send" /\ entry' = record.id /\ UNCHANGED <<Kept, cur>>
    /\ UNCHANGED <<ReadUnchanged, emitted, asked, channel, request, got, files, result>>

\* One turn of the loop of stream_tree_listing.
Listen ==
    /\ pc = "listen"
    /\ IF "listErr" \in overflow
       THEN FailList("limit") /\ UNCHANGED <<channel, entry>>
       ELSE /\ channel["listOut"] # <<>>
            /\ channel' = [channel EXCEPT !["listOut"] = <<>>]
            /\ LET m == channel["listOut"][1]
               IN  CASE m.kind = "record" -> pc' = "send" /\ entry' = m.id /\ UNCHANGED Kept
                     [] m.kind = "ok" -> pc' = "pollErr" /\ UNCHANGED <<Kept, entry>>
                     [] OTHER -> FailList("hostile") /\ UNCHANGED entry
    /\ UNCHANGED <<ReadUnchanged, emitted, asked, request, cur, got, files, result>>
ListenTimeout ==
    /\ pc = "listen" /\ "listErr" \notin overflow /\ FailList("timeout")
    /\ UNCHANGED <<ReadUnchanged, emitted, asked, channel, request, cur, got, entry, files, result>>
\* The visitor of collect_tree_files has returned its error.
VisitFailed ==
    /\ pc = "visitFailed" /\ FailList(fault)
    /\ UNCHANGED <<ReadUnchanged, emitted, asked, channel, request, cur, got, entry, files, result>>

\* CatFileBatch::read_blob
SendRequest ==
    /\ pc = "send" /\ request = <<>>
    /\ request' = <<entry>> /\ pc' = "write"
    /\ UNCHANGED <<ReadUnchanged, emitted, asked, channel, Kept, cur, got, entry, files, result>>
WriteRequest ==
    /\ pc = "write"
    /\ IF child["blob"] = "running"
       THEN asked' = Append(asked, entry) /\ pc' = "await" /\ UNCHANGED Kept
       ELSE Abort("io", AfterAbort) /\ UNCHANGED asked
    /\ UNCHANGED <<ReadUnchanged, emitted, channel, request, cur, got, entry, files, result>>

\* checked_snapshot_total: the blob process is still open when its visitor returns.
TooLarge == IF mode = "file" THEN Abort("hostile", "done") ELSE FailList("hostile")

\* Mutant: an incomplete answer is hostile, whatever became of the child.
AwaitNoGrace ==
    /\ pc = "await"
    /\ IF "blobErr" \in overflow
       THEN Abort("limit", AfterAbort) /\ UNCHANGED <<channel, files>>
       ELSE /\ channel["blobOut"] # <<>>
            /\ channel' = [channel EXCEPT !["blobOut"] = <<>>]
            /\ LET m == channel["blobOut"][1]
               IN  CASE m.kind = "record" /\ Bytes(files) + m.id <= MaxBytes ->
                            /\ files' = Append(files, [path |-> entry, blob |-> m.id])
                            /\ pc' = (IF mode = "file" THEN "next" ELSE "listen")
                            /\ UNCHANGED Kept
                     [] m.kind = "record" /\ Bytes(files) + m.id > MaxBytes -> TooLarge /\ UNCHANGED files
                     [] OTHER -> Abort("hostile", AfterAbort) /\ UNCHANGED files
    /\ UNCHANGED <<ReadUnchanged, emitted, asked, request, cur, got, entry, result>>

Await ==
    /\ pc = "await"
    /\ IF "blobErr" \in overflow
       THEN Abort("limit", AfterAbort) /\ UNCHANGED <<channel, files>>
       ELSE /\ channel["blobOut"] # <<>>
            /\ channel' = [channel EXCEPT !["blobOut"] = <<>>]
            /\ LET m == channel["blobOut"][1]
               IN  CASE m.kind = "record" /\ Bytes(files) + m.id <= MaxBytes ->
                            /\ files' = Append(files, [path |-> entry, blob |-> m.id])
                            /\ pc' = (IF mode = "file" THEN "next" ELSE "listen")
                            /\ UNCHANGED Kept
                     [] m.kind = "partial" -> pc' = "grace" /\ UNCHANGED <<Kept, files>>
                     [] m.kind = "record" /\ Bytes(files) + m.id > MaxBytes -> TooLarge /\ UNCHANGED files
                     [] OTHER -> Abort("hostile", AfterAbort) /\ UNCHANGED files
    /\ UNCHANGED <<ReadUnchanged, emitted, asked, request, cur, got, entry, result>>
AwaitTimeout ==
    /\ pc = "await" /\ "blobErr" \notin overflow /\ channel["blobOut"] = <<>>
    /\ Abort("timeout", AfterAbort)
    /\ UNCHANGED <<ReadUnchanged, emitted, asked, channel, request, cur, got, entry, files, result>>
\* The wait for the status of a child that may explain an incomplete answer.
Grace ==
    /\ pc = "grace" /\ (child["blob"] = "exited" \/ ~PromptExit)
    /\ Abort(IF child["blob"] = "exited" /\ status["blob"] # "ok" THEN "exit" ELSE "hostile", AfterAbort)
    /\ UNCHANGED <<ReadUnchanged, emitted, asked, channel, request, cur, got, entry, files, result>>

Done ==
    /\ pc = "done" /\ result = "none"
    /\ result' = IF fault = "none" THEN "ok" ELSE fault
    /\ UNCHANGED <<tree, mode, processVars, threadVars, request, open, pc, cur, got, joins, then, fault, entry, files>>
Finish == pc = "done" /\ result # "none" /\ UNCHANGED vars

Caller ==
    \/ Join \/ SpawnList \/ SpawnBlob \/ SpawnFails
    \/ PollOut \/ PollErr \/ TryWait \/ Check \/ CheckTimeout \/ ListStatus \/ BlobStatus \/ Answered \/ Captured
    \/ NextFile \/ Listen \/ ListenTimeout \/ VisitFailed
    \/ SendRequest \/ WriteRequest \/ Await \/ AwaitTimeout \/ Grace \/ Done

Next ==
    \/ Environment \/ Caller \/ Finish
    \/ \E p \in Process : Published(p)
    \/ \E t \in Thread : ThreadStep(t)

\* The caller and the threads are scheduled; the deadlines are met by CheckTimeout,
\* which is the caller's choice when nothing else can happen.  Nothing is assumed of
\* the processes, but that the kernel ends one that is dying.
Fairness ==
    /\ WF_vars(Caller) /\ SF_vars(CheckTimeout)
    /\ \A t \in Thread : WF_vars(ThreadStep(t))
    /\ \A p \in Process : WF_vars(Published(p))

Spec == Init /\ [][Next]_vars /\ Fairness

---------------------------------------------------------------------------
(* Properties *)

\* A snapshot that is returned has every record of the tree, in order, each with the blob
\* that was asked for, and the output of a command is all of it: no capture cut off at its
\* limit, listing cut off by a death, or answer to another request passes for complete.
SnapshotComplete ==
    result = "ok" /\ mode # "ask" => files = [i \in 1 .. Len(tree) |-> [path |-> tree[i], blob |-> tree[i]]]

Hostile ==
    \/ \E i \in 1 .. Len(tree) : tree[i] \in HostileBlobs \union {0}
    \/ \E i \in 1 .. Len(tree) - 1 : tree[i] >= tree[i + 1]
    \/ Len(tree) > OutLimit \/ Total(tree) > MaxBytes

\* Synchronisation quarantines a tree as hostile only for what the tree holds, never
\* because a process died, hung or was killed while it was read.
HostileOnlyByData == mode = "file" /\ result = "hostile" => Hostile

\* What is_ancestor reports is what Git has answered: a command that died, failed or was
\* killed is an error, never a no, which would quarantine the store for good.
AnswerTrue ==
    mode = "ask" => (result = "ok" => tree = <<>>) /\ (result = "no" => tree # <<>>)

\* When the call has returned, every thread that it started is joined and every child
\* reaped, whichever way it returned.
NothingLeftBehind ==
    pc = "done" =>
        /\ \A t \in Thread : thread[t] \in {"none", "joined"}
        /\ \A p \in Process : child[p] \in {"none", "reaped"}

\* Every call returns, although a process may hang and a descendant keep a pipe open.
Returns == <>(pc = "done")
=============================================================================
