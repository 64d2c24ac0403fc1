------------------------------ MODULE LogStream ------------------------------
(***************************************************************************)
(* One StreamLogs call of each driver: the goroutines that copy the log of *)
(* a workload into a channel, and who receives from it.                    *)
(*                                                                         *)
(* Docker and kubernetes read both streams from one connection, and the    *)
(* remote driver reads stderr only (stdout is discarded): one goroutine,   *)
(* "main".  Podman and compose run a process and read its stderr in main   *)
(* and its stdout in a goroutine of its own, "inner".  The two share one   *)
(* buffer and one channel, which main closes.                              *)
(*                                                                         *)
(* A chunk is what one Read returns.  It is the i-th of its stream.        *)
(***************************************************************************)
EXTENDS Naturals, Sequences, RuntimeDriver

CONSTANTS
    Capacity,    \* of the channel, 100 in the code
    MaxChunks    \* bound on the chunks of a stream

ASSUME StreamAssumption == Capacity \in Nat \ {0} /\ MaxChunks \in Nat

Readers == {"main", "inner"}

Other(r) == IF r = "main" THEN "inner" ELSE "main"

VARIABLES
    backend,    \* the driver that was called
    source,     \* the followed log: running, exited, or its connection broken
    cancelled,  \* the caller's context is cancelled
    written,    \* chunks written to each stream
    taken,      \* chunks that each goroutine has read
    buf,        \* whose chunk the buffer holds, or "mixed"
    pc,         \* where each goroutine is
    whole,      \* the string that each goroutine sends is the chunk it read
    log,        \* everything sent to the channel, oldest first
    got,        \* how much of it was received
    closed,     \* the channel is closed
    left,       \* nobody receives any more
    panicked    \* a send on the closed channel has ended the program

vars == <<backend, source, cancelled, written, taken, buf, pc, whole, log, got, closed, left,
          panicked>>

outside == <<backend, source, cancelled, written, left>>

Items == [from : Readers, index : 1 .. MaxChunks, whole : BOOLEAN]

Init ==
    /\ backend \in Backends
    /\ source = "running"
    /\ cancelled = FALSE
    /\ written = [r \in Readers |-> 0]
    /\ taken = [r \in Readers |-> 0]
    /\ buf = "empty"
    /\ pc = [r \in Readers |-> "idle"]
    /\ whole = [r \in Readers |-> TRUE]
    /\ log = <<>>
    /\ got = 0
    /\ closed = FALSE
    /\ left = FALSE
    /\ panicked = FALSE

\* The drivers that follow the log through a process with two pipes.
Piped == backend \in {"podman", "compose"}

\* Those that read the body of an HTTP response.
Http == backend \in {"docker", "kubernetes"}

Goto(r, label) == pc' = [pc EXCEPT ![r] = label]

\* Only the kubernetes driver looks at the context between two reads.
LoopHead == IF backend = "kubernetes" THEN "check" ELSE "read"

-----------------------------------------------------------------------------
\* The log is opened and the goroutines are started.
StreamLogs ==
    /\ pc["main"] = "idle"
    /\ pc' = [pc EXCEPT !["main"] = LoopHead, !["inner"] = IF Piped THEN "read" ELSE "idle"]
    /\ UNCHANGED <<outside, taken, buf, whole, log, got, closed, panicked>>

\* It cannot be opened: the caller gets an error and no channel.
StreamLogsFails ==
    /\ pc["main"] = "idle"
    /\ Goto("main", "refused")
    /\ UNCHANGED <<outside, taken, buf, whole, log, got, closed, panicked>>

\* The select on ctx.Done.
CheckContext ==
    /\ pc["main"] = "check"
    /\ Goto("main", IF cancelled THEN "close" ELSE "read")
    /\ UNCHANGED <<outside, taken, buf, whole, log, got, closed, panicked>>

\* cmd.Wait has closed the pipes.
PipesClosed == Piped /\ pc["main"] \in {"close", "done"}

\* While the other goroutine has a chunk in the buffer, the two copies race.
Read(r) ==
    /\ pc[r] = "read" /\ taken[r] < written[r] /\ ~PipesClosed
    /\ taken' = [taken EXCEPT ![r] = @ + 1]
    /\ buf' \in IF pc[Other(r)] = "convert" THEN {r, Other(r), "mixed"} ELSE {r}
    /\ Goto(r, "convert")
    /\ UNCHANGED <<outside, whole, log, got, closed, panicked>>

\* Fault: the loop ends with the process, whatever is still in the pipe.
ReadFailsEarly(r) == source # "running" \/ (Http /\ cancelled) \/ PipesClosed

\* Read returns an error: the end of the log, a cancelled context, a lost
\* connection, or a pipe closed by cmd.Wait.
ReadFails(r) ==
    \/ source = "exited" /\ taken[r] = written[r]
    \/ Http /\ cancelled
    \/ source = "broken"
    \/ PipesClosed

\* An HTTP body may return its last bytes together with EOF; they are dropped.
ReadWithEOF(r) == Http /\ source = "exited" /\ taken[r] + 1 = written[r]

\* Fault: an error is taken for an empty read.
ReadEndRetries(r) ==
    /\ pc[r] = "read"
    /\ ReadFails(r) \/ ReadWithEOF(r)
    /\ Goto(r, LoopHead)
    /\ UNCHANGED <<outside, taken, buf, whole, log, got, closed, panicked>>

\* Any error ends the loop.
ReadEnd(r) ==
    /\ pc[r] = "read"
    /\ ReadFails(r) \/ ReadWithEOF(r)
    /\ Goto(r, IF r = "inner" THEN "done" ELSE IF Piped THEN "wait" ELSE "close")
    /\ UNCHANGED <<outside, taken, buf, whole, log, got, closed, panicked>>

\* string(buf[:n]) copies what the buffer holds by now.
Convert(r) ==
    /\ pc[r] = "convert"
    /\ whole' = [whole EXCEPT ![r] = (buf = r)]
    /\ Goto(r, "send")
    /\ UNCHANGED <<outside, taken, buf, log, got, closed, panicked>>

Full == Len(log) - got = Capacity

Item(r) == [from |-> r, index |-> taken[r], whole |-> whole[r]]

\* Fault: the chunk is dropped when the channel is full.
SendDrops(r) ==
    /\ pc[r] = "send" /\ ~closed
    /\ log' = IF Full THEN log ELSE Append(log, Item(r))
    /\ Goto(r, IF r = "main" THEN LoopHead ELSE "read")
    /\ UNCHANGED <<outside, taken, buf, whole, got, closed, panicked>>

\* Fault: the channel has no bound.
SendUnbounded(r) ==
    /\ pc[r] = "send" /\ ~closed
    /\ log' = Append(log, Item(r))
    /\ Goto(r, IF r = "main" THEN LoopHead ELSE "read")
    /\ UNCHANGED <<outside, taken, buf, whole, got, closed, panicked>>

\* A full channel blocks the goroutine, whatever the context says.
Send(r) ==
    /\ pc[r] = "send" /\ ~closed /\ ~Full
    /\ log' = Append(log, Item(r))
    /\ Goto(r, IF r = "main" THEN LoopHead ELSE "read")
    /\ UNCHANGED <<outside, taken, buf, whole, got, closed, panicked>>

\* A goroutine that sends, or is blocked sending, when the channel is closed.
SendPanics(r) ==
    /\ pc[r] = "send" /\ closed
    /\ panicked' = TRUE
    /\ UNCHANGED <<outside, taken, buf, pc, whole, log, got, closed>>

\* cmd.Wait returns when the process has ended.
Wait ==
    /\ pc["main"] = "wait" /\ source = "exited"
    /\ Goto("main", "close")
    /\ UNCHANGED <<outside, taken, buf, whole, log, got, closed, panicked>>

Close ==
    /\ pc["main"] = "close"
    /\ closed' = TRUE
    /\ Goto("main", "done")
    /\ UNCHANGED <<outside, taken, buf, whole, log, got, panicked>>

-----------------------------------------------------------------------------
(***************************************************************************)
(* Around the stream: the workload writes and ends, connections break, the *)
(* caller receives, cancels its context (which kills a process, and leaves *)
(* an ssh session alone) or turns away.                                    *)
(***************************************************************************)
Write(r) ==
    /\ r = "inner" => Piped
    /\ source = "running" /\ written[r] < MaxChunks
    /\ written' = [written EXCEPT ![r] = @ + 1]
    /\ UNCHANGED <<backend, source, cancelled, taken, buf, pc, whole, log, got, closed, left,
                   panicked>>

SourceEnds(how) ==
    /\ source = "running"
    /\ how = "broken" => ~Piped
    /\ source' = how
    /\ UNCHANGED <<backend, cancelled, written, taken, buf, pc, whole, log, got, closed, left,
                   panicked>>

Cancel ==
    /\ ~cancelled
    /\ cancelled' = TRUE
    /\ UNCHANGED <<backend, source, written, taken, buf, pc, whole, log, got, closed, left,
                   panicked>>

\* exec kills the process of a cancelled context.
Kill == Piped /\ cancelled /\ SourceEnds("exited")

Receive ==
    /\ ~left /\ got < Len(log)
    /\ got' = got + 1
    /\ UNCHANGED <<outside, taken, buf, pc, whole, log, closed, panicked>>

Leave ==
    /\ ~left
    /\ left' = TRUE
    /\ UNCHANGED <<backend, source, cancelled, written, taken, buf, pc, whole, log, got, closed,
                   panicked>>

-----------------------------------------------------------------------------
Main == CheckContext \/ Wait \/ Close

Reader(r) == Read(r) \/ ReadEnd(r) \/ Convert(r) \/ Send(r) \/ SendPanics(r)

Next ==
    /\ ~panicked
    /\ \/ StreamLogs \/ StreamLogsFails \/ Main
       \/ \E r \in Readers : Reader(r) \/ Write(r)
       \/ \E how \in {"exited", "broken"} : SourceEnds(how)
       \/ Cancel \/ Kill \/ Receive \/ Leave

Spec == Init /\ [][Next]_vars

\* Goroutines run, a cancelled process is killed, and whoever stays receives.
Fairness ==
    /\ WF_vars(~panicked /\ (Main \/ Reader("main")))
    /\ WF_vars(~panicked /\ Reader("inner"))
    /\ WF_vars(~panicked /\ Kill)
    /\ WF_vars(~panicked /\ Receive)

FairSpec == Spec /\ Fairness

-----------------------------------------------------------------------------
Labels == {"idle", "refused", "check", "read", "convert", "send", "wait", "close", "done"}

\* The goroutines are at a line of StreamLogs; no more is received than was sent.
TypeOK ==
    /\ backend \in Backends
    /\ source \in {"running", "exited", "broken"}
    /\ cancelled \in BOOLEAN
    /\ written \in [Readers -> 0 .. MaxChunks]
    /\ taken \in [Readers -> 0 .. MaxChunks]
    /\ \A r \in Readers : taken[r] <= written[r]
    /\ buf \in Readers \cup {"empty", "mixed"}
    /\ pc \in [Readers -> Labels]
    /\ whole \in [Readers -> BOOLEAN]
    /\ log \in Seq(Items)
    /\ got \in 0 .. Len(log) /\ Len(log) - got <= Capacity
    /\ closed \in BOOLEAN /\ left \in BOOLEAN /\ panicked \in BOOLEAN

\* How many chunks a goroutine has sent.
Sent(r) == IF pc[r] \in {"convert", "send"} THEN taken[r] - 1 ELSE taken[r]

Carries(r, i) == \E k \in DOMAIN log : log[k].from = r /\ log[k].index = i

(***************************************************************************)
(* Whatever blocks, fails or is cancelled, the channel carries each stream *)
(* in order, no chunk twice and none left out; and although two goroutines *)
(* read into one buffer, a chunk is damaged only when both streams have    *)
(* been read.                                                              *)
(***************************************************************************)
InOrder ==
    /\ \A k, l \in DOMAIN log :
        k < l /\ log[k].from = log[l].from => log[k].index < log[l].index
    /\ \A r \in Readers, i \in 1 .. MaxChunks : i <= Sent(r) <=> Carries(r, i)
    /\ \A k \in DOMAIN log : ~log[k].whole => \A r \in Readers : taken[r] > 0

(***************************************************************************)
(* When the log ended by itself and the channel is closed, everything that *)
(* main follows has been sent.  Over HTTP the last chunk may be missing.   *)
(* Nothing is promised of the inner goroutine's stream.                    *)
(***************************************************************************)
Complete ==
    closed /\ source = "exited" /\ ~cancelled =>
        \A i \in 1 .. (IF Http THEN written["main"] - 1 ELSE written["main"]) : Carries("main", i)

\* The log has ended, or its reader asked the stream to end; ssh does not hear.
Over ==
    /\ pc["main"] \notin {"idle", "refused"}
    /\ source # "running" \/ (cancelled /\ backend # "remote")

(***************************************************************************)
(* A stream that is over is closed and its goroutines end, unless the      *)
(* program panics, or nobody receives and a goroutine waits for ever for   *)
(* room in the channel.                                                    *)
(***************************************************************************)
StreamEnds ==
    Over ~> \/ closed /\ pc["inner"] \in {"idle", "done"}
            \/ panicked
            \/ left /\ Full
=============================================================================
