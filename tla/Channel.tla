------------------------------ MODULE Channel -------------------------------
(***************************************************************************)
(* unbounded.Channel: a queue of unbounded length with a signal, Ch, that  *)
(* wakes its reader (unbounded/unbounded.go), as clientLoop uses it for    *)
(* the actions of a client and the readers of tracks for theirs.  Several  *)
(* goroutines put; one goroutine waits for the signal and then gets all    *)
(* there is.  Elements are pairs of a writer and a number.                 *)
(***************************************************************************)
EXTENDS Integers, Sequences

CONSTANTS
    Writers,
    MaxPuts      \* bound: elements each writer puts

ASSUME MaxPutsAssumption == MaxPuts \in Nat

VARIABLES
    queue,       \* ch.queue
    signal,      \* ch.Ch, a channel of capacity 1, is full
    writer,      \* what each writer is doing: "idle", or about to "signal"
    reader,      \* the reader waits for the signal ("wait") or gets ("get")
    puts,        \* history: elements each writer has put
    arrived,     \* history: all elements put, in order
    taken        \* history: all elements got, in order

channelVars == <<queue, signal, writer, reader, puts, arrived, taken>>

Elements == Writers \X Nat

QueueInit ==
    /\ queue = <<>> /\ signal = FALSE
    /\ writer = [w \in Writers |-> "idle"] /\ reader = "wait"
    /\ puts = [w \in Writers |-> 0] /\ arrived = <<>> /\ taken = <<>>

\* Put, under ch.mu: only the writer that finds the queue empty signals.
PutSignalsNever(w) ==
    /\ writer[w] = "idle" /\ puts[w] < MaxPuts
    /\ puts' = [puts EXCEPT ![w] = @ + 1]
    /\ queue' = Append(queue, <<w, puts[w] + 1>>)
    /\ arrived' = Append(arrived, <<w, puts[w] + 1>>)
    /\ UNCHANGED <<writer, signal, reader, taken>>
PutOne(w) ==
    /\ writer[w] = "idle" /\ puts[w] < MaxPuts
    /\ puts' = [puts EXCEPT ![w] = @ + 1]
    /\ queue' = Append(queue, <<w, puts[w] + 1>>)
    /\ arrived' = Append(arrived, <<w, puts[w] + 1>>)
    /\ writer' = [writer EXCEPT ![w] = IF queue = <<>> THEN "signal" ELSE "idle"]
    /\ UNCHANGED <<signal, reader, taken>>

\* Put, after ch.mu is released: the send that never blocks.
Signal(w) ==
    /\ writer[w] = "signal"
    /\ writer' = [writer EXCEPT ![w] = "idle"]
    /\ signal' = TRUE
    /\ UNCHANGED <<queue, reader, puts, arrived, taken>>

\* The reader receives from ch.Ch ...
Wake ==
    /\ reader = "wait" /\ signal
    /\ signal' = FALSE
    /\ reader' = "get"
    /\ UNCHANGED <<queue, writer, puts, arrived, taken>>

\* ... and takes everything, which may be nothing.
GetFirstOnly ==
    /\ reader = "get"
    /\ reader' = "wait"
    /\ taken' = IF queue = <<>> THEN taken ELSE Append(taken, Head(queue))
    /\ queue' = <<>>
    /\ UNCHANGED <<signal, writer, puts, arrived>>
Get ==
    /\ reader = "get"
    /\ reader' = "wait"
    /\ taken' = taken \o queue
    /\ queue' = <<>>
    /\ UNCHANGED <<signal, writer, puts, arrived>>

Done == (\A w \in Writers : puts[w] = MaxPuts) /\ queue = <<>> /\ UNCHANGED channelVars

QueueNext == (\E w \in Writers : PutOne(w) \/ Signal(w)) \/ Wake \/ Get \/ Done

QueueSpec == QueueInit /\ [][QueueNext]_channelVars

\* Goroutines run; nobody need put anything.
FairQueueSpec ==
    /\ QueueSpec
    /\ \A w \in Writers : WF_channelVars(Signal(w))
    /\ WF_channelVars(Wake) /\ WF_channelVars(Get)

-----------------------------------------------------------------------------
QueueTypeOK ==
    /\ queue \in Seq(Elements) /\ arrived \in Seq(Elements)
    /\ taken \in Seq(Elements)
    /\ signal \in BOOLEAN
    /\ writer \in [Writers -> {"idle", "signal"}]
    /\ reader \in {"wait", "get"}
    /\ puts \in [Writers -> 0 .. MaxPuts]

\* The reader does not sleep on a queue that holds something: it has been
\* signalled, is about to be, or is awake.  (The signal is sent after the
\* lock is released, and dropped when Ch is full.)
NoLostWakeup ==
    queue # <<>> =>
        signal \/ reader = "get" \/ \E w \in Writers : writer[w] = "signal"

\* Nothing is lost, duplicated or reordered between Put and Get.
FirstInFirstOut == arrived = taken \o queue

\* Whatever is put is taken in the end.
AllTaken == \A n \in 1 .. MaxPuts : \A w \in Writers :
    puts[w] >= n ~> \E k \in 1 .. Len(taken) : taken[k] = <<w, n>>
=============================================================================
