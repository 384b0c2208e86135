----------------------------- MODULE AsyncReader -----------------------------
(***************************************************************************)
(* zip_async::AsyncEntryReader: poll_read, the blocking task it launches,  *)
(* and the client that polls, gives up a poll, and drops the reader.       *)
(*                                                                         *)
(* The EntryReader is the one of module EntryReader: result is the message *)
(* of the oneshot channel while holder says so.  The steps of one          *)
(* poll_read interleave with those of the task.                            *)
(***************************************************************************)
EXTENDS EntryReader

CONSTANTS
  Chunk,      \* CHUNK, the size of a staging buffer
  Capacities  \* what remains of the buffers clients pass

ASSUME ChunkType == Chunk \in Nat \ {0}
ASSUME CapacitiesType == Capacities \subseteq Nat

VARIABLES
  holder,      \* who has the EntryReader: the field inner, the task, the
               \* message, or nobody once it is dropped
  pending,     \* is there a receiver?
  staging,     \* the bytes of the field staging, from .. to
  stagingPos,
  client,      \* between polls, in one, parked by one, or gone
  capacity,    \* buf.remaining() of this poll
  waker,       \* has the receiver a waker?
  received,    \* history: how many bytes the client was given
  answer,      \* what the latest poll returned
  told         \* history, named as the phases of ByteStream

handleVars == <<holder, pending, staging, stagingPos>>
clientVars == <<client, capacity, waker>>
historyVars == <<received, answer, told>>
vars == <<readerVars, handleVars, clientVars, historyVars>>

Nothing == [from |-> 0, to |-> 0]

Init ==
  /\ OpenEntry
  /\ holder = "inner"
  /\ pending = FALSE
  /\ staging = Nothing
  /\ stagingPos = 0
  /\ client = "idle"
  /\ capacity = 0
  /\ waker = FALSE
  /\ received = 0
  /\ answer = Says("none")
  /\ told = "open"

----------------------------------------------------------------------------
(* poll_read.                                                              *)

PollRead(cap) ==
  /\ client = "idle"
  /\ client' = "polling"
  /\ capacity' = cap
  /\ UNCHANGED <<readerVars, handleVars, waker, historyVars>>

\* Poll::Ready with n bytes, with an error, with none at the end.
ReadyBytes(from, n) ==
  /\ client' = "idle"
  /\ received' = received + n
  /\ answer' = [kind |-> "bytes", from |-> from, to |-> from + n]
  /\ UNCHANGED <<readerVars, capacity, waker, told>>

ReadyError ==
  /\ client' = "idle"
  /\ answer' = Says("error")
  /\ told' = "failed"
  /\ UNCHANGED <<readerVars, capacity, waker, received>>

ReadyEnd ==
  /\ client' = "idle"
  /\ answer' = Says("end")
  /\ told' = IF told = "open" THEN "ended" ELSE told
  /\ UNCHANGED <<readerVars, capacity, waker, received>>

Staged == staging.to - staging.from - stagingPos

\* Step 1 of the loop.  Mutant: a position that survives its buffer.
ServeBufferedOnce ==
  /\ client = "polling"
  /\ Staged > 0 /\ capacity > 0
  /\ LET n == Least(Staged, capacity)
     IN  /\ ReadyBytes(staging.from + stagingPos, n)
         /\ stagingPos' = stagingPos + n
         /\ staging' = IF n = Staged THEN Nothing ELSE staging
  /\ UNCHANGED <<holder, pending>>

ServeBuffered ==
  /\ client = "polling"
  /\ Staged > 0 /\ capacity > 0
  /\ LET n == Least(Staged, capacity)
     IN  /\ ReadyBytes(staging.from + stagingPos, n)
         /\ IF n = Staged
            THEN stagingPos' = 0 /\ staging' = Nothing
            ELSE stagingPos' = stagingPos + n /\ UNCHANGED staging
  /\ UNCHANGED <<holder, pending>>

\* Step 2, when step 1 has served nothing: finish_read on what the receiver
\* has, and then around the loop or out with the error.
Collecting ==
  /\ client = "polling"
  /\ Staged = 0 \/ capacity = 0
  /\ pending

\* What finish_read keeps: the message's buffer as staging, and the reader.
Collected(bytes, keeper) ==
  /\ pending' = FALSE
  /\ staging' = bytes
  /\ stagingPos' = 0
  /\ holder' = keeper
  /\ UNCHANGED <<readerVars, clientVars, historyVars>>

CollectBytes ==
  /\ Collecting
  /\ holder = "message" /\ result.kind = "bytes"
  /\ Collected([from |-> result.from, to |-> result.to], "inner")

\* Mutant: the end of the stream does not drop the reader.
CollectEndKeepsReader ==
  /\ Collecting
  /\ holder = "message" /\ result.kind = "end"
  /\ Collected(Nothing, "inner")

CollectEnd ==
  /\ Collecting
  /\ holder = "message" /\ result.kind = "end"
  /\ Collected(Nothing, "dropped")

\* Mutant: an error gives the reader back to inner.
CollectErrorKeepsReader ==
  /\ Collecting
  /\ holder = "message" /\ result.kind = "error"
  /\ pending' = FALSE
  /\ holder' = "inner"
  /\ UNCHANGED <<staging, stagingPos>>
  /\ ReadyError

CollectError ==
  /\ Collecting
  /\ holder = "message" /\ result.kind = "error"
  /\ pending' = FALSE
  /\ holder' = "dropped"
  /\ UNCHANGED <<staging, stagingPos>>
  /\ ReadyError

\* The task ended without a message.  Mutant: taken for the end of the stream.
CollectCancelledQuietly ==
  /\ Collecting
  /\ holder = "dropped"
  /\ pending' = FALSE
  /\ UNCHANGED <<readerVars, holder, staging, stagingPos, clientVars, historyVars>>

CollectCancelled ==
  /\ Collecting
  /\ holder = "dropped"
  /\ pending' = FALSE
  /\ UNCHANGED <<holder, staging, stagingPos>>
  /\ ReadyError

\* Poll::Pending: the receiver keeps the waker of this poll.
Park ==
  /\ Collecting
  /\ holder = "task"
  /\ client' = "parked"
  /\ waker' = TRUE
  /\ UNCHANGED <<readerVars, handleVars, capacity, historyVars>>

\* Step 3, when there is no receiver.
EmptyBuffer ==
  /\ client = "polling"
  /\ ~pending
  /\ capacity = 0
  /\ ReadyBytes(received, 0)
  /\ UNCHANGED handleVars

EndOfFile ==
  /\ client = "polling"
  /\ ~pending /\ Staged = 0 /\ capacity > 0
  /\ holder = "dropped"
  /\ ReadyEnd
  /\ UNCHANGED handleVars

\* Mutants: a launch for an empty buffer, and a launch after which poll_read
\* returns Poll::Pending without a look at the receiver.
LaunchAnyway ==
  /\ client = "polling"
  /\ ~pending /\ (Staged = 0 \/ capacity = 0)
  /\ holder = "inner"
  /\ holder' = "task"
  /\ pending' = TRUE
  /\ staging' = Nothing
  /\ UNCHANGED <<readerVars, stagingPos, clientVars, historyVars>>

LaunchAndPark ==
  /\ client = "polling"
  /\ ~pending /\ Staged = 0 /\ capacity > 0
  /\ holder = "inner"
  /\ holder' = "task"
  /\ pending' = TRUE
  /\ staging' = Nothing
  /\ client' = "parked"
  /\ UNCHANGED <<readerVars, stagingPos, capacity, waker, historyVars>>

Launch ==
  /\ client = "polling"
  /\ ~pending /\ Staged = 0 /\ capacity > 0
  /\ holder = "inner"
  /\ holder' = "task"
  /\ pending' = TRUE
  /\ staging' = Nothing
  /\ UNCHANGED <<readerVars, stagingPos, clientVars, historyVars>>

PollStep ==
  \/ ServeBuffered
  \/ CollectBytes
  \/ CollectEnd
  \/ CollectError
  \/ CollectCancelled
  \/ Park
  \/ EmptyBuffer
  \/ EndOfFile
  \/ Launch

----------------------------------------------------------------------------
(* The blocking task, and the client between polls.                        *)

\* The receiver wakes whom it knows; a parked client then polls again with the
\* buffer it has.
Wake ==
  /\ client' = IF waker /\ client = "parked" THEN "polling" ELSE client
  /\ waker' = FALSE
  /\ UNCHANGED capacity

\* Without a receiver the send fails, and drops what it was to send.
BlockingRead ==
  /\ holder = "task"
  /\ Read(Chunk)
  /\ holder' = IF client = "gone" THEN "dropped" ELSE "message"
  /\ Wake
  /\ UNCHANGED <<pending, staging, stagingPos, historyVars>>

\* The runtime shuts down before the task has run, or the read panics: the
\* sender and the reader are dropped.
TaskDropped ==
  /\ holder = "task"
  /\ holder' = "dropped"
  /\ Wake
  /\ UNCHANGED <<readerVars, pending, staging, stagingPos, historyVars>>

\* A future that awaits the read is dropped, the reader is not.
AbandonPoll ==
  /\ client = "parked"
  /\ client' = "idle"
  /\ UNCHANGED <<readerVars, handleVars, capacity, waker, historyVars>>

DropReader ==
  /\ client \in {"idle", "parked"}
  /\ client' = "gone"
  /\ holder' = IF holder = "task" THEN "task" ELSE "dropped"
  /\ pending' = FALSE
  /\ staging' = Nothing
  /\ stagingPos' = 0
  /\ waker' = FALSE
  /\ UNCHANGED <<readerVars, capacity, historyVars>>

Next ==
  \/ \E cap \in Capacities : PollRead(cap)
  \/ PollStep
  \/ BlockingRead
  \/ TaskDropped
  \/ AbandonPoll
  \/ DropReader

Spec == Init /\ [][Next]_vars

\* The executor runs a poll to its end, the blocking pool runs its tasks and
\* each read of a member returns, and a client that reads to the end offers
\* room again and again, whatever polls of empty buffers it makes in between.
Fairness ==
  /\ WF_vars(PollStep)
  /\ WF_vars(BlockingRead)
  /\ SF_vars(\E cap \in Capacities \ {0} : PollRead(cap))

FairSpec == Spec /\ Fairness

----------------------------------------------------------------------------
(* Properties.                                                             *)

\* The fields have their types; staging never holds bytes while a read is
\* under way, and a position only together with bytes.
TypeOK ==
  /\ ReaderTypeOK
  /\ holder \in {"inner", "task", "message", "dropped"}
  /\ pending \in BOOLEAN
  /\ staging \in [from : Nat, to : Nat]
  /\ staging.from =< staging.to
  /\ stagingPos \in 0 .. (staging.to - staging.from)
  /\ pending => staging = Nothing
  /\ client \in {"idle", "polling", "parked", "gone"}
  /\ capacity \in Capacities \cup {0}
  /\ waker \in BOOLEAN
  /\ received \in Nat
  /\ answer \in ResultType
  /\ told \in {"open", "ended", "failed"}

InFlight ==
  IF holder = "message" /\ result.kind = "bytes"
  THEN result.to - result.from
  ELSE 0

\* Every byte the blocking thread has read is with the client, in staging or
\* in the message, through abandoned polls, empty buffers and dropped tasks,
\* until the reader fails or is dropped.
NoByteLost ==
  outcome # "failed" /\ client # "gone" =>
    received + Staged + InFlight = reader.pos

\* The asynchronous reader keeps the promise of a reader.
AsyncStream == INSTANCE ByteStream WITH
  content <- [length |-> entry.len, intact |-> Intact(entry)],
  pos     <- received,
  phase   <- told,
  answer  <- answer
ImplementsByteStream == AsyncStream!Spec

\* A poll that returned Poll::Pending does not wait for ever: what it waits
\* for knows its waker, and wakes it even when it ends without a message.
ParkedIsWoken == client = "parked" ~> client # "parked"

\* A client that goes on reading is told the end of the entry, or an error.
ReadsToTheEnd == <>(client = "gone" \/ told # "open")

\* Once the client is done with it, the EntryReader is dropped, and with it
\* its buffer goes back to the pool, even if a read was under way.
ReaderIsReleased == (client = "gone" \/ told # "open") ~> holder = "dropped"
=============================================================================
