-------------------------- MODULE AsyncReaderProofs --------------------------
(***************************************************************************)
(* What holds of AsyncReader for every entry, chunk size and sequence of   *)
(* buffers, whatever the order of polls, abandoned polls and task steps.   *)
(* The inductive invariant says who may have the EntryReader when, and     *)
(* where the bytes are that the client has not got yet.                    *)
(***************************************************************************)
EXTENDS AsyncReader, EntryReaderProofs

\* Who has the reader, and what was told by then.
Custody ==
  /\ client = "gone" => ~pending /\ holder \in {"task", "dropped"}
  /\ client # "gone" => (holder \in {"task", "message"} => pending)
  /\ holder = "inner" => ~pending
  /\ holder # "dropped" => told = "open"
  /\ pending => told = "open"
  /\ holder \in {"inner", "task"} => outcome = "open"
  /\ client # "gone" /\ told = "open" /\ holder = "dropped" /\ ~pending =>
       outcome = "ended"
  /\ outcome # "unchecked"

\* What the message holds is what the reader's state says it read last.
Message ==
  holder = "message" =>
    \/ /\ result.kind = "bytes" /\ outcome = "open"
       /\ result.from = received /\ received < result.to
       /\ result.to = reader.pos
    \/ result.kind = "end" /\ outcome = "ended"
    \/ result.kind = "error" /\ outcome = "failed"

\* The staged bytes are the next ones, up to where the reader stands; when
\* none are staged and none are in flight, the client has them all.
Staging ==
  /\ received =< reader.pos
  /\ staging # Nothing =>
       /\ holder = "inner"
       /\ staging.from + stagingPos = received
       /\ staging.to = reader.pos
       /\ received < reader.pos
  /\ staging = Nothing /\ client # "gone" /\ outcome # "failed"
       /\ ~(holder = "message" /\ result.kind = "bytes") =>
       received = reader.pos

AsyncInv == TypeOK /\ ReaderInv /\ Custody /\ Message /\ Staging

----------------------------------------------------------------------------

\* The empty range of bytes.
LEMMA NothingFacts ==
  /\ Nothing \in [from : Nat, to : Nat]
  /\ Nothing.from = 0 /\ Nothing.to = 0
  /\ 0 \in 0 .. (Nothing.to - Nothing.from)
BY DEF Nothing

\* The invariant holds of a reader that was just opened.
LEMMA InitInv == Init => AsyncInv
<1> SUFFICES ASSUME Init PROVE AsyncInv
  OBVIOUS
<1>1. ReaderInv
  BY OpenInv DEF Init
<1>2. reader.pos = 0
  BY DEF Init, OpenEntry, Opened
<1>3. TypeOK
  <2>1. ReaderTypeOK
    BY <1>1 DEF ReaderInv
  <2>2. answer \in ResultType
    BY DEF Init, Says, ResultType
  <2>3. /\ staging \in [from : Nat, to : Nat] /\ staging.from =< staging.to
        /\ stagingPos \in 0 .. (staging.to - staging.from)
    BY NothingFacts DEF Init
  <2> QED
    BY <2>1, <2>2, <2>3 DEF Init, TypeOK
<1>4. Custody /\ Message /\ Staging
  BY <1>2 DEF Init, OpenEntry, Says, Custody, Message, Staging
<1> QED
  BY <1>1, <1>3, <1>4 DEF AsyncInv

\* How much of staging is left, and how much of it a poll may take.
LEMMA StagedFacts ==
  ASSUME TypeOK
  PROVE  /\ Staged \in Nat
         /\ staging.from \in Nat /\ staging.to \in Nat /\ stagingPos \in Nat
         /\ capacity \in Nat
         /\ staging = Nothing => Staged = 0 /\ stagingPos = 0
         /\ Staged = 0 /\ Staging => staging = Nothing
         /\ Staged > 0 /\ capacity > 0 =>
              Least(Staged, capacity) \in 1 .. Staged
<1>1. /\ staging.from \in Nat /\ staging.to \in Nat /\ stagingPos \in Nat
      /\ stagingPos =< staging.to - staging.from
      /\ capacity \in Nat
  BY CapacitiesType DEF TypeOK
<1>2. Staging => received \in Nat /\ reader.pos \in Nat
  BY DEF TypeOK, ReaderTypeOK, ReaderType
<1> QED
  BY <1>1, <1>2 DEF Staged, Nothing, Staging, Least

\* A step of poll_read keeps the invariant.
LEMMA PollInv ==
  ASSUME AsyncInv, PollStep
  PROVE  AsyncInv'
<1>1. readerVars' = readerVars
  BY DEF PollStep, ServeBuffered, CollectBytes, CollectEnd, CollectError, CollectCancelled, Park,
     EmptyBuffer, EndOfFile, Launch, ReadyBytes, ReadyError, ReadyEnd, Collected
<1>2. ReaderInv' /\ ReaderTypeOK'
  BY <1>1, ReaderStutter DEF AsyncInv, ReaderInv, readerVars
<1>3. /\ entry' = entry /\ reader' = reader /\ result' = result /\ outcome' = outcome
      /\ reader.pos \in Nat /\ received \in Nat /\ received =< reader.pos
  BY <1>1 DEF readerVars, AsyncInv, ReaderInv, ReaderTypeOK, ReaderType, TypeOK, Staging
<1>4. TypeOK /\ Custody /\ Message /\ Staging
  BY DEF AsyncInv
<1>5. CASE ServeBuffered
  <2> DEFINE n == Least(Staged, capacity)
  <2>1. /\ n \in 1 .. Staged
        /\ staging.from \in Nat /\ staging.to \in Nat /\ stagingPos \in Nat
        /\ staging # Nothing
    BY <1>4, <1>5, StagedFacts DEF ServeBuffered
  <2>2. /\ client = "polling" /\ client' = "idle"
        /\ received' = received + n
        /\ answer' = [kind |-> "bytes", from |-> staging.from + stagingPos,
                      to |-> staging.from + stagingPos + n]
        /\ UNCHANGED <<capacity, waker, told, holder, pending>>
        /\ IF n = Staged
           THEN stagingPos' = 0 /\ staging' = Nothing
           ELSE stagingPos' = stagingPos + n /\ staging' = staging
    BY <1>5 DEF ServeBuffered, ReadyBytes
  <2>3. /\ holder = "inner" /\ ~pending /\ outcome = "open"
        /\ staging.from + stagingPos = received
        /\ staging.to = reader.pos
        /\ Staged = reader.pos - received
    BY <1>3, <1>4, <2>1 DEF Custody, Staging, Staged
  <2> HIDE DEF n
  <2>4. TypeOK'
    <3>1. /\ staging' \in [from : Nat, to : Nat] /\ staging'.from =< staging'.to
          /\ stagingPos' \in 0 .. (staging'.to - staging'.from)
      BY <1>4, <2>1, <2>2, NothingFacts DEF TypeOK, Staged
    <3>2. answer' \in ResultType /\ received' \in Nat
      BY <1>3, <2>1, <2>2 DEF ResultType
    <3> QED
      BY <1>2, <1>4, <2>2, <2>3, <3>1, <3>2 DEF TypeOK
  <2>5. Custody' /\ Message'
    BY <1>3, <1>4, <2>2, <2>3 DEF Custody, Message
  <2>6. Staging'
    BY <1>3, <2>1, <2>2, <2>3 DEF Staging
  <2> QED
    BY <1>2, <2>4, <2>5, <2>6 DEF AsyncInv
<1>6. CASE CollectBytes
  <2>1. /\ client = "polling" /\ pending /\ holder = "message" /\ result.kind = "bytes"
        /\ pending' = FALSE /\ stagingPos' = 0 /\ holder' = "inner"
        /\ staging' = [from |-> result.from, to |-> result.to]
        /\ UNCHANGED <<client, capacity, waker, received, answer, told>>
    BY <1>6 DEF CollectBytes, Collecting, Collected, clientVars, historyVars
  <2>2. /\ outcome = "open" /\ result.from = received /\ received < result.to
        /\ result.to = reader.pos
    BY <1>4, <2>1 DEF Message
  <2>3. TypeOK'
    <3>1. /\ staging' \in [from : Nat, to : Nat] /\ staging'.from =< staging'.to
          /\ stagingPos' \in 0 .. (staging'.to - staging'.from)
      BY <1>3, <2>1, <2>2
    <3> QED
      BY <1>2, <1>4, <2>1, <3>1 DEF TypeOK
  <2>4. Custody' /\ Message' /\ Staging'
    BY <1>3, <1>4, <2>1, <2>2 DEF Custody, Message, Staging, Nothing
  <2> QED
    BY <1>2, <2>3, <2>4 DEF AsyncInv
<1>7. CASE CollectEnd
  <2>1. /\ client = "polling" /\ pending /\ holder = "message" /\ result.kind = "end"
        /\ pending' = FALSE /\ stagingPos' = 0 /\ holder' = "dropped" /\ staging' = Nothing
        /\ UNCHANGED <<client, capacity, waker, received, answer, told>>
    BY <1>7 DEF CollectEnd, Collecting, Collected, clientVars, historyVars
  <2>2. outcome = "ended" /\ staging = Nothing
    BY <1>4, <2>1 DEF Message, TypeOK
  <2>3. TypeOK'
    <3>1. /\ staging' \in [from : Nat, to : Nat] /\ staging'.from =< staging'.to
          /\ stagingPos' \in 0 .. (staging'.to - staging'.from)
      BY <2>1, NothingFacts
    <3> QED
      BY <1>2, <1>4, <2>1, <3>1 DEF TypeOK
  <2>4. Custody' /\ Message' /\ Staging'
    BY <1>3, <1>4, <2>1, <2>2 DEF Custody, Message, Staging, Nothing
  <2> QED
    BY <1>2, <2>3, <2>4 DEF AsyncInv
<1>8. CASE CollectError \/ CollectCancelled
  <2>1. /\ client = "polling" /\ client' = "idle" /\ pending /\ ~pending'
        /\ pending' \in BOOLEAN
        /\ holder' = "dropped" /\ told' = "failed" /\ answer' = Says("error")
        /\ UNCHANGED <<staging, stagingPos, capacity, waker, received>>
        /\ \/ holder = "message" /\ result.kind = "error"
           \/ holder = "dropped"
    BY <1>8 DEF CollectError, CollectCancelled, Collecting, ReadyError
  <2>2. TypeOK'
    BY <1>2, <1>4, <2>1 DEF TypeOK, Says, ResultType
  <2>3. Custody' /\ Message' /\ Staging'
    BY <1>3, <1>4, <2>1 DEF Custody, Message, Staging
  <2> QED
    BY <1>2, <2>2, <2>3 DEF AsyncInv
<1>9. CASE Park
  <2>1. /\ client = "polling" /\ client' = "parked" /\ waker' = TRUE
        /\ UNCHANGED <<holder, pending, staging, stagingPos, capacity, received, answer, told>>
    BY <1>9 DEF Park, Collecting, handleVars, historyVars
  <2>2. TypeOK'
    BY <1>2, <1>4, <2>1 DEF TypeOK
  <2>3. Custody' /\ Message' /\ Staging'
    BY <1>3, <1>4, <2>1 DEF Custody, Message, Staging
  <2> QED
    BY <1>2, <2>2, <2>3 DEF AsyncInv
<1>10. CASE EmptyBuffer
  <2>1. /\ client = "polling" /\ client' = "idle" /\ received' = received
        /\ answer' = [kind |-> "bytes", from |-> received, to |-> received]
        /\ UNCHANGED <<holder, pending, staging, stagingPos, capacity, waker, told>>
    BY <1>3, <1>10 DEF EmptyBuffer, ReadyBytes, handleVars
  <2>2. TypeOK'
    BY <1>2, <1>3, <1>4, <2>1 DEF TypeOK, ResultType
  <2>3. Custody' /\ Message' /\ Staging'
    BY <1>3, <1>4, <2>1 DEF Custody, Message, Staging
  <2> QED
    BY <1>2, <2>2, <2>3 DEF AsyncInv
<1>11. CASE EndOfFile
  <2>1. /\ client = "polling" /\ client' = "idle" /\ answer' = Says("end")
        /\ holder = "dropped" /\ ~pending
        /\ told' = IF told = "open" THEN "ended" ELSE told
        /\ UNCHANGED <<holder, pending, staging, stagingPos, capacity, waker, received>>
    BY <1>11 DEF EndOfFile, ReadyEnd, handleVars
  <2>2. TypeOK'
    BY <1>2, <1>4, <2>1 DEF TypeOK, Says, ResultType
  <2>3. Custody' /\ Message' /\ Staging'
    BY <1>3, <1>4, <2>1 DEF Custody, Message, Staging
  <2> QED
    BY <1>2, <2>2, <2>3 DEF AsyncInv
<1>12. CASE Launch
  <2>1. /\ client = "polling" /\ ~pending /\ pending' = TRUE
        /\ holder = "inner" /\ holder' = "task" /\ staging' = Nothing
        /\ staging = Nothing /\ stagingPos = 0
        /\ UNCHANGED <<stagingPos, client, capacity, waker, received, answer, told>>
    BY <1>4, <1>12, StagedFacts DEF Launch, clientVars, historyVars
  <2>2. TypeOK'
    BY <1>2, <1>4, <2>1 DEF TypeOK, Nothing
  <2>3. Custody' /\ Message' /\ Staging'
    BY <1>3, <1>4, <2>1 DEF Custody, Message, Staging
  <2> QED
    BY <1>2, <2>2, <2>3 DEF AsyncInv
<1> QED
  BY <1>5, <1>6, <1>7, <1>8, <1>9, <1>10, <1>11, <1>12 DEF PollStep

\* A step of the blocking task keeps the invariant.
LEMMA TaskInv ==
  ASSUME AsyncInv, BlockingRead \/ TaskDropped
  PROVE  AsyncInv'
<1>1. TypeOK /\ ReaderInv /\ Custody /\ Message /\ Staging
  BY DEF AsyncInv
<1>2. /\ holder = "task" /\ told = "open" /\ outcome = "open" /\ staging = Nothing
      /\ reader.pos \in Nat /\ received \in Nat
      /\ client # "gone" => pending /\ received = reader.pos
      /\ received =< reader.pos
  BY <1>1 DEF BlockingRead, TaskDropped, Custody, Staging, TypeOK, ReaderTypeOK, ReaderType
<1>3. /\ client' \in {"idle", "polling", "parked", "gone"}
      /\ client' = "gone" <=> client = "gone"
      /\ waker' = FALSE
      /\ UNCHANGED <<capacity, pending, staging, stagingPos, received, answer, told>>
  BY <1>1 DEF BlockingRead, TaskDropped, Wake, historyVars, TypeOK
<1>4. CASE BlockingRead
  <2>1. ReaderInv' /\ ReaderTypeOK' /\ reader'.pos \in Nat
    BY <1>1, <1>4, ReadInv, ChunkType
       DEF BlockingRead, ReaderInv, ReaderTypeOK, ReaderType
  <2>2. \/ /\ result'.kind = "bytes" /\ outcome' = "open"
           /\ result'.from = reader.pos /\ result'.to = reader'.pos
           /\ reader.pos < reader'.pos
        \/ result'.kind = "end" /\ outcome' = "ended" /\ reader'.pos = reader.pos
        \/ result'.kind = "error" /\ outcome' = "failed" /\ reader.pos =< reader'.pos
    BY <1>1, <1>2, <1>4, ReadResults, ChunkType DEF BlockingRead
  <2>3. holder' = IF client = "gone" THEN "dropped" ELSE "message"
    BY <1>4 DEF BlockingRead
  <2>4. TypeOK'
    BY <1>1, <1>3, <2>1, <2>3 DEF TypeOK
  <2>5. Custody' /\ Message' /\ Staging'
    BY <1>1, <1>2, <1>3, <2>1, <2>2, <2>3 DEF Custody, Message, Staging
  <2> QED
    BY <2>1, <2>4, <2>5 DEF AsyncInv
<1>5. CASE TaskDropped
  <2>1. /\ entry' = entry /\ reader' = reader /\ result' = result /\ outcome' = outcome
        /\ holder' = "dropped"
    BY <1>5 DEF TaskDropped, readerVars
  <2>2. ReaderInv' /\ ReaderTypeOK'
    BY <1>1, <2>1, ReaderStutter DEF ReaderInv, readerVars
  <2>3. TypeOK'
    BY <1>1, <1>3, <2>1, <2>2 DEF TypeOK
  <2>4. Custody' /\ Message' /\ Staging'
    BY <1>1, <1>2, <1>3, <2>1 DEF Custody, Message, Staging
  <2> QED
    BY <2>2, <2>3, <2>4 DEF AsyncInv
<1> QED
  BY <1>4, <1>5

\* What the client does between polls keeps the invariant.
LEMMA ClientInv ==
  ASSUME AsyncInv,
         (\E cap \in Capacities : PollRead(cap)) \/ AbandonPoll \/ DropReader
  PROVE  AsyncInv'
<1>1. TypeOK /\ ReaderInv /\ Custody /\ Message /\ Staging
  BY DEF AsyncInv
<1>2. /\ entry' = entry /\ reader' = reader /\ result' = result /\ outcome' = outcome
      /\ UNCHANGED <<received, answer, told>>
      /\ ReaderInv' /\ ReaderTypeOK'
  BY <1>1, ReaderStutter
     DEF PollRead, AbandonPoll, DropReader, readerVars, historyVars, ReaderInv
<1>3. CASE (\E cap \in Capacities : PollRead(cap)) \/ AbandonPoll
  <2>1. /\ client # "gone" /\ client' \in {"idle", "polling"}
        /\ capacity' \in Capacities \cup {0}
        /\ UNCHANGED <<holder, pending, staging, stagingPos, waker>>
    BY <1>1, <1>3 DEF PollRead, AbandonPoll, handleVars, TypeOK
  <2>2. TypeOK'
    BY <1>1, <1>2, <2>1 DEF TypeOK
  <2>3. Custody' /\ Message' /\ Staging'
    BY <1>1, <1>2, <2>1 DEF Custody, Message, Staging
  <2> QED
    BY <1>2, <2>2, <2>3 DEF AsyncInv
<1>4. CASE DropReader
  <2>1. /\ client # "gone" /\ client' = "gone" /\ pending' = FALSE /\ waker' = FALSE
        /\ holder' = IF holder = "task" THEN "task" ELSE "dropped"
        /\ staging' = Nothing /\ stagingPos' = 0 /\ capacity' = capacity
    BY <1>4 DEF DropReader
  <2>2. TypeOK'
    <3>1. stagingPos' \in 0 .. (staging'.to - staging'.from)
      BY <2>1, NothingFacts
    <3>2. staging' \in [from : Nat, to : Nat] /\ staging'.from =< staging'.to
      BY <2>1, NothingFacts
    <3>3. holder' \in {"inner", "task", "message", "dropped"}
      BY <2>1
    <3> QED
      BY <1>1, <1>2, <2>1, <3>1, <3>2, <3>3 DEF TypeOK
  <2>3. Custody' /\ Message' /\ Staging'
    BY <1>1, <1>2, <2>1 DEF Custody, Message, Staging
  <2> QED
    BY <1>2, <2>2, <2>3 DEF AsyncInv
<1> QED
  BY <1>3, <1>4

\* The invariant holds in every reachable state.
LEMMA AsyncSpecInv == Spec => []AsyncInv
<1>1. AsyncInv /\ [Next]_vars => AsyncInv'
  <2> SUFFICES ASSUME AsyncInv, [Next]_vars PROVE AsyncInv'
    OBVIOUS
  <2>1. CASE Next
    BY <2>1, PollInv, TaskInv, ClientInv DEF Next
  <2>2. CASE UNCHANGED vars
    <3>1. ReaderInv'
      BY <2>2, ReaderStutter DEF AsyncInv, vars
    <3>2. TypeOK' /\ Custody' /\ Message' /\ Staging'
      BY <2>2, <3>1 DEF AsyncInv, vars, readerVars, handleVars, clientVars, historyVars, ReaderInv,
         TypeOK, Custody, Message, Staging
    <3> QED
      BY <3>1, <3>2 DEF AsyncInv
  <2> QED
    BY <2>1, <2>2
<1> QED
  BY InitInv, <1>1, PTL DEF Spec

\* The fields of AsyncEntryReader, its task and its channel keep their types;
\* no byte is staged while a read is under way.
THEOREM AsyncTypeCorrect == Spec => []TypeOK
<1>1. AsyncInv => TypeOK
  BY DEF AsyncInv
<1> QED
  BY <1>1, AsyncSpecInv, PTL

\* Whatever polls are abandoned, whatever buffers are passed and however the
\* task is scheduled, every byte it has read is on its way to the client.
THEOREM AsyncLosesNothing == Spec => []NoByteLost
<1>1. AsyncInv => NoByteLost
  <2> SUFFICES ASSUME AsyncInv, outcome # "failed", client # "gone"
               PROVE  received + Staged + InFlight = reader.pos
    BY DEF NoByteLost
  <2>1. /\ TypeOK /\ Custody /\ Message /\ Staging
        /\ reader.pos \in Nat /\ received \in Nat
    BY DEF AsyncInv, TypeOK, ReaderTypeOK, ReaderType
  <2>2. CASE staging = Nothing
    BY <2>1, <2>2, StagedFacts DEF InFlight, Message, Staging
  <2>3. CASE staging # Nothing
    BY <2>1, <2>3, StagedFacts DEF InFlight, Staging, Staged
  <2> QED
    BY <2>2, <2>3
<1> QED
  BY <1>1, AsyncSpecInv, PTL

----------------------------------------------------------------------------
(* AsyncReader implements ByteStream.                                      *)

\* A step of poll_read delivers, ends, fails, or is out of the client's sight.
LEMMA PollImplements ==
  ASSUME AsyncInv, PollStep
  PROVE  [AsyncStream!Next]_(AsyncStream!vars)
<1>1. /\ TypeOK /\ ReaderInv /\ Custody /\ Staging
      /\ reader.pos \in Nat /\ received \in Nat /\ received =< reader.pos
      /\ reader.pos =< entry.len /\ entry.len \in Nat
  BY EntryFacts DEF AsyncInv, TypeOK, ReaderTypeOK, ReaderType, EntryType, Staging
<1>2. entry' = entry /\ Intact(entry)' = Intact(entry)
  BY DEF PollStep, ServeBuffered, CollectBytes, CollectEnd, CollectError, CollectCancelled, Park,
     EmptyBuffer, EndOfFile, Launch, ReadyBytes, ReadyError, ReadyEnd, Collected, readerVars,
     Intact
<1>3. CASE ServeBuffered
  <2> DEFINE n == Least(Staged, capacity)
  <2>1. /\ n \in 1 .. Staged /\ staging # Nothing
        /\ staging.from \in Nat /\ stagingPos \in Nat
    BY <1>1, <1>3, StagedFacts DEF ServeBuffered
  <2>2. /\ told = "open" /\ staging.from + stagingPos = received
        /\ Staged = reader.pos - received
    BY <1>1, <2>1 DEF Custody, Staging, Staged
  <2>3. /\ received' = received + n
        /\ answer' = [kind |-> "bytes", from |-> received, to |-> received + n]
        /\ told' = told
    BY <1>3, <2>2 DEF ServeBuffered, ReadyBytes
  <2> HIDE DEF n
  <2>4. received + n \in received .. entry.len
    BY <1>1, <2>1, <2>2
  <2>5. AsyncStream!Deliver
    BY <1>2, <2>2, <2>3, <2>4 DEF AsyncStream!Deliver
  <2> QED
    BY <2>5 DEF AsyncStream!Next
<1>4. CASE CollectBytes \/ CollectEnd \/ Park \/ Launch
  <2>1. UNCHANGED <<received, told, answer>>
    BY <1>4 DEF CollectBytes, CollectEnd, Park, Launch, Collected, historyVars
  <2> QED
    BY <1>2, <2>1 DEF AsyncStream!vars
<1>5. CASE CollectError \/ CollectCancelled
  <2>1. /\ told = "open" /\ told' = "failed" /\ received' = received
        /\ answer' = Says("error")
    BY <1>1, <1>5 DEF CollectError, CollectCancelled, Collecting, ReadyError, Custody
  <2>2. received \in received .. entry.len
    BY <1>1
  <2>3. AsyncStream!Fail
    BY <1>2, <2>1, <2>2 DEF AsyncStream!Fail, AsyncStream!Says, Says
  <2> QED
    BY <2>3 DEF AsyncStream!Next
<1>6. CASE EmptyBuffer
  <2>1. /\ received' = received /\ told' = told
        /\ answer' = [kind |-> "bytes", from |-> received, to |-> received]
    BY <1>1, <1>6 DEF EmptyBuffer, ReadyBytes
  <2>2. received \in received .. entry.len
    BY <1>1
  <2>3. AsyncStream!Deliver
    BY <1>2, <2>1, <2>2 DEF AsyncStream!Deliver
  <2> QED
    BY <2>3 DEF AsyncStream!Next
<1>7. CASE EndOfFile
  <2>1. /\ client = "polling" /\ holder = "dropped" /\ ~pending /\ staging = Nothing
        /\ received' = received /\ answer' = Says("end")
        /\ told' = IF told = "open" THEN "ended" ELSE told
    BY <1>1, <1>7, StagedFacts DEF EndOfFile, ReadyEnd
  <2>2. told = "open" => received = entry.len /\ Intact(entry)
    BY <1>1, <2>1 DEF Custody, Staging, ReaderInv
  <2>3. told # "unchecked"
    BY <1>1 DEF TypeOK
  <2>4. AsyncStream!End
    BY <1>2, <2>1, <2>2, <2>3 DEF AsyncStream!End, AsyncStream!Says, Says
  <2> QED
    BY <2>4 DEF AsyncStream!Next
<1> QED
  BY <1>3, <1>4, <1>5, <1>6, <1>7 DEF PollStep

\* Read through poll_read, an entry is the same stream as read directly: its
\* bytes, each once and in order, a clean end only behind an intact entry, and
\* an error when the task is lost.
THEOREM AsyncImplementsStream == Spec => ImplementsByteStream
<1>1. Init => AsyncStream!Init
  BY EntryFacts DEF Init, OpenEntry, Says, AsyncStream!Init, AsyncStream!Says, EntryType, Intact
<1>2. AsyncInv /\ [Next]_vars => [AsyncStream!Next]_(AsyncStream!vars)
  <2> SUFFICES ASSUME AsyncInv, [Next]_vars
               PROVE  [AsyncStream!Next]_(AsyncStream!vars)
    OBVIOUS
  <2>1. CASE PollStep
    BY <2>1, PollImplements
  <2>2. ASSUME UNCHANGED <<entry, received, told, answer>>
        PROVE  UNCHANGED AsyncStream!vars
    BY <2>2 DEF AsyncStream!vars, Intact
  <2>3. CASE BlockingRead
    <3>1. entry' = entry
      BY <2>3 DEF BlockingRead, Read, HandOutError, DecoderFails, ReadBytes, ReadNothing,
         ReturnError, ReturnBytes, ReturnEnd
    <3> QED
      BY <2>2, <2>3, <3>1 DEF BlockingRead, historyVars
  <2>4. CASE \/ \E cap \in Capacities : PollRead(cap)
             \/ TaskDropped \/ AbandonPoll \/ DropReader \/ UNCHANGED vars
    BY <2>2, <2>4 DEF PollRead, TaskDropped, AbandonPoll, DropReader, vars, readerVars, historyVars
  <2> QED
    BY <2>1, <2>3, <2>4 DEF Next
<1> QED
  BY <1>1, <1>2, AsyncSpecInv, PTL DEF Spec, ImplementsByteStream, AsyncStream!Spec
=============================================================================
