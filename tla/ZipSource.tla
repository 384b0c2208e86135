------------------------------ MODULE ZipSource ------------------------------
(***************************************************************************)
(* zip_source_t of zip-sys: sources on the heap, the references to them,   *)
(* layers that own the source below, write sessions, and the calls that    *)
(* drain a source or take its buffer.                                      *)
(*                                                                         *)
(* Threads share the sources.  A call advances by the critical sections    *)
(* and atomic accesses of the code, so that calls on one source            *)
(* interleave.  A content is one value; pos is before it or behind it.     *)
(***************************************************************************)
EXTENDS Naturals, FiniteSets

CONSTANTS
  Threads,
  Handles,   \* the addresses a source may have
  NoHandle,
  Payloads,  \* the contents of sources
  Empty,     \* the content without bytes
  NoDraft,
  MaxRefs    \* bound: references to one source

ASSUME HeapAssumption ==
  /\ IsFiniteSet(Threads) /\ IsFiniteSet(Handles)
  /\ NoHandle \notin Handles
ASSUME PayloadAssumption == Empty \in Payloads /\ NoDraft \notin Payloads
ASSUME BoundAssumption == MaxRefs \in Nat

VARIABLES
  src,   \* the source at each address
  own,   \* how many references to it the program holds
  call   \* the call each thread is in

vars == <<src, own, call>>

\* A callback source has its content in its user data; a layered one passes
\* its callback the source below.  base is where its chain of layers ends.
NoSource ==
  [kind |-> "free", refs |-> 0, data |-> Empty, atEnd |-> FALSE, draft |-> NoDraft,
   writeOpen |-> FALSE, lower |-> NoHandle, base |-> NoHandle]

New(h, kind) == [NoSource EXCEPT !.kind = kind, !.refs = 1, !.base = h]
MemorySource(h, p) == [New(h, "memory") EXCEPT !.data = p]
FunctionSource(h, p) == [New(h, "function") EXCEPT !.data = p]
LayeredSource(h, l) == [New(h, "layered") EXCEPT !.lower = l, !.base = src[l].base]

\* op is where in which call the thread is, h the source it is about; payload
\* is what was drained, seen (history) what the source held when the drain
\* began.
Call(op, h, p, q) == [op |-> op, h |-> h, payload |-> p, seen |-> q]
NoCall == Call("none", NoHandle, Empty, Empty)

Init ==
  /\ src = [h \in Handles |-> NoSource]
  /\ own = [h \in Handles |-> 0]
  /\ call = [t \in Threads |-> NoCall]

----------------------------------------------------------------------------
(* References.                                                             *)

IsIdle(t) == call[t].op = "none"
Return(t) == call' = [call EXCEPT ![t] = NoCall]
Enter(t, op) == call' = [call EXCEPT ![t].op = op]

\* Calls that have taken over a reference of the program.
HoldingOps == {"release", "windowOpen", "windowRead", "windowRelease"}
Holders(h) == {t \in Threads : call[t].op \in HoldingOps /\ call[t].h = h}
Borrowed(h) == \E t \in Threads : call[t].h = h /\ call[t].op \notin HoldingOps
Layers(h) == {l \in Handles : src[l].kind = "layered" /\ src[l].lower = h}

\* The program gives a reference away only if it keeps one for the calls its
\* other threads are in.
Spare(h) == own[h] > (IF Borrowed(h) THEN 1 ELSE 0)

Begin(t, op, h) == call' = [call EXCEPT ![t] = Call(op, h, Empty, Empty)]

BeginDrain(t, op, h) ==
  call' = [call EXCEPT ![t] = Call(op, h, Empty, src[src[h].base].data)]

Create(t, h, s) ==
  /\ IsIdle(t)
  /\ src[h].kind = "free"
  /\ src' = [src EXCEPT ![h] = s]
  /\ own' = [own EXCEPT ![h] = @ + 1]
  /\ Return(t)

CreateMemory(t, h) == \E p \in Payloads : Create(t, h, MemorySource(h, p))
CreateFunction(t, h) == \E p \in Payloads : Create(t, h, FunctionSource(h, p))

Keep(t, h) ==
  /\ IsIdle(t)
  /\ own[h] > 0 /\ src[h].refs < MaxRefs
  /\ src' = [src EXCEPT ![h].refs = @ + 1]
  /\ own' = [own EXCEPT ![h] = @ + 1]
  /\ UNCHANGED call

Free(t, h) ==
  /\ IsIdle(t)
  /\ Spare(h)
  /\ own' = [own EXCEPT ![h] = @ - 1]
  /\ Begin(t, "release", h)
  /\ UNCHANGED src

\* The rest of zip_source_free: the last reference drops the source, and a
\* layered one then frees the source below.
Dropped(t, last, next) ==
  LET h == call[t].h
  IN  /\ src' = IF last THEN [src EXCEPT ![h] = NoSource]
                ELSE [src EXCEPT ![h].refs = @ - 1]
      /\ IF last /\ next # NoHandle
         THEN call' = [call EXCEPT ![t].h = next]
         ELSE IF call[t].op = "release" THEN Return(t)
         ELSE call' = [call EXCEPT ![t].op = "windowMake", ![t].h = NoHandle]
      /\ UNCHANGED own

Releasing(t) == call[t].op \in {"release", "windowRelease"}

\* Mutants: a drop that forgets the layer below, and one that comes a
\* reference too early or too late.
ReleaseUpperOnly(t) ==
  /\ Releasing(t)
  /\ Dropped(t, src[call[t].h].refs =< 1, NoHandle)

ReleaseEarly(t) ==
  /\ Releasing(t)
  /\ Dropped(t, src[call[t].h].refs =< 2, src[call[t].h].lower)

ReleaseLate(t) ==
  /\ Releasing(t)
  /\ Dropped(t, src[call[t].h].refs < 1, src[call[t].h].lower)

Release(t) ==
  /\ Releasing(t)
  /\ Dropped(t, src[call[t].h].refs =< 1, src[call[t].h].lower)

\* Mutant: the layer takes the reference over and another one.
LayeredCreateKeeps(t, h, l) ==
  /\ IsIdle(t)
  /\ Spare(l) /\ src[h].kind = "free"
  /\ src' = [src EXCEPT ![h] = LayeredSource(h, l), ![l].refs = @ + 1]
  /\ own' = [own EXCEPT ![l] = @ - 1, ![h] = @ + 1]
  /\ Return(t)

\* The callback has answered ZIP_SOURCE_SUPPORTS.
LayeredCreate(t, h, l) ==
  /\ IsIdle(t)
  /\ Spare(l) /\ src[h].kind = "free"
  /\ src' = [src EXCEPT ![h] = LayeredSource(h, l)]
  /\ own' = [own EXCEPT ![l] = @ - 1, ![h] = @ + 1]
  /\ Return(t)

----------------------------------------------------------------------------
(* read_all: open and read to the end.  Every command takes the lock of    *)
(* the backend anew.                                                       *)

\* What a call does next once it has opened the source, and once it has read.
Opened == [windowOpen |-> "windowRead", addOpen |-> "addRead", archiveOpen |-> "archiveRead"]
Drained == [windowRead |-> "windowRelease", addRead |-> "addPush", archiveRead |-> "archiveMake"]

\* A source is rewound when it is opened (mutant: it is not); a layered one
\* leaves that to its callback, and zip_source_pass_to_lower_layer does nothing.
RewoundNever(h) == src

Rewound(h) ==
  IF src[h].kind = "layered" THEN src ELSE [src EXCEPT ![h].atEnd = FALSE]

DrainOpen(t) ==
  LET h == call[t].h
  IN  /\ call[t].op \in DOMAIN Opened
      /\ src' = Rewound(h)
      /\ Enter(t, Opened[call[t].op])
      /\ UNCHANGED own

DrainRead(t) ==
  LET b == src[call[t].h].base
  IN  /\ call[t].op \in DOMAIN Drained
      /\ src' = [src EXCEPT ![b].atEnd = TRUE]
      /\ call' = [call EXCEPT
           ![t].op = Drained[@],
           ![t].payload = IF src[b].atEnd THEN Empty ELSE src[b].data]
      /\ UNCHANGED own

\* A callback fails.  The caller of a window has its source back.
DrainFails(t) ==
  LET h == call[t].h
  IN  /\ call[t].op \in DOMAIN Opened \cup DOMAIN Drained
      /\ src[h].kind # "memory"
      /\ own' = IF call[t].op \in HoldingOps THEN [own EXCEPT ![h] = @ + 1] ELSE own
      /\ Return(t)
      /\ UNCHANGED src

\* zip_source_window_create: drain the source, free it, copy the range.
WindowCreate(t, h) ==
  /\ IsIdle(t)
  /\ Spare(h)
  /\ own' = [own EXCEPT ![h] = @ - 1]
  /\ BeginDrain(t, "windowOpen", h)
  /\ UNCHANGED src

WindowMake(t, h) ==
  /\ call[t].op = "windowMake"
  /\ src[h].kind = "free"
  /\ src' = [src EXCEPT ![h] = MemorySource(h, call[t].payload)]
  /\ own' = [own EXCEPT ![h] = @ + 1]
  /\ Return(t)

\* The range begins behind the content: the source is gone all the same.
WindowOutOfRange(t) ==
  /\ call[t].op = "windowMake"
  /\ Return(t)
  /\ UNCHANGED <<src, own>>

\* zip_open_from_source: the source stays the caller's, open or not.
OpenFromSource(t, h) ==
  /\ IsIdle(t)
  /\ own[h] > 0
  /\ BeginDrain(t, "archiveOpen", h)
  /\ UNCHANGED <<src, own>>

ArchiveMake(t) ==
  /\ call[t].op = "archiveMake"
  /\ Return(t)
  /\ UNCHANGED <<src, own>>

\* zip_file_add and zip_file_replace: a memory source gives its buffer away
\* before the name is looked up, the others are drained.  The source stays the
\* caller's.
FileAdd(t, h) ==
  /\ IsIdle(t)
  /\ own[h] > 0 /\ src[h].kind # "memory"
  /\ BeginDrain(t, "addOpen", h)
  /\ UNCHANGED <<src, own>>

FileAddTake(t, h) ==
  /\ IsIdle(t)
  /\ own[h] > 0 /\ src[h].kind = "memory"
  /\ call' = [call EXCEPT ![t] = Call("addPush", h, src[h].data, src[h].data)]
  /\ src' = [src EXCEPT ![h].data = Empty]
  /\ UNCHANGED own

\* The name is free or replaced, or ZIP_ER_EXISTS.
FileAddEnds(t) ==
  /\ call[t].op = "addPush"
  /\ Return(t)
  /\ UNCHANGED <<src, own>>

----------------------------------------------------------------------------
(* Write sessions: a call looks at write_open, then has the backend act,   *)
(* then stores write_open.                                                 *)

BeginOps == {"begin", "clone"}
SessionOps == BeginOps \cup {"write", "commit", "rollback"}

\* Other calls fail before they do anything.
SessionCall(t, h, op) ==
  /\ IsIdle(t)
  /\ own[h] > 0 /\ src[h].kind # "layered"
  /\ src[h].writeOpen <=> op \notin BeginOps
  /\ Begin(t, op, h)
  /\ UNCHANGED <<src, own>>

\* The backend does its part.  The draft of a callback source is in its user
\* data.
Backend(t, s) ==
  /\ src' = [src EXCEPT ![call[t].h] = IF @.kind = "memory" THEN s ELSE @]
  /\ UNCHANGED own

\* A clone has a part of the content or all of it.
BeginDispatch(t) ==
  LET s == src[call[t].h]
  IN  /\ call[t].op \in BeginOps
      /\ \E p \in {Empty} \cup (IF call[t].op = "clone" THEN {s.data} ELSE {}) :
           Backend(t, [s EXCEPT !.draft = p])
      /\ Enter(t, "beginStore")

WriteDispatch(t) ==
  LET s == src[call[t].h]
  IN  /\ call[t].op = "write"
      /\ s.kind = "memory" => s.draft # NoDraft
      /\ \E p \in Payloads : Backend(t, [s EXCEPT !.draft = p])
      /\ Return(t)

\* Mutant: a commit that leaves its draft behind.
CommitDispatchCopies(t) ==
  LET s == src[call[t].h]
  IN  /\ call[t].op = "commit"
      /\ s.kind = "memory" => s.draft # NoDraft
      /\ Backend(t, [s EXCEPT !.data = s.draft, !.atEnd = FALSE])
      /\ Enter(t, "commitStore")

CommitDispatch(t) ==
  LET s == src[call[t].h]
  IN  /\ call[t].op = "commit"
      /\ s.kind = "memory" => s.draft # NoDraft
      /\ Backend(t, [s EXCEPT !.data = s.draft, !.draft = NoDraft, !.atEnd = FALSE])
      /\ Enter(t, "commitStore")

RollbackDispatch(t) ==
  /\ call[t].op = "rollback"
  /\ Backend(t, [src[call[t].h] EXCEPT !.draft = NoDraft])
  /\ Enter(t, "rollbackStore")

\* A clone of more than there is, no draft, or a callback that fails.
DispatchFails(t) ==
  LET s == src[call[t].h]
  IN  /\ \/ call[t].op = "clone"
         \/ call[t].op \in {"begin", "write", "commit"} /\ s.kind = "function"
         \/ call[t].op \in {"write", "commit"} /\ s.draft = NoDraft
      /\ IF call[t].op = "commit" THEN Enter(t, "commitStore") ELSE Return(t)
      /\ UNCHANGED <<src, own>>

\* Commit and rollback close the session whatever the backend says.
StoreOps == {"beginStore", "commitStore", "rollbackStore"}

Store(t) ==
  /\ call[t].op \in StoreOps
  /\ src' = [src EXCEPT ![call[t].h].writeOpen = call[t].op = "beginStore"]
  /\ Return(t)
  /\ UNCHANGED own

----------------------------------------------------------------------------

References(t, h) ==
  \/ CreateMemory(t, h)
  \/ CreateFunction(t, h)
  \/ Keep(t, h)
  \/ Free(t, h)
  \/ \E l \in Handles : LayeredCreate(t, h, l)

Contents(t, h) ==
  \/ WindowCreate(t, h)
  \/ OpenFromSource(t, h)
  \/ FileAdd(t, h)
  \/ FileAddTake(t, h)
  \/ \E op \in SessionOps : SessionCall(t, h, op)

\* What a call does once it is under way.
Step(t) ==
  \/ Release(t)
  \/ DrainOpen(t)
  \/ DrainRead(t)
  \/ DrainFails(t)
  \/ \E h \in Handles : WindowMake(t, h)
  \/ WindowOutOfRange(t)
  \/ ArchiveMake(t)
  \/ FileAddEnds(t)
  \/ BeginDispatch(t)
  \/ WriteDispatch(t)
  \/ CommitDispatch(t)
  \/ RollbackDispatch(t)
  \/ DispatchFails(t)
  \/ Store(t)

Next == \E t \in Threads : Step(t) \/ \E h \in Handles : References(t, h) \/ Contents(t, h)

\* Any program that gives away only references it has.
Spec == Init /\ [][Next]_vars

\* A program that, at one time, has one thread drain a source or write to it,
\* and drains a layered source only while nothing has read the one below.
InUse(h) ==
  \E t \in Threads :
    /\ call[t].h # NoHandle /\ ~Releasing(t)
    /\ src[call[t].h].base = src[h].base

Careful(h) ==
  /\ ~InUse(h)
  /\ src[h].kind = "layered" => ~src[src[h].base].atEnd

CarefulNext ==
  \E t \in Threads :
    \/ Step(t)
    \/ \E h \in Handles :
         \/ References(t, h)
         \/ own[h] > 0 /\ Careful(h) /\ Contents(t, h)

\* Threads run; what the program calls is up to it.
CarefulSpec ==
  Init /\ [][CarefulNext]_vars /\ \A t \in Threads : WF_vars(Step(t))

----------------------------------------------------------------------------
(* Properties.                                                             *)

Ops ==
  HoldingOps \cup SessionOps \cup StoreOps \cup DOMAIN Opened \cup DOMAIN Drained
    \cup {"none", "windowMake", "archiveMake", "addPush"}

SourceType ==
  [kind : {"free", "memory", "function", "layered"}, refs : Nat,
   data : Payloads, atEnd : BOOLEAN, draft : Payloads \cup {NoDraft},
   writeOpen : BOOLEAN, lower : Handles \cup {NoHandle},
   base : Handles \cup {NoHandle}]

CallType ==
  [op : Ops, h : Handles \cup {NoHandle}, payload : Payloads, seen : Payloads]

WellFormed(s) ==
  /\ s \in SourceType
  /\ s.kind = "free" <=> s.refs = 0
  /\ s.kind = "free" <=> s.base = NoHandle
  /\ s.kind = "layered" <=> s.lower # NoHandle

\* Sources and calls have their types; a free address has no references, and
\* layers alone have a source below.
TypeOK ==
  /\ src \in [Handles -> SourceType]
  /\ \A h \in Handles : WellFormed(src[h])
  /\ own \in [Handles -> Nat]
  /\ call \in [Threads -> CallType]

\* Every reference is somebody's: the program's, a layer's, or that of a call
\* that has taken it over.  One reference more is a leak, one less and a
\* source is dropped under its user.
RefsAreCounted ==
  \A h \in Handles :
    src[h].refs = own[h] + Cardinality(Layers(h)) + Cardinality(Holders(h))

\* Whatever is referenced is there: by the program, by a layer above, by a
\* call under way in another thread.
NothingDangles ==
  \A h \in Handles :
    own[h] > 0 \/ Layers(h) # {} \/ (\E t \in Threads : call[t].h = h) =>
      src[h].kind # "free"

\* write_open and the draft of a memory source agree between the calls of a
\* session, failed ones included.
SessionsInStep ==
  \A h \in Handles :
    /\ src[h].kind = "memory"
    /\ ~\E t \in Threads : call[t].h = h /\ call[t].op \in SessionOps \cup StoreOps
    => (src[h].writeOpen <=> src[h].draft # NoDraft)

\* What a call hands on is what the source held when it began, through any
\* number of layers.
DrainsAreWhole ==
  \A t \in Threads :
    call[t].op \in {"windowRelease", "windowMake", "archiveMake", "addPush"} =>
      call[t].payload = call[t].seen

\* When the program has given up its last reference, all sources go, layers
\* and what lies below them.
HeapEmpties ==
  (\A h \in Handles : own[h] = 0) ~>
    (\/ \E h \in Handles : own[h] > 0
     \/ \A h \in Handles : src[h].kind = "free")

=============================================================================
