------------------------ MODULE SharedHandleProofs ------------------------
(***************************************************************************)
(* Proofs about SharedHandle for any threads, clients, entries, user       *)
(* states and callbacks: each user state handed over is freed once; a      *)
(* close that was asked to stop writes nothing; calls upon different       *)
(* things do not disturb each other; nothing is staged for entries that    *)
(* are not there; getters of extra fields show what would be written; and  *)
(* what a close tells begins with nothing, never goes back and ends with   *)
(* everything.                                                             *)
(***************************************************************************)
EXTENDS SharedHandle, FiniteSetTheorems, SequenceTheorems,
        WellFoundedInduction, TLAPS

Registered == {None} \cup [ud : UserStates, precision : Precisions]

CallbackSteps == {"in_start", "in_cancel", "in_progress", "in_end"}
CloseSteps ==
  {"decide", "prepare", "ask", "tell", "end", "drop"} \cup CallbackSteps

\* What a call is made of, as far as user states go.
WellFormed(c) ==
  /\ {"call", "step"} \subseteq DOMAIN c
  /\ c.call = "register" => /\ c.step = "register"
                            /\ c.kind \in Kinds /\ c.new \in Registered
  /\ c.call = "close" => c.step \in CloseSteps
  /\ c.call = "discard" => c.step = "drop"
  /\ c.step \in CallbackSteps => c.call = "close"

Registering(t) == calls[t].call = "register"
Closing(t) == calls[t].call \in {"close", "discard"}

TypesOK ==
  /\ freed \in [UserStates -> {Unset, 0, 1}]
  /\ reg \in [Kinds -> Registered]
  /\ open \in BOOLEAN
  /\ calls = [t \in Threads |-> calls[t]]
  /\ \A t \in Threads : WellFormed(calls[t])

\* Exactly the registered user states are alive, each registered once.
Held ==
  /\ \A u \in UserStates :
       freed[u] = 0 <=> \E kind \in Kinds : u \in Ud(reg[kind])
  /\ Ud(reg["progress"]) \cap Ud(reg["cancel"]) = {}

\* What is being handed over is new, and handed over once.
HandedOver ==
  /\ \A t \in Threads :
       Registering(t) => \A u \in Ud(calls[t].new) : freed[u] = Unset
  /\ \A s, t \in Threads :
       s # t /\ Registering(s) /\ Registering(t)
         => Ud(calls[s].new) \cap Ud(calls[t].new) = {}

\* The handle is given back by one thread, when no other is in a call; after
\* that there are neither calls nor registrations.
GivenBack ==
  /\ \A s, t \in Threads : Closing(t) /\ s # t => calls[s] = Idle
  /\ ~open => /\ \A t \in Threads : calls[t] = Idle
              /\ \A kind \in Kinds : reg[kind] = None

\* A callback that runs is registered.
Running ==
  \A t \in Threads :
    calls[t].step \in CallbackSteps =>
      /\ calls[t].kind \in Kinds
      /\ reg[calls[t].kind] # None
      /\ calls[t].ud = reg[calls[t].kind].ud

UserStatesInv == TypesOK /\ Held /\ HandedOver /\ GivenBack /\ Running

----------------------------------------------------------------------------
(* Registrations.                                                          *)

LEMMA UdOfRegistered ==
  ASSUME NEW r \in Registered
  PROVE  /\ Ud(r) \subseteq UserStates
         /\ r # None => Ud(r) = {r.ud}
BY DEF Registered, Ud

LEMMA OtherKind ==
  ASSUME NEW kind \in Kinds
  PROVE  Other(kind) \in Kinds /\ Other(kind) # kind
<1>1. \E other \in Kinds : other # kind
  BY DEF Kinds
<1> QED BY <1>1 DEF Other

LEMMA TwoKinds ==
  ASSUME NEW a \in Kinds, NEW b \in Kinds, a # b
  PROVE  /\ \A kind \in Kinds : kind = a \/ kind = b
         /\ \/ a = "progress" /\ b = "cancel"
            \/ a = "cancel" /\ b = "progress"
BY DEF Kinds

\* Replacing a registration by one whose user state is new.
LEMMA ReplaceKeepsHeld ==
  ASSUME TypesOK, Held, NEW kind \in Kinds, NEW new \in Registered,
         \A u \in Ud(new) : freed[u] = Unset,
         reg' = [reg EXCEPT ![kind] = new],
         Replaces(reg[kind], new)
  PROVE  /\ freed' \in [UserStates -> {Unset, 0, 1}]
         /\ reg' \in [Kinds -> Registered]
         /\ Held'
         /\ \A u \in UserStates :
              u \notin Ud(new) /\ freed[u] = Unset => freed'[u] = Unset
<1>1. PICK other \in Kinds : other # kind
  BY DEF Kinds
<1>2. /\ reg[kind] \in Registered /\ reg[other] \in Registered
      /\ reg'[kind] = new /\ reg'[other] = reg[other]
      /\ reg' \in [Kinds -> Registered]
  BY <1>1 DEF TypesOK
<1>3. /\ Ud(reg[kind]) \subseteq UserStates /\ Ud(reg[other]) \subseteq UserStates
      /\ Ud(new) \subseteq UserStates
  BY <1>2, UdOfRegistered
<1>4. /\ Unset # 0 /\ Unset # 1
  BY SharedHandleAssumption
<1>5. /\ Ud(reg[kind]) \cap Ud(reg[other]) = {}
      /\ \A u \in UserStates :
           freed[u] = 0 <=> u \in Ud(reg[kind]) \cup Ud(reg[other])
  BY <1>1, TwoKinds DEF Held
<1>6. \A u \in UserStates :
        /\ u \in Ud(reg[kind]) => freed'[u] = 1
        /\ u \notin Ud(reg[kind]) /\ u \in Ud(new) => freed'[u] = 0
        /\ u \notin Ud(reg[kind]) /\ u \notin Ud(new) => freed'[u] = freed[u]
  BY <1>5 DEF Replaces
<1>7. Ud(new) \cap (Ud(reg[kind]) \cup Ud(reg[other])) = {}
  BY <1>3, <1>4, <1>5
<1>8. freed' \in [UserStates -> {Unset, 0, 1}]
  <2>1. \A u \in UserStates : freed'[u] \in {Unset, 0, 1}
    BY <1>6 DEF TypesOK
  <2>2. freed' = [u \in UserStates |-> freed'[u]]
    BY DEF Replaces
  <2> QED BY <2>1, <2>2
<1>9. Held'
  <2>1. \A u \in UserStates :
          freed'[u] = 0 <=> u \in Ud(new) \cup Ud(reg[other])
    BY <1>4, <1>5, <1>6, <1>7
  <2>2. \A u : (\E k \in Kinds : u \in Ud(reg'[k]))
                 <=> u \in Ud(new) \cup Ud(reg[other])
    BY <1>1, <1>2, TwoKinds
  <2>3. Ud(reg'["progress"]) \cap Ud(reg'["cancel"]) = {}
    BY <1>1, <1>2, <1>7, TwoKinds
  <2> QED BY <2>1, <2>2, <2>3 DEF Held, Ud
<1> QED BY <1>2, <1>4, <1>5, <1>6, <1>8, <1>9

----------------------------------------------------------------------------
(* Steps that leave the registrations alone.                               *)

LEMMA IdleIsWellFormed ==
  WellFormed(Idle) /\ Idle.call = "none" /\ Idle.step = "none"
BY DEF WellFormed, Idle, CallbackSteps

\* A call under way goes on, or returns.
LEMMA QuietKeeps ==
  ASSUME UserStatesInv, NEW t \in Threads, calls[t] # Idle, NEW c,
         calls' = [calls EXCEPT ![t] = c],
         UNCHANGED <<reg, freed, open>>,
         \/ c = Idle
         \/ /\ WellFormed(c) /\ c.call = calls[t].call
            /\ c.call # "register" /\ c.step \notin CallbackSteps
  PROVE  UserStatesInv'
<1>1. /\ calls'[t] = c
      /\ \A s \in Threads : s # t => calls'[s] = calls[s]
      /\ calls' = [s \in Threads |-> calls'[s]]
  BY DEF UserStatesInv, TypesOK
<1>2. WellFormed(c) /\ c.call # "register" /\ c.step \notin CallbackSteps
  BY IdleIsWellFormed DEF CallbackSteps
<1>3. TypesOK'
  <2>1. \A s \in Threads : WellFormed(calls'[s])
    BY <1>1, <1>2 DEF UserStatesInv, TypesOK
  <2>2. \A s \in Threads : WellFormed(calls'[s]) = WellFormed(calls[s])'
    BY DEF WellFormed
  <2> QED BY <1>1, <2>1, <2>2 DEF UserStatesInv, TypesOK
<1>4. Held'
  BY DEF UserStatesInv, Held, Ud
<1>5. HandedOver'
  BY <1>1, <1>2 DEF UserStatesInv, HandedOver, Registering, Ud
<1>6. GivenBack'
  <2>1. ASSUME NEW s \in Threads, NEW r \in Threads, Closing(r)', s # r
        PROVE  calls'[s] = Idle
    <3>1. Closing(r)
      BY <1>1, <2>1, IdleIsWellFormed DEF Closing
    <3>2. calls[s] = Idle
      BY <2>1, <3>1 DEF UserStatesInv, GivenBack
    <3> QED BY <1>1, <3>2
  <2>2. open
    BY DEF UserStatesInv, GivenBack
  <2> QED BY <2>1, <2>2 DEF GivenBack
<1>7. Running'
  BY <1>1, <1>2 DEF UserStatesInv, Running
<1> QED BY <1>3, <1>4, <1>5, <1>6, <1>7 DEF UserStatesInv

LEMMA ReturnsKeeps ==
  ASSUME UserStatesInv, NEW t \in Threads, calls[t] # Idle, Returns(t),
         UNCHANGED <<reg, freed, open>>
  PROVE  UserStatesInv'
BY QuietKeeps DEF Returns

LEMMA GoesKeeps ==
  ASSUME UserStatesInv, NEW t \in Threads, calls[t] # Idle,
         NEW step, Goes(t, step), step \notin CallbackSteps,
         calls[t].call \notin {"register", "discard"},
         calls[t].call = "close" => step \in CloseSteps,
         UNCHANGED <<reg, freed, open>>
  PROVE  UserStatesInv'
<1> DEFINE c == [calls[t] EXCEPT !.step = step]
<1>1. {"call", "step"} \subseteq DOMAIN calls[t]
  BY DEF UserStatesInv, TypesOK, WellFormed
<1>2. /\ DOMAIN c = DOMAIN calls[t]
      /\ c.call = calls[t].call /\ c.step = step
  BY <1>1
<1>3. WellFormed(c)
  BY <1>1, <1>2 DEF WellFormed
<1>4. calls' = [calls EXCEPT ![t] = c]
  BY DEF Goes
<1> HIDE DEF c
<1> QED BY <1>2, <1>3, <1>4, QuietKeeps

\* A call begins while the handle is open and nobody gives it back.
LEMMA BeginKeeps ==
  ASSUME UserStatesInv, NEW t \in Threads, NEW c, Begin(t, c),
         WellFormed(c), c.step \notin CallbackSteps,
         c.call = "register" => \A u \in Ud(c.new) : u \in Fresh,
         c.call \in {"close", "discard"} => \A s \in Threads : calls[s] = Idle
  PROVE  UserStatesInv'
<1>1. /\ calls'[t] = c
      /\ \A s \in Threads : s # t => calls'[s] = calls[s]
      /\ calls' = [s \in Threads |-> calls'[s]]
      /\ UNCHANGED <<reg, freed, open>> /\ open
      /\ \A s \in Threads : ~Closing(s)
  BY DEF UserStatesInv, TypesOK, Begin, Closing
<1>2. TypesOK'
  <2>1. \A s \in Threads : WellFormed(calls'[s])
    BY <1>1 DEF UserStatesInv, TypesOK
  <2>2. \A s \in Threads : WellFormed(calls'[s]) = WellFormed(calls[s])'
    BY DEF WellFormed
  <2> QED BY <1>1, <2>1, <2>2 DEF UserStatesInv, TypesOK
<1>3. Held'
  BY <1>1 DEF UserStatesInv, Held, Ud
<1>4. HandedOver'
  <2>1. ASSUME c.call = "register", NEW u \in Ud(c.new)
        PROVE  /\ freed[u] = Unset
               /\ \A s \in Threads : Registering(s) => u \notin Ud(calls[s].new)
    BY <2>1 DEF Fresh, Registering
  <2> QED BY <1>1, <2>1 DEF UserStatesInv, HandedOver, Registering, Ud
<1>5. GivenBack'
  <2>1. ASSUME NEW s \in Threads, NEW r \in Threads, Closing(r)', s # r
        PROVE  calls'[s] = Idle
    <3>1. r = t /\ c.call \in {"close", "discard"}
      BY <1>1, <2>1 DEF Closing
    <3> QED BY <1>1, <2>1, <3>1
  <2> QED BY <1>1, <2>1 DEF GivenBack
<1>6. Running'
  BY <1>1 DEF UserStatesInv, Running
<1> QED BY <1>2, <1>3, <1>4, <1>5, <1>6 DEF UserStatesInv

----------------------------------------------------------------------------
(* Steps that change the registrations.                                    *)

\* Nothing but the close changes a registration while a callback runs.
LEMMA RegisteringAlone ==
  ASSUME UserStatesInv, NEW t \in Threads, Registering(t)
  PROVE  /\ open
         /\ \A s \in Threads : ~Closing(s) /\ calls[s].step \notin CallbackSteps
<1>1. calls[t] # Idle
  BY IdleIsWellFormed DEF Registering
<1>2. \A s \in Threads : ~Closing(s)
  BY <1>1 DEF UserStatesInv, GivenBack, Closing, Registering
<1>3. \A s \in Threads : calls[s].step \notin CallbackSteps
  BY <1>2 DEF UserStatesInv, TypesOK, WellFormed, Closing
<1> QED BY <1>1, <1>2, <1>3 DEF UserStatesInv, GivenBack

LEMMA RegistersKeeps ==
  ASSUME UserStatesInv, NEW t \in Threads, NEW kind \in Kinds,
         Registers(t, kind)
  PROVE  UserStatesInv'
<1> DEFINE new == calls[t].new
<1>1. /\ Registering(t) /\ open /\ open' = open
      /\ reg' = [reg EXCEPT ![kind] = new]
      /\ Replaces(reg[kind], new)
      /\ \A s \in Threads : ~Closing(s) /\ calls[s].step \notin CallbackSteps
  BY RegisteringAlone DEF Registers, At, Registering
<1>2. /\ new \in Registered
      /\ \A u \in Ud(new) : freed[u] = Unset
  BY <1>1 DEF UserStatesInv, TypesOK, WellFormed, HandedOver, Registering
<1>3. /\ calls'[t] = Idle
      /\ \A s \in Threads : s # t => calls'[s] = calls[s]
      /\ calls' = [s \in Threads |-> calls'[s]]
  BY DEF UserStatesInv, TypesOK, Registers, Returns
<1>4. /\ freed' \in [UserStates -> {Unset, 0, 1}]
      /\ reg' \in [Kinds -> Registered]
      /\ Held'
      /\ \A u \in UserStates :
           u \notin Ud(new) /\ freed[u] = Unset => freed'[u] = Unset
  <2> HIDE DEF new
  <2> QED BY <1>1, <1>2, ReplaceKeepsHeld DEF UserStatesInv
<1>5. TypesOK'
  <2>1. \A s \in Threads : WellFormed(calls'[s])
    BY <1>3, IdleIsWellFormed DEF UserStatesInv, TypesOK
  <2>2. \A s \in Threads : WellFormed(calls'[s]) = WellFormed(calls[s])'
    BY DEF WellFormed
  <2> QED BY <1>1, <1>3, <1>4, <2>1, <2>2 DEF UserStatesInv, TypesOK
<1>6. HandedOver'
  <2>1. ASSUME NEW s \in Threads, calls'[s].call = "register"
        PROVE  /\ s # t /\ Registering(s) /\ calls'[s] = calls[s]
    BY <1>3, <2>1, IdleIsWellFormed DEF Registering
  <2>2. ASSUME NEW s \in Threads, calls'[s].call = "register",
               NEW u \in Ud(calls[s].new)
        PROVE  freed'[u] = Unset
    <3>1. calls[s].new \in Registered
      BY <2>1, <2>2 DEF UserStatesInv, TypesOK, WellFormed, Registering
    <3>2. u \in UserStates
      BY <2>2, <3>1, UdOfRegistered
    <3>3. freed[u] = Unset /\ u \notin Ud(new)
      BY <1>1, <2>1, <2>2 DEF UserStatesInv, HandedOver
    <3> QED BY <1>4, <3>2, <3>3
  <2>3. \A s \in Threads : Ud(calls[s].new)' = Ud(calls'[s].new)
    BY DEF Ud
  <2>4. ASSUME NEW r \in Threads, NEW s \in Threads, r # s,
               calls'[r].call = "register", calls'[s].call = "register"
        PROVE  Ud(calls'[r].new) \cap Ud(calls'[s].new) = {}
    BY <2>1, <2>4 DEF UserStatesInv, HandedOver
  <2> QED BY <2>1, <2>2, <2>3, <2>4 DEF HandedOver, Registering
<1>7. GivenBack'
  <2>1. \A s \in Threads : ~Closing(s)'
    BY <1>1, <1>3, IdleIsWellFormed DEF Closing
  <2> QED BY <1>1, <2>1 DEF GivenBack
<1>8. Running'
  <2>1. \A s \in Threads : calls'[s].step \notin CallbackSteps
    BY <1>1, <1>3, IdleIsWellFormed DEF CallbackSteps
  <2> QED BY <2>1 DEF Running
<1> QED BY <1>4, <1>5, <1>6, <1>7, <1>8 DEF UserStatesInv

\* The close calls back: the callback is registered, so its user state lives.
LEMMA CallsBackKeeps ==
  ASSUME UserStatesInv, NEW t \in Threads, calls[t].call = "close",
         NEW step \in CallbackSteps, NEW kind \in Kinds, reg[kind] # None,
         CallsBack(t, step, kind), UNCHANGED <<reg, freed, open>>
  PROVE  UserStatesInv'
<1>1. PICK nested \in CallbackCalls \cup {"nothing"} :
        calls' = [calls EXCEPT ![t] =
                    [call |-> "close", step |-> step, nested |-> nested,
                     kind |-> kind, ud |-> reg[kind].ud]]
  BY DEF CallsBack
<1> DEFINE c == [call |-> "close", step |-> step, nested |-> nested,
                 kind |-> kind, ud |-> reg[kind].ud]
<1>2. /\ calls'[t] = c
      /\ \A s \in Threads : s # t => calls'[s] = calls[s]
      /\ calls' = [s \in Threads |-> calls'[s]]
  BY <1>1 DEF UserStatesInv, TypesOK
<1>3. WellFormed(c) /\ c.call = "close"
  BY DEF WellFormed, CloseSteps, CallbackSteps
<1>4. open /\ \A s \in Threads : s # t => calls[s] = Idle
  BY IdleIsWellFormed DEF UserStatesInv, GivenBack, Closing
<1>5. TypesOK'
  <2>1. \A s \in Threads : WellFormed(calls'[s])
    BY <1>2, <1>3 DEF UserStatesInv, TypesOK
  <2>2. \A s \in Threads : WellFormed(calls'[s]) = WellFormed(calls[s])'
    BY DEF WellFormed
  <2> QED BY <1>2, <2>1, <2>2 DEF UserStatesInv, TypesOK
<1>6. Held'
  BY DEF UserStatesInv, Held, Ud
<1>7. HandedOver'
  BY <1>2, <1>3, <1>4, IdleIsWellFormed DEF HandedOver, Registering
<1>8. GivenBack'
  BY <1>2, <1>4, IdleIsWellFormed DEF GivenBack, Closing
<1>9. Running'
  BY <1>2, <1>4, IdleIsWellFormed DEF Running, CallbackSteps
<1> QED BY <1>5, <1>6, <1>7, <1>8, <1>9 DEF UserStatesInv

\* It goes on when the callback returns, which may have replaced the other.
LEMMA CallbackEndsKeeps ==
  ASSUME UserStatesInv, NEW t \in Threads, calls[t].step \in CallbackSteps,
         NEW step \in CloseSteps \ CallbackSteps, CallbackEnds(t, step),
         open' = open
  PROVE  UserStatesInv'
<1> DEFINE c == [call |-> "close", step |-> step]
           other == Other(calls[t].kind)
<1>1. /\ calls'[t] = c
      /\ \A s \in Threads : s # t => calls'[s] = calls[s]
      /\ calls' = [s \in Threads |-> calls'[s]]
  BY DEF UserStatesInv, TypesOK, CallbackEnds
<1>2. calls[t].call = "close" /\ calls[t].kind \in Kinds
  BY DEF UserStatesInv, TypesOK, WellFormed, Running
<1>3. open /\ \A s \in Threads : s # t => calls[s] = Idle
  BY <1>2, IdleIsWellFormed DEF UserStatesInv, GivenBack, Closing
<1>4. /\ freed' \in [UserStates -> {Unset, 0, 1}]
      /\ reg' \in [Kinds -> Registered]
      /\ Held'
  <2>1. CASE UNCHANGED <<reg, freed>>
    BY <2>1 DEF UserStatesInv, TypesOK, Held, Ud
  <2>2. CASE \E new \in Registrations :
               /\ reg' = [reg EXCEPT ![other] = new]
               /\ Replaces(reg[other], new)
    <3>1. PICK new \in Registrations :
            /\ reg' = [reg EXCEPT ![other] = new]
            /\ Replaces(reg[other], new)
      BY <2>2
    <3>2. new \in Registered /\ \A u \in Ud(new) : freed[u] = Unset
      BY <3>1 DEF Registrations, Registered, Fresh, Ud
    <3>3. other \in Kinds
      BY <1>2, OtherKind
    <3> HIDE DEF other
    <3> QED BY <3>1, <3>2, <3>3, ReplaceKeepsHeld DEF UserStatesInv
  <2> QED BY <2>1, <2>2 DEF CallbackEnds
<1>5. WellFormed(c) /\ c.call = "close" /\ c.step \notin CallbackSteps
  BY DEF WellFormed
<1>6. TypesOK'
  <2>1. \A s \in Threads : WellFormed(calls'[s])
    BY <1>1, <1>5 DEF UserStatesInv, TypesOK
  <2>2. \A s \in Threads : WellFormed(calls'[s]) = WellFormed(calls[s])'
    BY DEF WellFormed
  <2> QED BY <1>1, <1>4, <2>1, <2>2 DEF UserStatesInv, TypesOK
<1>7. HandedOver'
  BY <1>1, <1>3, <1>5, IdleIsWellFormed DEF HandedOver, Registering
<1>8. GivenBack'
  BY <1>1, <1>3, <1>5, IdleIsWellFormed DEF GivenBack, Closing
<1>9. Running'
  BY <1>1, <1>3, <1>5, IdleIsWellFormed DEF Running, CallbackSteps
<1> QED BY <1>4, <1>6, <1>7, <1>8, <1>9 DEF UserStatesInv

\* With the handle go the registrations.
LEMMA DropKeeps ==
  ASSUME UserStatesInv, NEW t \in Threads, Drop(t)
  PROVE  UserStatesInv'
<1>1. /\ calls'[t] = Idle
      /\ \A s \in Threads : s # t => calls'[s] = calls[s]
      /\ calls' = [s \in Threads |-> calls'[s]]
  BY DEF UserStatesInv, TypesOK, Drop, Returns
<1>2. \A s \in Threads : calls'[s] = Idle
  BY <1>1 DEF UserStatesInv, GivenBack, Drop, Closing
<1>3. /\ open' = FALSE
      /\ reg' \in [Kinds -> Registered]
      /\ \A kind \in Kinds : reg'[kind] = None /\ Ud(reg'[kind]) = {}
  BY DEF Drop, Registered, Ud
<1>4. /\ Unset # 0 /\ Unset # 1
  BY SharedHandleAssumption
<1>5. ASSUME NEW u \in UserStates
      PROVE  freed'[u] \in {Unset, 1}
  <2> DEFINE held == {kind \in Kinds : u \in Ud(reg[kind])}
  <2>1. freed'[u] = IF held = {} THEN freed[u] ELSE freed[u] + Cardinality(held)
    BY DEF Drop, Dropped
  <2>2. CASE held = {}
    BY <2>1, <2>2 DEF UserStatesInv, TypesOK, Held
  <2>3. CASE held # {}
    <3>1. PICK kind \in Kinds : u \in Ud(reg[kind])
      BY <2>3
    <3>2. \A k \in Kinds : u \in Ud(reg[k]) => k = kind
      BY <3>1, TwoKinds DEF UserStatesInv, Held
    <3>3. held = {kind}
      BY <3>1, <3>2
    <3>4. Cardinality(held) = 1
      BY <3>3, FS_Singleton
    <3>5. freed[u] = 0
      BY <3>1 DEF UserStatesInv, Held
    <3> QED BY <2>1, <2>3, <3>4, <3>5
  <2> QED BY <2>2, <2>3
<1>6. TypesOK'
  <2>1. freed' = [u \in UserStates |-> freed'[u]]
    BY DEF Drop, Dropped
  <2>2. \A s \in Threads : WellFormed(calls'[s])
    BY <1>2, IdleIsWellFormed
  <2>3. \A s \in Threads : WellFormed(calls'[s]) = WellFormed(calls[s])'
    BY DEF WellFormed
  <2> QED BY <1>1, <1>3, <1>5, <2>1, <2>2, <2>3 DEF TypesOK
<1>7. Held'
  <2>1. \A kind \in Kinds : Ud(reg[kind])' = Ud(reg'[kind])
    BY DEF Ud
  <2>2. "progress" \in Kinds /\ "cancel" \in Kinds
    BY DEF Kinds
  <2> QED BY <1>3, <1>4, <1>5, <2>1, <2>2 DEF Held
<1>8. HandedOver' /\ GivenBack' /\ Running'
  BY <1>2, <1>3, IdleIsWellFormed
     DEF HandedOver, GivenBack, Running, Registering, Closing, CallbackSteps
<1> QED BY <1>6, <1>7, <1>8 DEF UserStatesInv

----------------------------------------------------------------------------
(* The steps of every call.                                                *)

\* A step that says where a call is, of a call that is not idle.
LEMMA UnderWay ==
  ASSUME UserStatesInv, NEW t \in Threads, calls[t].step # "none"
  PROVE  calls[t] # Idle
BY IdleIsWellFormed

LEMMA SettersKeep ==
  ASSUME UserStatesInv, NEW t \in Threads,
         \/ CheckIndex(t) \/ StageComment(t) \/ ShowComment(t)
         \/ StageArchiveComment(t) \/ ShowArchiveComment(t)
         \/ StageMeta(t) \/ Add(t)
         \/ CheckCount(t) \/ StageField(t) \/ ShowFields(t)
  PROVE  UserStatesInv'
<1>1. /\ calls[t].step \in {"check", "stage", "show", "count"}
      /\ UNCHANGED <<reg, freed, open>>
      /\ Returns(t) \/ \E step \in {"stage", "show", "count"} : Goes(t, step)
  BY DEF CheckIndex, StageComment, ShowComment, StageArchiveComment,
         ShowArchiveComment, StageMeta, Add, CheckCount, StageField,
         ShowFields, At
<1>2. /\ calls[t] # Idle
      /\ calls[t].call \notin {"register", "close", "discard"}
  BY <1>1, UnderWay
     DEF UserStatesInv, TypesOK, WellFormed, CloseSteps, CallbackSteps
<1>3. CASE Returns(t)
  BY <1>1, <1>2, <1>3, ReturnsKeeps
<1>4. CASE \E step \in {"stage", "show", "count"} : Goes(t, step)
  <2>1. PICK step \in {"stage", "show", "count"} : Goes(t, step)
    BY <1>4
  <2>2. step \notin CallbackSteps
    BY DEF CallbackSteps
  <2> QED BY <1>1, <1>2, <2>1, <2>2, GoesKeeps
<1> QED BY <1>1, <1>3, <1>4

LEMMA FlagsAndPasswordsKeep ==
  ASSUME UserStatesInv, NEW t \in Threads,
         \/ LoadFlags(t) \/ CheckNothingStaged(t) \/ StoreFlags(t)
         \/ SetWritePassword(t) \/ SetReadPassword(t)
  PROVE  UserStatesInv'
<1>1. /\ calls[t].call \in {"set_archive_flag", "set_default_password"}
      /\ UNCHANGED <<reg, freed, open>>
  BY DEF LoadFlags, CheckNothingStaged, StoreFlags, SetWritePassword,
         SetReadPassword, At
<1>2. calls[t] # Idle
  BY <1>1, IdleIsWellFormed
<1>3. CASE LoadFlags(t)
  <2>1. CASE Returns(t)
    BY <1>1, <1>2, <2>1, ReturnsKeeps
  <2>2. CASE ~Returns(t)
    <3> DEFINE c == [call |-> calls[t].call, flag |-> calls[t].flag,
                     v |-> calls[t].v, new |-> WithFlag(chAfl, calls[t]),
                     step |-> IF calls[t].flag = "RDONLY" /\ calls[t].v
                              THEN "staged" ELSE "store"]
    <3>1. calls' = [calls EXCEPT ![t] = c] /\ calls[t].call = "set_archive_flag"
      BY <1>3, <2>2 DEF LoadFlags, At
    <3>2. WellFormed(c) /\ c.call = calls[t].call /\ c.call # "register"
      BY <3>1 DEF WellFormed, CallbackSteps
    <3>3. c.step \notin CallbackSteps
      BY DEF CallbackSteps
    <3> HIDE DEF c
    <3> QED BY <1>1, <1>2, <3>1, <3>2, <3>3, QuietKeeps
  <2> QED BY <2>1, <2>2
<1>4. CASE ~LoadFlags(t)
  <2>1. Returns(t) \/ \E step \in {"store", "read"} : Goes(t, step)
    BY <1>4 DEF CheckNothingStaged, StoreFlags, SetWritePassword,
                SetReadPassword
  <2>2. CASE Returns(t)
    BY <1>1, <1>2, <2>2, ReturnsKeeps
  <2>3. CASE \E step \in {"store", "read"} : Goes(t, step)
    <3>1. PICK step \in {"store", "read"} : Goes(t, step)
      BY <2>3
    <3>2. step \notin CallbackSteps
      BY DEF CallbackSteps
    <3> QED BY <1>1, <1>2, <3>1, <3>2, GoesKeeps
  <2> QED BY <2>1, <2>2, <2>3
<1> QED BY <1>3, <1>4

LEMMA RevertsKeep ==
  ASSUME UserStatesInv, NEW t \in Threads,
         \/ Unchange(t) \/ UnchangeAll(t) \/ UnchangeArchive(t)
         \/ RevertFlags(t) \/ RevertArchiveComment(t)
  PROVE  UserStatesInv'
<1>1. /\ calls[t].call \in {"unchange", "unchange_all", "unchange_archive"}
      /\ UNCHANGED <<reg, freed, open>>
      /\ Returns(t) \/ \E step \in {"flags", "show"} : Goes(t, step)
  BY DEF Unchange, UnchangeAll, UnchangeArchive, RevertFlags,
         RevertArchiveComment, At
<1>2. calls[t] # Idle
  BY <1>1, IdleIsWellFormed
<1>3. CASE Returns(t)
  BY <1>1, <1>2, <1>3, ReturnsKeeps
<1>4. CASE \E step \in {"flags", "show"} : Goes(t, step)
  <2>1. PICK step \in {"flags", "show"} : Goes(t, step)
    BY <1>4
  <2>2. step \notin CallbackSteps
    BY DEF CallbackSteps
  <2> QED BY <1>1, <1>2, <2>1, <2>2, GoesKeeps
<1> QED BY <1>1, <1>3, <1>4

\* The steps of zip_close.
LEMMA CloseKeeps ==
  ASSUME UserStatesInv, NEW t \in Threads,
         \/ Decide(t) \/ Prepare(t) \/ Started(t) \/ Ask(t) \/ Answered(t)
         \/ Tell(t) \/ Told(t) \/ Finish(t) \/ Finished(t)
  PROVE  UserStatesInv'
<1> DEFINE Plain == {"prepare", "ask", "tell", "end", "drop"}
<1>1. /\ open' = open
      /\ calls[t].call = "close"
      /\ calls[t] # Idle
  <2>1. /\ open' = open
        /\ calls[t].call = "close" \/ calls[t].step \in CallbackSteps
    BY DEF Decide, Prepare, Started, Ask, Answered, Tell, Told, Finish,
           Finished, At, CallbackSteps
  <2>2. calls[t].call = "close"
    BY <2>1 DEF UserStatesInv, TypesOK, WellFormed
  <2> QED BY <2>1, <2>2, IdleIsWellFormed
<1>2. ASSUME NEW step \in Plain, Goes(t, step), UNCHANGED <<reg, freed>>
      PROVE  UserStatesInv'
  <2>1. step \in CloseSteps \ CallbackSteps
    BY DEF CloseSteps, CallbackSteps
  <2> QED BY <1>1, <1>2, <2>1, GoesKeeps
<1>3. ASSUME NEW step \in Plain, calls[t].step \in CallbackSteps,
             CallbackEnds(t, step)
      PROVE  UserStatesInv'
  <2>1. step \in CloseSteps \ CallbackSteps
    BY DEF CloseSteps, CallbackSteps
  <2> QED BY <1>1, <1>3, <2>1, CallbackEndsKeeps
<1>4. ASSUME NEW step \in CallbackSteps, NEW kind \in Kinds, reg[kind] # None,
             CallsBack(t, step, kind), UNCHANGED <<reg, freed>>
      PROVE  UserStatesInv'
  BY <1>1, <1>4, CallsBackKeeps
<1>5. /\ "progress" \in Kinds /\ "cancel" \in Kinds
      /\ {"in_start", "in_cancel", "in_progress", "in_end"} \subseteq CallbackSteps
      /\ NextStep \in Plain
  BY DEF Kinds, CallbackSteps, NextStep
<1> HIDE DEF Plain
<1>6. {"prepare", "ask", "tell", "end", "drop"} \subseteq Plain
  BY DEF Plain
<1>7. CASE Decide(t)
  BY <1>2, <1>6, <1>7 DEF Decide
<1>8. CASE Prepare(t)
  BY <1>2, <1>4, <1>5, <1>6, <1>8 DEF Prepare
<1>9. CASE Started(t)
  BY <1>3, <1>5, <1>6, <1>9 DEF Started
<1>10. CASE Ask(t)
  BY <1>2, <1>4, <1>5, <1>6, <1>10 DEF Ask
<1>11. CASE Answered(t)
  BY <1>3, <1>5, <1>6, <1>11 DEF Answered
<1>12. CASE Tell(t)
  BY <1>2, <1>4, <1>5, <1>12 DEF Tell, Tells
<1>13. CASE Told(t)
  BY <1>3, <1>5, <1>13 DEF Told
<1>14. CASE Finish(t)
  BY <1>2, <1>4, <1>5, <1>6, <1>14 DEF Finish
<1>15. CASE Finished(t)
  BY <1>3, <1>5, <1>6, <1>15 DEF Finished
<1> QED BY <1>7, <1>8, <1>9, <1>10, <1>11, <1>12, <1>13, <1>14, <1>15

LEMMA BeginsKeep ==
  ASSUME UserStatesInv, NEW t \in Threads,
         \/ BeginSetter(t) \/ BeginFieldSetter(t) \/ BeginRevert(t)
         \/ BeginRegister(t) \/ BeginClose(t)
  PROVE  UserStatesInv'
<1>1. CASE BeginSetter(t)
  <2>1. PICK c \in SettersOf : Begin(t, c)
    BY <1>1 DEF BeginSetter
  <2>2. /\ WellFormed(c) /\ c.step \notin CallbackSteps
        /\ c.call \notin {"register", "close", "discard"}
    BY <2>1 DEF SettersOf, WellFormed, CallbackSteps
  <2> QED BY <2>1, <2>2, BeginKeeps
<1>2. CASE BeginFieldSetter(t)
  <2>1. PICK c \in FieldSettersOf : Begin(t, c)
    BY <1>2 DEF BeginFieldSetter
  <2>2. /\ WellFormed(c) /\ c.step \notin CallbackSteps
        /\ c.call \notin {"register", "close", "discard"}
    <3>1. /\ {"call", "step"} \subseteq DOMAIN c /\ c.step = "check"
          /\ c.call \in {"extra_field_set", "extra_field_delete",
                         "extra_field_delete_by_id"}
      <4>1. CASE \E id \in FieldIds :
                   c \in [call : {"extra_field_set"}, step : {"check"},
                         i : Index, id : {id}, at : FieldIndexes \cup {All},
                         data : Datas, refused : {(id \in Internal)}]
        BY <4>1
      <4>2. CASE \E ids, datas :
                   c \in [call : {"extra_field_delete",
                                 "extra_field_delete_by_id"},
                         step : {"check"}, i : Index, id : ids,
                         at : FieldIndexes \cup {All}, data : datas,
                         refused : {FALSE}]
        BY <4>2
      <4> QED BY <2>1, <4>1, <4>2, Zenon DEF FieldSettersOf
    <3> QED BY <3>1 DEF WellFormed, CallbackSteps
  <2> QED BY <2>1, <2>2, BeginKeeps
<1>3. CASE BeginRevert(t)
  <2>1. PICK c \in RevertsOf : Begin(t, c)
    BY <1>3 DEF BeginRevert
  <2>2. /\ WellFormed(c) /\ c.step \notin CallbackSteps
        /\ c.call \notin {"register", "close", "discard"}
    BY <2>1 DEF RevertsOf, WellFormed, CallbackSteps
  <2> QED BY <2>1, <2>2, BeginKeeps
<1>4. CASE BeginRegister(t)
  <2>1. PICK kind \in Kinds, new \in Registrations :
          Begin(t, [call |-> "register", step |-> "register", kind |-> kind,
                    new |-> new])
    BY <1>4 DEF BeginRegister
  <2> DEFINE c == [call |-> "register", step |-> "register", kind |-> kind,
                   new |-> new]
  <2>2. new \in Registered /\ \A u \in Ud(new) : u \in Fresh
    BY DEF Registrations, Registered, Fresh, Ud
  <2>3. /\ WellFormed(c) /\ c.step \notin CallbackSteps
        /\ c.call = "register" /\ c.new = new
    BY <2>2 DEF WellFormed, CallbackSteps
  <2> HIDE DEF c
  <2>4. Begin(t, c)
    BY <2>1 DEF c
  <2> QED BY <2>2, <2>3, <2>4, BeginKeeps
<1>5. CASE BeginClose(t)
  <2>1. PICK c \in {[call |-> "close", step |-> "decide"],
                    [call |-> "discard", step |-> "drop"]} : Begin(t, c)
    BY <1>5 DEF BeginClose
  <2>2. /\ WellFormed(c) /\ c.step \notin CallbackSteps
        /\ c.call \in {"close", "discard"}
    BY <2>1 DEF WellFormed, CloseSteps, CallbackSteps
  <2> QED BY <1>5, <2>1, <2>2, BeginKeeps DEF BeginClose
<1> QED BY <1>1, <1>2, <1>3, <1>4, <1>5

LEMMA UserStatesStart == Init => UserStatesInv
<1> SUFFICES ASSUME Init PROVE UserStatesInv
  OBVIOUS
<1>1. Unset # 0
  BY SharedHandleAssumption
<1>2. \A kind \in Kinds : Ud(reg[kind]) = {}
  BY DEF Init, Ud
<1>3. TypesOK
  BY IdleIsWellFormed DEF Init, TypesOK, Registered
<1>4. Held
  BY <1>1, <1>2 DEF Init, Held, Kinds
<1>5. HandedOver /\ GivenBack /\ Running
  BY IdleIsWellFormed
     DEF Init, HandedOver, GivenBack, Running, Registering, Closing,
         CallbackSteps
<1> QED BY <1>3, <1>4, <1>5 DEF UserStatesInv

LEMMA UserStatesKeep == UserStatesInv /\ [Next]_vars => UserStatesInv'
<1> SUFFICES ASSUME UserStatesInv, [Next]_vars PROVE UserStatesInv'
  OBVIOUS
<1>1. CASE UNCHANGED vars
  BY <1>1
     DEF vars, UserStatesInv, TypesOK, Held, HandedOver, GivenBack, Running,
         WellFormed, Registering, Closing, Ud
<1>2. ASSUME NEW t \in Threads, Step(t) PROVE UserStatesInv'
  <2>1. CASE RegisterProgress(t) \/ RegisterCancel(t)
    BY <2>1, RegistersKeeps DEF RegisterProgress, RegisterCancel, Kinds
  <2>2. CASE Drop(t)
    BY <2>2, DropKeeps
  <2> QED BY <1>2, <2>1, <2>2, SettersKeep, FlagsAndPasswordsKeep,
             RevertsKeep, CloseKeeps DEF Step
<1> QED BY <1>1, <1>2, BeginsKeep DEF Next

\* Each user state handed over with a callback is freed once, when it is
\* replaced or the handle goes, and never while its callback runs.
THEOREM UserStatesFreedOnce == Spec => []UserStatesAreFreedOnce
<1>1. UserStatesInv => UserStatesAreFreedOnce
  <2> SUFFICES ASSUME UserStatesInv PROVE UserStatesAreFreedOnce
    OBVIOUS
  <2>1. \A u \in UserStates :
          /\ freed[u] \in {Unset, 0, 1}
          /\ freed[u] = 0 <=> \E kind \in Kinds : u \in Ud(reg[kind])
    BY DEF UserStatesInv, TypesOK, Held
  <2>2. ASSUME NEW u \in UserStates, ~open PROVE freed[u] # 0
    BY <2>1, <2>2 DEF UserStatesInv, GivenBack, Ud
  <2>3. ASSUME NEW t \in Threads, calls[t].step \in CallbackSteps
        PROVE  freed[calls[t].ud] = 0
    <3>1. calls[t].kind \in Kinds /\ reg[calls[t].kind] # None
      BY <2>3 DEF UserStatesInv, Running
    <3>2. /\ Ud(reg[calls[t].kind]) = {calls[t].ud}
          /\ calls[t].ud \in UserStates
      BY <2>3, <3>1, UdOfRegistered DEF UserStatesInv, TypesOK, Running
    <3> QED BY <2>1, <3>1, <3>2
  <2> QED BY <2>1, <2>2, <2>3 DEF UserStatesAreFreedOnce, CallbackSteps
<1> QED BY <1>1, UserStatesStart, UserStatesKeep, PTL DEF Spec

----------------------------------------------------------------------------
(* A close that is asked to stop.                                          *)

\* Where a close that was asked to stop can be, and one that has written.
AskedAt(t) ==
  /\ calls[t].call = "close"
  /\ calls[t].step \in {"tell", "in_progress", "drop"}
WrittenAt(t) == calls[t].call = "close" /\ calls[t].step = "drop"

StopInv ==
  /\ {"asked", "cancel"} \subseteq DOMAIN write
  /\ write.asked \in BOOLEAN /\ write.cancel = write.asked
  /\ write.asked => file = "old"
  /\ open /\ write.asked => \E t \in Threads : AskedAt(t)
  /\ open /\ file # "old" => \E t \in Threads : WrittenAt(t)

\* What no close does leaves a write alone, for none is under way.
LEMMA OthersKeepStop ==
  ASSUME UserStatesInv, StopInv, NEW t \in Threads, ~Closing(t),
         calls[t] # Idle \/ \A s \in Threads : ~Closing(s),
         UNCHANGED <<write, file, open>>
  PROVE  StopInv'
<1>1. \A s \in Threads : ~Closing(s)
  BY DEF UserStatesInv, GivenBack
<1>2. ~(\E s \in Threads : AskedAt(s) \/ WrittenAt(s))
  BY <1>1 DEF AskedAt, WrittenAt, Closing
<1> QED BY <1>2 DEF StopInv

LEMMA CloseKeepsStop ==
  ASSUME UserStatesInv, StopInv, NEW t \in Threads, calls[t].call = "close",
         \/ Decide(t) \/ Prepare(t) \/ Started(t) \/ Ask(t) \/ Answered(t)
         \/ Tell(t) \/ Told(t) \/ Finish(t) \/ Finished(t)
  PROVE  StopInv'
<1>1. /\ open /\ open' = open
      /\ calls = [s \in Threads |-> calls[s]]
      /\ {"call", "step"} \subseteq DOMAIN calls[t]
      /\ \A s \in Threads : AskedAt(s) \/ WrittenAt(s) => s = t
  BY IdleIsWellFormed
     DEF UserStatesInv, TypesOK, WellFormed, GivenBack, Closing, AskedAt,
         WrittenAt, Decide, Prepare, Started, Ask, Answered, Tell, Told,
         Finish, Finished
<1>2. /\ calls[t].step \notin {"tell", "in_progress", "drop"} => ~write.asked
      /\ calls[t].step # "drop" => file = "old"
  BY <1>1 DEF StopInv, AskedAt, WrittenAt
\* A step that asks for nothing and writes nothing.
<1>3. ASSUME write'.asked = write.asked, write'.cancel = write.cancel,
             {"asked", "cancel"} \subseteq DOMAIN write',
             file' = "old", write.asked => AskedAt(t)'
      PROVE  StopInv'
  BY <1>1, <1>3 DEF StopInv
<1>4. ASSUME NEW step, Goes(t, step)
      PROVE  calls'[t].call = "close" /\ calls'[t].step = step
  BY <1>1, <1>4 DEF Goes
<1>5. ASSUME NEW step, CallbackEnds(t, step)
      PROVE  calls'[t].call = "close" /\ calls'[t].step = step
  BY <1>1, <1>5 DEF CallbackEnds
<1>6. ASSUME NEW step, NEW kind, CallsBack(t, step, kind)
      PROVE  calls'[t].call = "close" /\ calls'[t].step = step
  BY <1>1, <1>6 DEF CallsBack
\* What the end of the write is.
<1>7. ASSUME calls'[t].call = "close", calls'[t].step = "drop", ~write.asked,
             UNCHANGED write
      PROVE  StopInv'
  BY <1>1, <1>7 DEF StopInv, WrittenAt
<1>8. CASE Decide(t)
  BY <1>2, <1>3, <1>8 DEF Decide, At, StopInv
<1>9. CASE Prepare(t)
  <2>1. calls[t].step = "prepare" /\ ~write.asked /\ file = "old"
    BY <1>2, <1>9 DEF Prepare, At
  <2>2. CASE Goes(t, "drop") /\ UNCHANGED write
    BY <1>4, <1>7, <2>1, <2>2
  <2>3. CASE ~(Goes(t, "drop") /\ UNCHANGED write)
    <3>1. /\ file' = file
          /\ write' = [NoWrite EXCEPT
                         !.hasProgress = (reg["progress"] # None),
                         !.hasCancel = (reg["cancel"] # None),
                         !.told = IF reg["progress"] # None THEN <<0>>
                                                            ELSE <<>>]
      BY <1>9, <2>3, Zenon DEF Prepare
    <3>2. /\ {"asked", "cancel"} \subseteq DOMAIN write'
          /\ write'.asked = FALSE /\ write'.cancel = FALSE
      BY <3>1 DEF NoWrite
    <3> QED BY <1>1, <2>1, <3>1, <3>2 DEF StopInv
  <2> QED BY <2>2, <2>3
<1>10. CASE Started(t)
  BY <1>2, <1>3, <1>10 DEF Started, StopInv
<1>11. CASE Ask(t)
  BY <1>2, <1>3, <1>11 DEF Ask, At, StopInv
<1>12. CASE Answered(t)
  <2>1. PICK answer \in BOOLEAN :
          write' = [write EXCEPT !.cancel = answer, !.asked = @ \/ answer]
    BY <1>12 DEF Answered
  <2>2. ~write.asked /\ file = "old" /\ file' = file
    BY <1>2, <1>12 DEF Answered
  <2>3. /\ {"asked", "cancel"} \subseteq DOMAIN write'
        /\ write'.cancel = answer /\ write'.asked = (write.asked \/ answer)
    BY <2>1 DEF StopInv
  <2>4. AskedAt(t)'
    BY <1>5, <1>12 DEF Answered, AskedAt
  <2>5. write'.asked = answer
    BY <2>2, <2>3
  <2> QED BY <1>1, <2>2, <2>3, <2>4, <2>5 DEF StopInv
<1>13. ASSUME write'.asked = write.asked, write'.cancel = write.cancel,
              {"asked", "cancel"} \subseteq DOMAIN write', file' = file,
              calls[t].step \in {"tell", "in_progress"},
              calls'[t].call = "close",
              calls'[t].step \in {"in_progress", NextStep}
       PROVE  StopInv'
  <2>1. write.asked => calls'[t].step \in {"in_progress", "drop"}
    BY <1>13 DEF NextStep, StopInv
  <2> QED BY <1>2, <1>3, <1>13, <2>1 DEF AskedAt
<1>14. CASE Tell(t)
  <2>1. CASE Tells
    <3>1. write' = [write EXCEPT !.last = Fraction(write.k),
                                 !.told = Append(@, Fraction(write.k))]
      BY <1>14, <2>1 DEF Tell
    <3>2. /\ {"asked", "cancel"} \subseteq DOMAIN write'
          /\ write'.asked = write.asked /\ write'.cancel = write.cancel
      BY <3>1 DEF StopInv
    <3> QED BY <1>6, <1>13, <1>14, <2>1, <3>2 DEF Tell, At
  <2>2. CASE ~Tells
    <3>1. write' = [write EXCEPT !.k = @ + 1]
      BY <1>14, <2>2 DEF Tell, PassesOn
    <3>2. /\ {"asked", "cancel"} \subseteq DOMAIN write'
          /\ write'.asked = write.asked /\ write'.cancel = write.cancel
      BY <3>1 DEF StopInv
    <3> QED BY <1>4, <1>13, <1>14, <2>2, <3>2 DEF Tell, At
  <2> QED BY <2>1, <2>2
<1>15. CASE Told(t)
  <2>1. write' = [write EXCEPT !.k = @ + 1]
    BY <1>15 DEF Told, PassesOn
  <2>2. /\ {"asked", "cancel"} \subseteq DOMAIN write'
        /\ write'.asked = write.asked /\ write'.cancel = write.cancel
    BY <2>1 DEF StopInv
  <2> QED BY <1>5, <1>13, <1>15, <2>2 DEF Told
<1>16. CASE Finish(t)
  <2>1. ~write.asked /\ file = "old"
    BY <1>2, <1>16 DEF Finish, At
  <2>2. CASE Goes(t, "drop") /\ UNCHANGED write
    BY <1>4, <1>7, <2>1, <2>2
  <2>3. CASE file' = file /\ write' = [write EXCEPT !.told = Append(@, Full)]
    <3>1. /\ {"asked", "cancel"} \subseteq DOMAIN write'
          /\ write'.asked = write.asked /\ write'.cancel = write.cancel
      BY <2>3 DEF StopInv
    <3> QED BY <1>3, <2>1, <2>3, <3>1
  <2> QED BY <1>16, <2>2, <2>3 DEF Finish
<1>17. CASE Finished(t)
  <2>1. ~write.asked
    BY <1>2, <1>17 DEF Finished
  <2> QED BY <1>5, <1>7, <1>17, <2>1 DEF Finished
<1> QED BY <1>8, <1>9, <1>10, <1>11, <1>12, <1>14, <1>15, <1>16, <1>17

\* Every other step belongs to a call that gives nothing back.
LEMMA OtherSteps ==
  ASSUME UserStatesInv, NEW t \in Threads,
         \/ CheckIndex(t) \/ StageComment(t) \/ ShowComment(t)
         \/ StageArchiveComment(t) \/ ShowArchiveComment(t)
         \/ StageMeta(t) \/ Add(t)
         \/ CheckCount(t) \/ StageField(t) \/ ShowFields(t)
         \/ LoadFlags(t) \/ CheckNothingStaged(t) \/ StoreFlags(t)
         \/ SetWritePassword(t) \/ SetReadPassword(t)
         \/ Unchange(t) \/ UnchangeAll(t) \/ UnchangeArchive(t)
         \/ RevertFlags(t) \/ RevertArchiveComment(t)
         \/ RegisterProgress(t) \/ RegisterCancel(t)
  PROVE  /\ calls[t] # Idle /\ ~Closing(t)
         /\ UNCHANGED <<write, file, open>>
<1>1. /\ calls[t].call # "none" \/ calls[t].step # "none"
      /\ \/ calls[t].call \notin {"close", "discard", "none"}
         \/ calls[t].step \in {"check", "count"}
      /\ UNCHANGED <<write, file, open>>
  BY DEF CheckIndex, StageComment, ShowComment, StageArchiveComment,
         ShowArchiveComment, StageMeta, Add, CheckCount, StageField,
         ShowFields, FieldCalls, LoadFlags, CheckNothingStaged, StoreFlags,
         SetWritePassword, SetReadPassword, Unchange, UnchangeAll,
         UnchangeArchive, RevertFlags, RevertArchiveComment,
         RegisterProgress, RegisterCancel, Registers, At
<1>2. ~Closing(t)
  BY <1>1
     DEF UserStatesInv, TypesOK, WellFormed, CloseSteps, CallbackSteps,
         Closing
<1> QED BY <1>1, <1>2, IdleIsWellFormed

LEMMA StopKeeps == UserStatesInv /\ StopInv /\ [Next]_vars => StopInv'
<1> SUFFICES ASSUME UserStatesInv, StopInv, [Next]_vars PROVE StopInv'
  OBVIOUS
<1>1. CASE UNCHANGED vars
  BY <1>1 DEF vars, StopInv, AskedAt, WrittenAt
<1>2. ASSUME NEW t \in Threads, NEW c, Begin(t, c)
      PROVE  StopInv'
  <2>1. (\A s \in Threads : ~Closing(s)) /\ UNCHANGED <<write, file, open>>
    BY <1>2 DEF Begin, Closing
  <2> QED BY <2>1, OthersKeepStop
<1>3. ASSUME NEW t \in Threads,
             \/ BeginSetter(t) \/ BeginFieldSetter(t) \/ BeginRevert(t)
             \/ BeginRegister(t) \/ BeginClose(t)
      PROVE  \E c : Begin(t, c)
  BY <1>3 DEF BeginSetter, BeginFieldSetter, BeginRevert, BeginRegister,
              BeginClose
<1>4. ASSUME NEW t \in Threads, Step(t) PROVE StopInv'
  <2>1. CASE Drop(t)
    BY <2>1 DEF Drop, StopInv
  <2>2. CASE \/ Decide(t) \/ Prepare(t) \/ Started(t) \/ Ask(t) \/ Answered(t)
             \/ Tell(t) \/ Told(t) \/ Finish(t) \/ Finished(t)
    <3>1. calls[t].call = "close" \/ calls[t].step \in CallbackSteps
      BY <2>2
         DEF Decide, Prepare, Started, Ask, Answered, Tell, Told, Finish,
             Finished, At, CallbackSteps
    <3>2. calls[t].call = "close"
      BY <3>1 DEF UserStatesInv, TypesOK, WellFormed
    <3> QED BY <2>2, <3>2, CloseKeepsStop
  <2> QED BY <1>4, <2>1, <2>2, OtherSteps, OthersKeepStop DEF Step
<1> QED BY <1>1, <1>2, <1>3, <1>4 DEF Next

\* A close that was asked to stop, at any checkpoint and by any answer of the
\* cancel callback, leaves the file as it was.
THEOREM StoppedWritesNothingEver == Spec => []StoppedWritesNothing
<1>1. Init => StopInv
  BY DEF Init, StopInv, NoWrite
<1>2. StopInv => StoppedWritesNothing
  BY DEF StopInv, StoppedWritesNothing
<1> QED BY <1>1, <1>2, UserStatesStart, UserStatesKeep, StopKeeps, PTL DEF Spec

----------------------------------------------------------------------------
(* Setters: what they stage and what getters show.                         *)

\* The calls about one entry.
Indexed == {"set_comment", "set_meta", "unchange"} \cup FieldCalls

\* What the setters have in hand.
ArgsOK(c) ==
  /\ c.call \in Indexed => "i" \in DOMAIN c /\ c.i \in Index
  /\ c.call \in {"set_comment", "set_archive_comment"} =>
       "v" \in DOMAIN c /\ c.v \in Comments \cup {None}
  /\ c.call = "set_default_password" => "v" \in DOMAIN c
  /\ c.call = "set_archive_flag" =>
       /\ "v" \in DOMAIN c /\ "flag" \in DOMAIN c
       /\ c.step \in {"staged", "store"} => "new" \in DOMAIN c

\* The parts of what is staged and shown.
PartsOK ==
  /\ {"adds", "comments", "fields", "meta", "archiveComment"} \subseteq DOMAIN pending
  /\ pending.adds \in Nat
  /\ pending.comments \in [Index -> Comments \cup {None, Unset}]
  /\ pending.fields = [i \in Index |-> pending.fields[i]]
  /\ {"comments", "fields", "archiveComment"} \subseteq DOMAIN shown
  /\ shown.comments = [i \in Index |-> shown.comments[i]]
  /\ shown.fields = [i \in Index |-> shown.fields[i]]
  /\ {"write", "read"} \subseteq DOMAIN password

\* Two calls under way about one thing have been noted.
Overlapping ==
  \A s, t \in Threads :
    s # t => Touches(calls[s]) \cap Touches(calls[t]) \subseteq overlaps

\* Where a comment is staged and not shown yet.
ShowsComment(c) == c.call = "set_comment" /\ c.step = "show"

CommentsInv ==
  \A i \in Index :
    <<"comment", i>> \notin overlaps =>
      /\ \A t \in Threads :
           ShowsComment(calls[t]) /\ calls[t].i = i =>
             pending.comments[i] = calls[t].v
      /\ (\A t \in Threads : ~(ShowsComment(calls[t]) /\ calls[t].i = i)) =>
           shown.comments[i] = EffectiveComment(i)

SetsArchive(c) == c.call = "set_archive_comment" /\ c.step = "show"
RevertsArchive(c) ==
  c.call \in {"unchange_all", "unchange_archive"} /\ c.step \in {"flags", "show"}

ArchiveCommentInv ==
  <<"archive_comment">> \notin overlaps =>
    /\ \A t \in Threads :
         /\ SetsArchive(calls[t]) => pending.archiveComment = calls[t].v
         /\ RevertsArchive(calls[t]) => pending.archiveComment = Unset
    /\ (\A t \in Threads : ~SetsArchive(calls[t]) /\ ~RevertsArchive(calls[t])) =>
         shown.archiveComment = EffectiveArchiveComment

ReadsPassword(c) == c.call = "set_default_password" /\ c.step = "read"

PasswordInv ==
  <<"password">> \notin overlaps =>
    /\ \A t \in Threads : ReadsPassword(calls[t]) => password.write = calls[t].v
    /\ (\A t \in Threads : ~ReadsPassword(calls[t])) => password.read = password.write

StoresFlags(c) == c.call = "set_archive_flag" /\ c.step \in {"staged", "store"}

FlagsInv ==
  <<"flags">> \notin overlaps =>
    /\ chAfl = wanted
    /\ \A t \in Threads :
         StoresFlags(calls[t]) => calls[t].new = WithFlag(chAfl, calls[t])

\* Calls that have looked an index up and are still to stage something for it.
Checked(c) ==
  c.call \in {"set_comment", "set_meta"} \cup FieldCalls /\ c.step \in {"count", "stage"}

IsStaged(i) ==
  \/ pending.comments[i] # Unset
  \/ pending.fields[i] # <<>>
  \/ \E m \in pending.meta : m[2] = i

EntriesInv ==
  \A i \in Index :
    IsStaged(i) \/ (\E t \in Threads : Checked(calls[t]) /\ calls[t].i = i) =>
      ValidIndex(i) \/ <<"entry", i>> \in overlaps

ShowsFields(c) == c.call \in FieldCalls /\ c.step = "show"

FieldsInv ==
  \A i \in Index :
    \/ <<"fields", i>> \in overlaps
    \/ \E t \in Threads : ShowsFields(calls[t]) /\ calls[t].i = i
    \/ shown.fields[i] = Effective(pending.fields, i)

\* Setters and reverts, whatever runs beside them.
SettersInv ==
  /\ \A t \in Threads : ArgsOK(calls[t])
  /\ PartsOK
  /\ Overlapping
  /\ CommentsInv /\ ArchiveCommentInv /\ PasswordInv /\ FlagsInv
  /\ EntriesInv /\ FieldsInv

\* What calls are about.
LEMMA TopicsOf ==
  ASSUME NEW c
  PROVE  /\ c.call = "set_comment" => Touches(c) = {<<"comment", c.i>>, <<"entry", c.i>>}
         /\ c.call \in FieldCalls \cup {"set_meta"} => Touches(c) = {<<"entry", c.i>>}
         /\ c.call = "unchange" => Touches(c) = {<<"comment", c.i>>, <<"entry", c.i>>}
         /\ c.call = "unchange_all" =>
              Touches(c) = ({"comment", "entry"} \X Index) \cup {<<"archive_comment">>, <<"flags">>}
         /\ c.call = "unchange_archive" => Touches(c) = {<<"archive_comment">>, <<"flags">>}
         /\ c.call = "set_archive_comment" => Touches(c) = {<<"archive_comment">>}
         /\ c.call = "set_archive_flag" => Touches(c) = {<<"flags">>}
         /\ c.call = "set_default_password" => Touches(c) = {<<"password">>}
         /\ c.call \in {"none", "add", "register", "close", "discard"} => Touches(c) = {}
BY DEF Touches, FieldCalls

\* A topic of the getters' fields is no other topic.
LEMMA TopicsDiffer ==
  ASSUME NEW i, NEW j
  PROVE  /\ <<"comment", i>> # <<"fields", j>> /\ <<"entry", i>> # <<"fields", j>>
         /\ <<"archive_comment">> # <<"fields", j>> /\ <<"flags">> # <<"fields", j>>
         /\ <<"password">> # <<"fields", j>> /\ <<"comment", i>> # <<"entry", j>>
         /\ <<"archive_comment">> # <<"comment", j>> /\ <<"archive_comment">> # <<"entry", j>>
         /\ <<"flags">> # <<"comment", j>> /\ <<"flags">> # <<"entry", j>>
         /\ <<"password">> # <<"comment", j>> /\ <<"password">> # <<"entry", j>>
         /\ <<"archive_comment">> # <<"flags">> /\ <<"archive_comment">> # <<"password">>
         /\ <<"flags">> # <<"password">>
<1>1. \A x, y : <<x, y>>[1] = x
  OBVIOUS
<1>2. \A x : <<x>>[1] = x
  OBVIOUS
<1> QED BY <1>1, <1>2

----------------------------------------------------------------------------
(* What a step leaves of the calls.                                        *)

\* One call moves; it is about no more than before.
Moves(t) ==
  /\ \A s \in Threads : s # t => calls'[s] = calls[s]
  /\ ArgsOK(calls'[t])
Narrows(t) == Touches(calls'[t]) \subseteq Touches(calls[t])

\* Of what has been noted only fields are struck off again.
StillNoted ==
  \A topic \in overlaps : topic \in overlaps' \/ \E i : topic = <<"fields", i>>

LEMMA TopicsStillNoted ==
  ASSUME StillNoted
  PROVE  /\ \A i \in Index :
              /\ <<"comment", i>> \in overlaps => <<"comment", i>> \in overlaps'
              /\ <<"entry", i>> \in overlaps => <<"entry", i>> \in overlaps'
         /\ <<"archive_comment">> \in overlaps => <<"archive_comment">> \in overlaps'
         /\ <<"flags">> \in overlaps => <<"flags">> \in overlaps'
         /\ <<"password">> \in overlaps => <<"password">> \in overlaps'
         /\ \A c : Touches(c) \cap overlaps \subseteq overlaps'
<1>1. ASSUME NEW c, NEW topic \in Touches(c)
      PROVE  \/ \E i : topic = <<"comment", i>> \/ topic = <<"entry", i>>
             \/ topic \in {<<"archive_comment">>, <<"flags">>, <<"password">>}
  <2>1. \A other \in {"comment", "entry"} \X Index :
          \E i : other = <<"comment", i>> \/ other = <<"entry", i>>
    OBVIOUS
  <2> QED BY <1>1, <2>1 DEF Touches
<1> QED BY <1>1, TopicsDiffer DEF StillNoted

LEMMA GoesOn ==
  ASSUME UserStatesInv, SettersInv, NEW t \in Threads, NEW step,
         Goes(t, step),
         step \in {"staged", "store"} => calls[t].step \in {"staged", "store"}
  PROVE  /\ Moves(t) /\ Narrows(t)
         /\ calls'[t].call = calls[t].call /\ calls'[t].step = step
         /\ calls[t].call \in Indexed => calls'[t].i = calls[t].i
         /\ calls[t].call \in {"set_comment", "set_archive_comment",
                               "set_default_password", "set_archive_flag"} =>
              calls'[t].v = calls[t].v
         /\ calls[t].call = "set_archive_flag" => calls'[t].flag = calls[t].flag
         /\ StoresFlags(calls[t]) => calls'[t].new = calls[t].new
<1>1. /\ {"call", "step"} \subseteq DOMAIN calls[t]
      /\ calls = [s \in Threads |-> calls[s]]
      /\ ArgsOK(calls[t])
  BY DEF UserStatesInv, TypesOK, WellFormed, SettersInv
<1>2. /\ calls'[t] = [calls[t] EXCEPT !.step = step]
      /\ \A s \in Threads : s # t => calls'[s] = calls[s]
  BY <1>1 DEF Goes
<1>3. /\ DOMAIN calls'[t] = DOMAIN calls[t]
      /\ calls'[t].step = step /\ calls'[t].call = calls[t].call
      /\ "i" \in DOMAIN calls[t] => calls'[t].i = calls[t].i
      /\ "v" \in DOMAIN calls[t] => calls'[t].v = calls[t].v
      /\ "new" \in DOMAIN calls[t] => calls'[t].new = calls[t].new
      /\ "flag" \in DOMAIN calls[t] => calls'[t].flag = calls[t].flag
  BY <1>1, <1>2
<1>4. ArgsOK(calls'[t])
  BY <1>1, <1>3 DEF ArgsOK
<1>5. calls[t].call \in Indexed => calls'[t].i = calls[t].i
  BY <1>1, <1>3 DEF ArgsOK
<1>6. Touches(calls'[t]) = Touches(calls[t])
  BY <1>3, <1>5 DEF Touches, Indexed
<1> QED BY <1>1, <1>2, <1>3, <1>4, <1>5, <1>6 DEF Moves, Narrows, ArgsOK, StoresFlags

LEMMA ReturnsTo ==
  ASSUME UserStatesInv, NEW t \in Threads, Returns(t)
  PROVE  Moves(t) /\ Narrows(t) /\ calls'[t] = Idle
<1>1. /\ calls'[t] = Idle
      /\ \A s \in Threads : s # t => calls'[s] = calls[s]
  BY DEF UserStatesInv, TypesOK, Returns
<1>2. ArgsOK(Idle) /\ Touches(Idle) = {}
  BY IdleIsWellFormed, TopicsOf DEF ArgsOK, Indexed, FieldCalls
<1> QED BY <1>1, <1>2 DEF Moves, Narrows

----------------------------------------------------------------------------
(* Each part of the invariant, by what leaves it alone.                    *)

LEMMA OverlappingKept ==
  ASSUME SettersInv, NEW t \in Threads, Moves(t), Narrows(t), StillNoted
  PROVE  (\A s \in Threads : ArgsOK(calls[s]))' /\ Overlapping'
<1>1. \A s \in Threads : ArgsOK(calls'[s])
  BY DEF SettersInv, Moves
<1>2. \A s \in Threads : ArgsOK(calls[s])' = ArgsOK(calls'[s])
  BY DEF ArgsOK, Index
<1>3. ASSUME NEW r \in Threads, NEW s \in Threads, r # s
      PROVE  Touches(calls'[r]) \cap Touches(calls'[s]) \subseteq overlaps'
  <2>1. Touches(calls'[r]) \subseteq Touches(calls[r]) /\ Touches(calls'[s]) \subseteq Touches(calls[s])
    BY DEF Moves, Narrows
  <2>2. Touches(calls[r]) \cap Touches(calls[s]) \subseteq overlaps
    BY <1>3 DEF SettersInv, Overlapping
  <2> QED BY <2>1, <2>2, TopicsStillNoted
<1>4. \A s \in Threads : Touches(calls[s])' = Touches(calls'[s])
  BY DEF Touches, Index
<1> QED BY <1>1, <1>2, <1>3, <1>4 DEF Overlapping

LEMMA CommentsKept ==
  ASSUME CommentsInv, NEW t \in Threads, Moves(t),
         shown'.comments = shown.comments, pending'.comments = pending.comments,
         calls'[t] = calls[t] \/ (~ShowsComment(calls[t]) /\ ~ShowsComment(calls'[t])),
         StillNoted
  PROVE  CommentsInv'
<1>1. ASSUME NEW i \in Index, <<"comment", i>> \notin overlaps'
      PROVE  /\ \A s \in Threads :
                  ShowsComment(calls'[s]) /\ calls'[s].i = i =>
                    pending'.comments[i] = calls'[s].v
             /\ (\A s \in Threads : ~(ShowsComment(calls'[s]) /\ calls'[s].i = i)) =>
                  shown'.comments[i] = EffectiveComment(i)
  <2>1. <<"comment", i>> \notin overlaps
    <3>1. <<"comment", i>> \in overlaps => <<"comment", i>> \in overlaps'
      BY TopicsStillNoted
    <3> QED BY <1>1, <3>1
  <2>2. \A s \in Threads :
          calls'[s] = calls[s] \/ (~ShowsComment(calls[s]) /\ ~ShowsComment(calls'[s]))
    BY DEF Moves
  <2> QED BY <2>1, <2>2 DEF CommentsInv
<1>2. \A i \in Index : EffectiveComment(i)' = EffectiveComment(i)
  BY DEF EffectiveComment, DiskComment
<1>3. /\ Index' = Index
      /\ \A s \in Threads : ShowsComment(calls[s])' = ShowsComment(calls'[s])
  BY DEF ShowsComment, Index
<1> QED BY <1>1, <1>2, <1>3 DEF CommentsInv

LEMMA ArchiveCommentKept ==
  ASSUME ArchiveCommentInv, NEW t \in Threads, Moves(t),
         shown'.archiveComment = shown.archiveComment,
         pending'.archiveComment = pending.archiveComment,
         \/ calls'[t] = calls[t]
         \/ /\ ~SetsArchive(calls[t]) /\ ~SetsArchive(calls'[t])
            /\ (RevertsArchive(calls[t]) <=> RevertsArchive(calls'[t])),
         StillNoted
  PROVE  ArchiveCommentInv'
<1>1. ASSUME <<"archive_comment">> \notin overlaps'
      PROVE  /\ \A s \in Threads :
                  /\ SetsArchive(calls'[s]) => pending'.archiveComment = calls'[s].v
                  /\ RevertsArchive(calls'[s]) => pending'.archiveComment = Unset
             /\ (\A s \in Threads : ~SetsArchive(calls'[s]) /\ ~RevertsArchive(calls'[s])) =>
                  shown'.archiveComment = EffectiveArchiveComment
  <2>1. <<"archive_comment">> \notin overlaps
    BY <1>1, TopicsStillNoted
  <2>2. \A s \in Threads :
          \/ calls'[s] = calls[s]
          \/ /\ ~SetsArchive(calls[s]) /\ ~SetsArchive(calls'[s])
             /\ (RevertsArchive(calls[s]) <=> RevertsArchive(calls'[s]))
    BY DEF Moves
  <2> QED BY <2>1, <2>2 DEF ArchiveCommentInv
<1>2. EffectiveArchiveComment' = EffectiveArchiveComment
  BY DEF EffectiveArchiveComment
<1>3. \A s \in Threads : /\ SetsArchive(calls[s])' = SetsArchive(calls'[s])
                         /\ RevertsArchive(calls[s])' = RevertsArchive(calls'[s])
  BY DEF SetsArchive, RevertsArchive
<1> QED BY <1>1, <1>2, <1>3 DEF ArchiveCommentInv

LEMMA PasswordKept ==
  ASSUME PasswordInv, NEW t \in Threads, Moves(t), password' = password,
         calls'[t] = calls[t] \/ (~ReadsPassword(calls[t]) /\ ~ReadsPassword(calls'[t])),
         StillNoted
  PROVE  PasswordInv'
<1>1. \A s \in Threads :
        calls'[s] = calls[s] \/ (~ReadsPassword(calls[s]) /\ ~ReadsPassword(calls'[s]))
  BY DEF Moves
<1>2. \A s \in Threads : ReadsPassword(calls[s])' = ReadsPassword(calls'[s])
  BY DEF ReadsPassword
<1> QED BY <1>1, <1>2, TopicsStillNoted DEF PasswordInv

LEMMA FlagsKept ==
  ASSUME FlagsInv, NEW t \in Threads, Moves(t), UNCHANGED <<chAfl, wanted>>,
         calls'[t] = calls[t] \/ ~StoresFlags(calls'[t]),
         StillNoted
  PROVE  FlagsInv'
<1>1. \A s \in Threads : calls'[s] = calls[s] \/ ~StoresFlags(calls'[s])
  BY DEF Moves
<1>2. \A s \in Threads : /\ StoresFlags(calls[s])' = StoresFlags(calls'[s])
                         /\ WithFlag(chAfl, calls[s])' = WithFlag(chAfl, calls'[s])
  BY DEF StoresFlags, WithFlag
<1> QED BY <1>1, <1>2, TopicsStillNoted DEF FlagsInv

LEMMA EntriesKept ==
  ASSUME EntriesInv, PartsOK, NEW t \in Threads, Moves(t),
         \A i \in Index : IsStaged(i)' => IsStaged(i) \/ (Checked(calls[t]) /\ calls[t].i = i),
         pending'.adds \in Nat, pending'.adds >= pending.adds,
         Checked(calls'[t]) =>
           /\ Checked(calls[t]) \/ ValidIndex(calls[t].i)
           /\ calls'[t].i = calls[t].i,
         StillNoted
  PROVE  EntriesInv'
<1>1. \A s \in Threads :
        Checked(calls'[s]) => /\ Checked(calls[s]) \/ ValidIndex(calls[s].i)
                              /\ calls'[s].i = calls[s].i
  BY DEF Moves
<1>2. /\ \A s \in Threads : Checked(calls[s])' = Checked(calls'[s])
      /\ Index' = Index
  BY DEF Checked, Index
<1>3. \A i \in Index : ValidIndex(i) => ValidIndex(i)'
  <2>1. N \in Nat /\ MaxAdds \in Nat /\ pending.adds \in Nat
    BY SharedHandleAssumption DEF PartsOK
  <2> QED BY <2>1 DEF ValidIndex, Index
<1>4. ASSUME NEW i \in Index,
             IsStaged(i)' \/ (\E s \in Threads : Checked(calls'[s]) /\ calls'[s].i = i)
      PROVE  ValidIndex(i)' \/ <<"entry", i>> \in overlaps'
  <2>1. \/ IsStaged(i) \/ (\E s \in Threads : Checked(calls[s]) /\ calls[s].i = i)
        \/ ValidIndex(i)
    BY <1>1, <1>4
  <2>2. <<"entry", i>> \in overlaps => <<"entry", i>> \in overlaps'
    BY TopicsStillNoted
  <2> QED BY <1>3, <2>1, <2>2 DEF EntriesInv
<1> QED BY <1>2, <1>4 DEF EntriesInv

LEMMA FieldsKept ==
  ASSUME FieldsInv, NEW t \in Threads, Moves(t),
         shown'.fields = shown.fields, pending'.fields = pending.fields,
         calls'[t] = calls[t] \/ ~ShowsFields(calls[t]),
         overlaps \subseteq overlaps'
  PROVE  FieldsInv'
<1>1. \A s \in Threads : calls'[s] = calls[s] \/ ~ShowsFields(calls[s])
  BY DEF Moves
<1>2. /\ \A s \in Threads : ShowsFields(calls[s])' = ShowsFields(calls'[s])
      /\ Index' = Index
      /\ \A i \in Index : Effective(pending.fields, i)' = Effective(pending'.fields, i)
  BY DEF ShowsFields, Index, Effective, Base
<1> QED BY <1>1, <1>2 DEF FieldsInv

----------------------------------------------------------------------------
(* Steps that have nothing to do with setters.                             *)

\* A call that has nothing in hand that another one could disturb.
Plain(c) ==
  /\ ~ShowsComment(c) /\ ~SetsArchive(c) /\ ~RevertsArchive(c)
  /\ ~ReadsPassword(c) /\ ~StoresFlags(c) /\ ~Checked(c) /\ ~ShowsFields(c)

LEMMA PartsKept ==
  ASSUME PartsOK, UNCHANGED <<pending, shown, password>>
  PROVE  PartsOK'
BY DEF PartsOK, Index

LEMMA PlainLeaves ==
  ASSUME SettersInv, NEW t \in Threads, Moves(t), Plain(calls[t]), Plain(calls'[t]),
         UNCHANGED <<pending, shown, chAfl, password, wanted>>, overlaps \subseteq overlaps'
  PROVE  /\ PartsOK' /\ CommentsInv' /\ ArchiveCommentInv' /\ PasswordInv'
         /\ FlagsInv' /\ EntriesInv' /\ FieldsInv'
<1>1. StillNoted
  BY DEF StillNoted
<1>2. /\ PartsOK /\ CommentsInv /\ ArchiveCommentInv /\ PasswordInv
      /\ FlagsInv /\ EntriesInv /\ FieldsInv
  BY DEF SettersInv
<1>3. PartsOK'
  BY <1>2, PartsKept
<1>4. CommentsInv'
  BY <1>1, <1>2, CommentsKept DEF Plain
<1>5. ArchiveCommentInv'
  BY <1>1, <1>2, ArchiveCommentKept DEF Plain
<1>6. PasswordInv' /\ FlagsInv'
  BY <1>1, <1>2, PasswordKept, FlagsKept DEF Plain
<1>7. EntriesInv'
  <2>1. \A i \in Index : IsStaged(i)' => IsStaged(i)
    BY DEF IsStaged
  <2>2. pending'.adds \in Nat /\ pending'.adds >= pending.adds
    BY <1>2 DEF PartsOK
  <2> QED BY <1>1, <1>2, <2>1, <2>2, EntriesKept DEF Plain
<1>8. FieldsInv'
  BY <1>2, FieldsKept DEF Plain
<1> QED BY <1>3, <1>4, <1>5, <1>6, <1>7, <1>8

LEMMA PlainKeeps ==
  ASSUME SettersInv, NEW t \in Threads, Moves(t), Narrows(t),
         Plain(calls[t]), Plain(calls'[t]),
         UNCHANGED <<pending, shown, chAfl, password, wanted, overlaps>>
  PROVE  SettersInv'
<1>1. StillNoted
  BY DEF StillNoted
<1> QED BY <1>1, PlainLeaves, OverlappingKept DEF SettersInv

\* A call that begins is noted with those about the same thing.
LEMMA BeginKeepsSetters ==
  ASSUME UserStatesInv, SettersInv, NEW t \in Threads, NEW c, Begin(t, c),
         ArgsOK(c), Plain(c)
  PROVE  SettersInv'
<1>1. /\ calls'[t] = c /\ calls[t] = Idle
      /\ \A s \in Threads : s # t => calls'[s] = calls[s]
      /\ UNCHANGED <<pending, shown, chAfl, password, wanted>>
      /\ overlaps \subseteq overlaps'
      /\ \A s \in Threads : s # t => Touches(c) \cap Touches(calls[s]) \subseteq overlaps'
  BY DEF UserStatesInv, TypesOK, Begin
<1>2. Moves(t) /\ StillNoted /\ Plain(calls[t])
  BY <1>1, IdleIsWellFormed
     DEF Moves, StillNoted, Plain, ShowsComment, SetsArchive, RevertsArchive, ReadsPassword,
         StoresFlags, Checked, ShowsFields, FieldCalls
<1>3. Overlapping'
  <2>1. ASSUME NEW r \in Threads, NEW s \in Threads, r # s
        PROVE  Touches(calls'[r]) \cap Touches(calls'[s]) \subseteq overlaps'
    <3>1. r # t /\ s # t =>
            /\ Touches(calls[r]) \cap Touches(calls[s]) \subseteq overlaps
            /\ calls'[r] = calls[r] /\ calls'[s] = calls[s]
      BY <1>1, <2>1 DEF SettersInv, Overlapping
    <3> QED BY <1>1, <2>1, <3>1
  <2>2. \A s \in Threads : Touches(calls[s])' = Touches(calls'[s])
    BY DEF Touches, Index
  <2> QED BY <2>1, <2>2 DEF Overlapping
<1>4. (\A s \in Threads : ArgsOK(calls[s]))'
  <2>1. \A s \in Threads : ArgsOK(calls'[s])
    BY <1>2 DEF SettersInv, Moves
  <2>2. \A s \in Threads : ArgsOK(calls[s])' = ArgsOK(calls'[s])
    BY DEF ArgsOK, Index
  <2> QED BY <2>1, <2>2
<1> QED BY <1>1, <1>2, <1>3, <1>4, PlainLeaves DEF SettersInv

LEMMA BeginsKeepSetters ==
  ASSUME UserStatesInv, SettersInv, NEW t \in Threads,
         \/ BeginSetter(t) \/ BeginFieldSetter(t) \/ BeginRevert(t)
         \/ BeginRegister(t) \/ BeginClose(t)
  PROVE  SettersInv'
<1>1. PICK c : /\ Begin(t, c)
               /\ \/ c \in SettersOf \cup FieldSettersOf \cup RevertsOf
                  \/ c.call \in {"register", "close", "discard"}
  <2>1. CASE BeginSetter(t) \/ BeginFieldSetter(t) \/ BeginRevert(t)
    BY <2>1 DEF BeginSetter, BeginFieldSetter, BeginRevert
  <2>2. CASE BeginRegister(t)
    <3>1. PICK kind, new : Begin(t, [call |-> "register", step |-> "register",
                                     kind |-> kind, new |-> new])
      BY <2>2 DEF BeginRegister
    <3> QED BY <3>1
  <2>3. CASE BeginClose(t)
    BY <2>3 DEF BeginClose
  <2> QED BY <2>1, <2>2, <2>3
<1>2. ASSUME c \in SettersOf PROVE ArgsOK(c) /\ Plain(c)
  BY <1>2 DEF SettersOf, ArgsOK, Indexed, FieldCalls, Plain, ShowsComment, SetsArchive,
              RevertsArchive, ReadsPassword, StoresFlags, Checked, ShowsFields
<1>3. ASSUME c \in FieldSettersOf PROVE ArgsOK(c) /\ Plain(c)
  <2>1. /\ c.step = "check" /\ c.call \in FieldCalls
        /\ "i" \in DOMAIN c /\ c.i \in Index
    <3>1. CASE \E id \in FieldIds :
                 c \in [call : {"extra_field_set"}, step : {"check"},
                       i : Index, id : {id}, at : FieldIndexes \cup {All},
                       data : Datas, refused : {(id \in Internal)}]
      BY <3>1 DEF FieldCalls
    <3>2. CASE \E ids, datas :
                 c \in [call : {"extra_field_delete", "extra_field_delete_by_id"},
                       step : {"check"}, i : Index, id : ids,
                       at : FieldIndexes \cup {All}, data : datas, refused : {FALSE}]
      BY <3>2 DEF FieldCalls
    <3> QED BY <1>3, <3>1, <3>2, Zenon DEF FieldSettersOf
  <2> QED BY <2>1 DEF ArgsOK, Indexed, FieldCalls, Plain, ShowsComment, SetsArchive,
              RevertsArchive, ReadsPassword, StoresFlags, Checked, ShowsFields
<1>4. ASSUME c \in RevertsOf PROVE ArgsOK(c) /\ Plain(c)
  BY <1>4 DEF RevertsOf, ArgsOK, Indexed, FieldCalls, Plain, ShowsComment, SetsArchive,
              RevertsArchive, ReadsPassword, StoresFlags, Checked, ShowsFields
<1>5. ASSUME c.call \in {"register", "close", "discard"} PROVE ArgsOK(c) /\ Plain(c)
  BY <1>5 DEF ArgsOK, Indexed, FieldCalls, Plain, ShowsComment, SetsArchive,
              RevertsArchive, ReadsPassword, StoresFlags, Checked, ShowsFields
<1> QED BY <1>1, <1>2, <1>3, <1>4, <1>5, BeginKeepsSetters

LEMMA UnchangedKeepsSetters ==
  ASSUME SettersInv, UNCHANGED vars
  PROVE  SettersInv'
<1>1. UNCHANGED <<calls, pending, shown, chAfl, password, wanted, overlaps>>
  BY DEF vars
<1>2. (\A t \in Threads : ArgsOK(calls[t]))' /\ PartsOK' /\ Overlapping'
  BY <1>1, PartsKept DEF SettersInv, ArgsOK, Overlapping, Touches, Index
<1>3. CommentsInv' /\ ArchiveCommentInv' /\ PasswordInv' /\ FlagsInv'
  BY <1>1 DEF SettersInv, CommentsInv, ArchiveCommentInv, PasswordInv, FlagsInv, ShowsComment,
              SetsArchive, RevertsArchive, ReadsPassword, StoresFlags, WithFlag, Index,
              EffectiveComment, DiskComment, EffectiveArchiveComment
<1>4. EntriesInv'
  BY <1>1 DEF SettersInv, EntriesInv, IsStaged, Checked, ValidIndex, Index
<1>5. FieldsInv'
  BY <1>1 DEF SettersInv, FieldsInv, ShowsFields, Effective, Base, Index
<1> QED BY <1>2, <1>3, <1>4, <1>5 DEF SettersInv

LEMMA SettersStart == Init => SettersInv
<1> SUFFICES ASSUME Init PROVE SettersInv
  OBVIOUS
<1>1. \A t \in Threads :
        /\ calls[t] = Idle /\ ArgsOK(calls[t]) /\ Plain(calls[t]) /\ Touches(calls[t]) = {}
  BY IdleIsWellFormed, TopicsOf
     DEF Init, ArgsOK, Indexed, FieldCalls, Plain, ShowsComment, SetsArchive, RevertsArchive,
         ReadsPassword, StoresFlags, Checked, ShowsFields
<1>2. PartsOK /\ Overlapping
  BY <1>1 DEF Init, NothingStaged, PartsOK, Overlapping
<1>3. CommentsInv /\ ArchiveCommentInv /\ PasswordInv /\ FlagsInv
  BY <1>1 DEF Init, NothingStaged, CommentsInv, ArchiveCommentInv, PasswordInv, FlagsInv, Plain,
              EffectiveComment, EffectiveArchiveComment
<1>4. EntriesInv
  BY <1>1 DEF Init, NothingStaged, EntriesInv, IsStaged, Plain
<1>5. FieldsInv
  <2>1. ASSUME NEW i \in Index PROVE Effective(pending.fields, i) = Base(i)
    <3>1. pending.fields[i] = <<>>
      BY DEF Init, NothingStaged
    <3>2. \E f : f = [n \in 0..0 |-> IF n = 0 THEN Base(i) ELSE Apply(f[n - 1], <<>>[n])]
      <4> DEFINE f == [n \in 0..0 |-> Base(i)]
      <4>1. f = [n \in 0..0 |-> IF n = 0 THEN Base(i) ELSE Apply(f[n - 1], <<>>[n])]
        OBVIOUS
      <4> QED BY <4>1
    <3> QED BY <3>1, <3>2 DEF Effective, Replayed
  <2>2. \A i \in Index : shown.fields[i] = Base(i)
    BY DEF Init
  <2> QED BY <2>1, <2>2 DEF FieldsInv
<1> QED BY <1>1, <1>2, <1>3, <1>4, <1>5 DEF SettersInv

----------------------------------------------------------------------------
(* Setters.                                                                *)

\* Two calls under way about one thing.
LEMMA BothTouch ==
  ASSUME SettersInv, NEW s \in Threads, NEW t \in Threads, s # t,
         NEW topic, topic \in Touches(calls[s]), topic \in Touches(calls[t])
  PROVE  topic \in overlaps
BY DEF SettersInv, Overlapping

LEMMA SameNotes ==
  ASSUME UNCHANGED overlaps
  PROVE  StillNoted /\ overlaps \subseteq overlaps'
BY DEF StillNoted

\* An index that has been looked up exists.
LEMMA CheckKeepsSetters ==
  ASSUME UserStatesInv, SettersInv, NEW t \in Threads,
         CheckIndex(t) \/ CheckCount(t)
  PROVE  SettersInv'
<1>1. PICK step \in {"count", "stage"} :
        /\ \/ Returns(t)
           \/ /\ Goes(t, step)
              /\ ValidIndex(calls[t].i) \/ calls[t].step = "count"
        /\ calls[t].step \in {"check", "count"}
        /\ UNCHANGED <<pending, shown, chAfl, password, wanted, overlaps>>
  <2>1. CASE CheckIndex(t)
    BY <2>1 DEF CheckIndex
  <2>2. CASE CheckCount(t)
    BY <2>2 DEF CheckCount
  <2> QED BY <2>1, <2>2
<1>2. /\ Moves(t) /\ Narrows(t)
      /\ \/ calls'[t] = Idle
         \/ /\ calls'[t].call = calls[t].call /\ calls'[t].step = step
            /\ calls[t].call \in Indexed => calls'[t].i = calls[t].i
            /\ ValidIndex(calls[t].i) \/ calls[t].step = "count"
  <2>1. CASE Returns(t)
    BY <2>1, ReturnsTo
  <2>2. CASE /\ Goes(t, step)
             /\ ValidIndex(calls[t].i) \/ calls[t].step = "count"
    BY <1>1, <2>2, GoesOn
  <2> QED BY <1>1, <2>1, <2>2
<1>3. \A c \in {calls[t], calls'[t]} :
        /\ ~ShowsComment(c) /\ ~SetsArchive(c) /\ ~RevertsArchive(c)
        /\ ~ReadsPassword(c) /\ ~StoresFlags(c) /\ ~ShowsFields(c)
  BY <1>1, <1>2, IdleIsWellFormed
     DEF ShowsComment, SetsArchive, RevertsArchive, ReadsPassword, StoresFlags, ShowsFields,
         FieldCalls
<1>4. Checked(calls'[t]) => /\ Checked(calls[t]) \/ ValidIndex(calls[t].i)
                            /\ calls'[t].i = calls[t].i
  BY <1>1, <1>2, IdleIsWellFormed DEF Checked, Indexed, FieldCalls
<1>5. EntriesInv'
  <2>1. \A i \in Index : IsStaged(i)' => IsStaged(i)
    BY <1>1 DEF IsStaged
  <2>2. pending'.adds \in Nat /\ pending'.adds >= pending.adds
    BY <1>1 DEF SettersInv, PartsOK
  <2> QED BY <1>1, <1>2, <1>4, <2>1, <2>2, SameNotes, EntriesKept DEF SettersInv
<1>6. PartsOK' /\ CommentsInv' /\ ArchiveCommentInv'
  BY <1>1, <1>2, <1>3, SameNotes, PartsKept, CommentsKept, ArchiveCommentKept DEF SettersInv
<1>7. PasswordInv' /\ FlagsInv' /\ FieldsInv'
  BY <1>1, <1>2, <1>3, SameNotes, PasswordKept, FlagsKept, FieldsKept DEF SettersInv
<1> QED BY <1>1, <1>2, <1>5, <1>6, <1>7, SameNotes, OverlappingKept DEF SettersInv

LEMMA StageCommentKeepsSetters ==
  ASSUME UserStatesInv, SettersInv, NEW t \in Threads, StageComment(t)
  PROVE  SettersInv'
<1> DEFINE i == calls[t].i
           v == calls[t].v
<1>1. /\ calls[t].call = "set_comment" /\ calls[t].step = "stage" /\ Goes(t, "show")
      /\ pending' = [pending EXCEPT !.comments[i] = v]
      /\ UNCHANGED <<shown, chAfl, password, wanted, overlaps>>
      /\ i \in Index /\ v \in Comments \cup {None}
  BY DEF StageComment, At, SettersInv, ArgsOK, Indexed
<1>2. /\ Moves(t) /\ Narrows(t)
      /\ calls'[t].call = "set_comment" /\ calls'[t].step = "show"
      /\ calls'[t].i = i /\ calls'[t].v = v
  BY <1>1, GoesOn DEF Indexed
<1>3. /\ DOMAIN pending' = DOMAIN pending
      /\ pending'.comments = [pending.comments EXCEPT ![i] = v]
      /\ pending'.comments \in [Index -> Comments \cup {None, Unset}]
      /\ pending'.adds = pending.adds /\ pending'.fields = pending.fields
      /\ pending'.meta = pending.meta /\ pending'.archiveComment = pending.archiveComment
  BY <1>1 DEF SettersInv, PartsOK
<1>4. \A c \in {calls[t], calls'[t]} :
        /\ ~SetsArchive(c) /\ ~RevertsArchive(c)
        /\ ~ReadsPassword(c) /\ ~StoresFlags(c) /\ ~ShowsFields(c)
  BY <1>1, <1>2
     DEF SetsArchive, RevertsArchive, ReadsPassword, StoresFlags, ShowsFields, FieldCalls
<1>5. PartsOK'
  BY <1>1, <1>3 DEF SettersInv, PartsOK, Index
<1>6. CommentsInv'
  <2>1. ASSUME NEW j \in Index, <<"comment", j>> \notin overlaps,
               NEW s \in Threads, ShowsComment(calls'[s]), calls'[s].i = j
        PROVE  pending'.comments[j] = calls'[s].v
    <3>1. CASE s = t
      BY <1>2, <1>3, <2>1, <3>1 DEF SettersInv, PartsOK
    <3>2. CASE s # t
      <4>1. calls'[s] = calls[s]
        BY <1>2, <3>2 DEF Moves
      <4>2. <<"comment", j>> \in Touches(calls[s])
        BY <2>1, <4>1, TopicsOf DEF ShowsComment
      <4>3. j # i
        BY <1>1, <2>1, <3>2, <4>2, TopicsOf, BothTouch
      <4> QED BY <1>3, <2>1, <4>1, <4>3 DEF SettersInv, CommentsInv, PartsOK
    <3> QED BY <3>1, <3>2
  <2>2. ASSUME NEW j \in Index, <<"comment", j>> \notin overlaps,
               \A s \in Threads : ~(ShowsComment(calls'[s]) /\ calls'[s].i = j)
        PROVE  shown'.comments[j] = EffectiveComment(j)'
    <3>1. j # i
      BY <1>2, <2>2 DEF ShowsComment
    <3>2. \A s \in Threads : ~(ShowsComment(calls[s]) /\ calls[s].i = j)
      <4>1. ~ShowsComment(calls[t])
        BY <1>1 DEF ShowsComment
      <4> QED BY <1>2, <2>2, <4>1 DEF Moves
    <3>3. shown.comments[j] = EffectiveComment(j)
      BY <2>2, <3>2 DEF SettersInv, CommentsInv
    <3>4. pending'.comments[j] = pending.comments[j]
      BY <1>3, <3>1 DEF SettersInv, PartsOK
    <3> QED BY <1>1, <3>3, <3>4 DEF EffectiveComment, DiskComment
  <2>3. \A s \in Threads : ShowsComment(calls[s])' = ShowsComment(calls'[s])
    BY DEF ShowsComment
  <2> QED BY <1>1, <2>1, <2>2, <2>3 DEF CommentsInv, Index
<1>7. EntriesInv'
  <2>1. ASSUME NEW j \in Index, IsStaged(j)'
        PROVE  IsStaged(j) \/ (Checked(calls[t]) /\ calls[t].i = j)
    <3>1. Checked(calls[t])
      BY <1>1 DEF Checked
    <3>2. j # i => pending'.comments[j] = pending.comments[j]
      BY <1>3, <2>1 DEF SettersInv, PartsOK
    <3> QED BY <1>3, <2>1, <3>1, <3>2 DEF IsStaged
  <2>2. ~Checked(calls'[t]) /\ pending'.adds \in Nat /\ pending'.adds >= pending.adds
    BY <1>2, <1>3 DEF Checked, SettersInv, PartsOK
  <2> QED BY <1>1, <1>2, <2>1, <2>2, SameNotes, EntriesKept DEF SettersInv
<1>8. ArchiveCommentInv' /\ PasswordInv' /\ FlagsInv' /\ FieldsInv'
  BY <1>1, <1>2, <1>3, <1>4, SameNotes, ArchiveCommentKept, PasswordKept, FlagsKept, FieldsKept
     DEF SettersInv
<1> QED BY <1>1, <1>2, <1>5, <1>6, <1>7, <1>8, SameNotes, OverlappingKept DEF SettersInv

LEMMA ShowCommentKeepsSetters ==
  ASSUME UserStatesInv, SettersInv, NEW t \in Threads, ShowComment(t)
  PROVE  SettersInv'
<1> DEFINE i == calls[t].i
           v == calls[t].v
<1>1. /\ calls[t].call = "set_comment" /\ calls[t].step = "show" /\ Returns(t)
      /\ shown' = [shown EXCEPT !.comments[i] = v]
      /\ UNCHANGED <<pending, chAfl, password, wanted, overlaps>>
      /\ i \in Index /\ v \in Comments \cup {None}
  BY DEF ShowComment, At, SettersInv, ArgsOK, Indexed
<1>2. Moves(t) /\ Narrows(t) /\ calls'[t] = Idle
  BY <1>1, ReturnsTo
<1>3. /\ DOMAIN shown' = DOMAIN shown
      /\ shown'.comments = [shown.comments EXCEPT ![i] = v]
      /\ shown'.fields = shown.fields /\ shown'.archiveComment = shown.archiveComment
  BY <1>1 DEF SettersInv, PartsOK
<1>4. \A c \in {calls[t], calls'[t]} :
        /\ ~SetsArchive(c) /\ ~RevertsArchive(c)
        /\ ~ReadsPassword(c) /\ ~StoresFlags(c) /\ ~ShowsFields(c) /\ ~Checked(c)
  BY <1>1, <1>2, IdleIsWellFormed
     DEF SetsArchive, RevertsArchive, ReadsPassword, StoresFlags, ShowsFields, FieldCalls,
         Checked
<1>5. PartsOK'
  BY <1>1, <1>3 DEF SettersInv, PartsOK, Index
<1>6. CommentsInv'
  <2>1. ASSUME NEW s \in Threads, ShowsComment(calls'[s])
        PROVE  calls'[s] = calls[s]
    BY <1>2, <2>1, IdleIsWellFormed DEF Moves, ShowsComment
  <2>2. ASSUME NEW j \in Index, <<"comment", j>> \notin overlaps,
               \A s \in Threads : ~(ShowsComment(calls'[s]) /\ calls'[s].i = j)
        PROVE  shown'.comments[j] = EffectiveComment(j)
    <3>1. CASE j = i
      <4>1. pending.comments[j] = v
        BY <1>1, <2>2, <3>1 DEF SettersInv, CommentsInv, ShowsComment
      <4>2. v # Unset
        BY <1>1, SharedHandleAssumption
      <4> QED BY <1>3, <3>1, <4>1, <4>2 DEF EffectiveComment, SettersInv, PartsOK
    <3>2. CASE j # i
      <4>1. \A s \in Threads : ~(ShowsComment(calls[s]) /\ calls[s].i = j)
        BY <1>2, <2>2, <3>2 DEF Moves
      <4> QED BY <1>3, <2>2, <3>2, <4>1 DEF SettersInv, CommentsInv, PartsOK
    <3> QED BY <3>1, <3>2
  <2>3. /\ \A s \in Threads : ShowsComment(calls[s])' = ShowsComment(calls'[s])
        /\ \A j \in Index : EffectiveComment(j)' = EffectiveComment(j)
    BY <1>1 DEF ShowsComment, EffectiveComment, DiskComment
  <2> QED BY <1>1, <2>1, <2>2, <2>3 DEF CommentsInv, SettersInv, Index
<1>7. EntriesInv'
  <2>1. \A j \in Index : IsStaged(j)' => IsStaged(j)
    BY <1>1 DEF IsStaged
  <2>2. pending'.adds \in Nat /\ pending'.adds >= pending.adds
    BY <1>1 DEF SettersInv, PartsOK
  <2> QED BY <1>1, <1>2, <1>4, <2>1, <2>2, SameNotes, EntriesKept DEF SettersInv
<1>8. ArchiveCommentInv' /\ PasswordInv' /\ FlagsInv' /\ FieldsInv'
  BY <1>1, <1>2, <1>3, <1>4, SameNotes, ArchiveCommentKept, PasswordKept, FlagsKept, FieldsKept
     DEF SettersInv
<1> QED BY <1>1, <1>2, <1>5, <1>6, <1>7, <1>8, SameNotes, OverlappingKept DEF SettersInv

LEMMA StageArchiveCommentKeepsSetters ==
  ASSUME UserStatesInv, SettersInv, NEW t \in Threads, StageArchiveComment(t)
  PROVE  SettersInv'
<1>1. /\ calls[t].call = "set_archive_comment" /\ calls[t].step = "stage" /\ Goes(t, "show")
      /\ pending' = [pending EXCEPT !.archiveComment = calls[t].v]
      /\ UNCHANGED <<shown, chAfl, password, wanted, overlaps>>
  BY DEF StageArchiveComment, At
<1>2. /\ Moves(t) /\ Narrows(t)
      /\ calls'[t].call = "set_archive_comment" /\ calls'[t].step = "show"
      /\ calls'[t].v = calls[t].v
  BY <1>1, GoesOn
<1>3. /\ DOMAIN pending' = DOMAIN pending
      /\ pending'.comments = pending.comments /\ pending'.adds = pending.adds
      /\ pending'.fields = pending.fields /\ pending'.meta = pending.meta
      /\ pending'.archiveComment = calls[t].v
  BY <1>1 DEF SettersInv, PartsOK
<1>4. \A c \in {calls[t], calls'[t]} :
        /\ ~ShowsComment(c) /\ ~ReadsPassword(c) /\ ~StoresFlags(c) /\ ~ShowsFields(c)
        /\ ~Checked(c)
  BY <1>1, <1>2
     DEF ShowsComment, ReadsPassword, StoresFlags, ShowsFields, FieldCalls, Checked
<1>5. PartsOK'
  BY <1>1, <1>3 DEF SettersInv, PartsOK, Index
<1>6. ArchiveCommentInv'
  <2>1. ASSUME <<"archive_comment">> \notin overlaps, NEW s \in Threads, s # t
        PROVE  calls'[s] = calls[s] /\ ~SetsArchive(calls'[s]) /\ ~RevertsArchive(calls'[s])
    <3>1. calls'[s] = calls[s]
      BY <1>2, <2>1 DEF Moves
    <3>2. <<"archive_comment">> \in Touches(calls[t])
      BY <1>1, TopicsOf
    <3>3. <<"archive_comment">> \notin Touches(calls[s])
      BY <2>1, <3>2, BothTouch
    <3>4. calls[s].call \notin {"set_archive_comment", "unchange_all", "unchange_archive"}
      BY <3>3, TopicsOf
    <3> QED BY <3>1, <3>4 DEF SetsArchive, RevertsArchive
  <2>2. SetsArchive(calls'[t]) /\ ~RevertsArchive(calls'[t])
    BY <1>2 DEF SetsArchive, RevertsArchive
  <2>3. \A s \in Threads : /\ SetsArchive(calls[s])' <=> SetsArchive(calls'[s])
                           /\ RevertsArchive(calls[s])' <=> RevertsArchive(calls'[s])
    BY DEF SetsArchive, RevertsArchive
  <2> QED BY <1>1, <1>2, <1>3, <2>1, <2>2, <2>3 DEF ArchiveCommentInv
<1>7. EntriesInv'
  <2>1. \A j \in Index : IsStaged(j)' => IsStaged(j)
    BY <1>3 DEF IsStaged
  <2>2. pending'.adds \in Nat /\ pending'.adds >= pending.adds
    BY <1>3 DEF SettersInv, PartsOK
  <2> QED BY <1>1, <1>2, <1>4, <2>1, <2>2, SameNotes, EntriesKept DEF SettersInv
<1>8. CommentsInv' /\ PasswordInv' /\ FlagsInv' /\ FieldsInv'
  BY <1>1, <1>2, <1>3, <1>4, SameNotes, CommentsKept, PasswordKept, FlagsKept, FieldsKept
     DEF SettersInv
<1> QED BY <1>1, <1>2, <1>5, <1>6, <1>7, <1>8, SameNotes, OverlappingKept DEF SettersInv

\* zip_set_archive_comment shows what it has staged, a revert of the archive
\* comment the one on disk.
LEMMA ShowArchiveCommentKeepsSetters ==
  ASSUME UserStatesInv, SettersInv, NEW t \in Threads,
         ShowArchiveComment(t) \/ RevertArchiveComment(t)
  PROVE  SettersInv'
<1>1. PICK v :
        /\ Returns(t) /\ calls[t].step = "show"
        /\ shown' = [shown EXCEPT !.archiveComment = v]
        /\ UNCHANGED <<pending, chAfl, password, wanted, overlaps>>
        /\ \/ SetsArchive(calls[t]) /\ v = calls[t].v /\ v \in Comments \cup {None}
           \/ RevertsArchive(calls[t]) /\ v = None
  BY DEF ShowArchiveComment, RevertArchiveComment, At, SetsArchive, RevertsArchive,
         SettersInv, ArgsOK
<1>2. Moves(t) /\ Narrows(t) /\ calls'[t] = Idle
  BY <1>1, ReturnsTo
<1>3. /\ DOMAIN shown' = DOMAIN shown
      /\ shown'.comments = shown.comments /\ shown'.fields = shown.fields
      /\ shown'.archiveComment = v
  BY <1>1 DEF SettersInv, PartsOK
<1>4. \A c \in {calls[t], calls'[t]} :
        /\ ~ShowsComment(c) /\ ~ReadsPassword(c) /\ ~StoresFlags(c) /\ ~ShowsFields(c)
        /\ ~Checked(c)
  BY <1>1, <1>2, IdleIsWellFormed
     DEF SetsArchive, RevertsArchive, ShowsComment, ReadsPassword, StoresFlags, ShowsFields,
         FieldCalls, Checked
<1>5. PartsOK'
  BY <1>1, <1>3 DEF SettersInv, PartsOK, Index
<1>6. ArchiveCommentInv'
  <2>1. ASSUME NEW s \in Threads, SetsArchive(calls'[s]) \/ RevertsArchive(calls'[s])
        PROVE  calls'[s] = calls[s]
    BY <1>2, <2>1, IdleIsWellFormed DEF Moves, SetsArchive, RevertsArchive
  <2>2. ASSUME <<"archive_comment">> \notin overlaps
        PROVE  v = EffectiveArchiveComment
    <3>1. v # Unset
      BY <1>1, SharedHandleAssumption
    <3>2. \/ pending.archiveComment = v
          \/ pending.archiveComment = Unset /\ v = None
      BY <1>1, <2>2 DEF SettersInv, ArchiveCommentInv
    <3> QED BY <3>1, <3>2 DEF EffectiveArchiveComment
  <2>3. /\ \A s \in Threads : /\ SetsArchive(calls[s])' <=> SetsArchive(calls'[s])
                              /\ RevertsArchive(calls[s])' <=> RevertsArchive(calls'[s])
        /\ EffectiveArchiveComment' = EffectiveArchiveComment
    BY <1>1 DEF SetsArchive, RevertsArchive, EffectiveArchiveComment
  <2> QED BY <1>1, <1>3, <2>1, <2>2, <2>3 DEF ArchiveCommentInv, SettersInv
<1>7. EntriesInv'
  <2>1. \A j \in Index : IsStaged(j)' => IsStaged(j)
    BY <1>1 DEF IsStaged
  <2>2. pending'.adds \in Nat /\ pending'.adds >= pending.adds
    BY <1>1 DEF SettersInv, PartsOK
  <2> QED BY <1>1, <1>2, <1>4, <2>1, <2>2, SameNotes, EntriesKept DEF SettersInv
<1>8. CommentsInv' /\ PasswordInv' /\ FlagsInv' /\ FieldsInv'
  BY <1>1, <1>2, <1>3, <1>4, SameNotes, CommentsKept, PasswordKept, FlagsKept, FieldsKept
     DEF SettersInv
<1> QED BY <1>1, <1>2, <1>5, <1>6, <1>7, <1>8, SameNotes, OverlappingKept DEF SettersInv

LEMMA StageMetaKeepsSetters ==
  ASSUME UserStatesInv, SettersInv, NEW t \in Threads, StageMeta(t) \/ Add(t)
  PROVE  SettersInv'
<1>1. /\ Returns(t) /\ calls[t].step = "stage"
      /\ \/ /\ calls[t].call = "set_meta"
            /\ pending' = [pending EXCEPT !.meta = @ \cup {<<calls[t].meta, calls[t].i>>}]
         \/ calls[t].call = "add" /\ pending' = [pending EXCEPT !.adds = @ + 1]
      /\ UNCHANGED <<shown, chAfl, password, wanted, overlaps>>
  BY DEF StageMeta, Add, At
<1>2. Moves(t) /\ Narrows(t) /\ calls'[t] = Idle
  BY <1>1, ReturnsTo
<1>3. /\ DOMAIN pending' = DOMAIN pending
      /\ pending'.comments = pending.comments /\ pending'.fields = pending.fields
      /\ pending'.archiveComment = pending.archiveComment
      /\ pending'.adds \in Nat /\ pending'.adds >= pending.adds
      /\ \/ pending'.meta = pending.meta
         \/ /\ calls[t].call = "set_meta"
            /\ pending'.meta = pending.meta \cup {<<calls[t].meta, calls[t].i>>}
  BY <1>1 DEF SettersInv, PartsOK
<1>4. \A c \in {calls[t], calls'[t]} :
        /\ ~ShowsComment(c) /\ ~SetsArchive(c) /\ ~RevertsArchive(c) /\ ~ReadsPassword(c)
        /\ ~StoresFlags(c) /\ ~ShowsFields(c)
  BY <1>1, <1>2, IdleIsWellFormed
     DEF SetsArchive, RevertsArchive, ShowsComment, ReadsPassword, StoresFlags, ShowsFields,
         FieldCalls
<1>5. PartsOK'
  BY <1>1, <1>3 DEF SettersInv, PartsOK, Index
<1>6. EntriesInv'
  <2>1. ASSUME NEW j \in Index, IsStaged(j)'
        PROVE  IsStaged(j) \/ (Checked(calls[t]) /\ calls[t].i = j)
    <3>1. calls[t].call = "set_meta" => Checked(calls[t])
      BY <1>1 DEF Checked
    <3>2. <<calls[t].meta, calls[t].i>>[2] = calls[t].i
      OBVIOUS
    <3> QED BY <1>3, <2>1, <3>1, <3>2 DEF IsStaged
  <2>2. ~Checked(calls'[t])
    BY <1>2, IdleIsWellFormed DEF Checked, FieldCalls
  <2> QED BY <1>1, <1>2, <1>3, <2>1, <2>2, SameNotes, EntriesKept DEF SettersInv
<1>7. CommentsInv' /\ ArchiveCommentInv' /\ PasswordInv' /\ FlagsInv' /\ FieldsInv'
  BY <1>1, <1>2, <1>3, <1>4, SameNotes, CommentsKept, ArchiveCommentKept, PasswordKept,
     FlagsKept, FieldsKept
     DEF SettersInv
<1> QED BY <1>1, <1>2, <1>5, <1>6, <1>7, SameNotes, OverlappingKept DEF SettersInv

\* zip_set_default_password: neither step is about anything else.
LEMMA PasswordKeepsSetters ==
  ASSUME UserStatesInv, SettersInv, NEW t \in Threads,
         SetWritePassword(t) \/ SetReadPassword(t)
  PROVE  SettersInv'
<1> DEFINE v == calls[t].v
<1>1. /\ calls[t].call = "set_default_password"
      /\ UNCHANGED <<pending, shown, chAfl, wanted, overlaps>>
      /\ \/ /\ calls[t].step = "write" /\ Goes(t, "read")
            /\ password' = [password EXCEPT !.write = v]
         \/ /\ calls[t].step = "read" /\ Returns(t)
            /\ password' = [password EXCEPT !.read = v]
  BY DEF SetWritePassword, SetReadPassword, At
<1>2. /\ Moves(t) /\ Narrows(t)
      /\ \/ /\ calls[t].step = "write"
            /\ calls'[t].call = "set_default_password" /\ calls'[t].step = "read"
            /\ calls'[t].v = v /\ password'.write = v
         \/ /\ calls[t].step = "read" /\ calls'[t] = Idle
            /\ password'.write = password.write /\ password'.read = v
      /\ DOMAIN password' = DOMAIN password
  <2>1. CASE calls[t].step = "write"
    BY <1>1, <2>1, GoesOn DEF SettersInv, PartsOK
  <2>2. CASE calls[t].step = "read"
    BY <1>1, <2>2, ReturnsTo DEF SettersInv, PartsOK
  <2> QED BY <1>1, <2>1, <2>2
<1>3. \A c \in {calls[t], calls'[t]} :
        /\ ~ShowsComment(c) /\ ~SetsArchive(c) /\ ~RevertsArchive(c) /\ ~StoresFlags(c)
        /\ ~ShowsFields(c) /\ ~Checked(c)
  BY <1>1, <1>2, IdleIsWellFormed
     DEF SetsArchive, RevertsArchive, ShowsComment, StoresFlags, ShowsFields, FieldCalls,
         Checked
<1>4. PartsOK'
  BY <1>1, <1>2 DEF SettersInv, PartsOK, Index
<1>5. PasswordInv'
  <2>1. ASSUME <<"password">> \notin overlaps, NEW s \in Threads, s # t
        PROVE  ~ReadsPassword(calls'[s])
    <3>1. calls'[s] = calls[s]
      BY <1>2, <2>1 DEF Moves
    <3>2. <<"password">> \in Touches(calls[t])
      BY <1>1, TopicsOf
    <3>3. <<"password">> \notin Touches(calls[s])
      BY <2>1, <3>2, BothTouch
    <3> QED BY <3>1, <3>3, TopicsOf DEF ReadsPassword
  <2>2. ASSUME <<"password">> \notin overlaps, calls[t].step = "read"
        PROVE  password.write = v
    BY <1>1, <2>2 DEF SettersInv, PasswordInv, ReadsPassword
  <2>3. /\ ReadsPassword(calls'[t]) <=> calls[t].step = "write"
        /\ \A s \in Threads : ReadsPassword(calls[s])' <=> ReadsPassword(calls'[s])
    BY <1>1, <1>2, IdleIsWellFormed DEF ReadsPassword
  <2> QED BY <1>1, <1>2, <2>1, <2>2, <2>3 DEF PasswordInv
<1>6. EntriesInv'
  <2>1. \A j \in Index : IsStaged(j)' => IsStaged(j)
    BY <1>1 DEF IsStaged
  <2>2. pending'.adds \in Nat /\ pending'.adds >= pending.adds
    BY <1>1 DEF SettersInv, PartsOK
  <2> QED BY <1>1, <1>2, <1>3, <2>1, <2>2, SameNotes, EntriesKept DEF SettersInv
<1>7. CommentsInv' /\ ArchiveCommentInv' /\ FlagsInv' /\ FieldsInv'
  BY <1>1, <1>2, <1>3, SameNotes, CommentsKept, ArchiveCommentKept, FlagsKept, FieldsKept
     DEF SettersInv
<1> QED BY <1>1, <1>2, <1>4, <1>5, <1>6, <1>7, SameNotes, OverlappingKept DEF SettersInv

\* No other call is about to store flags, unless that has been noted.
LEMMA NoOtherStores ==
  ASSUME SettersInv, NEW t \in Threads, Moves(t), <<"flags">> \in Touches(calls[t]),
         <<"flags">> \notin overlaps, NEW s \in Threads, s # t
  PROVE  ~StoresFlags(calls'[s])
<1>1. calls'[s] = calls[s]
  BY DEF Moves
<1>2. <<"flags">> \notin Touches(calls[s])
  BY BothTouch
<1> QED BY <1>1, <1>2, TopicsOf DEF StoresFlags

LEMMA FlagsKeepSetters ==
  ASSUME UserStatesInv, SettersInv, NEW t \in Threads,
         LoadFlags(t) \/ CheckNothingStaged(t) \/ StoreFlags(t)
  PROVE  SettersInv'
<1>1. /\ calls[t].call = "set_archive_flag"
      /\ calls[t].step \in {"load", "staged", "store"}
      /\ UNCHANGED <<pending, shown, password, overlaps>>
  BY DEF LoadFlags, CheckNothingStaged, StoreFlags, At
<1>2. <<"flags">> \in Touches(calls[t])
  BY <1>1, TopicsOf
<1>3. /\ Moves(t) /\ Narrows(t)
      /\ calls'[t] = Idle \/ (calls'[t].call = "set_archive_flag"
                              /\ calls'[t].step \in {"staged", "store"})
      /\ FlagsInv'
  <2>1. \A s \in Threads : StoresFlags(calls[s])' <=> StoresFlags(calls'[s])
    BY DEF StoresFlags
  <2>2. CASE LoadFlags(t) /\ ~Returns(t)
    <3> DEFINE new == WithFlag(chAfl, calls[t])
               step == IF calls[t].flag = "RDONLY" /\ calls[t].v THEN "staged" ELSE "store"
    <3>1. /\ calls' = [calls EXCEPT ![t] =
                [call |-> calls[t].call, flag |-> calls[t].flag, v |-> calls[t].v,
                 new |-> new, step |-> step]]
          /\ UNCHANGED <<chAfl, wanted>>
      BY <2>2 DEF LoadFlags
    <3>2. /\ calls'[t] = [call |-> calls[t].call, flag |-> calls[t].flag, v |-> calls[t].v,
                          new |-> new, step |-> step]
          /\ \A s \in Threads : s # t => calls'[s] = calls[s]
      BY <3>1 DEF UserStatesInv, TypesOK
    <3>3. step \in {"staged", "store"}
      OBVIOUS
    <3> HIDE DEF new, step
    <3>4. /\ calls'[t].call = "set_archive_flag" /\ calls'[t].step = step
          /\ calls'[t].flag = calls[t].flag /\ calls'[t].v = calls[t].v
          /\ calls'[t].new = new
          /\ DOMAIN calls'[t] = {"call", "flag", "v", "new", "step"}
      BY <1>1, <3>2
    <3>5. ArgsOK(calls'[t])
      BY <3>3, <3>4 DEF ArgsOK, Indexed, FieldCalls
    <3>6. Touches(calls'[t]) = {<<"flags">>} /\ Touches(calls[t]) = {<<"flags">>}
      BY <1>1, <3>4, TopicsOf
    <3>7. Moves(t) /\ Narrows(t)
      BY <3>2, <3>5, <3>6 DEF Moves, Narrows
    <3>8. new = WithFlag(chAfl, calls'[t])
      BY <3>4 DEF new, WithFlag
    <3>9. \A s \in Threads : WithFlag(chAfl, calls[s])' = WithFlag(chAfl', calls'[s])
      BY DEF WithFlag
    <3>10. FlagsInv'
      BY <1>1, <1>2, <2>1, <3>1, <3>4, <3>7, <3>8, <3>9, NoOtherStores DEF FlagsInv, SettersInv
    <3> QED BY <3>3, <3>4, <3>7, <3>10
  <2>3. CASE CheckNothingStaged(t) /\ ~Returns(t)
    <3>1. /\ Goes(t, "store") /\ calls[t].step = "staged" /\ UNCHANGED <<chAfl, wanted>>
      BY <2>3 DEF CheckNothingStaged, At
    <3>2. /\ Moves(t) /\ Narrows(t)
          /\ calls'[t].call = "set_archive_flag" /\ calls'[t].step = "store"
          /\ calls'[t].v = calls[t].v /\ calls'[t].flag = calls[t].flag
          /\ calls'[t].new = calls[t].new
      BY <1>1, <3>1, GoesOn DEF StoresFlags
    <3>3. \A s \in Threads : WithFlag(chAfl, calls[s])' = WithFlag(chAfl', calls'[s])
      BY DEF WithFlag
    <3>4. WithFlag(chAfl, calls[t]) = WithFlag(chAfl, calls'[t])
      BY <3>2 DEF WithFlag
    <3>5. FlagsInv'
      <4>1. SUFFICES ASSUME <<"flags">> \notin overlaps
            PROVE  /\ chAfl = wanted
                   /\ \A s \in Threads :
                        StoresFlags(calls'[s]) => calls'[s].new = WithFlag(chAfl, calls'[s])
        BY <1>1, <2>1, <3>1, <3>3 DEF FlagsInv
      <4>2. chAfl = wanted /\ calls[t].new = WithFlag(chAfl, calls[t])
        BY <1>1, <3>1, <4>1 DEF FlagsInv, SettersInv, StoresFlags
      <4>3. \A s \in Threads : s # t => ~StoresFlags(calls'[s])
        BY <1>2, <3>2, <4>1, NoOtherStores
      <4> QED BY <3>2, <3>4, <4>2, <4>3
    <3> QED BY <3>2, <3>5
  <2>4. CASE Returns(t)
    <3>1. Moves(t) /\ Narrows(t) /\ calls'[t] = Idle
      BY <2>4, ReturnsTo
    <3>2. <<"flags">> \notin overlaps => chAfl' = wanted'
      <4>1. SUFFICES ASSUME <<"flags">> \notin overlaps PROVE chAfl' = wanted'
        OBVIOUS
      <4>2. chAfl = wanted
        BY <4>1 DEF FlagsInv, SettersInv
      <4>3. CASE LoadFlags(t)
        <5>1. chAfl' = chAfl /\ (wanted' = WithFlag(wanted, calls[t]) \/ wanted' = wanted)
              /\ (wanted' = wanted \/ WithFlag(chAfl, calls[t]) = chAfl)
          BY <4>3 DEF LoadFlags
        <5> QED BY <4>2, <5>1
      <4>4. CASE CheckNothingStaged(t)
        BY <4>2, <4>4 DEF CheckNothingStaged
      <4>5. CASE StoreFlags(t)
        BY <4>1, <4>2, <4>5 DEF StoreFlags, At, FlagsInv, SettersInv, StoresFlags
      <4> QED BY <4>3, <4>4, <4>5
    <3>3. <<"flags">> \notin overlaps => \A s \in Threads : ~StoresFlags(calls'[s])
      BY <1>2, <3>1, NoOtherStores, IdleIsWellFormed DEF StoresFlags
    <3> QED BY <1>1, <2>1, <3>1, <3>2, <3>3 DEF FlagsInv
  <2>5. StoreFlags(t) => Returns(t)
    BY DEF StoreFlags
  <2> QED BY <2>2, <2>3, <2>4, <2>5
<1>4. \A c \in {calls[t], calls'[t]} :
        /\ ~ShowsComment(c) /\ ~SetsArchive(c) /\ ~RevertsArchive(c) /\ ~ReadsPassword(c)
        /\ ~ShowsFields(c) /\ ~Checked(c)
  BY <1>1, <1>3, IdleIsWellFormed
     DEF SetsArchive, RevertsArchive, ShowsComment, ReadsPassword, ShowsFields, FieldCalls,
         Checked
<1>5. EntriesInv'
  <2>1. \A j \in Index : IsStaged(j)' => IsStaged(j)
    BY <1>1 DEF IsStaged
  <2>2. pending'.adds \in Nat /\ pending'.adds >= pending.adds
    BY <1>1 DEF SettersInv, PartsOK
  <2> QED BY <1>1, <1>3, <1>4, <2>1, <2>2, SameNotes, EntriesKept DEF SettersInv
<1>6. PartsOK' /\ CommentsInv' /\ ArchiveCommentInv'
  BY <1>1, <1>3, <1>4, SameNotes, PartsKept, CommentsKept, ArchiveCommentKept DEF SettersInv
<1>7. PasswordInv' /\ FieldsInv'
  BY <1>1, <1>3, <1>4, SameNotes, PasswordKept, FieldsKept DEF SettersInv
<1> QED BY <1>1, <1>3, <1>5, <1>6, <1>7, SameNotes, OverlappingKept DEF SettersInv

LEMMA RevertFlagsKeepsSetters ==
  ASSUME UserStatesInv, SettersInv, NEW t \in Threads, RevertFlags(t)
  PROVE  SettersInv'
<1>1. /\ calls[t].call \in {"unchange_all", "unchange_archive"} /\ calls[t].step = "flags"
      /\ chAfl' = {} /\ wanted' = {} /\ Goes(t, "show")
      /\ UNCHANGED <<pending, shown, password, overlaps>>
  BY DEF RevertFlags
<1>2. /\ Moves(t) /\ Narrows(t)
      /\ calls'[t].call = calls[t].call /\ calls'[t].step = "show"
  BY <1>1, GoesOn
<1>3. /\ \A c \in {calls[t], calls'[t]} :
           /\ ~ShowsComment(c) /\ ~SetsArchive(c) /\ ~ReadsPassword(c) /\ ~StoresFlags(c)
           /\ ~ShowsFields(c) /\ ~Checked(c)
      /\ RevertsArchive(calls[t]) /\ RevertsArchive(calls'[t])
  BY <1>1, <1>2
     DEF SetsArchive, RevertsArchive, ShowsComment, StoresFlags, ReadsPassword, ShowsFields,
         FieldCalls, Checked
<1>4. FlagsInv'
  <2>1. \A s \in Threads : StoresFlags(calls[s])' <=> StoresFlags(calls'[s])
    BY DEF StoresFlags
  <2>2. <<"flags">> \in Touches(calls[t])
    BY <1>1, TopicsOf
  <2>3. <<"flags">> \notin overlaps => \A s \in Threads : ~StoresFlags(calls'[s])
    BY <1>2, <1>3, <2>2, NoOtherStores
  <2> QED BY <1>1, <2>1, <2>3 DEF FlagsInv
<1>5. EntriesInv'
  <2>1. \A j \in Index : IsStaged(j)' => IsStaged(j)
    BY <1>1 DEF IsStaged
  <2>2. pending'.adds \in Nat /\ pending'.adds >= pending.adds
    BY <1>1 DEF SettersInv, PartsOK
  <2> QED BY <1>1, <1>2, <1>3, <2>1, <2>2, SameNotes, EntriesKept DEF SettersInv
<1>6. PartsOK' /\ CommentsInv' /\ ArchiveCommentInv'
  BY <1>1, <1>2, <1>3, SameNotes, PartsKept, CommentsKept, ArchiveCommentKept DEF SettersInv
<1>7. PasswordInv' /\ FieldsInv'
  BY <1>1, <1>2, <1>3, SameNotes, PasswordKept, FieldsKept DEF SettersInv
<1> QED BY <1>1, <1>2, <1>4, <1>5, <1>6, <1>7, SameNotes, OverlappingKept DEF SettersInv

LEMMA StageFieldKeepsSetters ==
  ASSUME UserStatesInv, SettersInv, NEW t \in Threads, StageField(t)
  PROVE  SettersInv'
<1> DEFINE i == calls[t].i
           op == OpOf(calls[t])
<1>1. /\ calls[t].call \in FieldCalls /\ calls[t].step = "stage" /\ Goes(t, "show")
      /\ pending' = [pending EXCEPT !.fields[i] = Append(@, op)]
      /\ UNCHANGED <<shown, chAfl, password, wanted, overlaps>>
      /\ i \in Index
  BY DEF StageField, SettersInv, ArgsOK, Indexed
<1> HIDE DEF op
<1>2. /\ Moves(t) /\ Narrows(t)
      /\ calls'[t].call = calls[t].call /\ calls'[t].step = "show" /\ calls'[t].i = i
  BY <1>1, GoesOn DEF Indexed
<1>3. /\ DOMAIN pending' = DOMAIN pending
      /\ pending'.fields = [pending.fields EXCEPT ![i] = Append(@, op)]
      /\ pending'.fields = [j \in Index |-> pending'.fields[j]]
      /\ pending'.comments = pending.comments
      /\ pending'.adds = pending.adds
      /\ pending'.meta = pending.meta /\ pending'.archiveComment = pending.archiveComment
      /\ \A j \in Index : j # i => pending'.fields[j] = pending.fields[j]
  BY <1>1 DEF SettersInv, PartsOK
<1>4. \A c \in {calls[t], calls'[t]} :
        /\ ~ShowsComment(c) /\ ~SetsArchive(c) /\ ~RevertsArchive(c)
        /\ ~ReadsPassword(c) /\ ~StoresFlags(c)
  BY <1>1, <1>2
     DEF ShowsComment, SetsArchive, RevertsArchive, ReadsPassword, StoresFlags, FieldCalls
<1>5. PartsOK'
  BY <1>1, <1>3 DEF SettersInv, PartsOK, Index
<1>6. FieldsInv'
  <2>1. ASSUME NEW j \in Index, <<"fields", j>> \notin overlaps,
               ~(\E s \in Threads : ShowsFields(calls'[s]) /\ calls'[s].i = j)
        PROVE  shown'.fields[j] = Effective(pending'.fields, j)
    <3>1. j # i
      BY <1>1, <1>2, <2>1 DEF ShowsFields
    <3>2. ~ShowsFields(calls[t])
      BY <1>1 DEF ShowsFields
    <3>3. ~(\E s \in Threads : ShowsFields(calls[s]) /\ calls[s].i = j)
      BY <1>2, <2>1, <3>2 DEF Moves
    <3> QED BY <1>1, <1>3, <2>1, <3>1, <3>3 DEF SettersInv, FieldsInv, Effective
  <2>2. /\ \A s \in Threads : ShowsFields(calls[s])' <=> ShowsFields(calls'[s])
        /\ Index' = Index
        /\ \A j \in Index : Effective(pending.fields, j)' = Effective(pending'.fields, j)
    BY DEF ShowsFields, Index, Effective, Base
  <2> QED BY <1>1, <2>1, <2>2 DEF FieldsInv
<1>7. EntriesInv'
  <2>1. ASSUME NEW j \in Index, IsStaged(j)'
        PROVE  IsStaged(j) \/ (Checked(calls[t]) /\ calls[t].i = j)
    <3>1. Checked(calls[t])
      BY <1>1 DEF Checked
    <3> QED BY <1>3, <2>1, <3>1 DEF IsStaged
  <2>2. ~Checked(calls'[t]) /\ pending'.adds \in Nat /\ pending'.adds >= pending.adds
    BY <1>2, <1>3 DEF Checked, SettersInv, PartsOK
  <2> QED BY <1>1, <1>2, <2>1, <2>2, SameNotes, EntriesKept DEF SettersInv
<1>8. CommentsInv' /\ ArchiveCommentInv' /\ PasswordInv' /\ FlagsInv'
  BY <1>1, <1>2, <1>3, <1>4, SameNotes, CommentsKept, ArchiveCommentKept, PasswordKept,
     FlagsKept
     DEF SettersInv
<1> QED BY <1>1, <1>2, <1>5, <1>6, <1>7, <1>8, SameNotes, OverlappingKept DEF SettersInv

LEMMA ShowFieldsKeepsSetters ==
  ASSUME UserStatesInv, SettersInv, NEW t \in Threads, ShowFields(t)
  PROVE  SettersInv'
<1> DEFINE i == calls[t].i
<1>1. /\ calls[t].call \in FieldCalls /\ calls[t].step = "show" /\ Returns(t)
      /\ shown' = [shown EXCEPT !.fields = Refreshed(@, pending.fields, i)]
      /\ overlaps' = overlaps \ {<<"fields", i>>}
      /\ UNCHANGED <<pending, chAfl, password, wanted>>
      /\ i \in Index
  BY DEF ShowFields, SettersInv, ArgsOK, Indexed
<1>2. Moves(t) /\ Narrows(t) /\ calls'[t] = Idle
  BY <1>1, ReturnsTo
<1>3. /\ DOMAIN shown' = DOMAIN shown
      /\ shown'.comments = shown.comments /\ shown'.archiveComment = shown.archiveComment
      /\ shown'.fields = [shown.fields EXCEPT ![i] = Effective(pending.fields, i)]
      /\ shown'.fields = [j \in Index |-> shown'.fields[j]]
  BY <1>1 DEF SettersInv, PartsOK, Refreshed
<1>4. StillNoted
  BY <1>1 DEF StillNoted
<1>5. \A c \in {calls[t], calls'[t]} :
        /\ ~ShowsComment(c) /\ ~SetsArchive(c) /\ ~RevertsArchive(c)
        /\ ~ReadsPassword(c) /\ ~StoresFlags(c) /\ ~Checked(c)
  BY <1>1, <1>2, IdleIsWellFormed
     DEF ShowsComment, SetsArchive, RevertsArchive, ReadsPassword, StoresFlags, Checked,
         FieldCalls
<1>6. PartsOK'
  BY <1>1, <1>3 DEF SettersInv, PartsOK, Index
<1>7. FieldsInv'
  <2>1. ASSUME NEW j \in Index, <<"fields", j>> \notin overlaps',
               ~(\E s \in Threads : ShowsFields(calls'[s]) /\ calls'[s].i = j), j # i
        PROVE  shown'.fields[j] = Effective(pending.fields, j)
    <3>1. <<"fields", j>>[2] = j /\ <<"fields", i>>[2] = i
      OBVIOUS
    <3>2. <<"fields", j>> \notin overlaps
      BY <1>1, <2>1, <3>1
    <3>3. ~(\E s \in Threads : ShowsFields(calls[s]) /\ calls[s].i = j)
      BY <1>2, <2>1 DEF Moves
    <3> QED BY <1>3, <2>1, <3>2, <3>3 DEF SettersInv, FieldsInv, PartsOK
  <2>2. shown'.fields[i] = Effective(pending.fields, i)
    BY <1>1, <1>3 DEF SettersInv, PartsOK
  <2>3. /\ \A s \in Threads : ShowsFields(calls[s])' <=> ShowsFields(calls'[s])
        /\ Index' = Index
        /\ \A j \in Index : Effective(pending.fields, j)' = Effective(pending.fields, j)
    BY <1>1 DEF ShowsFields, Index, Effective, Base
  <2> QED BY <2>1, <2>2, <2>3 DEF FieldsInv
<1>8. EntriesInv'
  <2>1. \A j \in Index : IsStaged(j)' => IsStaged(j)
    BY <1>1 DEF IsStaged
  <2>2. pending'.adds \in Nat /\ pending'.adds >= pending.adds
    BY <1>1 DEF SettersInv, PartsOK
  <2> QED BY <1>2, <1>4, <1>5, <2>1, <2>2, EntriesKept DEF SettersInv
<1>9. CommentsInv' /\ ArchiveCommentInv' /\ PasswordInv' /\ FlagsInv'
  BY <1>1, <1>2, <1>3, <1>4, <1>5, CommentsKept, ArchiveCommentKept, PasswordKept, FlagsKept
     DEF SettersInv
<1> QED BY <1>2, <1>4, <1>6, <1>7, <1>8, <1>9, OverlappingKept DEF SettersInv

----------------------------------------------------------------------------
(* Reverts.                                                                *)

\* What a revert leaves shown although it is no longer staged has been noted.
LEMMA NotedStillShown ==
  ASSUME NEW is, NEW i \in is, StillShown(is) \subseteq overlaps'
  PROVE  /\ <<"comment", i>> \in overlaps' \/ pending.comments[i] = Unset
         /\ <<"fields", i>> \in overlaps' \/ pending.fields[i] = <<>>
BY DEF StillShown

\* Nobody else is about an entry or its comment, unless that has been noted.
LEMMA NoOtherAtEntry ==
  ASSUME SettersInv, NEW t \in Threads, Moves(t), NEW i,
         NEW s \in Threads, s # t
  PROVE  /\ <<"comment", i>> \in Touches(calls[t]) /\ <<"comment", i>> \notin overlaps =>
              ~(ShowsComment(calls'[s]) /\ calls'[s].i = i)
         /\ <<"entry", i>> \in Touches(calls[t]) /\ <<"entry", i>> \notin overlaps =>
              ~(Checked(calls'[s]) /\ calls'[s].i = i)
<1>1. calls'[s] = calls[s]
  BY DEF Moves
<1>2. ShowsComment(calls[s]) /\ calls[s].i = i => <<"comment", i>> \in Touches(calls[s])
  BY TopicsOf DEF ShowsComment
<1>3. Checked(calls[s]) /\ calls[s].i = i => <<"entry", i>> \in Touches(calls[s])
  BY TopicsOf DEF Checked
<1> QED BY <1>1, <1>2, <1>3, BothTouch

LEMMA UnchangeKeepsSetters ==
  ASSUME UserStatesInv, SettersInv, NEW t \in Threads, Unchange(t)
  PROVE  SettersInv'
<1> DEFINE i == calls[t].i
<1>1. /\ calls[t].call = "unchange" /\ calls[t].step = "revert" /\ Returns(t)
      /\ UNCHANGED <<shown, chAfl, password, wanted>>
      /\ i \in Index
      /\ \/ UNCHANGED <<pending, overlaps>>
         \/ /\ ValidIndex(i) /\ pending' = Reverted(i)
            /\ overlaps' = overlaps \cup StillShown({i})
                 \cup (IF i >= N THEN {<<"entry", j>> : j \in {j \in Index : j > i}} ELSE {})
  BY DEF Unchange, At, SettersInv, ArgsOK, Indexed
<1>2. Moves(t) /\ Narrows(t) /\ calls'[t] = Idle
  BY <1>1, ReturnsTo
<1>3. Plain(calls[t]) /\ Plain(calls'[t])
  BY <1>1, <1>2, IdleIsWellFormed
     DEF Plain, SetsArchive, RevertsArchive, ShowsComment, StoresFlags, ReadsPassword,
         ShowsFields, FieldCalls, Checked
<1>4. CASE UNCHANGED <<pending, overlaps>>
  BY <1>1, <1>2, <1>3, <1>4, PlainKeeps
<1>5. CASE ~UNCHANGED <<pending, overlaps>>
  <2>1. /\ ValidIndex(i) /\ pending' = Reverted(i)
        /\ overlaps \subseteq overlaps' /\ StillShown({i}) \subseteq overlaps'
        /\ i >= N => \A j \in Index : j > i => <<"entry", j>> \in overlaps'
    BY <1>1, <1>5
  <2>2. StillNoted
    BY <2>1 DEF StillNoted
  <2>3. N \in Nat /\ MaxAdds \in Nat /\ pending.adds \in Nat /\ i \in Nat
    BY <1>1, SharedHandleAssumption DEF SettersInv, PartsOK, Index
  <2>4. /\ DOMAIN pending' = DOMAIN pending
        /\ pending'.comments = [pending.comments EXCEPT ![i] = Unset]
        /\ pending'.fields = [pending.fields EXCEPT ![i] = <<>>]
        /\ pending'.meta = {m \in pending.meta : m[2] # i}
        /\ pending'.archiveComment = pending.archiveComment
        /\ pending'.adds = IF i >= N THEN pending.adds - 1 ELSE pending.adds
    BY <2>1 DEF Reverted, SettersInv, PartsOK
  <2>5. /\ pending'.comments \in [Index -> Comments \cup {None, Unset}]
        /\ pending'.fields = [j \in Index |-> pending'.fields[j]]
        /\ pending'.comments[i] = Unset /\ pending'.fields[i] = <<>>
        /\ \A j \in Index : j # i => /\ pending'.comments[j] = pending.comments[j]
                                     /\ pending'.fields[j] = pending.fields[j]
    BY <1>1, <2>4 DEF SettersInv, PartsOK
  <2>6. pending'.adds \in Nat
    BY <2>1, <2>3, <2>4 DEF ValidIndex
  <2>7. PartsOK'
    BY <1>1, <2>4, <2>5, <2>6 DEF SettersInv, PartsOK, Index
  <2>8. CommentsInv'
    <3>1. ASSUME NEW j \in Index, <<"comment", j>> \notin overlaps'
          PROVE  /\ pending'.comments[j] = pending.comments[j]
                 /\ \A s \in Threads :
                      ShowsComment(calls'[s]) /\ calls'[s].i = j => calls'[s] = calls[s]
                 /\ \A s \in Threads :
                      ShowsComment(calls[s]) /\ calls[s].i = j => calls'[s] = calls[s]
                 /\ <<"comment", j>> \notin overlaps
      <4>1. j = i => pending.comments[j] = Unset
        BY <2>1, <3>1, NotedStillShown
      <4> QED BY <1>2, <1>3, <2>1, <2>5, <3>1, <4>1 DEF Moves, Plain
    <3>2. /\ \A s \in Threads : ShowsComment(calls[s])' <=> ShowsComment(calls'[s])
          /\ \A j \in Index :
               EffectiveComment(j)' = IF pending'.comments[j] = Unset THEN DiskComment(j)
                                                                     ELSE pending'.comments[j]
      BY DEF ShowsComment, EffectiveComment, DiskComment
    <3> QED BY <1>1, <3>1, <3>2 DEF CommentsInv, SettersInv, EffectiveComment, Index
  <2>9. EntriesInv'
    <3>1. ASSUME NEW j \in Index,
                 IsStaged(j)' \/ (\E s \in Threads : Checked(calls'[s]) /\ calls'[s].i = j)
          PROVE  ValidIndex(j)' \/ <<"entry", j>> \in overlaps'
      <4>1. CASE j = i
        <5>1. ~IsStaged(j)'
          BY <2>4, <2>5, <4>1 DEF IsStaged
        <5>2. PICK s \in Threads : Checked(calls'[s]) /\ calls'[s].i = j
          BY <3>1, <5>1
        <5>3. s # t
          BY <1>3, <5>2 DEF Plain
        <5>4. <<"entry", j>> \in Touches(calls[t])
          BY <1>1, <4>1, TopicsOf
        <5> QED BY <1>2, <2>1, <5>2, <5>3, <5>4, NoOtherAtEntry
      <4>2. CASE j # i
        <5>1. IsStaged(j)' => IsStaged(j)
          BY <2>4, <2>5, <4>2 DEF IsStaged
        <5>2. \A s \in Threads : Checked(calls'[s]) => calls'[s] = calls[s]
          BY <1>2, <1>3 DEF Moves, Plain
        <5>3. ValidIndex(j) \/ <<"entry", j>> \in overlaps
          BY <3>1, <5>1, <5>2 DEF SettersInv, EntriesInv
        <5>4. CASE i >= N /\ j > i
          BY <2>1, <5>4
        <5>5. CASE ~(i >= N /\ j > i)
          <6>1. ValidIndex(j) => ValidIndex(j)'
            BY <2>1, <2>3, <2>4, <4>2, <5>5 DEF ValidIndex, Index
          <6> QED BY <2>1, <5>3, <6>1
        <5> QED BY <5>4, <5>5
      <4> QED BY <4>1, <4>2
    <3>2. /\ \A s \in Threads : Checked(calls[s])' <=> Checked(calls'[s])
          /\ Index' = Index
      BY DEF Checked, Index
    <3> QED BY <3>1, <3>2 DEF EntriesInv
  <2>10. FieldsInv'
    <3>1. ASSUME NEW j \in Index, <<"fields", j>> \notin overlaps',
                 ~(\E s \in Threads : ShowsFields(calls'[s]) /\ calls'[s].i = j)
          PROVE  shown'.fields[j] = Effective(pending'.fields, j)
      <4>1. pending'.fields[j] = pending.fields[j]
        <5>1. j = i => pending.fields[j] = <<>>
          BY <2>1, <3>1, NotedStillShown
        <5> QED BY <2>5, <5>1
      <4>2. ~(\E s \in Threads : ShowsFields(calls[s]) /\ calls[s].i = j)
        BY <1>2, <1>3, <3>1 DEF Moves, Plain
      <4> QED BY <1>1, <2>1, <3>1, <4>1, <4>2 DEF SettersInv, FieldsInv, Effective
    <3>2. /\ \A s \in Threads : ShowsFields(calls[s])' <=> ShowsFields(calls'[s])
          /\ Index' = Index
          /\ \A j \in Index : Effective(pending.fields, j)' = Effective(pending'.fields, j)
      BY DEF ShowsFields, Index, Effective, Base
    <3> QED BY <3>1, <3>2 DEF FieldsInv
  <2>11. ArchiveCommentInv'
    BY <1>1, <1>2, <1>3, <2>2, <2>4, ArchiveCommentKept DEF SettersInv, Plain
  <2>12. PasswordInv' /\ FlagsInv'
    BY <1>1, <1>2, <1>3, <2>2, PasswordKept, FlagsKept DEF SettersInv, Plain
  <2> QED BY <1>2, <2>2, <2>7, <2>8, <2>9, <2>10, <2>11, <2>12, OverlappingKept DEF SettersInv
<1> QED BY <1>4, <1>5

LEMMA UnchangeAllKeepsSetters ==
  ASSUME UserStatesInv, SettersInv, NEW t \in Threads, UnchangeAll(t)
  PROVE  SettersInv'
<1>1. /\ calls[t].call = "unchange_all" /\ calls[t].step = "revert" /\ Goes(t, "flags")
      /\ pending' = NothingStaged
      /\ overlaps \subseteq overlaps' /\ StillShown(Index) \subseteq overlaps'
      /\ UNCHANGED <<shown, chAfl, password, wanted>>
  BY DEF UnchangeAll, At
<1>2. /\ Moves(t) /\ Narrows(t)
      /\ calls'[t].call = "unchange_all" /\ calls'[t].step = "flags"
  BY <1>1, GoesOn
<1>3. /\ \A c \in {calls[t], calls'[t]} :
           /\ ~ShowsComment(c) /\ ~SetsArchive(c) /\ ~ReadsPassword(c) /\ ~StoresFlags(c)
           /\ ~ShowsFields(c) /\ ~Checked(c)
      /\ RevertsArchive(calls'[t])
  BY <1>1, <1>2
     DEF SetsArchive, RevertsArchive, ShowsComment, StoresFlags, ReadsPassword, ShowsFields,
         FieldCalls, Checked
<1>4. StillNoted
  BY <1>1 DEF StillNoted
<1>5. /\ DOMAIN pending' = {"adds", "comments", "fields", "meta", "archiveComment"}
      /\ pending'.adds = 0 /\ pending'.meta = {} /\ pending'.archiveComment = Unset
      /\ pending'.comments = [i \in Index |-> Unset]
      /\ pending'.fields = [i \in Index |-> <<>>]
  BY <1>1 DEF NothingStaged
<1>6. PartsOK'
  BY <1>1, <1>5 DEF SettersInv, PartsOK, Index
<1>7. /\ <<"archive_comment">> \in Touches(calls[t])
      /\ \A i \in Index : /\ <<"comment", i>> \in Touches(calls[t])
                          /\ <<"entry", i>> \in Touches(calls[t])
  BY <1>1, TopicsOf
<1>8. CommentsInv'
  <2>1. ASSUME NEW i \in Index, <<"comment", i>> \notin overlaps'
        PROVE  /\ \A s \in Threads : ~(ShowsComment(calls'[s]) /\ calls'[s].i = i)
               /\ \A s \in Threads : ~(ShowsComment(calls[s]) /\ calls[s].i = i)
               /\ pending.comments[i] = Unset
    <3>1. <<"comment", i>> \notin overlaps
      BY <1>1, <2>1
    <3>2. \A s \in Threads : s # t => ~(ShowsComment(calls'[s]) /\ calls'[s].i = i)
      BY <1>2, <1>7, <3>1, NoOtherAtEntry
    <3>3. pending.comments[i] = Unset
      BY <1>1, <2>1, NotedStillShown
    <3> QED BY <1>2, <1>3, <3>2, <3>3 DEF Moves
  <2>2. ASSUME NEW i \in Index, <<"comment", i>> \notin overlaps'
        PROVE  shown'.comments[i] = DiskComment(i)
    <3>1. shown.comments[i] = EffectiveComment(i)
      BY <1>1, <2>1, <2>2 DEF SettersInv, CommentsInv
    <3> QED BY <1>1, <2>1, <2>2, <3>1 DEF EffectiveComment
  <2>3. /\ \A s \in Threads : ShowsComment(calls[s])' <=> ShowsComment(calls'[s])
        /\ \A i \in Index : EffectiveComment(i)' = DiskComment(i)
        /\ Index' = Index
    BY <1>5 DEF ShowsComment, EffectiveComment, DiskComment, Index
  <2> QED BY <2>1, <2>2, <2>3 DEF CommentsInv
<1>9. ArchiveCommentInv'
  <2>1. ASSUME <<"archive_comment">> \notin overlaps', NEW s \in Threads
        PROVE  ~SetsArchive(calls'[s])
    <3>1. CASE s = t
      BY <1>3, <3>1
    <3>2. CASE s # t
      <4>1. <<"archive_comment">> \notin Touches(calls[s])
        BY <1>1, <1>7, <2>1, <3>2, BothTouch
      <4> QED BY <1>2, <3>2, <4>1, TopicsOf DEF Moves, SetsArchive
    <3> QED BY <3>1, <3>2
  <2>2. \A s \in Threads : /\ SetsArchive(calls[s])' <=> SetsArchive(calls'[s])
                           /\ RevertsArchive(calls[s])' <=> RevertsArchive(calls'[s])
    BY DEF SetsArchive, RevertsArchive
  <2> QED BY <1>3, <1>5, <2>1, <2>2 DEF ArchiveCommentInv
<1>10. EntriesInv'
  <2>1. ASSUME NEW i \in Index,
               IsStaged(i)' \/ (\E s \in Threads : Checked(calls'[s]) /\ calls'[s].i = i)
        PROVE  <<"entry", i>> \in overlaps'
    <3>1. ~IsStaged(i)'
      BY <1>5 DEF IsStaged
    <3>2. PICK s \in Threads : Checked(calls'[s]) /\ calls'[s].i = i
      BY <2>1, <3>1
    <3>3. s # t
      BY <1>3, <3>2
    <3> QED BY <1>1, <1>2, <1>7, <3>2, <3>3, NoOtherAtEntry
  <2>2. /\ \A s \in Threads : Checked(calls[s])' <=> Checked(calls'[s])
        /\ Index' = Index
    BY DEF Checked, Index
  <2> QED BY <2>1, <2>2 DEF EntriesInv
<1>11. FieldsInv'
  <2>1. ASSUME NEW i \in Index, <<"fields", i>> \notin overlaps',
               ~(\E s \in Threads : ShowsFields(calls'[s]) /\ calls'[s].i = i)
        PROVE  shown'.fields[i] = Effective(pending'.fields, i)
    <3>1. pending.fields[i] = <<>>
      BY <1>1, <2>1, NotedStillShown
    <3>2. ~(\E s \in Threads : ShowsFields(calls[s]) /\ calls[s].i = i)
      BY <1>2, <1>3, <2>1 DEF Moves
    <3> QED BY <1>1, <1>5, <2>1, <3>1, <3>2 DEF SettersInv, FieldsInv, Effective
  <2>2. /\ \A s \in Threads : ShowsFields(calls[s])' <=> ShowsFields(calls'[s])
        /\ Index' = Index
        /\ \A i \in Index : Effective(pending.fields, i)' = Effective(pending'.fields, i)
    BY DEF ShowsFields, Index, Effective, Base
  <2> QED BY <2>1, <2>2 DEF FieldsInv
<1>12. PasswordInv' /\ FlagsInv'
  BY <1>1, <1>2, <1>3, <1>4, PasswordKept, FlagsKept DEF SettersInv
<1> QED BY <1>2, <1>4, <1>6, <1>8, <1>9, <1>10, <1>11, <1>12, OverlappingKept DEF SettersInv

LEMMA UnchangeArchiveKeepsSetters ==
  ASSUME UserStatesInv, SettersInv, NEW t \in Threads, UnchangeArchive(t)
  PROVE  SettersInv'
<1>1. /\ calls[t].call = "unchange_archive" /\ calls[t].step = "revert" /\ Goes(t, "flags")
      /\ pending' = [pending EXCEPT !.archiveComment = Unset]
      /\ UNCHANGED <<shown, chAfl, password, wanted, overlaps>>
  BY DEF UnchangeArchive, At
<1>2. /\ Moves(t) /\ Narrows(t)
      /\ calls'[t].call = "unchange_archive" /\ calls'[t].step = "flags"
  BY <1>1, GoesOn
<1>3. /\ DOMAIN pending' = DOMAIN pending
      /\ pending'.comments = pending.comments /\ pending'.adds = pending.adds
      /\ pending'.fields = pending.fields /\ pending'.meta = pending.meta
      /\ pending'.archiveComment = Unset
  BY <1>1 DEF SettersInv, PartsOK
<1>4. /\ \A c \in {calls[t], calls'[t]} :
           /\ ~ShowsComment(c) /\ ~SetsArchive(c) /\ ~ReadsPassword(c) /\ ~StoresFlags(c)
           /\ ~ShowsFields(c) /\ ~Checked(c)
      /\ RevertsArchive(calls'[t])
  BY <1>1, <1>2
     DEF ShowsComment, SetsArchive, RevertsArchive, ReadsPassword, StoresFlags, ShowsFields,
         FieldCalls, Checked
<1>5. PartsOK'
  BY <1>1, <1>3 DEF SettersInv, PartsOK, Index
<1>6. ArchiveCommentInv'
  <2>1. ASSUME <<"archive_comment">> \notin overlaps, NEW s \in Threads, s # t
        PROVE  ~SetsArchive(calls'[s])
    <3>1. <<"archive_comment">> \in Touches(calls[t])
      BY <1>1, TopicsOf
    <3>2. <<"archive_comment">> \notin Touches(calls[s])
      BY <2>1, <3>1, BothTouch
    <3> QED BY <1>2, <2>1, <3>2, TopicsOf DEF Moves, SetsArchive
  <2>2. \A s \in Threads : /\ SetsArchive(calls[s])' <=> SetsArchive(calls'[s])
                           /\ RevertsArchive(calls[s])' <=> RevertsArchive(calls'[s])
    BY DEF SetsArchive, RevertsArchive
  <2> QED BY <1>1, <1>3, <1>4, <2>1, <2>2 DEF ArchiveCommentInv
<1>7. EntriesInv'
  <2>1. \A j \in Index : IsStaged(j)' => IsStaged(j)
    BY <1>3 DEF IsStaged
  <2>2. pending'.adds \in Nat /\ pending'.adds >= pending.adds
    BY <1>3 DEF SettersInv, PartsOK
  <2> QED BY <1>1, <1>2, <1>4, <2>1, <2>2, SameNotes, EntriesKept DEF SettersInv
<1>8. CommentsInv' /\ PasswordInv' /\ FlagsInv' /\ FieldsInv'
  BY <1>1, <1>2, <1>3, <1>4, SameNotes, CommentsKept, PasswordKept, FlagsKept, FieldsKept
     DEF SettersInv
<1> QED BY <1>1, <1>2, <1>5, <1>6, <1>7, <1>8, SameNotes, OverlappingKept DEF SettersInv

----------------------------------------------------------------------------
(* Callbacks and zip_close.                                                *)

\* A call that stages nothing goes on, or returns.
LEMMA OthersMove ==
  ASSUME UserStatesInv, NEW t \in Threads, \A s \in Threads : s # t => calls'[s] = calls[s],
         calls[t].call \in {"register", "close", "discard"},
         calls'[t].call \in {"none", "register", "close", "discard"}
  PROVE  /\ Moves(t) /\ Narrows(t)
         /\ Plain(calls[t]) /\ Plain(calls'[t])
<1>1. ArgsOK(calls'[t]) /\ Touches(calls'[t]) = {}
  BY TopicsOf DEF ArgsOK, Indexed, FieldCalls
<1> QED BY <1>1
        DEF Moves, Narrows, Plain, SetsArchive, RevertsArchive, ShowsComment, StoresFlags,
            ReadsPassword, ShowsFields, FieldCalls, Checked

LEMMA CloseMoves ==
  ASSUME UserStatesInv, NEW t \in Threads,
         \/ RegisterProgress(t) \/ RegisterCancel(t)
         \/ Decide(t) \/ Prepare(t) \/ Started(t) \/ Ask(t) \/ Answered(t)
         \/ Tell(t) \/ Told(t) \/ Finish(t) \/ Finished(t) \/ Drop(t)
  PROVE  /\ Moves(t) /\ Narrows(t)
         /\ Plain(calls[t]) /\ Plain(calls'[t])
<1>1. calls[t].call \in {"register", "close", "discard"}
  <2>1. \/ calls[t].call \in {"register", "close", "discard"}
        \/ calls[t].step \in CallbackSteps
    BY DEF RegisterProgress, RegisterCancel, Registers, Decide, Prepare, Started, Ask,
           Answered, Tell, Told, Finish, Finished, Drop, At, CallbackSteps
  <2> QED BY <2>1 DEF UserStatesInv, TypesOK, WellFormed
<1>2. calls = [s \in Threads |-> calls[s]] /\ {"call", "step"} \subseteq DOMAIN calls[t]
  BY DEF UserStatesInv, TypesOK, WellFormed
<1>3. ASSUME NEW step, Goes(t, step)
      PROVE  /\ calls'[t].call = calls[t].call
             /\ \A s \in Threads : s # t => calls'[s] = calls[s]
  BY <1>2, <1>3 DEF Goes
<1>4. ASSUME NEW step, CallbackEnds(t, step)
      PROVE  /\ calls'[t].call = "close"
             /\ \A s \in Threads : s # t => calls'[s] = calls[s]
  BY <1>2, <1>4 DEF CallbackEnds
<1>5. ASSUME NEW step, NEW kind, CallsBack(t, step, kind)
      PROVE  /\ calls'[t].call = "close"
             /\ \A s \in Threads : s # t => calls'[s] = calls[s]
  BY <1>2, <1>5 DEF CallsBack
<1>6. ASSUME Returns(t)
      PROVE  /\ calls'[t].call = "none"
             /\ \A s \in Threads : s # t => calls'[s] = calls[s]
  BY <1>2, <1>6, IdleIsWellFormed DEF Returns
<1>7. /\ calls'[t].call \in {"none", "register", "close", "discard"}
      /\ \A s \in Threads : s # t => calls'[s] = calls[s]
  <2>1. CASE RegisterProgress(t) \/ RegisterCancel(t) \/ Drop(t)
    BY <1>6, <2>1 DEF RegisterProgress, RegisterCancel, Registers, Drop
  <2>2. CASE Started(t) \/ Answered(t) \/ Told(t) \/ Finished(t)
    BY <1>4, <2>2 DEF Started, Answered, Told, Finished
  <2>3. CASE Decide(t) \/ Ask(t) \/ Tell(t) \/ Finish(t)
    BY <1>3, <1>5, <2>3 DEF Decide, Ask, Tell, Finish, At
  <2>4. CASE Prepare(t)
    BY <1>3, <1>5, <2>4 DEF Prepare, At
  <2> QED BY <2>1, <2>2, <2>3, <2>4
<1> QED BY <1>1, <1>7, OthersMove

LEMMA PrepareKeepsSetters ==
  ASSUME UserStatesInv, SettersInv, NEW t \in Threads, Prepare(t)
  PROVE  SettersInv'
<1>1. /\ UNCHANGED <<pending, chAfl, password, wanted>>
      /\ shown' = [shown EXCEPT !.fields =
                     [i \in Index |-> IF i < Files THEN Effective(pending.fields, i)
                                                   ELSE shown.fields[i]]]
      /\ overlaps' = overlaps \ {<<"fields", i>> : i \in 0..(Files - 1)}
  <2>1. shown' = [shown EXCEPT !.fields =
                    [i \in Index |-> IF i < Files THEN Effective(pending.fields, i)
                                                  ELSE @[i]]]
    BY DEF Prepare
  <2> QED BY <2>1 DEF Prepare
<1>2. Moves(t) /\ Narrows(t) /\ Plain(calls[t]) /\ Plain(calls'[t])
  BY CloseMoves
<1>3. /\ DOMAIN shown' = DOMAIN shown
      /\ shown'.comments = shown.comments /\ shown'.archiveComment = shown.archiveComment
      /\ shown'.fields = [i \in Index |-> IF i < Files THEN Effective(pending.fields, i)
                                                       ELSE shown.fields[i]]
  BY <1>1 DEF SettersInv, PartsOK
<1>4. Files \in Nat
  BY SharedHandleAssumption DEF Files, SettersInv, PartsOK
<1>5. StillNoted
  BY <1>1 DEF StillNoted
<1>6. PartsOK'
  BY <1>1, <1>3 DEF SettersInv, PartsOK, Index
<1>7. FieldsInv'
  <2>1. ASSUME NEW i \in Index, <<"fields", i>> \notin overlaps', ~(i < Files),
               ~(\E s \in Threads : ShowsFields(calls'[s]) /\ calls'[s].i = i)
        PROVE  shown.fields[i] = Effective(pending.fields, i)
    <3>1. <<"fields", i>> \notin {<<"fields", j>> : j \in 0..(Files - 1)}
      <4>1. \A j : <<"fields", j>>[2] = j
        OBVIOUS
      <4> QED BY <1>4, <2>1, <4>1 DEF Index
    <3>2. <<"fields", i>> \notin overlaps
      BY <1>1, <2>1, <3>1
    <3>3. ~(\E s \in Threads : ShowsFields(calls[s]) /\ calls[s].i = i)
      BY <1>2, <2>1 DEF Moves, Plain
    <3> QED BY <3>2, <3>3 DEF SettersInv, FieldsInv
  <2>2. /\ \A s \in Threads : ShowsFields(calls[s])' <=> ShowsFields(calls'[s])
        /\ Index' = Index
        /\ \A i \in Index : Effective(pending.fields, i)' = Effective(pending.fields, i)
    BY <1>1 DEF ShowsFields, Index, Effective, Base
  <2> QED BY <1>3, <2>1, <2>2 DEF FieldsInv
<1>8. EntriesInv'
  <2>1. \A i \in Index : IsStaged(i)' => IsStaged(i)
    BY <1>1 DEF IsStaged
  <2>2. pending'.adds \in Nat /\ pending'.adds >= pending.adds
    BY <1>1 DEF SettersInv, PartsOK
  <2> QED BY <1>2, <1>5, <2>1, <2>2, EntriesKept DEF SettersInv, Plain
<1>9. CommentsInv' /\ ArchiveCommentInv' /\ PasswordInv' /\ FlagsInv'
  BY <1>1, <1>2, <1>3, <1>5, CommentsKept, ArchiveCommentKept, PasswordKept, FlagsKept
     DEF SettersInv, Plain
<1> QED BY <1>2, <1>5, <1>6, <1>7, <1>8, <1>9, OverlappingKept DEF SettersInv

LEMMA SettersInvKept == UserStatesInv /\ SettersInv /\ [Next]_vars => SettersInv'
<1> SUFFICES ASSUME UserStatesInv, SettersInv, [Next]_vars PROVE SettersInv'
  OBVIOUS
<1>1. ASSUME NEW t \in Threads, Step(t) PROVE SettersInv'
  <2>1. CASE \/ RegisterProgress(t) \/ RegisterCancel(t)
             \/ Decide(t) \/ Started(t) \/ Ask(t) \/ Answered(t)
             \/ Tell(t) \/ Told(t) \/ Finish(t) \/ Finished(t) \/ Drop(t)
    <3>1. UNCHANGED <<pending, shown, chAfl, password, wanted, overlaps>>
      BY <2>1 DEF RegisterProgress, RegisterCancel, Registers, Decide, Started, Ask, Answered,
                  Tell, Told, Finish, Finished, Drop
    <3> QED BY <2>1, <3>1, CloseMoves, PlainKeeps
  <2> QED BY <1>1, <2>1, CheckKeepsSetters, StageCommentKeepsSetters, ShowCommentKeepsSetters,
             StageArchiveCommentKeepsSetters, ShowArchiveCommentKeepsSetters,
             StageMetaKeepsSetters, PasswordKeepsSetters, FlagsKeepSetters,
             RevertFlagsKeepsSetters, StageFieldKeepsSetters, ShowFieldsKeepsSetters,
             UnchangeKeepsSetters, UnchangeAllKeepsSetters, UnchangeArchiveKeepsSetters,
             PrepareKeepsSetters
          DEF Step
<1> QED BY <1>1, BeginsKeepSetters, UnchangedKeepsSetters DEF Next

LEMMA SettersInvHolds == Spec => [](UserStatesInv /\ SettersInv)
BY SettersStart, SettersInvKept, UserStatesStart, UserStatesKeep, PTL DEF Spec

\* Once no call about it is under way, a comment that getters show, the
\* password they read with and the archive flags are what the calls asked for,
\* whatever else ran beside them.
THEOREM SettersAlwaysAgree == Spec => []SettersAgree
<1>1. UserStatesInv /\ SettersInv => SettersAgree
  <2> SUFFICES ASSUME UserStatesInv, SettersInv PROVE SettersAgree
    OBVIOUS
  <2>1. ASSUME NEW i \in Index, <<"comment", i>> \notin overlaps, ~InCall(<<"comment", i>>)
        PROVE  shown.comments[i] = EffectiveComment(i)
    <3>1. \A t \in Threads : ~(ShowsComment(calls[t]) /\ calls[t].i = i)
      BY <2>1, TopicsOf DEF InCall, ShowsComment
    <3> QED BY <2>1, <3>1 DEF SettersInv, CommentsInv
  <2>2. ASSUME <<"archive_comment">> \notin overlaps, ~InCall(<<"archive_comment">>)
        PROVE  shown.archiveComment = EffectiveArchiveComment
    <3>1. \A t \in Threads : ~SetsArchive(calls[t]) /\ ~RevertsArchive(calls[t])
      BY <2>2, TopicsOf DEF InCall, SetsArchive, RevertsArchive
    <3> QED BY <2>2, <3>1 DEF SettersInv, ArchiveCommentInv
  <2>3. ASSUME <<"password">> \notin overlaps, ~InCall(<<"password">>)
        PROVE  password.read = password.write
    <3>1. \A t \in Threads : ~ReadsPassword(calls[t])
      BY <2>3, TopicsOf DEF InCall, ReadsPassword
    <3> QED BY <2>3, <3>1 DEF SettersInv, PasswordInv
  <2>4. ASSUME <<"flags">> \notin overlaps PROVE chAfl = wanted
    BY <2>4 DEF SettersInv, FlagsInv
  <2> QED BY <2>1, <2>2, <2>3, <2>4 DEF SettersAgree
<1> QED BY <1>1, SettersInvHolds, PTL

\* An index that was looked up under an earlier lock still exists when
\* something is staged for it, unless a revert ran beside the call or took away
\* an addition below it.
THEOREM StagedEntriesExist == Spec => []CheckedEntriesExist
<1>1. UserStatesInv /\ SettersInv => CheckedEntriesExist
  BY DEF SettersInv, EntriesInv, IsStaged, CheckedEntriesExist
<1> QED BY <1>1, SettersInvHolds, PTL

\* However calls overlap, getters show the fields that zip_close would write as
\* soon as no call is between staging and refreshing.
THEOREM FieldsAlwaysFollow == Spec => []FieldsFollow
<1>1. UserStatesInv /\ SettersInv => FieldsFollow
  <2> SUFFICES ASSUME UserStatesInv, SettersInv,
                      NEW i \in Index, <<"fields", i>> \notin overlaps,
                      ~(\E t \in Threads : /\ calls[t].call \in FieldCalls
                                           /\ calls[t].step = "show" /\ calls[t].i = i)
               PROVE  LET due == Effective(pending.fields, i) IN
                      /\ FieldsCount(i) = Len(due)
                      /\ \A id \in FieldIds, k \in 0..(Len(due) - 1) :
                           GetById(i, id, k) = {due[p].data : p \in Nth(due, id, k)}
    BY DEF FieldsFollow
  <2> DEFINE due == Effective(pending.fields, i)
  <2>1. shown.fields[i] = due
    BY DEF SettersInv, FieldsInv, ShowsFields
  <2> HIDE DEF due
  <2>2. FieldsCount(i) = Len(due)
    BY <2>1 DEF FieldsCount
  <2>3. ASSUME NEW id, NEW k
        PROVE  GetById(i, id, k) = {due[p].data : p \in Nth(due, id, k)}
    <3>1. Get(i, id, k) = {[at |-> k, data |-> due[p].data] : p \in Nth(due, id, k)}
      BY <2>1 DEF Get
    <3>2. ASSUME NEW field \in Get(i, id, k)
          PROVE  \E p \in Nth(due, id, k) : field.data = due[p].data
      BY <3>1, <3>2
    <3>3. ASSUME NEW p \in Nth(due, id, k)
          PROVE  \E field \in Get(i, id, k) : field.data = due[p].data
      <4>1. [at |-> k, data |-> due[p].data] \in Get(i, id, k)
        BY <3>1, <3>3
      <4> QED BY <4>1
    <3> QED BY <3>2, <3>3 DEF GetById
  <2> QED BY <2>2, <2>3 DEF due
<1> QED BY <1>1, SettersInvHolds, PTL

----------------------------------------------------------------------------
(* How far a write is.                                                     *)

\* A non-empty set of naturals has a least element: the induction principle
\* for sums over files, which are defined by recursion.
LEMMA LeastElement ==
  ASSUME NEW S \in SUBSET Nat, S # {}
  PROVE  \E m \in S : \A k \in S : m =< k
<1> DEFINE Sub == StrictSubsetOrdering(Nat)
           T == {0 .. n : n \in S}
<1>1. IsWellFoundedOn(Sub, FiniteSubsetsOf(Nat))
  BY FS_StrictSubsetOrderingWellFounded
<1>2. T \subseteq FiniteSubsetsOf(Nat)
  <2> SUFFICES ASSUME NEW n \in S PROVE 0 .. n \in FiniteSubsetsOf(Nat)
    OBVIOUS
  <2>1. 0 .. n \subseteq Nat
    OBVIOUS
  <2>2. IsFiniteSet(0 .. n)
    <3>1. 0 \in Int /\ n \in Int
      OBVIOUS
    <3> QED BY ONLY <3>1, FS_Interval, Zenon
  <2> QED BY <2>1, <2>2 DEF FiniteSubsetsOf
<1>3. T # {}
  OBVIOUS
<1>4. PICK x \in T : \A y \in T : ~ (<<y, x>> \in Sub)
  <2> HIDE DEF Sub, T
  <2> QED BY <1>1, <1>2, <1>3, WFMin
<1>5. PICK m \in S : x = 0 .. m
  OBVIOUS
<1>6. ASSUME NEW k \in S, k < m PROVE FALSE
  <2>1. 0 .. k \in T
    OBVIOUS
  <2>2. <<0 .. k, x>> \in Sub
    BY <1>5, <1>6 DEF StrictSubsetOrdering
  <2> QED BY <1>4, <2>1, <2>2
<1> QED BY <1>6


LEMMA SizesAreNaturals ==
  \A i \in Nat : SizeOf(i) \in Nat
<1>1. DOMAIN OnDisk = 0..(N - 1) /\ N \in Nat
  BY SharedHandleAssumption
<1>2. \A i \in DOMAIN OnDisk : OnDisk[i].size \in Nat
  BY SharedHandleAssumption
<1>3. \A i \in Nat : i < N => OnDisk[i].size \in Nat
  BY <1>1, <1>2
<1> QED BY <1>3 DEF SizeOf

\* What is done before each of the first n files.
Before(g, n) ==
  \A k \in 0..n : g[k] = IF k = 0 THEN 0 ELSE g[k - 1] + SizeOf(k - 1)

LEMMA BeforeExists ==
  ASSUME NEW files \in Nat
  PROVE  \A n \in 0..files : \E g \in [0..n -> Nat] : Before(g, n)
<1> DEFINE Bad == {n \in 0..files : ~ \E g \in [0..n -> Nat] : Before(g, n)}
<1> SUFFICES ASSUME Bad # {} PROVE FALSE
  OBVIOUS
<1>1. PICK m \in Bad : \A k \in Bad : m =< k
  <2>1. Bad \in SUBSET Nat
    OBVIOUS
  <2> QED BY ONLY <2>1, Bad # {}, LeastElement
<1>2. m \in 1..files
  <2> SUFFICES ASSUME m = 0 PROVE FALSE
    OBVIOUS
  <2> DEFINE g == [k \in 0..0 |-> 0]
  <2>1. g \in [0..0 -> Nat] /\ Before(g, 0)
    BY DEF Before
  <2> QED BY <2>1
<1>3. PICK g \in [0..(m - 1) -> Nat] : Before(g, m - 1)
  <2>1. m - 1 \in 0..files /\ ~(m =< m - 1)
    BY <1>2
  <2>2. m - 1 \notin Bad
    <3> HIDE DEF Bad
    <3> QED BY <1>1, <2>1
  <2> QED BY <2>1, <2>2
<1> DEFINE h == [k \in 0..m |-> IF k < m THEN g[k] ELSE g[m - 1] + SizeOf(m - 1)]
<1>4. g[m - 1] \in Nat /\ SizeOf(m - 1) \in Nat
  BY <1>2, <1>3, SizesAreNaturals
<1>5. /\ h \in [0..m -> Nat]
      /\ h[m] = g[m - 1] + SizeOf(m - 1) /\ \A k \in 0..(m - 1) : h[k] = g[k]
  BY <1>2, <1>3, <1>4
<1>6. Before(h, m)
  <2> HIDE DEF h
  <2>1. ASSUME NEW k \in 0..m
        PROVE  h[k] = IF k = 0 THEN 0 ELSE h[k - 1] + SizeOf(k - 1)
    <3>1. CASE k = m
      BY <1>2, <1>5, <3>1
    <3>2. CASE k # m
      <4>1. k \in 0..(m - 1) /\ (k # 0 => k - 1 \in 0..(m - 1))
        BY <1>2, <3>2
      <4>2. g[k] = IF k = 0 THEN 0 ELSE g[k - 1] + SizeOf(k - 1)
        BY <1>3, <4>1 DEF Before
      <4> QED BY <1>5, <4>1, <4>2
    <3> QED BY <3>1, <3>2
  <2> QED BY <2>1 DEF Before
<1> QED BY <1>1, <1>5, <1>6

\* Completed is such a function.
LEMMA CompletedIsBefore ==
  ASSUME Files \in Nat
  PROVE  \E g \in [0..Files -> Nat] :
           /\ Before(g, Files)
           /\ \A k \in Nat : Completed(k) = g[IF k < Files THEN k ELSE Files]
<1> DEFINE Body(g, n) == IF n = 0 THEN 0 ELSE g[n - 1] + SizeOf(n - 1)
           f == CHOOSE f : f = [n \in 0..Files |-> Body(f, n)]
<1>1. PICK g \in [0..Files -> Nat] : Before(g, Files)
  BY BeforeExists
<1>2. g = [n \in 0..Files |-> Body(g, n)]
  BY <1>1 DEF Before
<1>3. f = [n \in 0..Files |-> Body(f, n)]
  BY <1>2
<1>4. \A k \in Nat : Completed(k) = f[IF k < Files THEN k ELSE Files]
  BY DEF Completed
<1> HIDE DEF f
<1>5. Before(f, Files)
  BY <1>3 DEF Before
<1> DEFINE D == {k \in 0..Files : f[k] # g[k]}
<1>6. D = {}
  <2> SUFFICES ASSUME D # {} PROVE FALSE
    OBVIOUS
  <2>1. PICK k \in D : \A j \in D : k =< j
    <3>1. D \in SUBSET Nat
      OBVIOUS
    <3> QED BY ONLY <3>1, D # {}, LeastElement
  <2>2. k # 0
    BY <1>1, <1>5 DEF Before
  <2>3. k - 1 \in 0..Files /\ ~(k =< k - 1)
    BY <2>2
  <2>4. k - 1 \notin D
    <3> HIDE DEF D
    <3> QED BY <2>1, <2>3
  <2>5. f[k - 1] = g[k - 1]
    BY <2>3, <2>4
  <2> QED BY <1>1, <1>5, <2>2, <2>5 DEF Before
<1>7. f \in [0..Files -> Nat]
  <2>1. \A k \in 0..Files : f[k] \in Nat
    BY <1>6
  <2>2. f = [n \in 0..Files |-> f[n]]
    BY <1>3
  <2> QED BY <2>1, <2>2
<1> QED BY <1>4, <1>5, <1>7

LEMMA BeforeGrows ==
  ASSUME NEW files \in Nat, NEW g \in [0..files -> Nat], Before(g, files),
         NEW j \in 0..files, NEW k \in 0..files, j =< k
  PROVE  g[j] =< g[k]
<1> DEFINE Bad == {n \in 0..files : j =< n /\ ~(g[j] =< g[n])}
<1> SUFFICES ASSUME Bad # {} PROVE FALSE
  OBVIOUS
<1>1. PICK m \in Bad : \A n \in Bad : m =< n
  <2>1. Bad \in SUBSET Nat
    OBVIOUS
  <2> QED BY ONLY <2>1, Bad # {}, LeastElement
<1>2. m \in 0..files /\ j < m /\ ~(g[j] =< g[m]) /\ g[j] \in Nat
  OBVIOUS
<1>3. m - 1 \in 0..files /\ j =< m - 1 /\ ~(m =< m - 1)
  BY <1>2
<1>4. g[j] =< g[m - 1]
  <2>1. m - 1 \notin Bad
    <3> HIDE DEF Bad
    <3> QED BY <1>1, <1>3
  <2> QED BY <1>3, <2>1
<1>5. g[m] = g[m - 1] + SizeOf(m - 1)
  <2>1. m # 0
    BY <1>2, <1>3
  <2> HIDE DEF Bad
  <2> QED BY <1>2, <2>1 DEF Before
<1>6. g[m - 1] \in Nat
  <2> HIDE DEF Bad
  <2> QED BY <1>3
<1>7. SizeOf(m - 1) \in Nat
  <2>1. m - 1 \in Nat
    BY <1>3
  <2> QED BY ONLY <2>1, SizesAreNaturals
<1> HIDE DEF Bad
<1> QED BY <1>2, <1>4, <1>5, <1>6, <1>7

\* Progress never goes back, and ends with everything.
LEMMA FractionsGrow ==
  ASSUME Files \in Nat
  PROVE  /\ Full \in Nat
         /\ \A k \in Nat : /\ Fraction(k) \in Nat /\ Fraction(k) =< Full
                           /\ Fraction(k) =< Fraction(k + 1)
<1>1. PICK g \in [0..Files -> Nat] :
        /\ Before(g, Files)
        /\ \A k \in Nat : Completed(k) = g[IF k < Files THEN k ELSE Files]
  BY CompletedIsBefore
<1>2. Total = g[Files] /\ Total \in Nat
  BY <1>1 DEF Total
<1>3. ASSUME NEW k \in Nat
      PROVE  /\ Completed(k) \in Nat /\ Completed(k) =< Total
             /\ Completed(k) =< Completed(k + 1)
  <2> DEFINE a == IF k < Files THEN k ELSE Files
             b == IF k + 1 < Files THEN k + 1 ELSE Files
  <2>1. a \in 0..Files /\ b \in 0..Files /\ a =< b
    OBVIOUS
  <2>2. Completed(k) = g[a] /\ Completed(k + 1) = g[b]
    BY <1>1
  <2> HIDE DEF a, b
  <2>3. g[a] =< g[b] /\ g[a] =< g[Files] /\ g[a] \in Nat
    BY <1>1, <2>1, BeforeGrows
  <2> QED BY <1>2, <2>2, <2>3
<1>4. \A k \in Nat : k + 1 \in Nat
  OBVIOUS
<1>5. CASE Total = 0
  BY <1>5 DEF Full, Fraction
<1>6. CASE Total # 0
  BY <1>2, <1>3, <1>4, <1>6 DEF Full, Fraction
<1> QED BY <1>5, <1>6

LEMMA FractionsStay ==
  ASSUME UNCHANGED pending
  PROVE  Full' = Full /\ \A k : Fraction(k)' = Fraction(k)
BY DEF Full, Fraction, Total, Completed, Files, SizeOf

----------------------------------------------------------------------------
(* What a close tells.                                                     *)

\* It begins with nothing and never goes back.
ToldOK ==
  /\ {"k", "hasProgress", "told", "asked", "cancel"} \subseteq DOMAIN write
  /\ write.k \in Nat
  /\ write.told \in Seq(Nat)
  /\ write.hasProgress => Len(write.told) > 0 /\ write.told[1] = 0
  /\ \A p \in 1..(Len(write.told) - 1) : write.told[p] =< write.told[p + 1]

\* Nothing told is beyond the checkpoint, or everything was told last.
Writing == {"in_start", "ask", "in_cancel", "tell", "in_progress", "end"}
AtMost(fraction) == \A p \in 1..Len(write.told) : write.told[p] =< fraction
ToldAll == Len(write.told) > 0 /\ write.told[Len(write.told)] = Full

ToldBy(t) ==
  calls[t].call = "close" =>
    /\ calls[t].step \in Writing => AtMost(Fraction(write.k))
    /\ calls[t].step = "in_end" => ToldAll
    /\ (/\ calls[t].step = "drop" /\ file = "new"
        /\ write.hasProgress /\ reg["progress"] # None)
         => ToldAll

\* Before a close has prepared itself there is no write.
CloseInv ==
  /\ ToldOK
  /\ \A t \in Threads : ToldBy(t)
  /\ open /\ write.hasProgress =>
       \E t \in Threads : /\ calls[t].call = "close"
                          /\ calls[t].step \notin {"decide", "prepare"}

LEMMA TellsMore ==
  ASSUME ToldOK, NEW x \in Nat, AtMost(x),
         write'.told = Append(write.told, x), write'.hasProgress = write.hasProgress,
         write'.k = write.k, DOMAIN write' = DOMAIN write
  PROVE  /\ ToldOK'
         /\ \A p \in 1..Len(write'.told) : write'.told[p] =< x
         /\ Len(write'.told) > 0 /\ write'.told[Len(write'.told)] = x
<1> DEFINE told == write.told
           new == write'.told
<1>1. /\ told \in Seq(Nat) /\ Len(told) \in Nat
      /\ new \in Seq(Nat) /\ Len(new) = Len(told) + 1
      /\ \A p \in 1..Len(told) : new[p] = told[p] /\ told[p] \in Nat
      /\ new[Len(told) + 1] = x
  BY AppendProperties, ElementOfSeq, LenProperties DEF ToldOK
<1>2. \A p \in 1..(Len(told) - 1) : told[p] =< told[p + 1]
  BY DEF ToldOK
<1>3. \A p \in 1..Len(told) : told[p] =< x
  BY DEF AtMost
<1>4. write.hasProgress => Len(told) > 0 /\ told[1] = 0
  BY DEF ToldOK
<1>5. {"k", "hasProgress", "told", "asked", "cancel"} \subseteq DOMAIN write' /\ write'.k \in Nat
  BY DEF ToldOK
<1> HIDE DEF told, new
<1>6. ASSUME NEW p \in 1..(Len(new) - 1) PROVE new[p] =< new[p + 1]
  <2>1. p \in 1..Len(told) /\ new[p] = told[p]
    BY <1>1
  <2>2. CASE p = Len(told)
    BY <1>1, <1>3, <2>1, <2>2
  <2>3. CASE p # Len(told)
    <3>1. p \in 1..(Len(told) - 1) /\ p + 1 \in 1..Len(told)
      BY <1>1, <2>1, <2>3
    <3>2. new[p + 1] = told[p + 1]
      BY <1>1, <3>1
    <3> QED BY <1>2, <2>1, <3>1, <3>2
  <2> QED BY <2>2, <2>3
<1>7. \A p \in 1..Len(new) : new[p] =< x
  BY <1>1, <1>3
<1>8. write.hasProgress => Len(new) > 0 /\ new[1] = 0
  BY <1>1, <1>4
<1> QED BY <1>1, <1>5, <1>6, <1>7, <1>8 DEF ToldOK, new

\* What no close does tells nothing, for no write is under way.
LEMMA OthersTellNothing ==
  ASSUME UserStatesInv, CloseInv, NEW t \in Threads,
         \A s \in Threads : ~Closing(s),
         \A s \in Threads : s # t => calls'[s] = calls[s],
         calls'[t].call = "close" => calls'[t].step = "decide",
         UNCHANGED <<write, file, open>>
  PROVE  CloseInv'
<1>1. \A s \in Threads : calls'[s].call = "close" => calls'[s].step = "decide"
  BY DEF Closing
<1>2. ~(open /\ write.hasProgress)
  BY DEF CloseInv, Closing
<1>3. \A s \in Threads : ToldBy(s)'
  BY <1>1 DEF ToldBy, Writing
<1>4. ToldOK'
  BY DEF CloseInv, ToldOK
<1> QED BY <1>2, <1>3, <1>4 DEF CloseInv

LEMMA CloseTells ==
  ASSUME UserStatesInv, SettersInv, StopInv, CloseInv, NEW t \in Threads,
         calls[t].call = "close",
         \/ Decide(t) \/ Prepare(t) \/ Started(t) \/ Ask(t) \/ Answered(t)
         \/ Tell(t) \/ Told(t) \/ Finish(t) \/ Finished(t)
  PROVE  CloseInv'
<1>1. /\ open /\ open' = open /\ UNCHANGED pending
      /\ calls = [s \in Threads |-> calls[s]]
      /\ {"call", "step"} \subseteq DOMAIN calls[t]
      /\ \A s \in Threads : s # t => calls[s] = Idle
  BY IdleIsWellFormed
     DEF UserStatesInv, TypesOK, WellFormed, GivenBack, Closing, Decide, Prepare, Started, Ask,
         Answered, Tell, Told, Finish, Finished
<1>2. /\ Full' = Full /\ \A k : Fraction(k)' = Fraction(k)
      /\ Full \in Nat
      /\ \A k \in Nat : /\ Fraction(k) \in Nat /\ Fraction(k) =< Full
                        /\ Fraction(k) =< Fraction(k + 1)
  <2>1. Files \in Nat
    BY SharedHandleAssumption DEF Files, SettersInv, PartsOK
  <2> QED BY <1>1, <2>1, FractionsStay, FractionsGrow
<1>3. ToldOK /\ ToldBy(t)
  BY DEF CloseInv
<1>4. ASSUME NEW step, Goes(t, step)
      PROVE  /\ calls'[t].call = "close" /\ calls'[t].step = step
             /\ \A s \in Threads : s # t => calls'[s] = Idle
  BY <1>1, <1>4 DEF Goes
<1>5. ASSUME NEW step, CallbackEnds(t, step)
      PROVE  /\ calls'[t].call = "close" /\ calls'[t].step = step
             /\ \A s \in Threads : s # t => calls'[s] = Idle
  BY <1>1, <1>5 DEF CallbackEnds
<1>6. ASSUME NEW step, NEW kind, CallsBack(t, step, kind)
      PROVE  /\ calls'[t].call = "close" /\ calls'[t].step = step
             /\ \A s \in Threads : s # t => calls'[s] = Idle
  BY <1>1, <1>6 DEF CallsBack
\* Only what this call has told matters.
<1>7. ASSUME ToldOK', ToldBy(t)', calls'[t].call = "close",
             \A s \in Threads : s # t => calls'[s] = Idle,
             write'.hasProgress => calls'[t].step \notin {"decide", "prepare"}
      PROVE  CloseInv'
  <2>1. ASSUME NEW s \in Threads PROVE ToldBy(s)'
    <3>1. s # t => calls'[s].call # "close"
      BY <1>7, IdleIsWellFormed
    <3> QED BY <1>7, <3>1 DEF ToldBy
  <2> QED BY <1>1, <1>7, <2>1 DEF CloseInv
<1>8. /\ AtMost(Fraction(write.k))' <=>
           \A p \in 1..Len(write'.told) : write'.told[p] =< Fraction(write'.k)
      /\ ToldAll' <=> Len(write'.told) > 0 /\ write'.told[Len(write'.told)] = Full
  BY <1>2 DEF AtMost, ToldAll
\* Steps that tell nothing.
<1>9. ASSUME write'.told = write.told, write'.hasProgress = write.hasProgress,
             write'.k = write.k \/ write'.k = write.k + 1, DOMAIN write' = DOMAIN write
      PROVE  /\ ToldOK'
             /\ ToldAll' <=> ToldAll
             /\ AtMost(Fraction(write.k)) => AtMost(Fraction(write.k))'
  <2>1. ToldOK'
    <3>1. write'.k \in Nat
      BY <1>3, <1>9 DEF ToldOK
    <3>2. /\ {"k", "hasProgress", "told", "asked", "cancel"} \subseteq DOMAIN write'
          /\ write'.told \in Seq(Nat)
          /\ write'.hasProgress => Len(write'.told) > 0 /\ write'.told[1] = 0
          /\ \A p \in 1..(Len(write'.told) - 1) : write'.told[p] =< write'.told[p + 1]
      BY <1>3, <1>9, Zenon DEF ToldOK
    <3> QED BY <3>1, <3>2 DEF ToldOK
  <2>2. ToldAll' <=> ToldAll
    BY <1>8, <1>9 DEF ToldAll
  <2>3. ASSUME AtMost(Fraction(write.k)) PROVE AtMost(Fraction(write.k))'
    <3>1. /\ Fraction(write.k) =< Fraction(write'.k)
          /\ Fraction(write.k) \in Nat /\ Fraction(write'.k) \in Nat
      <4>1. write.k \in Nat
        BY <1>3 DEF ToldOK
      <4>2. /\ Fraction(write.k) \in Nat /\ Fraction(write.k + 1) \in Nat
            /\ Fraction(write.k) =< Fraction(write.k + 1)
        BY <1>2, <4>1
      <4>3. CASE write'.k = write.k
        <5>1. Fraction(write'.k) = Fraction(write.k)
          BY <4>3
        <5> QED BY <4>2, <5>1
      <4>4. CASE write'.k = write.k + 1
        <5>1. Fraction(write'.k) = Fraction(write.k + 1)
          BY <4>4
        <5> QED BY <4>2, <5>1
      <4> QED BY <1>9, <4>3, <4>4
    <3>2. \A p \in 1..Len(write.told) : write.told[p] \in Nat
      BY <1>3, ElementOfSeq DEF ToldOK
    <3> QED BY <1>8, <1>9, <2>3, <3>1, <3>2 DEF AtMost
  <2> QED BY <2>1, <2>2, <2>3
<1>10. CASE Decide(t)
  <2>1. PICK step \in {"drop", "prepare"} : Goes(t, step)
    BY <1>10 DEF Decide
  <2>2. ~write.hasProgress /\ UNCHANGED write
    BY <1>1, <1>10, IdleIsWellFormed DEF CloseInv, Decide, At
  <2>3. ToldBy(t)' /\ ToldOK'
    BY <1>4, <1>9, <2>1, <2>2 DEF ToldBy, Writing
  <2> QED BY <1>4, <1>7, <2>1, <2>2, <2>3
<1>11. CASE Prepare(t)
  <2>1. ~write.hasProgress
    BY <1>1, <1>11, IdleIsWellFormed DEF CloseInv, Prepare, At
  <2>2. CASE Goes(t, "drop") /\ UNCHANGED write
    <3>1. ToldBy(t)' /\ ToldOK'
      BY <1>4, <1>9, <2>1, <2>2 DEF ToldBy, Writing
    <3> QED BY <1>4, <1>7, <2>1, <2>2, <3>1
  <2>3. CASE ~(Goes(t, "drop") /\ UNCHANGED write)
    <3>1. /\ write' = [NoWrite EXCEPT
                         !.hasProgress = (reg["progress"] # None),
                         !.hasCancel = (reg["cancel"] # None),
                         !.told = IF reg["progress"] # None THEN <<0>>
                                                            ELSE <<>>]
          /\ CallsBack(t, "in_start", "progress") \/ Goes(t, "ask")
      BY <1>11, <2>3, Zenon DEF Prepare
    <3>2. /\ DOMAIN write' = DOMAIN NoWrite
          /\ write'.hasProgress = (reg["progress"] # None) /\ write'.k = 0
          /\ write'.told = IF reg["progress"] # None THEN <<0>> ELSE <<>>
      BY <3>1 DEF NoWrite
    <3>3. /\ Len(<<0>>) = 1 /\ <<0>>[1] = 0 /\ <<0>> \in Seq(Nat)
          /\ Len(<<>>) = 0 /\ <<>> \in Seq(Nat)
      OBVIOUS
    <3>4. ToldOK'
      <4>1. {"k", "hasProgress", "told", "asked", "cancel"} \subseteq DOMAIN write'
        BY <3>2 DEF NoWrite
      <4>2. CASE reg["progress"] # None
        BY <3>2, <3>3, <4>1, <4>2 DEF ToldOK
      <4>3. CASE reg["progress"] = None
        <5>1. /\ write'.told = <<>> /\ Len(write'.told) = 0 /\ write'.told \in Seq(Nat)
              /\ write'.k \in Nat
          BY <3>2, <3>3, <4>3
        <5>3. ~write'.hasProgress
          BY <3>2, <4>3, Zenon
        <5>2. 1..(Len(write'.told) - 1) = {}
          BY <5>1
        <5> QED BY <4>1, <5>1, <5>2, <5>3 DEF ToldOK
      <4> QED BY <4>2, <4>3
    <3>5. AtMost(Fraction(write.k))'
      <4>1. Fraction(0) \in Nat
        BY <1>2
      <4>2. CASE reg["progress"] # None
        BY <1>8, <3>2, <3>3, <4>1, <4>2
      <4>3. CASE reg["progress"] = None
        BY <1>8, <3>2, <3>3, <4>1, <4>3
      <4> QED BY <4>2, <4>3
    <3>6. /\ calls'[t].call = "close" /\ calls'[t].step \in {"in_start", "ask"}
          /\ \A s \in Threads : s # t => calls'[s] = Idle
      BY <1>4, <1>6, <3>1
    <3> QED BY <1>7, <3>4, <3>5, <3>6 DEF ToldBy
  <2> QED BY <2>2, <2>3
\* Steps between two checkpoints.
<1>12. ASSUME NEW step \in {"ask", "in_cancel", "tell"},
              calls'[t].call = "close", calls'[t].step = step,
              \A s \in Threads : s # t => calls'[s] = Idle,
              calls[t].step \in Writing,
              write'.told = write.told, write'.hasProgress = write.hasProgress,
              write'.k = write.k, DOMAIN write' = DOMAIN write
       PROVE  CloseInv'
  BY <1>1, <1>3, <1>7, <1>9, <1>12 DEF ToldBy
<1>13. CASE Started(t) \/ Ask(t)
  <2>1. UNCHANGED write /\ calls[t].step \in {"in_start", "ask"}
    BY <1>13 DEF Started, Ask, At
  <2>2. \E step \in {"ask", "in_cancel", "tell"} :
          /\ calls'[t].call = "close" /\ calls'[t].step = step
          /\ \A s \in Threads : s # t => calls'[s] = Idle
    BY <1>4, <1>5, <1>6, <1>13 DEF Started, Ask
  <2> QED BY <1>12, <2>1, <2>2 DEF Writing
<1>14. CASE Answered(t)
  <2>1. PICK answer \in BOOLEAN :
          write' = [write EXCEPT !.cancel = answer, !.asked = @ \/ answer]
    BY <1>14 DEF Answered
  <2>2. /\ write'.told = write.told /\ write'.hasProgress = write.hasProgress
        /\ write'.k = write.k /\ DOMAIN write' = DOMAIN write
    BY <1>3, <2>1 DEF ToldOK
  <2>3. calls[t].step = "in_cancel" /\ CallbackEnds(t, "tell")
    BY <1>14 DEF Answered
  <2> QED BY <1>5, <1>12, <2>2, <2>3 DEF Writing
\* A checkpoint is passed: a write that is asked to stop has written nothing.
<1>15. ASSUME PassesOn, calls'[t].call = "close", calls'[t].step = NextStep,
              \A s \in Threads : s # t => calls'[s] = Idle,
              calls[t].step \in {"tell", "in_progress"}, UNCHANGED file
       PROVE  CloseInv'
  <2>1. /\ write'.told = write.told /\ write'.hasProgress = write.hasProgress
        /\ write'.k = write.k + 1 /\ DOMAIN write' = DOMAIN write
    BY <1>3, <1>15 DEF ToldOK, PassesOn
  <2>2. NextStep = "drop" => file = "old"
    BY DEF NextStep, StopInv
  <2>3. NextStep \in {"drop", "end", "ask"}
    BY DEF NextStep
  <2>4. AtMost(Fraction(write.k))
    BY <1>1, <1>3, <1>15 DEF ToldBy, Writing
  <2>5. ToldOK' /\ AtMost(Fraction(write.k))'
    BY <1>9, <2>1, <2>4
  <2>6. ToldBy(t)'
    BY <1>15, <2>2, <2>3, <2>5 DEF ToldBy
  <2> QED BY <1>7, <1>15, <2>3, <2>5, <2>6
<1>16. CASE Tell(t)
  <2>1. calls[t].step = "tell" /\ UNCHANGED file
    BY <1>16 DEF Tell, At
  <2>2. CASE Tells
    <3>1. /\ CallsBack(t, "in_progress", "progress")
          /\ write' = [write EXCEPT !.last = Fraction(write.k),
                                    !.told = Append(@, Fraction(write.k))]
      BY <1>16, <2>2 DEF Tell
    <3>2. /\ write'.told = Append(write.told, Fraction(write.k))
          /\ write'.hasProgress = write.hasProgress
          /\ write'.k = write.k /\ DOMAIN write' = DOMAIN write
      BY <1>3, <3>1 DEF ToldOK
    <3>3. AtMost(Fraction(write.k)) /\ Fraction(write.k) \in Nat
      BY <1>1, <1>2, <1>3, <2>1 DEF ToldBy, ToldOK, Writing
    <3>4. ToldOK' /\ AtMost(Fraction(write.k))'
      BY <1>3, <1>8, <3>2, <3>3, TellsMore
    <3>5. /\ calls'[t].call = "close" /\ calls'[t].step = "in_progress"
          /\ \A s \in Threads : s # t => calls'[s] = Idle
      BY <1>6, <3>1
    <3> QED BY <1>7, <3>4, <3>5 DEF ToldBy
  <2>3. CASE ~Tells
    <3>1. PassesOn /\ Goes(t, NextStep)
      BY <1>16, <2>3 DEF Tell
    <3> QED BY <1>4, <1>15, <2>1, <3>1
  <2> QED BY <2>2, <2>3
<1>17. CASE Told(t)
  <2>1. /\ PassesOn /\ CallbackEnds(t, NextStep)
        /\ calls[t].step = "in_progress" /\ UNCHANGED file
    BY <1>17 DEF Told
  <2> QED BY <1>5, <1>15, <2>1
<1>18. CASE Finish(t)
  <2>1. calls[t].step = "end" /\ UNCHANGED reg
    BY <1>18 DEF Finish, At
  <2>2. CASE write.hasProgress /\ reg["progress"] # None
    <3>1. /\ CallsBack(t, "in_end", "progress")
          /\ write' = [write EXCEPT !.told = Append(@, Full)]
      BY <1>18, <2>2 DEF Finish
    <3>2. /\ write'.told = Append(write.told, Full)
          /\ write'.hasProgress = write.hasProgress
          /\ write'.k = write.k /\ DOMAIN write' = DOMAIN write
      BY <1>3, <3>1 DEF ToldOK
    <3>3. AtMost(Full)
      <4>1. AtMost(Fraction(write.k)) /\ Fraction(write.k) =< Full /\ Fraction(write.k) \in Nat
        BY <1>1, <1>2, <1>3, <2>1 DEF ToldBy, ToldOK, Writing
      <4>2. \A p \in 1..Len(write.told) : write.told[p] \in Nat
        BY <1>3, ElementOfSeq DEF ToldOK
      <4> QED BY <1>2, <4>1, <4>2 DEF AtMost
    <3>4. ToldOK' /\ ToldAll'
      BY <1>2, <1>3, <1>8, <3>2, <3>3, TellsMore
    <3>5. /\ calls'[t].call = "close" /\ calls'[t].step = "in_end"
          /\ \A s \in Threads : s # t => calls'[s] = Idle
      BY <1>6, <3>1
    <3> QED BY <1>7, <3>4, <3>5 DEF ToldBy, Writing
  <2>3. CASE ~(write.hasProgress /\ reg["progress"] # None)
    <3>1. Goes(t, "drop") /\ UNCHANGED <<write, reg>>
      BY <1>18, <2>3 DEF Finish
    <3>2. ToldOK' /\ ToldBy(t)'
      BY <1>4, <1>9, <2>3, <3>1 DEF ToldBy, Writing
    <3> QED BY <1>4, <1>7, <3>1, <3>2
  <2> QED BY <2>2, <2>3
<1>19. CASE Finished(t)
  <2>1. calls[t].step = "in_end" /\ CallbackEnds(t, "drop") /\ UNCHANGED write
    BY <1>19 DEF Finished
  <2>2. ToldOK' /\ ToldAll'
    BY <1>1, <1>3, <1>9, <2>1 DEF ToldBy
  <2>3. ToldBy(t)'
    BY <1>5, <2>1, <2>2 DEF ToldBy, Writing
  <2> QED BY <1>5, <1>7, <2>1, <2>2, <2>3
<1> QED BY <1>10, <1>11, <1>13, <1>14, <1>16, <1>17, <1>18, <1>19

\* What no close does begins none that has decided to write.
LEMMA OthersGoOn ==
  ASSUME UserStatesInv, NEW t \in Threads,
         \/ CheckIndex(t) \/ StageComment(t) \/ ShowComment(t)
         \/ StageArchiveComment(t) \/ ShowArchiveComment(t)
         \/ StageMeta(t) \/ Add(t)
         \/ CheckCount(t) \/ StageField(t) \/ ShowFields(t)
         \/ LoadFlags(t) \/ CheckNothingStaged(t) \/ StoreFlags(t)
         \/ SetWritePassword(t) \/ SetReadPassword(t)
         \/ Unchange(t) \/ UnchangeAll(t) \/ UnchangeArchive(t)
         \/ RevertFlags(t) \/ RevertArchiveComment(t)
         \/ RegisterProgress(t) \/ RegisterCancel(t)
  PROVE  /\ calls'[t].call # "close"
         /\ \A s \in Threads : s # t => calls'[s] = calls[s]
<1>1. /\ calls = [s \in Threads |-> calls[s]]
      /\ {"call", "step"} \subseteq DOMAIN calls[t]
      /\ calls[t].call # "close"
  BY OtherSteps DEF UserStatesInv, TypesOK, WellFormed, Closing
<1>2. ASSUME NEW step, Goes(t, step)
      PROVE  /\ calls'[t].call # "close"
             /\ \A s \in Threads : s # t => calls'[s] = calls[s]
  BY <1>1, <1>2 DEF Goes
<1>3. ASSUME Returns(t)
      PROVE  /\ calls'[t].call # "close"
             /\ \A s \in Threads : s # t => calls'[s] = calls[s]
  BY <1>1, <1>3, IdleIsWellFormed DEF Returns
<1>4. CASE LoadFlags(t)
  <2>1. CASE ~Returns(t)
    <3>1. PICK step : calls' = [calls EXCEPT ![t] =
                        [call |-> calls[t].call, flag |-> calls[t].flag, v |-> calls[t].v,
                         new |-> WithFlag(chAfl, calls[t]), step |-> step]]
      BY <1>4, <2>1 DEF LoadFlags
    <3> QED BY <1>1, <3>1
  <2> QED BY <1>3, <2>1
<1>5. CASE CheckIndex(t) \/ CheckCount(t) \/ CheckNothingStaged(t)
  <2>1. (\E step : Goes(t, step)) \/ Returns(t)
    BY <1>5 DEF CheckIndex, CheckCount, CheckNothingStaged
  <2> QED BY <1>2, <1>3, <2>1
<1>6. CASE \/ StageComment(t) \/ StageArchiveComment(t) \/ StageField(t)
           \/ SetWritePassword(t)
  <2>1. \E step : Goes(t, step)
    BY <1>6 DEF StageComment, StageArchiveComment, StageField, SetWritePassword
  <2> QED BY <1>2, <2>1
<1>7. CASE Unchange(t) \/ UnchangeAll(t) \/ UnchangeArchive(t) \/ RevertFlags(t)
  <2>1. (\E step : Goes(t, step)) \/ Returns(t)
    BY <1>7 DEF Unchange, UnchangeAll, UnchangeArchive, RevertFlags
  <2> QED BY <1>2, <1>3, <2>1
<1>8. CASE \/ ShowComment(t) \/ ShowArchiveComment(t) \/ StageMeta(t) \/ Add(t)
           \/ ShowFields(t) \/ StoreFlags(t) \/ SetReadPassword(t)
           \/ RevertArchiveComment(t) \/ RegisterProgress(t) \/ RegisterCancel(t)
  <2>1. Returns(t)
    BY <1>8 DEF ShowComment, ShowArchiveComment, StageMeta, Add, ShowFields, StoreFlags,
                SetReadPassword, RevertArchiveComment, RegisterProgress, RegisterCancel,
                Registers
  <2> QED BY <1>3, <2>1
<1> QED BY <1>4, <1>5, <1>6, <1>7, <1>8

LEMMA CloseInvKept ==
  UserStatesInv /\ SettersInv /\ StopInv /\ CloseInv /\ [Next]_vars => CloseInv'
<1> SUFFICES ASSUME UserStatesInv, SettersInv, StopInv, CloseInv, [Next]_vars
             PROVE  CloseInv'
  OBVIOUS
<1>1. CASE UNCHANGED vars
  <2>1. UNCHANGED <<calls, write, pending, reg, open, file>>
    BY <1>1 DEF vars
  <2>2. ToldOK'
    BY <2>1 DEF CloseInv, ToldOK
  <2>3. /\ \A k : Fraction(k)' = Fraction(k)
        /\ Full' = Full
    BY <2>1, FractionsStay
  <2>4. ASSUME NEW t \in Threads PROVE ToldBy(t)'
    BY <2>1, <2>3 DEF CloseInv, ToldBy, AtMost, ToldAll
  <2> QED BY <2>1, <2>2, <2>4 DEF CloseInv
<1>2. ASSUME NEW t \in Threads, NEW c, c.call = "close" => c.step = "decide", Begin(t, c)
      PROVE  CloseInv'
  <2>1. /\ \A s \in Threads : ~Closing(s)
        /\ calls' = [calls EXCEPT ![t] = c] /\ calls = [s \in Threads |-> calls[s]]
        /\ UNCHANGED <<write, file, open>>
    BY <1>2 DEF Begin, Closing, UserStatesInv, TypesOK, Idle
  <2>2. calls'[t] = c /\ \A s \in Threads : s # t => calls'[s] = calls[s]
    BY <2>1
  <2> QED BY <1>2, <2>1, <2>2, OthersTellNothing
<1>3. ASSUME NEW t \in Threads,
             \/ BeginSetter(t) \/ BeginFieldSetter(t) \/ BeginRevert(t)
             \/ BeginRegister(t) \/ BeginClose(t)
      PROVE  \E c : Begin(t, c) /\ (c.call = "close" => c.step = "decide")
  <2>1. CASE BeginSetter(t)
    <3>1. PICK c \in SettersOf : Begin(t, c)
      BY <2>1 DEF BeginSetter
    <3>2. c.call # "close"
      BY DEF SettersOf
    <3> QED BY <3>1, <3>2
  <2>2. CASE BeginFieldSetter(t)
    <3>1. PICK c \in FieldSettersOf : Begin(t, c)
      BY <2>2 DEF BeginFieldSetter
    <3>2. c.call # "close"
      <4>1. CASE \E id \in FieldIds :
                   c \in [call : {"extra_field_set"}, step : {"check"},
                         i : Index, id : {id}, at : FieldIndexes \cup {All},
                         data : Datas, refused : {(id \in Internal)}]
        BY <4>1
      <4>2. CASE \E ids, datas :
                   c \in [call : {"extra_field_delete", "extra_field_delete_by_id"},
                         step : {"check"}, i : Index, id : ids,
                         at : FieldIndexes \cup {All}, data : datas, refused : {FALSE}]
        BY <4>2
      <4> QED BY <3>1, <4>1, <4>2, Zenon DEF FieldSettersOf
    <3> QED BY <3>1, <3>2
  <2>3. CASE BeginRevert(t)
    <3>1. PICK c \in RevertsOf : Begin(t, c)
      BY <2>3 DEF BeginRevert
    <3>2. c.call # "close"
      BY DEF RevertsOf
    <3> QED BY <3>1, <3>2
  <2>4. CASE BeginRegister(t)
    BY <2>4 DEF BeginRegister
  <2>5. CASE BeginClose(t)
    BY <2>5 DEF BeginClose
  <2> QED BY <1>3, <2>1, <2>2, <2>3, <2>4, <2>5
<1>4. ASSUME NEW t \in Threads, Step(t) PROVE CloseInv'
  <2>1. CASE Drop(t)
    <3>1. /\ ~open' /\ UNCHANGED write
          /\ calls[t].call \in {"close", "discard"} /\ Returns(t)
      BY <2>1 DEF Drop
    <3>2. \A s \in Threads : calls'[s] = Idle
      BY <3>1 DEF Returns, UserStatesInv, GivenBack, TypesOK, Closing
    <3>3. \A s \in Threads : ToldBy(s)'
      BY <3>2, IdleIsWellFormed DEF ToldBy
    <3>4. ToldOK'
      BY <3>1 DEF CloseInv, ToldOK
    <3> QED BY <3>1, <3>3, <3>4 DEF CloseInv
  <2>2. CASE \/ Decide(t) \/ Prepare(t) \/ Started(t) \/ Ask(t) \/ Answered(t)
             \/ Tell(t) \/ Told(t) \/ Finish(t) \/ Finished(t)
    <3>1. calls[t].call = "close" \/ calls[t].step \in CallbackSteps
      BY <2>2
         DEF Decide, Prepare, Started, Ask, Answered, Tell, Told, Finish,
             Finished, At, CallbackSteps
    <3>2. calls[t].call = "close"
      BY <3>1 DEF UserStatesInv, TypesOK, WellFormed
    <3> QED BY <2>2, <3>2, CloseTells
  <2>3. CASE \/ CheckIndex(t) \/ StageComment(t) \/ ShowComment(t)
             \/ StageArchiveComment(t) \/ ShowArchiveComment(t)
             \/ StageMeta(t) \/ Add(t)
             \/ CheckCount(t) \/ StageField(t) \/ ShowFields(t)
             \/ LoadFlags(t) \/ CheckNothingStaged(t) \/ StoreFlags(t)
             \/ SetWritePassword(t) \/ SetReadPassword(t)
             \/ Unchange(t) \/ UnchangeAll(t) \/ UnchangeArchive(t)
             \/ RevertFlags(t) \/ RevertArchiveComment(t)
             \/ RegisterProgress(t) \/ RegisterCancel(t)
    <3>1. calls[t] # Idle /\ ~Closing(t) /\ UNCHANGED <<write, file, open>>
      BY <2>3, OtherSteps
    <3>2. \A s \in Threads : ~Closing(s)
      BY <3>1 DEF UserStatesInv, GivenBack
    <3>3. /\ calls'[t].call # "close"
          /\ \A s \in Threads : s # t => calls'[s] = calls[s]
      BY <2>3, OthersGoOn
    <3> QED BY <3>1, <3>2, <3>3, OthersTellNothing
  <2> QED BY <1>4, <2>1, <2>2, <2>3 DEF Step
<1> QED BY <1>1, <1>2, <1>3, <1>4 DEF Next

LEMMA CloseInvStarts == Init => CloseInv
<1> SUFFICES ASSUME Init PROVE CloseInv
  OBVIOUS
<1>1. \A t \in Threads : calls[t] = Idle
  BY DEF Init
<1>2. write = NoWrite
  BY DEF Init
<1>3. write.k = 0 /\ write.told = <<>> /\ ~write.hasProgress
  BY <1>2 DEF NoWrite
<1>4. {"k", "hasProgress", "told", "asked", "cancel"} \subseteq DOMAIN write
  BY <1>2 DEF NoWrite
<1>5. write.told \in Seq(Nat) /\ 1..(Len(write.told) - 1) = {}
  BY <1>3
<1>6. ToldOK
  BY <1>3, <1>4, <1>5 DEF ToldOK
<1>7. \A t \in Threads : ToldBy(t)
  BY <1>1, IdleIsWellFormed DEF ToldBy
<1> QED BY <1>3, <1>6, <1>7 DEF CloseInv

\* An answer to stop holds, progress never goes back, and a write whose
\* progress callback is there from first to last tells it that it began with
\* nothing and ended with everything: for any entries of any sizes, whatever
\* the callbacks answer and register.
THEOREM CloseAlwaysKeepsItsWord == Spec => []CloseKeepsItsWord
<1>1. UserStatesInv /\ StopInv /\ CloseInv => CloseKeepsItsWord
  <2> SUFFICES ASSUME StopInv, CloseInv PROVE CloseKeepsItsWord
    OBVIOUS
  <2>1. StoppedWritesNothing
    BY DEF StopInv, StoppedWritesNothing
  <2>2. \A p \in 1..(Len(write.told) - 1) : write.told[p] =< write.told[p + 1]
    BY DEF CloseInv, ToldOK
  <2>3. ASSUME NEW t \in Threads, At(t, "close", "drop"), file = "new",
               write.hasProgress, reg["progress"] # None
        PROVE  write.told[1] = 0 /\ Last(write.told) = Full
    BY <2>3 DEF CloseInv, ToldOK, ToldBy, ToldAll, At, Last
  <2> QED BY <2>1, <2>2, <2>3 DEF CloseKeepsItsWord
<1>2. Init => StopInv
  BY DEF Init, StopInv, NoWrite
<1> QED BY <1>1, <1>2, CloseInvStarts, CloseInvKept, UserStatesStart, UserStatesKeep,
           SettersStart, SettersInvKept, StopKeeps, PTL DEF Spec
=============================================================================
