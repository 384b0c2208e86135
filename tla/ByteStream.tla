------------------------------ MODULE ByteStream ------------------------------
(***************************************************************************)
(* What any reader of one entry promises its client: the entry's bytes,    *)
(* each once and in order; a clean end only where an intact entry ends;    *)
(* once an error has been told, no byte more.  A client that seeks gives   *)
(* up the check of the whole, not the order.                               *)
(***************************************************************************)
EXTENDS Naturals

VARIABLES
  content,  \* the entry: its length, and whether it is what was archived
  pos,      \* how many of its bytes lie behind the client
  phase,    \* "open", "ended", "failed", or "unchecked" once it has seeked
  answer    \* what the latest call returned; bytes by their place, from .. to

vars == <<content, pos, phase, answer>>

Says(kind) == [kind |-> kind, from |-> 0, to |-> 0]

Init ==
  /\ content \in [length : Nat, intact : BOOLEAN]
  /\ pos = 0
  /\ phase = "open"
  /\ answer = Says("none")

\* An empty buffer is filled at any time.
Deliver ==
  \E to \in pos .. content.length :
    /\ phase \in {"open", "unchecked"} \/ to = pos
    /\ pos' = to
    /\ answer' = [kind |-> "bytes", from |-> pos, to |-> to]
    /\ UNCHANGED <<content, phase>>

End ==
  /\ phase \in {"open", "unchecked"} => pos = content.length
  /\ phase = "open" => content.intact
  /\ phase' = IF phase = "open" THEN "ended" ELSE phase
  /\ answer' = Says("end")
  /\ UNCHANGED <<content, pos>>

\* What a failing call had consumed is lost.
Fail ==
  /\ phase # "ended"
  /\ phase' = "failed"
  /\ pos' \in pos .. content.length
  /\ answer' = Says("error")
  /\ UNCHANGED content

Seek ==
  /\ phase' = "unchecked"
  /\ pos' \in 0 .. content.length
  /\ answer' = Says("none")
  /\ UNCHANGED content

RefuseSeek ==
  /\ answer' = Says("refused")
  /\ UNCHANGED <<content, pos, phase>>

Next == Deliver \/ End \/ Fail \/ Seek \/ RefuseSeek

Spec == Init /\ [][Next]_vars
=============================================================================
