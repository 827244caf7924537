--------------------------- MODULE CapabilityLedger ---------------------------
(***************************************************************************)
(* What the staff promises about sessions and capabilities, whatever its   *)
(* threads do: a number is drawn once and becomes at most one session or   *)
(* one grant; a grant belongs to an open session and ends with it; a grant *)
(* is paid out at most once, and only while it stands.                     *)
(***************************************************************************)
EXTENDS Naturals

VARIABLES
  next,      \* the next number to draw
  drawn,     \* numbers drawn for a session or a grant that is not open yet
  sessions,  \* the open sessions
  grants,    \* the standing grants: records of an id and its session
  paid       \* ids of the grants whose actuation is under way

vars == <<next, drawn, sessions, grants, paid>>

\* Nothing is under way; sessions and grants may be handed over.
Init ==
  /\ next \in Nat /\ drawn = {} /\ paid = {}
  /\ \A i \in sessions \cup {g.id : g \in grants} : i < next
  /\ \A g \in grants : g.session \in sessions

\* A number leaves the counter, for good; it may be for something else.
\* Grants that have expired by then may be dropped in the same step.
Draw ==
  /\ next' = next + 1
  /\ drawn' \in {drawn, drawn \cup {next}}
  /\ grants' \subseteq grants
  /\ UNCHANGED <<sessions, paid>>

\* A request is refused: what it had drawn or paid out is forgotten.  A step
\* that forgets nothing only drops grants that have expired.
Abandon ==
  /\ drawn' \subseteq drawn /\ paid' \subseteq paid
  /\ grants' \subseteq grants
  /\ UNCHANGED <<next, sessions>>

Open ==
  \E i \in drawn :
    /\ drawn' = drawn \ {i} /\ sessions' = sessions \cup {i}
    /\ UNCHANGED <<next, grants, paid>>

Grant ==
  \E i \in drawn, k \in sessions :
    /\ drawn' = drawn \ {i}
    /\ grants' = grants \cup {[id |-> i, session |-> k]}
    /\ UNCHANGED <<next, sessions, paid>>

\* Others may have expired by then too.
Pay ==
  \E g \in grants :
    /\ grants' \subseteq grants \ {g}
    /\ paid' = paid \cup {g.id}
    /\ UNCHANGED <<next, drawn, sessions>>

Close ==
  \E k \in sessions :
    /\ sessions' = sessions \ {k}
    /\ grants' = {g \in grants : g.session # k}
    /\ UNCHANGED <<next, drawn, paid>>

\* A rotation, or a restart of the process, ends everything at once.
EndAll ==
  /\ sessions' = {} /\ grants' = {}
  /\ drawn' \subseteq drawn /\ paid' \subseteq paid
  /\ next' \in {next, next + 1}

Next == Draw \/ Abandon \/ Open \/ Grant \/ Pay \/ Close \/ EndAll

Spec == Init /\ [][Next]_vars

------------------------------------------------------------------------------

\* A paid number can be neither granted nor drawn again, and a grant never
\* outlives its session.
LedgerInv ==
  /\ \A g \in grants : g.session \in sessions /\ g.id \notin paid \cup drawn
  /\ \A g, h \in grants : g.id = h.id => g = h
  /\ \A i \in drawn \cup sessions \cup paid : i < next
  /\ \A g \in grants : g.id < next
  /\ drawn \cap (sessions \cup paid) = {}
  /\ sessions \cap paid = {}
==============================================================================
