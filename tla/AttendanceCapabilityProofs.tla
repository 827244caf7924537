---------------------- MODULE AttendanceCapabilityProofs ----------------------
(***************************************************************************)
(* What AttendanceStaff promises about capabilities, for every instance:   *)
(* each is spent once, and only while its attendance is registered.  With  *)
(* the numbers that name sessions it implements CapabilityLedger.          *)
(***************************************************************************)
EXTENDS AttendanceProofs

\* The thread has drawn a number for a token it has not stored yet.
InFlight(t) == pc[t] \in {"token", "signer", "sign", "store"}

\* The thread is about to tell its client of a capability it has stored.
Granted(t) == req[t].op = "capability.mint" /\ pc[t] \in Answer

\* The thread serves a request that presents a capability.
Presents(t) ==
  pc[t] # "idle" /\ req[t].op \in {"capability.consume", "pin.change"}

\* Where the handlers that mint, spend and sign can be.
FlowInv ==
  \A t \in Thread :
    /\ req[t].op = "capability.consume" =>
         pc[t] \in {"idle", "bound", "lookup", "spend", "sent"}
    /\ req[t].op = "capability.mint" =>
         pc[t] \in {"idle", "consume", "bound", "lookup", "claims", "token",
                    "signer", "sign", "store"} \cup Answer
    /\ pc[t] \in {"derive", "compare", "claims", "token", "signer", "sign",
                  "store"} =>
         req[t].op \in {"session.mint", "capability.mint"}
    /\ pc[t] = "spend" => req[t].op \in {"capability.consume", "pin.change"}

\* A number in flight is nobody else's: not registered, spent, or told.
NumbersInv ==
  \A t \in Thread : InFlight(t) =>
    /\ req[t].id < fresh
    /\ \A c \in capabilities : c.id # req[t].id
    /\ \A k \in known.capability : k # req[t].id
    /\ \A u \in Thread \ {t} :
         /\ InFlight(u) => req[u].id # req[t].id
         /\ HoldsSpent(u) => req[u].cap # req[t].id
         /\ Granted(u) => req[u].id # req[t].id

\* Every number that is registered, spent or told is below the counter, and
\* a client presents only what it was told.
ToldInv ==
  /\ \A c \in capabilities : c.id < fresh
  /\ \A k \in known.capability : k < fresh
  /\ \A t \in Thread :
       /\ HoldsSpent(t) => req[t].cap < fresh
       /\ Granted(t) => req[t].id < fresh
       /\ Presents(t) => req[t].cap \in known.capability

CapabilityInv ==
  /\ FlowInv /\ NumbersInv /\ ToldInv
  /\ CapabilitySpentOnce /\ SpendNeedsLiveSession

------------------------------------------------------------------------------

\* A local number changes only when one is drawn.
LEMMA NumberKept ==
  ASSUME TypeOK, NEW t \in Thread, Step(t), ~Claims(t), ~ChallengeMint(t)
  PROVE  Ends(t) \/ req'[t].id = req[t].id
<1>1. \A s : [req[t] EXCEPT !.seat = s].id = req[t].id
  BY ReqType DEF Request
<1>2. \A s : [req[t] EXCEPT !.old = s].id = req[t].id
  BY ReqType DEF Request
<1>3. \A k : [req[t] EXCEPT !.key = k].id = req[t].id
  BY ReqType DEF Request
<1>4. \A k : [req[t] EXCEPT !.epoch = k].id = req[t].id
  BY ReqType DEF Request
<1>5. ASSUME NEW l, NEW r, Go(t, l, r),
             r.id = req[t].id \/ (l = "idle" /\ r = Idle)
      PROVE  Ends(t) \/ req'[t].id = req[t].id
  BY <1>5, GoFrame DEF Ends
<1>6. ASSUME NEW l, Go(t, l, req[t])
      PROVE  Ends(t) \/ req'[t].id = req[t].id
  BY <1>6, GoFrame
<1>7. ASSUME Refuse(t)
      PROVE  Ends(t) \/ req'[t].id = req[t].id
  BY <1>5, <1>7 DEF Refuse
<1>8. CASE CheckBound(t)
  BY <1>8, <1>6, <1>7 DEF CheckBound
<1>9. CASE Consume(t)
  BY <1>9, <1>6, <1>7 DEF Consume
<1>10. CASE Lookup(t)
  BY <1>10, <1>6, <1>7 DEF Lookup
<1>11. CASE Store(t)
  BY <1>11, <1>6, <1>7 DEF Store
<1>12. CASE SessionClear(t)
  BY <1>12, <1>6, <1>7 DEF SessionClear
<1>13. CASE Spend(t)
  BY <1>13, <1>6, <1>7 DEF Spend
<1>14. CASE Derive(t)
  BY <1>14, <1>6, <1>7 DEF Derive
<1>15. CASE Compare(t)
  BY <1>15, <1>6, <1>7 DEF Compare
<1>16. CASE TokenBound(t)
  BY <1>16, <1>6, <1>7 DEF TokenBound
<1>17. CASE KeymanCheck(t)
  BY <1>17, <1>6, <1>7 DEF KeymanCheck
<1>18. CASE KeymanRewrite(t)
  BY <1>18, <1>6, <1>7 DEF KeymanRewrite
<1>19. CASE Void(t)
  BY <1>19, <1>6, <1>7 DEF Void
<1>20. CASE Stale(t)
  BY <1>20, <1>6, <1>7 DEF Stale
<1>21. CASE Zero(t)
  BY <1>21, <1>6, <1>7 DEF Zero
<1>22. CASE Erase(t)
  BY <1>22, <1>6, <1>7 DEF Erase
<1>23. CASE WriteSigner(t)
  BY <1>23, <1>6, <1>7 DEF WriteSigner
<1>24. CASE WritePublic(t)
  BY <1>24, <1>6, <1>7 DEF WritePublic
<1>25. CASE WriteEpoch(t)
  BY <1>25, <1>6, <1>7 DEF WriteEpoch
<1>26. CASE WritePosture(t)
  BY <1>26, <1>6, <1>7 DEF WritePosture, RebindFailed
<1>27. CASE ReplyBound(t)
  BY <1>27, <1>6, <1>7 DEF ReplyBound
<1>28. CASE TokenSigner(t)
  BY <1>28, <1>1, <1>5, <1>7 DEF TokenSigner
<1>29. CASE BindDerived(t)
  BY <1>29, <1>1, <1>5, <1>7 DEF BindDerived
<1>30. CASE Unseat(t)
  BY <1>30, <1>2, <1>5, <1>7 DEF Unseat
<1>31. CASE Rebind(t)
  BY <1>31, <1>2, <1>5, <1>7 DEF Rebind
<1>32. CASE Sign(t)
  <2>1. \/ Refuse(t)
        \/ \E k : Go(t, "store", [req[t] EXCEPT !.key = k])
    BY <1>32 DEF Sign
  <2>. QED
    BY <2>1, <1>3, <1>5, <1>7
<1>33. CASE ReplyPublic(t)
  BY <1>33, <1>3, <1>5, <1>7 DEF ReplyPublic
<1>34. CASE ReplyEpoch(t)
  BY <1>34, <1>4, <1>5, <1>7 DEF ReplyEpoch
<1>35. CASE SigningStatus(t)
  BY <1>35, <1>5, <1>6 DEF SigningStatus
<1>36. CASE Deliver(t)
  BY <1>36, <1>5, <1>6 DEF Deliver
<1>. QED
  BY <1>8, <1>9, <1>10, <1>11, <1>12, <1>13, <1>14, <1>15, <1>16, <1>17,
     <1>18, <1>19, <1>20, <1>21, <1>22, <1>23, <1>24, <1>25, <1>26, <1>27,
     <1>28, <1>29, <1>30, <1>31, <1>32, <1>33, <1>34, <1>35, <1>36
  DEF Step

LEMMA FlowInvStep ==
  ASSUME TypeInv, FlowInv, NEW t \in Thread, Step(t)
  PROVE  FlowInv'
<1>. USE DEF TypeInv
<1>1. CASE Ends(t)
  BY <1>1, StepFrame DEF FlowInv, Ends, Idle
<1>2. CASE SameRequest(req'[t], req[t])
  <2>1. req[t].op = "capability.consume" =>
          pc'[t] \in {"idle", "bound", "lookup", "spend", "sent"}
    BY StepFlow, StepFrame DEF FlowInv, Flow, AfterLookup, Rotation, Answer
  <2>2. req[t].op = "capability.mint" =>
          pc'[t] \in {"idle", "consume", "bound", "lookup", "claims", "token",
                     "signer", "sign", "store"} \cup Answer
    BY StepFlow, StepFrame DEF FlowInv, Flow, AfterLookup, Rotation, Answer
  <2>3. pc'[t] \in {"derive", "compare", "claims", "token", "signer", "sign",
                  "store"} => req[t].op \in {"session.mint", "capability.mint"}
    BY StepFlow, StepFrame DEF FlowInv, Flow, AfterLookup, Rotation, Answer
  <2>4. pc'[t] = "spend" => req[t].op \in {"capability.consume", "pin.change"}
    BY StepFlow, StepFrame DEF FlowInv, Flow, AfterLookup, Rotation, Answer
  <2>. QED
    BY <1>2, <2>1, <2>2, <2>3, <2>4, StepFrame DEF FlowInv, SameRequest
<1>. QED
  BY <1>1, <1>2, StepFrame

\* How a step of one thread looks in the invariant: nobody comes into flight
\* but by Claims, nobody holds a capability but by Spend, and only a stored
\* capability is about to be told.
LEMMA Views ==
  ASSUME TypeInv, FlowInv, NEW t \in Thread, Step(t), ~Claims(t)
  PROVE  \A u \in Thread :
           /\ InFlight(u)' => InFlight(u) /\ req'[u].id = req[u].id
           /\ HoldsSpent(u)' => /\ req'[u].cap = req[u].cap
                                /\ HoldsSpent(u) \/ (u = t /\ pc[t] = "spend")
           /\ Granted(u)' => /\ req'[u].id = req[u].id
                             /\ Granted(u) \/ (u = t /\ pc[t] = "store")
           /\ Presents(u)' => Presents(u) /\ req'[u].cap = req[u].cap
           /\ pc'[u] = "spend" =>
                /\ pc[u] = "spend" \/ (u = t /\ pc[t] = "lookup")
                /\ req'[u].cap = req[u].cap /\ req'[u].ticket = req[u].ticket
<1>. USE DEF TypeInv
<1>1. ASSUME NEW u \in Thread \ {t}
      PROVE  /\ pc'[u] = pc[u] /\ req'[u] = req[u]
             /\ InFlight(u)' <=> InFlight(u)
             /\ HoldsSpent(u)' <=> HoldsSpent(u)
             /\ Granted(u)' <=> Granted(u)
             /\ Presents(u)' <=> Presents(u)
  BY StepFrame DEF InFlight, HoldsSpent, Granted, Presents
<1>2. CASE Ends(t)
  BY <1>1, <1>2 DEF Ends, Idle, InFlight, HoldsSpent, Granted, Presents, Answer
<1>3. CASE SameRequest(req'[t], req[t])
  <2>0. pc[t] # "idle" /\ Flow(t)
    BY StepFlow, StepFrame
  <2>1. pc[t] = "claims" => ~InFlight(t)'
    BY DEF InFlight, Step, Claims, CheckBound, Consume, ChallengeMint,
     Lookup, Store, SessionClear, Spend, Derive, Compare, TokenBound,
     TokenSigner, Sign, KeymanCheck, KeymanRewrite, Void, Unseat, Stale, Zero,
     Erase, Rebind, BindDerived, WriteSigner, WritePublic, WriteEpoch,
     WritePosture, SigningStatus, ReplyBound, ReplyPublic, ReplyEpoch, Deliver
  <2>2. InFlight(t)' => InFlight(t)
    BY <2>0, <2>1 DEF Flow, InFlight, Rotation, Answer, AfterLookup
  <2>3. HoldsSpent(t)' => HoldsSpent(t) \/ pc[t] = "spend"
    BY <1>3, <2>0 DEF Flow, HoldsSpent, Rotation, Answer, AfterLookup,
       SameRequest, FlowInv
  <2>4. Granted(t)' => Granted(t) \/ pc[t] = "store"
    BY <1>3, <2>0 DEF Flow, Granted, Rotation, Answer, AfterLookup,
       SameRequest, FlowInv
  <2>5. pc'[t] = "spend" => pc[t] = "lookup"
    BY <2>0 DEF Flow, Rotation, Answer, AfterLookup
  <2>6. InFlight(t)' \/ Granted(t)' => req'[t].id = req[t].id
    <3>1. CASE ChallengeMint(t)
      BY <1>3, <2>0, <2>4, <3>1
      DEF ChallengeMint, InFlight, Granted, Answer, Flow, FlowInv, SameRequest,
          Rotation
    <3>2. CASE Ends(t)
      BY <3>2 DEF Ends, Idle, InFlight, Granted, Answer
    <3>. QED
      BY <3>1, <3>2, NumberKept
  <2>7. Presents(t)' => Presents(t)
    BY <1>3, <2>0 DEF Presents, SameRequest
  <2>. QED
    BY <1>1, <1>3, <2>2, <2>3, <2>4, <2>5, <2>6, <2>7 DEF SameRequest
<1>. QED
  BY <1>2, <1>3, StepFrame

LEMMA NatFacts ==
  ASSUME TypeOK
  PROVE  /\ fresh \in Nat
         /\ \A u \in Thread : req[u].id \in Nat /\ req[u].cap \in Nat
         /\ \A c \in capabilities : c.id \in Nat
         /\ \A k \in known.capability : k \in Nat
  BY DEF TypeOK, Request, Capability

\* Claims draws a number above every other.
LEMMA ClaimsKeeps ==
  ASSUME TypeInv, CapabilityInv, NEW t \in Thread, Claims(t)
  PROVE  NumbersInv' /\ ToldInv' /\ CapabilitySpentOnce' /\ SpendNeedsLiveSession'
<1>. USE DEF TypeInv, CapabilityInv
<1>1. /\ fresh' = fresh + 1
      /\ UNCHANGED <<attendances, capabilities, known>>
      /\ pc'[t] = "token" /\ req'[t].id = fresh /\ pc[t] = "claims"
      /\ req'[t].cap = req[t].cap /\ req'[t].op = req[t].op
  <2>1. \A n, k, e : /\ [req[t] EXCEPT !.id = n, !.epoch = k, !.exp = e].id = n
                     /\ SameRequest([req[t] EXCEPT !.id = n, !.epoch = k,
                                                   !.exp = e], req[t])
    BY ReqType, UpdateKeeps DEF Request
  <2>2. PICK e : Go(t, "token", [req[t] EXCEPT !.id = fresh, !.epoch = epoch,
                                               !.exp = e])
    BY DEF Claims
  <2>. DEFINE r == [req[t] EXCEPT !.id = fresh, !.epoch = epoch, !.exp = e]
  <2>4. r.id = fresh /\ SameRequest(r, req[t])
    BY <2>1
  <2>. HIDE DEF r
  <2>5. Go(t, "token", r)
    BY <2>2 DEF r
  <2>3. pc'[t] = "token" /\ req'[t].id = fresh /\ SameRequest(req'[t], req[t])
    BY <2>4, <2>5, GoFrame
  <2>. QED
    BY <2>3 DEF Claims, registries, SameRequest
<1>2. \A u \in Thread \ {t} : pc'[u] = pc[u] /\ req'[u] = req[u]
  BY GoFrame DEF Claims
<1>3. /\ InFlight(t)' /\ ~HoldsSpent(t)' /\ ~Granted(t)'
      /\ Presents(t)' => Presents(t)
  <2>1. ~HoldsSpent(t)'
    BY <1>1 DEF HoldsSpent, FlowInv
  <2>. QED
    BY <1>1, <2>1 DEF InFlight, Granted, Presents, Answer
<1>4. \A u \in Thread \ {t} :
        /\ InFlight(u)' <=> InFlight(u)
        /\ HoldsSpent(u)' <=> HoldsSpent(u)
        /\ Granted(u)' <=> Granted(u)
        /\ Presents(u)' <=> Presents(u)
  BY <1>2 DEF InFlight, HoldsSpent, Granted, Presents
<1>5. NumbersInv'
  BY <1>1, <1>2, <1>3, <1>4, NatFacts DEF NumbersInv, ToldInv
<1>6. ToldInv'
  BY <1>1, <1>2, <1>3, <1>4, NatFacts DEF ToldInv
<1>7. CapabilitySpentOnce'
  BY <1>1, <1>2, <1>3, <1>4 DEF CapabilitySpentOnce
<1>8. SpendNeedsLiveSession'
  BY <1>1, <1>2 DEF SpendNeedsLiveSession
<1>. QED
  BY <1>5, <1>6, <1>7, <1>8

\* Every other step, seen through Views; the cases differ in what they do to
\* the two registries and to what the clients know.
LEMMA OtherStepsKeep ==
  ASSUME TypeInv, CapabilityInv, NEW t \in Thread, Step(t), ~Claims(t)
  PROVE  NumbersInv' /\ ToldInv' /\ CapabilitySpentOnce' /\ SpendNeedsLiveSession'
<1>. USE DEF TypeInv, CapabilityInv
<1>0. /\ fresh \in Nat /\ fresh' \in {fresh, fresh + 1}
      /\ \A c \in capabilities : c.id \in Nat
      /\ \A k \in known.capability : k \in Nat
      /\ \A u \in Thread : req[u].id \in Nat /\ req[u].cap \in Nat
  BY ChallengeChange, NatFacts
<1>1. CASE /\ capabilities' \subseteq capabilities
           /\ UNCHANGED <<attendances, known>>
           /\ pc[t] \notin {"lookup", "spend", "store"}
  <2>1. NumbersInv'
    BY <1>0, <1>1, Views DEF NumbersInv
  <2>2. ToldInv'
    BY <1>0, <1>1, Views DEF ToldInv
  <2>3. CapabilitySpentOnce'
    BY <1>1, Views DEF CapabilitySpentOnce
  <2>4. SpendNeedsLiveSession'
    BY <1>1, Views DEF SpendNeedsLiveSession
  <2>. QED
    BY <2>1, <2>2, <2>3, <2>4
<1>2. CASE Store(t)
  <2>1. /\ pc[t] = "store" /\ InFlight(t) /\ UNCHANGED <<known, fresh>>
        /\ ~InFlight(t)' /\ attendances \subseteq attendances'
        /\ \A c \in capabilities' :
             c \in capabilities \/ c.id = req[t].id
    BY <1>2, GoFrame DEF Store, Refuse, InFlight
  <2>2. NumbersInv'
    BY <1>0, <2>1, Views DEF NumbersInv
  <2>3. ToldInv'
    BY <1>0, <2>1, Views DEF ToldInv, NumbersInv
  <2>7. ~HoldsSpent(t)
    BY <2>1 DEF FlowInv, HoldsSpent
  <2>4. CapabilitySpentOnce'
    BY <2>1, <2>7, Views DEF CapabilitySpentOnce, NumbersInv
  <2>5. \A u \in Thread : pc[u] = "spend" => req[u].cap # req[t].id
    <3>1. \A u \in Thread : pc[u] = "spend" => Presents(u)
      BY DEF FlowInv, Presents
    <3>. QED
      BY <2>1, <3>1 DEF ToldInv, NumbersInv
  <2>6. SpendNeedsLiveSession'
    BY <2>1, <2>5, Views DEF SpendNeedsLiveSession
  <2>. QED
    BY <2>2, <2>3, <2>4, <2>6
<1>3. CASE Lookup(t)
  <2>1. /\ pc[t] = "lookup" /\ UNCHANGED <<attendances, capabilities, known>>
        /\ pc'[t] = "spend" => \E a \in attendances : a.id = req[t].ticket
    BY <1>3, GoFrame DEF Lookup, Refuse, registries, Admitted, AfterLookup
  <2>2. NumbersInv'
    BY <1>0, <2>1, Views DEF NumbersInv
  <2>3. ToldInv'
    BY <1>0, <2>1, Views DEF ToldInv
  <2>4. CapabilitySpentOnce'
    BY <2>1, Views DEF CapabilitySpentOnce
  <2>5. SpendNeedsLiveSession'
    BY <2>1, Views DEF SpendNeedsLiveSession
  <2>. QED
    BY <2>2, <2>3, <2>4, <2>5
<1>4. CASE Spend(t)
  <2>1. /\ pc[t] = "spend" /\ UNCHANGED <<attendances, known>>
        /\ capabilities' \subseteq capabilities
        /\ \A c \in capabilities' : c.id # req[t].cap
        /\ HoldsSpent(t)' => \E c \in capabilities : c.id = req[t].cap
    BY <1>4, GoFrame DEF Spend, Refuse, Live, Without, HoldsSpent
  <2>2. NumbersInv'
    BY <1>0, <2>1, Views DEF NumbersInv
  <2>3. ToldInv'
    BY <1>0, <2>1, Views DEF ToldInv
  <2>4. CapabilitySpentOnce'
    BY <2>1, Views DEF CapabilitySpentOnce
  <2>5. SpendNeedsLiveSession'
    BY <2>1, Views DEF SpendNeedsLiveSession
  <2>. QED
    BY <2>2, <2>3, <2>4, <2>5
<1>5. CASE SessionClear(t)
  <2>1. /\ pc[t] = "clear" /\ UNCHANGED known
        /\ attendances' = {a \in attendances : a.id # req[t].ticket}
        /\ capabilities' = {c \in capabilities : c.ticket # req[t].ticket}
    BY <1>5 DEF SessionClear, WithoutChildren
  <2>2. NumbersInv'
    BY <1>0, <2>1, Views DEF NumbersInv
  <2>3. ToldInv'
    BY <1>0, <2>1, Views DEF ToldInv
  <2>4. CapabilitySpentOnce'
    BY <2>1, Views DEF CapabilitySpentOnce
  <2>5. SpendNeedsLiveSession'
    BY <2>1, Views DEF SpendNeedsLiveSession
  <2>. QED
    BY <2>2, <2>3, <2>4, <2>5
<1>6. CASE Void(t)
  <2>1. pc[t] = "void" /\ capabilities' = {} /\ UNCHANGED known
    BY <1>6 DEF Void
  <2>2. NumbersInv'
    BY <1>0, <2>1, Views DEF NumbersInv
  <2>3. ToldInv'
    BY <1>0, <2>1, Views DEF ToldInv
  <2>4. CapabilitySpentOnce' /\ SpendNeedsLiveSession'
    BY <2>1, Views DEF CapabilitySpentOnce, SpendNeedsLiveSession
  <2>. QED
    BY <2>2, <2>3, <2>4
<1>7. CASE Deliver(t)
  <2>1. /\ pc[t] = "sent" /\ UNCHANGED <<attendances, capabilities>>
        /\ \A k \in known.capability : k \in known'.capability
        /\ \A k \in known'.capability :
             k \in known.capability \/ (Granted(t) /\ k = req[t].id)
        /\ ~InFlight(t) /\ ~Granted(t)'
    BY <1>7, GoFrame DEF Deliver, Learnt, registries, Granted, Answer, InFlight
  <2>2. NumbersInv'
    BY <1>0, <2>1, Views DEF NumbersInv
  <2>3. ToldInv'
    BY <1>0, <2>1, Views DEF ToldInv
  <2>4. CapabilitySpentOnce' /\ SpendNeedsLiveSession'
    BY <2>1, Views DEF CapabilitySpentOnce, SpendNeedsLiveSession
  <2>. QED
    BY <2>2, <2>3, <2>4
<1>. QED
  <2>2. CASE ChallengeMint(t) \/ Consume(t)
    <3>1. /\ capabilities' \subseteq capabilities
          /\ UNCHANGED <<attendances, known>>
          /\ pc[t] \notin {"lookup", "spend", "store"}
      BY <2>2 DEF ChallengeMint, Consume, Live
    <3>. QED
      BY <1>1, <3>1
  <2>1. \/ Store(t) \/ Lookup(t) \/ Spend(t) \/ SessionClear(t) \/ Void(t)
        \/ Deliver(t) \/ ChallengeMint(t) \/ Consume(t)
        \/ /\ UNCHANGED <<attendances, capabilities, known>>
           /\ pc[t] \notin {"lookup", "spend", "store"}
    BY DEF Step, registries, CheckBound, Claims,
     Derive, Compare, TokenBound,
     TokenSigner, Sign, KeymanCheck, KeymanRewrite, Unseat, Stale, Zero,
     Erase, Rebind, BindDerived, WriteSigner, WritePublic, WriteEpoch,
     WritePosture, SigningStatus, ReplyBound, ReplyPublic, ReplyEpoch
  <2>. QED
    BY <1>1, <1>2, <1>3, <1>4, <1>5, <1>6, <1>7, <2>1, <2>2

LEMMA CapabilityInvInit == Init => CapabilityInv
  BY DEF Init, CapabilityInv, FlowInv, NumbersInv, ToldInv, InFlight,
     HoldsSpent, Granted, Presents, Answer, CapabilitySpentOnce,
     SpendNeedsLiveSession, Idle

LEMMA CapabilityInvNext ==
  TypeInv /\ CapabilityInv /\ [Next]_vars => CapabilityInv'
<1>. SUFFICES ASSUME TypeInv, CapabilityInv, [Next]_vars
              PROVE  CapabilityInv'
  OBVIOUS
<1>1. CASE Tick \/ UNCHANGED vars
  BY <1>1 DEF Tick, vars, registries, CapabilityInv, FlowInv, NumbersInv,
     ToldInv, InFlight, HoldsSpent, Granted, Presents, CapabilitySpentOnce,
     SpendNeedsLiveSession
<1>2. CASE Restart
  BY <1>2, NatFacts DEF Restart, CapabilityInv, FlowInv, NumbersInv, ToldInv,
     InFlight, HoldsSpent, Granted, Presents, Answer, CapabilitySpentOnce,
     SpendNeedsLiveSession, Idle, TypeInv
<1>3. ASSUME NEW t \in Thread, Ask(t) PROVE CapabilityInv'
  <2>1. PICK r \in Request : Dispatch(t, r) /\ Asked(r)
    BY <1>3, AskDispatch DEF TypeInv
  <2>2. /\ UNCHANGED <<fresh, attendances, capabilities, known>>
        /\ pc'[t] = FirstAccess(r.op) /\ req'[t] = r
        /\ \A u \in Thread \ {t} : pc'[u] = pc[u] /\ req'[u] = req[u]
    BY <2>1, DispatchFrame DEF registries, TypeInv
  <2>3. /\ FirstAccess(r.op) \in {"status", "consume", "bound"}
        /\ r.op = "capability.consume" => FirstAccess(r.op) = "bound"
        /\ r.op = "capability.mint" => FirstAccess(r.op) = "consume"
    BY DEF FirstAccess, Purpose
  <2>4. /\ ~InFlight(t)' /\ ~Granted(t)' /\ pc'[t] # "spend"
        /\ Presents(t)' => req'[t].cap \in known.capability
    BY <2>1, <2>2, <2>3
    DEF InFlight, Granted, Presents, Answer, Asked
  <2>5. ~HoldsSpent(t)'
    BY <2>2, <2>3 DEF HoldsSpent, FirstAccess, Purpose
  <2>6. \A u \in Thread \ {t} :
          /\ InFlight(u)' <=> InFlight(u)
          /\ HoldsSpent(u)' <=> HoldsSpent(u)
          /\ Granted(u)' <=> Granted(u)
          /\ Presents(u)' <=> Presents(u)
    BY <2>2 DEF InFlight, HoldsSpent, Granted, Presents
  <2>7. FlowInv'
    BY <2>2, <2>3 DEF FlowInv, CapabilityInv
  <2>8. NumbersInv' /\ ToldInv'
    BY <2>2, <2>4, <2>5, <2>6 DEF NumbersInv, ToldInv, CapabilityInv
  <2>9. CapabilitySpentOnce' /\ SpendNeedsLiveSession'
    BY <2>2, <2>4, <2>5, <2>6
    DEF CapabilitySpentOnce, SpendNeedsLiveSession, CapabilityInv
  <2>. QED
    BY <2>7, <2>8, <2>9 DEF CapabilityInv
<1>4. ASSUME NEW t \in Thread, Step(t) PROVE CapabilityInv'
  BY <1>4, FlowInvStep, ClaimsKeeps, OtherStepsKeep DEF CapabilityInv
<1>. QED
  BY <1>1, <1>2, <1>3, <1>4 DEF Next

LEMMA CapabilityInvariant == Spec => [](TypeInv /\ CapabilityInv)
<1>1. Init => TypeInv /\ CapabilityInv
  BY TypeInvInit, CapabilityInvInit
<1>2. TypeInv /\ CapabilityInv /\ [Next]_vars => (TypeInv /\ CapabilityInv)'
  BY TypeInvNext, CapabilityInvNext
<1>. QED
  BY <1>1, <1>2, PTL DEF Spec

\* One capability pays for one actuation, for any number of handlers of
\* capability.consume and pin.change that race for it.
THEOREM CapabilitiesAreSingleUse == Spec => []CapabilitySpentOnce
<1>1. TypeInv /\ CapabilityInv => CapabilitySpentOnce
  BY DEF CapabilityInv
<1>. QED
  BY <1>1, CapabilityInvariant, PTL

\* A capability about to be spent by the handler it belongs to has a live
\* attendance, although the ticket was looked up under an earlier lock.
THEOREM SpendingNeedsSession == Spec => []SpendNeedsLiveSession
<1>1. TypeInv /\ CapabilityInv => SpendNeedsLiveSession
  BY DEF CapabilityInv
<1>. QED
  BY <1>1, CapabilityInvariant, PTL

------------------------------------------------------------------------------
(* The refinement of CapabilityLedger.                                      *)

\* The thread serves the minting of a capability, and names a session.
NamesSession(t) == pc[t] # "idle" /\ req[t].op = "capability.mint"

\* The thread is about to tell its client of a session it has stored.
TellsSession(t) == req[t].op = "session.mint" /\ pc[t] \in Answer

\* The handler of session.mint never looks a ticket up.
SessionFlow ==
  \A t \in Thread : req[t].op = "session.mint" =>
    pc[t] \in {"idle", "bound", "consume", "derive", "compare", "claims", "token",
               "signer", "sign", "store"} \cup Answer

\* A number in flight is nobody's session, so no capability waits for it: a
\* session that is stored brings no capability with it.
TicketInv ==
  /\ SessionFlow
  /\ \A c \in capabilities : c.ticket < fresh
  /\ \A k \in known.ticket : k < fresh
  /\ \A t \in Thread :
       /\ NamesSession(t) => req[t].ticket < fresh
       /\ TellsSession(t) => req[t].id < fresh
  /\ \A t \in Thread : InFlight(t) =>
       /\ \A c \in capabilities : c.ticket # req[t].id
       /\ \A k \in known.ticket : k # req[t].id
       /\ \A u \in Thread :
            /\ NamesSession(u) => req[u].ticket # req[t].id
            /\ TellsSession(u) => req[u].id # req[t].id

\* The number that Claims draws.
LEMMA ClaimsDraws ==
  ASSUME TypeOK, NEW t \in Thread, Claims(t)
  PROVE  /\ pc[t] = "claims" /\ pc'[t] = "token" /\ req'[t].id = fresh
         /\ SameRequest(req'[t], req[t])
<1>1. \A n, k, e : /\ [req[t] EXCEPT !.id = n, !.epoch = k, !.exp = e].id = n
                   /\ SameRequest([req[t] EXCEPT !.id = n, !.epoch = k, !.exp = e], req[t])
  BY ReqType, UpdateKeeps DEF Request
<1>2. PICK e : Go(t, "token", [req[t] EXCEPT !.id = fresh, !.epoch = epoch, !.exp = e])
  BY DEF Claims
<1>. DEFINE r == [req[t] EXCEPT !.id = fresh, !.epoch = epoch, !.exp = e]
<1>3. r.id = fresh /\ SameRequest(r, req[t])
  BY <1>1
<1>. HIDE DEF r
<1>4. Go(t, "token", r)
  BY <1>2 DEF r
<1>. QED
  BY <1>3, <1>4, GoFrame DEF Claims

LEMMA SessionFlowStep ==
  ASSUME TypeInv, SessionFlow, NEW t \in Thread, Step(t)
  PROVE  SessionFlow'
<1>. USE DEF TypeInv
<1>1. CASE Ends(t)
  BY <1>1, StepFrame DEF SessionFlow, Ends, Idle
<1>2. CASE SameRequest(req'[t], req[t])
  <2>1. req[t].op = "session.mint" =>
          pc'[t] \in {"idle", "bound", "consume", "derive", "compare", "claims", "token",
                      "signer", "sign", "store"} \cup Answer
    BY StepFlow, StepFrame DEF SessionFlow, Flow, Rotation, Answer
  <2>. QED
    BY <1>2, <2>1, StepFrame DEF SessionFlow, SameRequest
<1>. QED
  BY <1>1, <1>2, StepFrame

\* What a step does to those who name a session or tell of one.
LEMMA TicketViews ==
  ASSUME TypeInv, SessionFlow, NEW t \in Thread, Step(t), ~Claims(t)
  PROVE  \A u \in Thread :
           /\ NamesSession(u)' => NamesSession(u) /\ req'[u].ticket = req[u].ticket
           /\ TellsSession(u)' => /\ req'[u].id = req[u].id
                                  /\ TellsSession(u) \/ (u = t /\ pc[t] = "store")
<1>. USE DEF TypeInv
<1>1. \A u \in Thread \ {t} :
        /\ pc'[u] = pc[u] /\ req'[u] = req[u]
        /\ NamesSession(u)' <=> NamesSession(u)
        /\ TellsSession(u)' <=> TellsSession(u)
  BY StepFrame DEF NamesSession, TellsSession
<1>2. CASE Ends(t)
  BY <1>1, <1>2 DEF Ends, Idle, NamesSession, TellsSession, Answer
<1>3. CASE SameRequest(req'[t], req[t])
  <2>0. pc[t] # "idle" /\ Flow(t)
    BY StepFlow, StepFrame
  <2>1. TellsSession(t)' => TellsSession(t) \/ pc[t] = "store"
    BY <1>3, <2>0 DEF Flow, TellsSession, Rotation, Answer, AfterLookup, SameRequest, SessionFlow
  <2>2. TellsSession(t)' => req'[t].id = req[t].id
    <3>1. CASE ChallengeMint(t)
      BY <1>3, <2>0, <2>1, <3>1
      DEF ChallengeMint, TellsSession, Answer, Flow, SessionFlow, SameRequest, Rotation
    <3>2. CASE Ends(t)
      BY <3>2 DEF Ends, Idle, TellsSession, Answer
    <3>. QED
      BY <3>1, <3>2, NumberKept
  <2>3. NamesSession(t)' => NamesSession(t) /\ req'[t].ticket = req[t].ticket
    BY <1>3, <2>0 DEF NamesSession, SameRequest
  <2>. QED
    BY <1>1, <2>1, <2>2, <2>3
<1>. QED
  BY <1>2, <1>3, StepFrame

LEMMA TicketNumbers ==
  ASSUME TypeOK
  PROVE  /\ fresh \in Nat
         /\ \A u \in Thread : req[u].id \in Nat /\ req[u].ticket \in Nat
         /\ \A c \in capabilities : c.ticket \in Nat
         /\ \A k \in known.ticket : k \in Nat
  BY DEF TypeOK, Request, Capability

LEMMA TicketInvStep ==
  ASSUME TypeInv, CapabilityInv, TicketInv, NEW t \in Thread, Step(t)
  PROVE  TicketInv'
<1>. USE DEF TypeInv, CapabilityInv
<1>0. SessionFlow'
  BY SessionFlowStep DEF TicketInv
<1>1. CASE Claims(t)
  <2>1. /\ fresh' = fresh + 1 /\ UNCHANGED <<capabilities, known>>
        /\ \A u \in Thread \ {t} : pc'[u] = pc[u] /\ req'[u] = req[u]
    BY <1>1, GoFrame DEF Claims, registries
  <2>2. pc[t] = "claims" /\ pc'[t] = "token" /\ req'[t].id = fresh /\ SameRequest(req'[t], req[t])
    BY <1>1, ClaimsDraws
  <2>3. /\ InFlight(t)' /\ ~TellsSession(t)'
        /\ NamesSession(t)' => NamesSession(t) /\ req'[t].ticket = req[t].ticket
    BY <2>2 DEF InFlight, TellsSession, NamesSession, Answer, SameRequest
  <2>4. \A u \in Thread \ {t} :
          /\ InFlight(u)' <=> InFlight(u)
          /\ NamesSession(u)' <=> NamesSession(u)
          /\ TellsSession(u)' <=> TellsSession(u)
    BY <2>1 DEF InFlight, NamesSession, TellsSession
  <2>5. \A u \in Thread : /\ NamesSession(u)' => req'[u].ticket < fresh
                          /\ TellsSession(u)' => req'[u].id < fresh
                          /\ InFlight(u)' /\ u # t => req'[u].id < fresh
    BY <2>1, <2>3, <2>4 DEF TicketInv, NumbersInv
  <2>. QED
    BY <1>0, <2>1, <2>2, <2>3, <2>4, <2>5, TicketNumbers DEF TicketInv
<1>2. CASE ~Claims(t)
  <2>0. fresh \in Nat /\ fresh' \in {fresh, fresh + 1}
    BY ChallengeChange
  <2>1. \A u \in Thread : InFlight(u)' => InFlight(u) /\ req'[u].id = req[u].id
    BY <1>2, Views
  <2>2. CASE /\ capabilities' \subseteq capabilities /\ UNCHANGED known
             /\ pc[t] # "store"
    BY <1>0, <1>2, <2>0, <2>1, <2>2, TicketViews, TicketNumbers DEF TicketInv
  <2>3. CASE Store(t)
    <3>1. /\ pc[t] = "store" /\ InFlight(t) /\ UNCHANGED <<known, fresh>>
          /\ ~InFlight(t)'
          /\ \A c \in capabilities' :
               c \in capabilities \/ (c.ticket = req[t].ticket /\ NamesSession(t))
      BY <2>3, GoFrame DEF Store, Refuse, InFlight, NamesSession
    <3>2. /\ \A c \in capabilities' : c.ticket < fresh
          /\ \A u \in Thread : InFlight(u) => \A c \in capabilities' : c.ticket # req[u].id
      BY <3>1 DEF TicketInv
    <3>3. req[t].id < fresh /\ \A u \in Thread \ {t} : InFlight(u) => req[u].id # req[t].id
      BY <3>1 DEF NumbersInv
    <3>. QED
      BY <1>0, <1>2, <2>1, <3>1, <3>2, <3>3, TicketViews DEF TicketInv
  <2>4. CASE Deliver(t)
    <3>1. /\ pc[t] = "sent" /\ UNCHANGED <<capabilities, fresh>>
          /\ \A k \in known'.ticket :
               k \in known.ticket \/ (TellsSession(t) /\ k = req[t].id)
      BY <2>4, GoFrame DEF Deliver, Learnt, registries, TellsSession, Answer
    <3>2. /\ \A k \in known'.ticket : k < fresh
          /\ \A u \in Thread : InFlight(u) => \A k \in known'.ticket : k # req[u].id
      BY <3>1 DEF TicketInv
    <3>. QED
      BY <1>0, <1>2, <2>1, <3>1, <3>2, TicketViews DEF TicketInv
  <2>. QED
    BY <2>2, <2>3, <2>4 DEF Step, registries, CheckBound, ChallengeMint, Consume, Claims,
     Derive, Compare, TokenBound, Lookup, Spend, SessionClear, Void, Live, Without, WithoutChildren,
     TokenSigner, Sign, KeymanCheck, KeymanRewrite, Unseat, Stale, Zero,
     Erase, Rebind, BindDerived, WriteSigner, WritePublic, WriteEpoch,
     WritePosture, SigningStatus, ReplyBound, ReplyPublic, ReplyEpoch
<1>. QED
  BY <1>1, <1>2

LEMMA TicketInvNext ==
  TypeInv /\ CapabilityInv /\ TicketInv /\ [Next]_vars => TicketInv'
<1>. SUFFICES ASSUME TypeInv, CapabilityInv, TicketInv, [Next]_vars
              PROVE  TicketInv'
  OBVIOUS
<1>1. CASE Tick \/ UNCHANGED vars
  BY <1>1 DEF Tick, vars, registries, TicketInv, SessionFlow, InFlight, NamesSession, TellsSession
<1>2. CASE Restart
  BY <1>2, TicketNumbers DEF Restart, TicketInv, SessionFlow, InFlight, NamesSession, TellsSession,
     Answer, Idle, TypeInv
<1>3. ASSUME NEW t \in Thread, Ask(t) PROVE TicketInv'
  <2>1. PICK r \in Request : Dispatch(t, r) /\ Asked(r)
    BY <1>3, AskDispatch DEF TypeInv
  <2>2. /\ UNCHANGED <<fresh, attendances, capabilities, known>>
        /\ pc'[t] = FirstAccess(r.op) /\ req'[t] = r
        /\ \A u \in Thread \ {t} : pc'[u] = pc[u] /\ req'[u] = req[u]
    BY <2>1, DispatchFrame DEF registries, TypeInv
  <2>3. /\ FirstAccess(r.op) \in {"status", "consume", "bound"}
        /\ r.op = "session.mint" => FirstAccess(r.op) = "bound"
    BY DEF FirstAccess, Purpose
  <2>4. /\ ~InFlight(t)' /\ ~TellsSession(t)'
        /\ NamesSession(t)' => req'[t].ticket \in known.ticket
    BY <2>1, <2>2, <2>3 DEF InFlight, NamesSession, TellsSession, Answer, Asked
  <2>5. \A u \in Thread \ {t} :
          /\ InFlight(u)' <=> InFlight(u)
          /\ NamesSession(u)' <=> NamesSession(u)
          /\ TellsSession(u)' <=> TellsSession(u)
    BY <2>2 DEF InFlight, NamesSession, TellsSession
  <2>6. SessionFlow'
    BY <2>2, <2>3 DEF SessionFlow, TicketInv
  <2>. QED
    BY <2>2, <2>4, <2>5, <2>6 DEF TicketInv
<1>4. ASSUME NEW t \in Thread, Step(t) PROVE TicketInv'
  BY <1>4, TicketInvStep
<1>. QED
  BY <1>1, <1>2, <1>3, <1>4 DEF Next

LEMMA TicketInvInit == Init => TicketInv
  BY DEF Init, TicketInv, SessionFlow, InFlight, NamesSession, TellsSession, Answer, Idle

\* The grants of the ledger and what is paid, by the names of this module.
Grants == {[id |-> c.id, session |-> c.ticket] : c \in {k \in capabilities : k.ticket \in Open}}
Paid == {req[t].cap : t \in {u \in Thread : HoldsSpent(u)}}

LEMMA LedgerStarts == Init => Ledger!Init
<1>. SUFFICES ASSUME Init PROVE Ledger!Init
  OBVIOUS
<1>1. Drawn = {} /\ Paid = {} /\ Open = {} /\ Grants = {} /\ fresh \in Nat
  BY DEF Init, Drawn, Paid, Open, Grants, HoldsSpent
<1>. QED
  BY <1>1 DEF Ledger!Init, Grants, Paid

\* The steps of the ledger in the names of this module.
LEMMA LedgerNext ==
  \/ /\ fresh' = fresh + 1 /\ Drawn' \in {Drawn, Drawn \cup {fresh}}
     /\ Grants' \subseteq Grants /\ UNCHANGED <<Open, Paid>>
  \/ /\ Drawn' \subseteq Drawn /\ Paid' \subseteq Paid /\ Grants' \subseteq Grants
     /\ UNCHANGED <<fresh, Open>>
  \/ \E i \in Drawn :
       Drawn' = Drawn \ {i} /\ Open' = Open \cup {i} /\ UNCHANGED <<fresh, Grants, Paid>>
  \/ \E i \in Drawn, k \in Open :
       /\ Drawn' = Drawn \ {i} /\ Grants' = Grants \cup {[id |-> i, session |-> k]}
       /\ UNCHANGED <<fresh, Open, Paid>>
  \/ \E g \in Grants :
       /\ Grants' \subseteq Grants \ {g} /\ Paid' = Paid \cup {g.id}
       /\ UNCHANGED <<fresh, Drawn, Open>>
  \/ \E k \in Open :
       /\ Open' = Open \ {k} /\ Grants' = {g \in Grants : g.session # k}
       /\ UNCHANGED <<fresh, Drawn, Paid>>
  \/ /\ Open' = {} /\ Grants' = {} /\ Drawn' \subseteq Drawn /\ Paid' \subseteq Paid
     /\ fresh' \in {fresh, fresh + 1}
  => Ledger!Next
  BY Zenon DEF Ledger!Next, Ledger!Draw, Ledger!Abandon, Ledger!Open, Ledger!Grant, Ledger!Pay,
     Ledger!Close, Ledger!EndAll, Grants, Paid

\* Who has drawn a number, and who pays, seen through a step of one thread.
LEMMA DrawnViews ==
  ASSUME TypeInv, FlowInv, NEW t \in Thread, Step(t), ~Claims(t)
  PROVE  /\ Drawn' \subseteq Drawn
         /\ ~InFlight(t) => Drawn' = Drawn
<1>1. \A u \in Thread : InFlight(u)' => InFlight(u) /\ req'[u].id = req[u].id
  BY Views
<1>2. \A u \in Thread \ {t} : pc'[u] = pc[u] /\ req'[u] = req[u]
  BY StepFrame DEF TypeInv
<1>3. Drawn' \subseteq Drawn
  BY <1>1 DEF Drawn, InFlight
<1>4. ASSUME ~InFlight(t) PROVE Drawn \subseteq Drawn'
  BY <1>2, <1>4 DEF Drawn, InFlight
<1>. QED
  BY <1>3, <1>4

LEMMA PaidViews ==
  ASSUME TypeInv, FlowInv, NEW t \in Thread, Step(t), ~Claims(t)
  PROVE  /\ pc[t] # "spend" => Paid' \subseteq Paid
         /\ HoldsSpent(t)' <=> HoldsSpent(t) => Paid' = Paid
         /\ HoldsSpent(t)' => Paid' = Paid \cup {req[t].cap}
<1>1. \A u \in Thread : HoldsSpent(u)' => /\ req'[u].cap = req[u].cap
                                          /\ HoldsSpent(u) \/ (u = t /\ pc[t] = "spend")
  BY Views
<1>2. \A u \in Thread \ {t} : req'[u] = req[u] /\ (HoldsSpent(u)' <=> HoldsSpent(u))
  BY StepFrame DEF TypeInv, HoldsSpent
<1>3. pc[t] # "spend" => Paid' \subseteq Paid
  BY <1>1 DEF Paid
<1>4. ASSUME HoldsSpent(t)' <=> HoldsSpent(t) PROVE Paid' = Paid
  BY <1>1, <1>2, <1>4 DEF Paid
<1>5. ASSUME HoldsSpent(t)' PROVE Paid' = Paid \cup {req[t].cap}
  BY <1>1, <1>2, <1>5 DEF Paid
<1>. QED
  BY <1>3, <1>4, <1>5

\* A step that gives out no number and at most drops what has expired.
LEMMA LedgerAbandons ==
  ASSUME TypeInv, CapabilityInv, NEW t \in Thread, Step(t), ~Claims(t), pc[t] # "spend",
         UNCHANGED <<fresh, attendances>>, capabilities' \subseteq capabilities
  PROVE  Ledger!Next
<1>1. Open' = Open /\ Grants' \subseteq Grants
  BY DEF Open, Grants
<1>. QED
  BY <1>1, DrawnViews, PaidViews, LedgerNext DEF CapabilityInv

LEMMA LedgerDraws ==
  ASSUME TypeInv, CapabilityInv, NEW t \in Thread, Claims(t) \/ ChallengeMint(t) \/ BindDerived(t)
  PROVE  Ledger!Next
<1>. USE DEF TypeInv, CapabilityInv
<1>0. UNCHANGED attendances /\ capabilities' \subseteq capabilities /\ Step(t)
  <2>1. CASE Claims(t) \/ BindDerived(t)
    BY <2>1 DEF Claims, BindDerived, registries, Step
  <2>2. CASE ChallengeMint(t)
    BY <2>2 DEF ChallengeMint, Live, Step
  <2>. QED
    BY <2>1, <2>2
<1>1. Open' = Open /\ Grants' \subseteq Grants
  BY <1>0 DEF Open, Grants
<1>2. CASE Claims(t)
  <2>1. fresh' = fresh + 1 /\ \A u \in Thread \ {t} : pc'[u] = pc[u] /\ req'[u] = req[u]
    BY <1>2, GoFrame DEF Claims
  <2>2. ~InFlight(t) /\ InFlight(t)' /\ req'[t].id = fresh
    BY <1>2, ClaimsDraws DEF InFlight
  <2>3. Drawn' = Drawn \cup {fresh}
    BY <2>1, <2>2 DEF Drawn, InFlight
  <2>4. \A u \in Thread : HoldsSpent(u)' <=> HoldsSpent(u)
    BY <1>2, <2>1, ClaimsDraws DEF HoldsSpent, SameRequest, FlowInv
  <2>5. ~HoldsSpent(t)
    BY <1>2 DEF Claims, HoldsSpent, FlowInv
  <2>6. Paid' = Paid
    BY <2>1, <2>4, <2>5 DEF Paid
  <2>. QED
    BY <1>1, <2>1, <2>3, <2>6, LedgerNext
<1>3. CASE ChallengeMint(t) \/ BindDerived(t)
  <2>1. ~InFlight(t) /\ ~Claims(t) /\ pc[t] # "spend"
    BY <1>3 DEF ChallengeMint, BindDerived, Claims, InFlight
  <2>2. CASE fresh' = fresh
    BY <1>0, <2>1, <2>2, LedgerAbandons
  <2>3. CASE fresh' # fresh
    <3>1. fresh' = fresh + 1 /\ pc'[t] \in {"reply", "seat"}
      BY <1>3, <2>3, GoFrame DEF ChallengeMint, BindDerived
    <3>2. SameRequest(req'[t], req[t])
      BY <1>0, <3>1, StepFrame DEF Ends
    <3>3. HoldsSpent(t)' <=> HoldsSpent(t)
      BY <1>3, <3>1, <3>2 DEF ChallengeMint, BindDerived, HoldsSpent, SameRequest, FlowInv
    <3>. QED
      BY <1>0, <1>1, <2>1, <3>1, <3>3, DrawnViews, PaidViews, LedgerNext
  <2>. QED
    BY <2>2, <2>3
<1>. QED
  BY <1>2, <1>3

LEMMA LedgerStores ==
  ASSUME TypeInv, CapabilityInv, TicketInv, NEW t \in Thread, Store(t)
  PROVE  Ledger!Next
<1>. USE DEF TypeInv, CapabilityInv
<1>1. /\ pc[t] = "store" /\ InFlight(t) /\ ~InFlight(t)' /\ UNCHANGED fresh /\ Step(t) /\ ~Claims(t)
      /\ \A u \in Thread \ {t} : pc'[u] = pc[u] /\ req'[u] = req[u]
  BY GoFrame DEF Store, Refuse, InFlight, Claims, Step
<1>2. Drawn' = Drawn \ {req[t].id} /\ req[t].id \in Drawn
  <2>1. \A u \in Thread \ {t} : InFlight(u)' <=> InFlight(u)
    BY <1>1 DEF InFlight
  <2>2. \A u \in Thread \ {t} : InFlight(u) => req[u].id # req[t].id
    BY <1>1 DEF NumbersInv
  <2>3. /\ Drawn = {req[u].id : u \in {v \in Thread : InFlight(v)}}
        /\ Drawn' = {req'[u].id : u \in {v \in Thread : InFlight(v)'}}
    BY DEF Drawn, InFlight
  <2>. QED
    BY <1>1, <2>1, <2>2, <2>3
<1>3. ~HoldsSpent(t) /\ ~HoldsSpent(t)'
  BY <1>1, StepFrame DEF HoldsSpent, FlowInv, Ends, Idle, SameRequest
<1>4. Paid' = Paid
  BY <1>1, <1>3, PaidViews
<1>5. CASE UNCHANGED <<attendances, capabilities>>
  BY <1>1, <1>5, LedgerAbandons
<1>6. CASE /\ req[t].op = "session.mint" /\ UNCHANGED capabilities
           /\ \E a : a.id = req[t].id /\ attendances' = attendances \cup {a}
  <2>1. Open' = Open \cup {req[t].id}
    BY <1>6 DEF Open
  <2>2. \A c \in capabilities : c.ticket # req[t].id
    BY <1>1 DEF TicketInv
  <2>3. Grants' = Grants
    BY <1>6, <2>1, <2>2 DEF Grants
  <2>. QED
    BY <1>1, <1>2, <1>4, <2>1, <2>3, LedgerNext
<1>7. CASE /\ req[t].op = "capability.mint" /\ UNCHANGED attendances
           /\ \E c : c.id = req[t].id /\ c.ticket = req[t].ticket /\ capabilities' = capabilities \cup {c}
  <2>1. Open' = Open
    BY <1>7 DEF Open
  <2>2. CASE req[t].ticket \in Open
    <3>1. Grants' = Grants \cup {[id |-> req[t].id, session |-> req[t].ticket]}
      BY <1>7, <2>1, <2>2 DEF Grants
    <3>. QED
      BY <1>1, <1>2, <1>4, <2>1, <2>2, <3>1, LedgerNext
  <2>3. CASE req[t].ticket \notin Open
    <3>1. Grants' = Grants
      BY <1>7, <2>1, <2>3 DEF Grants
    <3>. QED
      BY <1>1, <1>2, <1>4, <2>1, <3>1, LedgerNext
  <2>. QED
    BY <2>2, <2>3
<1>. QED
  <2>1. \A d, v, e, k, i : [id |-> i, doc |-> d, verified |-> v, epoch |-> e, key |-> k].id = i
    OBVIOUS
  <2>2. \A s, x, e, k, i, n : /\ [id |-> i, epoch |-> e, key |-> k, ticket |-> n, scope |-> s, exp |-> x].id = i
                              /\ [id |-> i, epoch |-> e, key |-> k, ticket |-> n, scope |-> s, exp |-> x].ticket = n
    OBVIOUS
  <2>. QED
    BY <1>5, <1>6, <1>7, <2>1, <2>2 DEF Store

LEMMA LedgerPays ==
  ASSUME TypeInv, CapabilityInv, NEW t \in Thread, Spend(t)
  PROVE  Ledger!Next
<1>. USE DEF TypeInv, CapabilityInv
<1>1. /\ pc[t] = "spend" /\ Step(t) /\ ~Claims(t) /\ ~InFlight(t) /\ UNCHANGED <<fresh, attendances>>
      /\ capabilities' \subseteq capabilities /\ \A c \in capabilities' : c.id # req[t].cap
  BY DEF Spend, Step, Claims, InFlight, Live, Without
<1>2. Open' = Open /\ Grants' \subseteq Grants /\ Drawn' = Drawn
  BY <1>1, DrawnViews DEF Open, Grants
<1>3. ~HoldsSpent(t)
  BY <1>1 DEF HoldsSpent
<1>4. CASE Refuse(t)
  <2>1. ~HoldsSpent(t)'
    BY <1>4, GoFrame DEF Refuse, HoldsSpent, Idle
  <2>. QED
    BY <1>1, <1>2, <1>3, <2>1, PaidViews, LedgerNext
<1>5. CASE ~Refuse(t)
  <2>1. /\ \E c \in capabilities : c.id = req[t].cap /\ c.ticket = req[t].ticket
        /\ pc'[t] \in {"check", "sent"} /\ HoldsSpent(t)'
    BY <1>5, GoFrame DEF Spend, Live, HoldsSpent
  <2>2. PICK c \in capabilities : c.id = req[t].cap /\ c.ticket = req[t].ticket
    BY <2>1
  <2>3. c.ticket \in Open
    BY <1>1, <2>2 DEF SpendNeedsLiveSession, Open
  <2>. DEFINE g == [id |-> c.id, session |-> c.ticket]
  <2>4. g \in Grants /\ g.id = req[t].cap
    BY <2>2, <2>3 DEF Grants
  <2>5. \A h \in Grants' : h.id # req[t].cap
    BY <1>1 DEF Grants
  <2>6. Grants' \subseteq Grants \ {g}
    BY <1>2, <2>4, <2>5
  <2>7. Paid' = Paid \cup {req[t].cap}
    BY <1>1, <2>1, PaidViews
  <2>. HIDE DEF g
  <2>. QED
    BY <1>1, <1>2, <2>4, <2>6, <2>7, LedgerNext
<1>. QED
  BY <1>4, <1>5

LEMMA LedgerCloses ==
  ASSUME TypeInv, CapabilityInv, NEW t \in Thread, SessionClear(t)
  PROVE  Ledger!Next
<1>. USE DEF TypeInv, CapabilityInv
<1>1. /\ pc[t] = "clear" /\ Step(t) /\ ~Claims(t) /\ ~InFlight(t) /\ UNCHANGED fresh
      /\ attendances' = {a \in attendances : a.id # req[t].ticket}
      /\ capabilities' = {c \in capabilities : c.ticket # req[t].ticket}
      /\ pc'[t] = "reply" /\ req'[t] = req[t]
  BY GoFrame DEF SessionClear, Step, Claims, InFlight, WithoutChildren
<1>2. Open' = Open \ {req[t].ticket}
  BY <1>1 DEF Open
<1>3. Grants' = {g \in Grants : g.session # req[t].ticket}
  BY <1>1, <1>2 DEF Grants
<1>4. HoldsSpent(t)' <=> HoldsSpent(t)
  BY <1>1 DEF HoldsSpent, FlowInv
<1>5. Drawn' = Drawn /\ Paid' = Paid
  BY <1>1, <1>4, DrawnViews, PaidViews
<1>6. CASE req[t].ticket \in Open
  BY <1>1, <1>2, <1>3, <1>5, <1>6, LedgerNext
<1>7. CASE req[t].ticket \notin Open
  <2>1. Open' = Open /\ Grants' \subseteq Grants
    BY <1>2, <1>3, <1>7
  <2>. QED
    BY <1>1, <1>5, <2>1, LedgerNext
<1>. QED
  BY <1>6, <1>7

LEMMA LedgerSteps ==
  ASSUME TypeInv, CapabilityInv, TicketInv, NEW t \in Thread, Step(t)
  PROVE  Ledger!Next
<1>1. CASE Void(t)
  <2>1. ~Claims(t) /\ pc[t] # "spend" /\ UNCHANGED fresh /\ attendances' = {} /\ capabilities' = {}
    BY <1>1 DEF Void, Claims
  <2>2. Open' = {} /\ Grants' = {}
    BY <2>1 DEF Open, Grants
  <2>. QED
    BY <2>1, <2>2, DrawnViews, PaidViews, LedgerNext DEF CapabilityInv
<1>2. CASE \/ Store(t) \/ Spend(t) \/ SessionClear(t) \/ Claims(t) \/ ChallengeMint(t) \/ BindDerived(t)
  BY <1>2, LedgerStores, LedgerPays, LedgerCloses, LedgerDraws
<1>3. CASE Consume(t)
  <2>1. /\ pc[t] # "spend" /\ ~Claims(t)
        /\ UNCHANGED <<fresh, attendances>> /\ capabilities' \subseteq capabilities
    BY <1>3 DEF Consume, Claims, Live
  <2>. QED
    BY <2>1, LedgerAbandons
<1>4. CASE ~(\/ Void(t) \/ Store(t) \/ Spend(t) \/ SessionClear(t) \/ Claims(t)
             \/ ChallengeMint(t) \/ BindDerived(t) \/ Consume(t))
  <2>1. pc[t] # "spend" /\ UNCHANGED <<fresh, attendances, capabilities>>
    BY <1>4 DEF Step, registries, CheckBound, Lookup, Derive, Compare, TokenBound,
     TokenSigner, Sign, KeymanCheck, KeymanRewrite, Unseat, Stale, Zero,
     Erase, Rebind, WriteSigner, WritePublic, WriteEpoch,
     WritePosture, SigningStatus, ReplyBound, ReplyPublic, ReplyEpoch, Deliver
  <2>. QED
    BY <1>4, <2>1, LedgerAbandons
<1>. QED
  BY <1>1, <1>2, <1>3, <1>4

LEMMA LedgerNextOrStutter ==
  TypeInv /\ CapabilityInv /\ TicketInv /\ [Next]_vars => [Ledger!Next]_(Ledger!vars)
<1>. SUFFICES ASSUME TypeInv, CapabilityInv, TicketInv, [Next]_vars
              PROVE  Ledger!Next \/ UNCHANGED Ledger!vars
  OBVIOUS
<1>0. UNCHANGED <<fresh, Drawn, Open, Grants, Paid>> => UNCHANGED Ledger!vars
  BY DEF Ledger!vars, Grants, Paid
<1>1. CASE Tick \/ UNCHANGED vars
  <2>1. UNCHANGED <<fresh, pc, req, attendances, capabilities>>
    BY <1>1 DEF Tick, vars, registries
  <2>2. UNCHANGED <<fresh, Drawn, Open, Grants, Paid>>
    BY <2>1 DEF Drawn, Open, Grants, Paid, HoldsSpent
  <2>. QED
    BY <1>0, <2>2
<1>2. CASE Restart
  <2>1. /\ fresh' = fresh + 1 /\ attendances' = {} /\ capabilities' = {}
        /\ pc' = [t \in Thread |-> "idle"] /\ req' = [t \in Thread |-> Idle]
    BY <1>2 DEF Restart
  <2>2. Open' = {} /\ Grants' = {} /\ Drawn' = {} /\ Paid' = {}
    BY <2>1 DEF Drawn, Open, Grants, Paid, HoldsSpent, Idle
  <2>. QED
    BY <2>1, <2>2, LedgerNext
<1>3. ASSUME NEW t \in Thread, Ask(t) PROVE UNCHANGED <<fresh, Drawn, Open, Grants, Paid>>
  <2>1. PICK r \in Request : Dispatch(t, r) /\ Asked(r)
    BY <1>3, AskDispatch DEF TypeInv
  <2>2. /\ UNCHANGED <<fresh, attendances, capabilities>> /\ pc[t] = "idle"
        /\ pc'[t] = FirstAccess(r.op) /\ req'[t] = r
        /\ \A u \in Thread \ {t} : pc'[u] = pc[u] /\ req'[u] = req[u]
    BY <2>1, DispatchFrame DEF registries, TypeInv
  <2>3. ~InFlight(t) /\ ~InFlight(t)' /\ ~HoldsSpent(t) /\ ~HoldsSpent(t)'
    BY <2>2 DEF FirstAccess, Purpose, InFlight, HoldsSpent
  <2>4. \A u \in Thread : (InFlight(u)' <=> InFlight(u)) /\ (HoldsSpent(u)' <=> HoldsSpent(u))
    BY <2>2, <2>3 DEF InFlight, HoldsSpent
  <2>5. Drawn' = Drawn
    BY <2>2, <2>3 DEF Drawn, InFlight
  <2>6. Paid' = Paid
    BY <2>2, <2>3, <2>4 DEF Paid
  <2>. QED
    BY <2>2, <2>5, <2>6 DEF Open, Grants
<1>4. ASSUME NEW t \in Thread, Step(t) PROVE Ledger!Next
  BY <1>4, LedgerSteps
<1>. QED
  BY <1>0, <1>1, <1>2, <1>3, <1>4 DEF Next

\* The staff implements the ledger, for any number of threads: no interleaving
\* of its handlers grants on a closed session, pays one grant twice, or makes a
\* session or a grant of a number that was not drawn for it.
THEOREM StaffImplementsLedger == Spec => ImplementsLedger
<1>1. Init => TypeInv /\ CapabilityInv /\ TicketInv
  BY TypeInvInit, CapabilityInvInit, TicketInvInit
<1>2. TypeInv /\ CapabilityInv /\ TicketInv /\ [Next]_vars => (TypeInv /\ CapabilityInv /\ TicketInv)'
  BY TypeInvNext, CapabilityInvNext, TicketInvNext
<1>. QED
  BY <1>1, <1>2, LedgerStarts, LedgerNextOrStutter, PTL DEF Spec, ImplementsLedger, Ledger!Spec
==============================================================================
