------------------------- MODULE AttendanceSeatProofs -------------------------
(***************************************************************************)
(* The signing seat of AttendanceStaff, which the handlers read and write  *)
(* outside the lock: with at most one PIN change under way it is never     *)
(* half written while the staff says BOUND.  Any number of other threads   *)
(* reads it meanwhile, and the process may be restarted at any time.       *)
(***************************************************************************)
EXTENDS AttendanceProofs, FiniteSetTheorems

\* Where a PIN change is before it leaves the seat.
Early == {"consume", "bound", "lookup", "spend", "check", "rewrite"}

\* Only a PIN change reaches the seat, and where a PIN change can be.
RotationFlow ==
  \A t \in Thread :
    /\ pc[t] \in Rotation \cup {"check", "rewrite"} => req[t].op = "pin.change"
    /\ req[t].op = "pin.change" => pc[t] \in {"idle"} \cup Early \cup Rotation
                                               \cup Answer

OneRotator == \A t, u \in Thread : Rotating(t) /\ Rotating(u) => t = u

\* The seat is empty or half written: from _signer = None to the last of the
\* four writes of _bind_startup.
Reseats(t) ==
  \/ pc[t] \in {"rebind", "underive", "seat", "public", "epoch", "posture"}
  \/ pc[t] \in {"zero", "erase"} /\ req[t].seat = NoSeat

\* What has been written of the seat, by the place of the thread.
WritesInv(t) ==
  /\ req[t].op = "pin.change" /\ pc[t] \in Early \cup {"void", "unseat", "stale"} =>
       req[t].seat = NoSeat
  /\ Reseats(t) => posture = "STALE_DERIVED"
  /\ pc[t] = "stale" \/ Reseats(t) =>
       signer = IF pc[t] \in {"public", "epoch", "posture"} THEN req[t].seat
                                                            ELSE NoSeat
  /\ pc[t] \in {"epoch", "posture"} => public = req[t].seat.pin
  /\ pc[t] = "posture" => epoch = req[t].seat.pin

\* The seed that a thread is to wipe is not the one it has seated or will.
SeedsInv(t) ==
  /\ pc[t] \in {"stale", "zero", "erase"} => req[t].old.no < fresh
  /\ pc[t] \in {"underive", "seat", "public", "epoch", "posture"} =>
       req[t].old = NoSeat
  /\ pc[t] \in {"zero", "erase"} => req[t].seat = NoSeat \/ req[t].old = NoSeat
  /\ pc[t] \in {"seat", "public", "epoch", "posture"} /\ req[t].seat # NoSeat =>
       /\ req[t].seat.no < fresh
       /\ req[t].seat.no \notin zeroing \cup closed

\* A seat is numbered below the counter, and so is every seed that is gone.
NumberedInv ==
  /\ signer.no < fresh
  /\ \A n \in zeroing \cup closed : n < fresh
  /\ signer # NoSeat => signer.no \notin zeroing \cup closed

SeatInv ==
  /\ RotationFlow /\ OneRotator /\ NumberedInv /\ BindingCoherent
  /\ \A t \in Thread : WritesInv(t) /\ SeedsInv(t)

------------------------------------------------------------------------------

LEMMA RotationFlowStep ==
  ASSUME TypeInv, RotationFlow, NEW t \in Thread, Step(t)
  PROVE  RotationFlow'
<1>. USE DEF TypeInv
<1>1. CASE Ends(t)
  BY <1>1, StepFrame DEF RotationFlow, Ends, Idle, Rotation
<1>2. CASE SameRequest(req'[t], req[t])
  <2>1. pc'[t] \in Rotation \cup {"check", "rewrite"} => req[t].op = "pin.change"
    BY StepFlow, StepFrame DEF RotationFlow, Flow, AfterLookup, Rotation, Answer
  <2>2. req[t].op = "pin.change" =>
          pc'[t] \in {"idle"} \cup Early \cup Rotation \cup Answer
    BY StepFlow, StepFrame
    DEF RotationFlow, Flow, AfterLookup, Rotation, Answer, Early
  <2>. QED
    BY <1>2, <2>1, <2>2, StepFrame DEF RotationFlow, SameRequest
<1>. QED
  BY <1>1, <1>2, StepFrame

\* Steps start no PIN change; only Ask does.
LEMMA OneRotatorStep ==
  ASSUME TypeOK, OneRotator, NEW t \in Thread, Step(t)
  PROVE  OneRotator'
<1>1. \A u \in Thread : Rotating(u)' => Rotating(u)
  BY StepFrame DEF Rotating, Ends, SameRequest
<1>. QED
  BY <1>1 DEF OneRotator

\* Handlers outside the rotation leave the seat and the seeds alone, and
\* enter the rotation at its beginning only.
LEMMA Bystanders ==
  ASSUME TypeOK, NEW t \in Thread, Step(t), pc[t] \notin Rotation
  PROVE  /\ UNCHANGED <<signer, public, epoch, posture, zeroing, closed>>
         /\ fresh' \in {fresh, fresh + 1}
         /\ credential' # credential => KeymanRewrite(t)
         /\ pc'[t] \notin Rotation \ {"void"}
         /\ pc'[t] = "void" => pc[t] = "rewrite"
<1>1. /\ pc'[t] \notin Rotation \ {"void"}
      /\ pc'[t] = "void" => pc[t] = "rewrite"
  BY StepFlow DEF Flow, Rotation, Answer, AfterLookup
<1>2. CASE ChallengeMint(t) \/ Consume(t) \/ Store(t) \/ SessionClear(t)
           \/ Spend(t) \/ Claims(t) \/ KeymanRewrite(t) \/ Deliver(t)
  BY <1>1, <1>2 DEF ChallengeMint, Consume, Store, SessionClear, Spend, Claims,
     KeymanRewrite, Deliver, seat, seeds
<1>3. CASE UNCHANGED <<seat, seeds, fresh, credential>>
  BY <1>1, <1>3 DEF seat, seeds
<1>. QED
  BY <1>2, <1>3 DEF Step, Rotation, CheckBound, Lookup, Derive, Compare,
     TokenBound, TokenSigner, Sign, KeymanCheck, Void, Unseat, Stale, Zero,
     Erase, Rebind, BindDerived, WriteSigner, WritePublic, WriteEpoch,
     WritePosture, SigningStatus, ReplyBound, ReplyPublic, ReplyEpoch

\* A PIN change carries its locals unchanged up to the seat.
LEMMA EarlyKeeps ==
  ASSUME TypeOK, RotationFlow, NEW t \in Thread, Step(t), pc[t] \notin Rotation,
         req[t].op = "pin.change", pc'[t] \in Early \cup {"void"}
  PROVE  pc[t] \in Early /\ req'[t].seat = req[t].seat
<1>. DEFINE K == pc'[t] = "idle" \/ req'[t] = req[t]
<1>a. ASSUME NEW l, Go(t, l, req[t]) PROVE K
  BY <1>a, GoFrame
<1>b. ASSUME Refuse(t) PROVE K
  BY <1>b, GoFrame DEF Refuse
<1>1. pc[t] \in Early
  BY StepFlow, StepFrame DEF RotationFlow, Flow, Early, Rotation, Answer
<1>. HIDE DEF K
<1>2. \/ CheckBound(t) \/ Consume(t) \/ Lookup(t) \/ Spend(t)
      \/ KeymanCheck(t) \/ KeymanRewrite(t)
  BY <1>1, Zenon DEF Early, Step, CheckBound, ChallengeMint, Consume,
     Lookup, Store, SessionClear, Spend, Derive, Compare, Claims, TokenBound,
     TokenSigner, Sign, KeymanCheck, KeymanRewrite, Void, Unseat, Stale, Zero,
     Erase, Rebind, BindDerived, WriteSigner, WritePublic, WriteEpoch,
     WritePosture, SigningStatus, ReplyBound, ReplyPublic, ReplyEpoch, Deliver
<1>3. K
  <2>1. CASE CheckBound(t)
    BY <2>1, <1>a, <1>b DEF CheckBound
  <2>2. CASE Consume(t)
    BY <2>2, <1>a, <1>b DEF Consume
  <2>3. CASE Lookup(t)
    BY <2>3, <1>a, <1>b DEF Lookup
  <2>4. CASE Spend(t)
    BY <2>4, <1>a, <1>b DEF Spend
  <2>5. CASE KeymanCheck(t)
    BY <2>5, <1>a, <1>b DEF KeymanCheck
  <2>6. CASE KeymanRewrite(t)
    BY <2>6, <1>a, <1>b DEF KeymanRewrite
  <2>. QED
    BY <1>2, <2>1, <2>2, <2>3, <2>4, <2>5, <2>6
<1>. QED
  BY <1>1, <1>3 DEF K, Early

\* Inside the rotation the place of a thread says what it does next.
LEMMA RotationSteps ==
  ASSUME NEW t \in Thread, Step(t), pc[t] \in Rotation
  PROVE  \/ pc[t] \in {"void", "unseat", "stale"} /\ (Void(t) \/ Unseat(t) \/ Stale(t))
         \/ pc[t] \in {"zero", "erase"} /\ (Zero(t) \/ Erase(t))
         \/ pc[t] \in {"rebind", "underive"} /\ (Rebind(t) \/ BindDerived(t))
         \/ /\ pc[t] \in {"seat", "public", "epoch", "posture"}
            /\ \/ WriteSigner(t) \/ WritePublic(t) \/ WriteEpoch(t)
               \/ WritePosture(t)
  BY DEF Rotation, Step, CheckBound, ChallengeMint, Consume,
     Lookup, Store, SessionClear, Spend, Derive, Compare, Claims, TokenBound,
     TokenSigner, Sign, KeymanCheck, KeymanRewrite, Void, Unseat, Stale, Zero,
     Erase, Rebind, BindDerived, WriteSigner, WritePublic, WriteEpoch,
     WritePosture, SigningStatus, ReplyBound, ReplyPublic, ReplyEpoch, Deliver

\* What the other threads know of the seat survives the steps of one that is
\* inside the rotation: they are not.
LEMMA OthersWait ==
  ASSUME TypeOK, SeatInv, NEW t \in Thread, Step(t), pc[t] \in Rotation,
         NEW u \in Thread \ {t}
  PROVE  WritesInv(u)' /\ SeedsInv(u)'
<1>1. Rotating(t)
  BY DEF SeatInv, RotationFlow, Rotating, Rotation
<1>2. pc[u] \notin Rotation
  BY <1>1 DEF SeatInv, RotationFlow, OneRotator, Rotating, Rotation
<1>3. pc'[u] = pc[u] /\ req'[u] = req[u]
  BY StepFrame
<1>. QED
  BY <1>2, <1>3 DEF SeatInv, WritesInv, SeedsInv, Reseats, Rotation, Early

\* The steps outside the rotation.
LEMMA SeatBystanders ==
  ASSUME TypeInv, SeatInv, NEW t \in Thread, Step(t), pc[t] \notin Rotation
  PROVE  SeatInv'
<1>. USE DEF TypeInv
<1>1. RotationFlow' /\ OneRotator'
  BY RotationFlowStep, OneRotatorStep DEF SeatInv
<1>2. UNCHANGED <<signer, public, epoch, posture, zeroing, closed>>
  BY Bystanders
<1>3. fresh \in Nat /\ fresh' \in {fresh, fresh + 1}
  BY Bystanders DEF TypeOK
<1>4. signer.no \in Nat /\ zeroing \subseteq Nat /\ closed \subseteq Nat
  BY DEF TypeOK, Seat
<1>5. NumberedInv' /\ BindingCoherent'
  BY <1>2, <1>3, <1>4 DEF SeatInv, NumberedInv, BindingCoherent, Bound
<1>6. WritesInv(t)' /\ SeedsInv(t)'
  <2>1. pc'[t] \notin Rotation \ {"void"}
    BY Bystanders
  <2>2. CASE Ends(t)
    BY <2>2 DEF Ends, Idle, WritesInv, SeedsInv, Reseats, Early
  <2>3. CASE SameRequest(req'[t], req[t])
    <3>1. ASSUME req'[t].op = "pin.change",
                 pc'[t] \in Early \cup {"void", "unseat", "stale"}
          PROVE  req'[t].seat = NoSeat
      <4>1. req[t].op = "pin.change" /\ pc'[t] \in Early \cup {"void"}
        BY <2>1, <2>3, <3>1 DEF SameRequest, Rotation
      <4>. QED
        BY <4>1, EarlyKeeps DEF SeatInv, WritesInv
    <3>. QED
      BY <2>1, <3>1 DEF WritesInv, SeedsInv, Reseats, Rotation
  <2>. QED
    BY <2>2, <2>3, StepFrame
<1>7. ASSUME NEW u \in Thread \ {t} PROVE WritesInv(u)' /\ SeedsInv(u)'
  <2>1. pc'[u] = pc[u] /\ req'[u] = req[u]
    BY StepFrame
  <2>2. req[u].old.no \in Nat /\ req[u].seat.no \in Nat
    BY ReqType DEF Seat
  <2>. QED
    BY <1>2, <1>3, <2>1, <2>2 DEF SeatInv, WritesInv, SeedsInv, Reseats
<1>. QED
  BY <1>1, <1>5, <1>6, <1>7 DEF SeatInv

LEMMA SeatLocals ==
  ASSUME TypeOK, NEW t \in Thread
  PROVE  /\ \A s : LET r == [req[t] EXCEPT !.old = s]
                   IN r.old = s /\ r.seat = req[t].seat /\ r.op = req[t].op
         /\ \A s : LET r == [req[t] EXCEPT !.seat = s]
                   IN r.seat = s /\ r.old = req[t].old /\ r.op = req[t].op
  BY ReqType DEF Request

\* The steps inside the rotation, one thread at a time.
LEMMA SeatRotation ==
  ASSUME TypeInv, SeatInv, NEW t \in Thread, Step(t), pc[t] \in Rotation
  PROVE  SeatInv'
<1>. USE DEF TypeInv
<1>1. RotationFlow' /\ OneRotator'
  BY RotationFlowStep, OneRotatorStep DEF SeatInv
<1>2. \A u \in Thread \ {t} : WritesInv(u)' /\ SeedsInv(u)'
  BY OthersWait
<1>3. WritesInv(t) /\ SeedsInv(t) /\ NumberedInv /\ BindingCoherent
        /\ req[t].op = "pin.change"
  BY DEF SeatInv, RotationFlow
<1>4. /\ fresh \in Nat /\ signer.no \in Nat
      /\ zeroing \subseteq Nat /\ closed \subseteq Nat
      /\ req[t].old.no \in Nat /\ req[t].seat.no \in Nat
      /\ NoSeat.no = 0
  BY ReqType DEF TypeOK, Seat, NoSeat
<1>5. /\ NumberedInv' /\ BindingCoherent'
      /\ WritesInv(t)' /\ SeedsInv(t)'
  <2>1. CASE Void(t)
    <3>1. pc[t] = "void" /\ pc'[t] = "unseat" /\ req'[t] = req[t]
      BY <2>1, GoFrame DEF Void
    <3>2. UNCHANGED <<fresh, signer, public, epoch, posture, zeroing, closed>>
      BY <2>1 DEF Void, seat, seeds
    <3>. QED
      BY <1>3, <3>1, <3>2 DEF WritesInv, SeedsInv, NumberedInv,
         BindingCoherent, Bound, Reseats, Early
  <2>2. CASE Unseat(t)
    <3>0. /\ pc[t] = "unseat" /\ pc'[t] = "stale"
          /\ req'[t] = [req[t] EXCEPT !.old = signer]
      BY <2>2, GoFrame DEF Unseat
    <3>1. /\ pc[t] = "unseat" /\ pc'[t] = "stale"
          /\ req'[t].old = signer /\ req'[t].seat = req[t].seat
      BY <3>0, SeatLocals
    <3>2. /\ signer' = NoSeat
          /\ UNCHANGED <<fresh, public, epoch, posture, zeroing, closed>>
      BY <2>2 DEF Unseat, seeds
    <3>. QED
      BY <1>3, <1>4, <3>1, <3>2 DEF WritesInv, SeedsInv, NumberedInv,
         BindingCoherent, Bound, Reseats, Early
  <2>3. CASE Stale(t)
    <3>1. pc[t] = "stale" /\ pc'[t] = "zero" /\ req'[t] = req[t]
      BY <2>3, GoFrame DEF Stale
    <3>2. /\ posture' = "STALE_DERIVED"
          /\ UNCHANGED <<fresh, signer, public, epoch, zeroing, closed>>
      BY <2>3 DEF Stale, seeds
    <3>. QED
      BY <1>3, <3>1, <3>2 DEF WritesInv, SeedsInv, NumberedInv,
         BindingCoherent, Bound, Reseats, Early
  <2>4. CASE Zero(t)
    <3>1. pc[t] = "zero" /\ pc'[t] = "erase" /\ req'[t] = req[t]
      BY <2>4, GoFrame DEF Zero
    <3>2. /\ zeroing' = zeroing \cup (Closing(req[t]) \ closed)
          /\ UNCHANGED <<fresh, signer, public, epoch, posture, closed>>
      BY <2>4 DEF Zero, seat
    <3>3. req[t].seat = NoSeat => signer = NoSeat
      BY <1>3, <3>1 DEF WritesInv, Reseats
    <3>. QED
      BY <1>3, <1>4, <3>1, <3>2, <3>3 DEF WritesInv, SeedsInv, NumberedInv,
         BindingCoherent, Bound, Reseats, Early, Closing
  <2>5. CASE Erase(t)
    <3>1. /\ pc[t] = "erase" /\ req'[t] = req[t]
          /\ pc'[t] = IF req[t].seat = NoSeat THEN "rebind" ELSE "reply"
      BY <2>5, GoFrame DEF Erase
    <3>2. /\ zeroing' \subseteq zeroing
          /\ closed' = closed \cup Closing(req[t])
          /\ UNCHANGED <<fresh, signer, public, epoch, posture>>
      BY <2>5 DEF Erase, seat
    <3>3. req[t].seat = NoSeat => signer = NoSeat
      BY <1>3, <3>1 DEF WritesInv, Reseats
    <3>. QED
      BY <1>3, <1>4, <3>1, <3>2, <3>3 DEF WritesInv, SeedsInv, NumberedInv,
         BindingCoherent, Bound, Reseats, Early, Closing
  <2>6. CASE Rebind(t)
    <3>0. /\ pc[t] = "rebind" /\ pc'[t] = "underive"
          /\ req'[t] = [req[t] EXCEPT !.old = signer]
      BY <2>6, GoFrame DEF Rebind
    <3>1. /\ pc[t] = "rebind" /\ pc'[t] = "underive"
          /\ req'[t].old = signer /\ req'[t].seat = req[t].seat
      BY <3>0, SeatLocals
    <3>2. UNCHANGED <<fresh, signer, public, epoch, posture, zeroing, closed>>
      BY <2>6 DEF Rebind, seat, seeds
    <3>. QED
      BY <1>3, <3>1, <3>2 DEF WritesInv, SeedsInv, NumberedInv,
         BindingCoherent, Bound, Reseats, Early
  <2>7. CASE BindDerived(t)
    <3>0. /\ pc[t] = "underive" /\ pc'[t] = "seat"
          /\ UNCHANGED <<signer, public, epoch, posture, zeroing, closed>>
          /\ \/ req'[t] = [req[t] EXCEPT !.seat = Derived(t)] /\ fresh' = fresh + 1
             \/ req'[t] = [req[t] EXCEPT !.seat = NoSeat] /\ fresh' = fresh
      BY <2>7, GoFrame DEF BindDerived, seat, seeds
    <3>a. ASSUME NEW s, req'[t] = [req[t] EXCEPT !.seat = s]
          PROVE  req'[t].seat = s /\ req'[t].old = req[t].old
      BY <3>a, SeatLocals
    <3>1. /\ req'[t].old = req[t].old
          /\ \/ req'[t].seat = Derived(t) /\ fresh' = fresh + 1
             \/ req'[t].seat = NoSeat /\ fresh' = fresh
      BY <3>0, <3>a, Zenon
    <3>2. Derived(t).no = fresh
      BY DEF Derived
    <3>. QED
      BY <1>3, <1>4, <3>0, <3>1, <3>2 DEF WritesInv, SeedsInv, NumberedInv,
         BindingCoherent, Bound, Reseats, Early
  <2>8. CASE WriteSigner(t)
    <3>1. pc[t] = "seat" /\ pc'[t] = "public" /\ req'[t] = req[t]
      BY <2>8, GoFrame DEF WriteSigner
    <3>2. /\ signer' = req[t].seat
          /\ UNCHANGED <<fresh, public, epoch, posture, zeroing, closed>>
      BY <2>8 DEF WriteSigner, seeds
    <3>. QED
      BY <1>3, <1>4, <3>1, <3>2 DEF WritesInv, SeedsInv, NumberedInv,
         BindingCoherent, Bound, Reseats, Early
  <2>9. CASE WritePublic(t)
    <3>1. pc[t] = "public" /\ pc'[t] = "epoch" /\ req'[t] = req[t]
      BY <2>9, GoFrame DEF WritePublic
    <3>2. /\ public' = req[t].seat.pin
          /\ UNCHANGED <<fresh, signer, epoch, posture, zeroing, closed>>
      BY <2>9 DEF WritePublic, seeds
    <3>. QED
      BY <1>3, <3>1, <3>2 DEF WritesInv, SeedsInv, NumberedInv,
         BindingCoherent, Bound, Reseats, Early
  <2>10. CASE WriteEpoch(t)
    <3>1. pc[t] = "epoch" /\ pc'[t] = "posture" /\ req'[t] = req[t]
      BY <2>10, GoFrame DEF WriteEpoch
    <3>2. /\ epoch' = req[t].seat.pin
          /\ UNCHANGED <<fresh, signer, public, posture, zeroing, closed>>
      BY <2>10 DEF WriteEpoch, seeds
    <3>. QED
      BY <1>3, <3>1, <3>2 DEF WritesInv, SeedsInv, NumberedInv,
         BindingCoherent, Bound, Reseats, Early
  <2>11. CASE WritePosture(t)
    <3>1. /\ pc[t] = "posture"
          /\ \/ /\ req[t].seat # NoSeat /\ pc'[t] = "zero" /\ req'[t] = req[t]
             \/ /\ req[t].seat = NoSeat /\ pc'[t] = "idle" /\ req'[t] = Idle
      BY <2>11, GoFrame DEF WritePosture, RebindFailed, Refuse
    <3>2. UNCHANGED <<fresh, signer, public, epoch, zeroing, closed>>
      BY <2>11 DEF WritePosture, seeds
    <3>3. /\ signer = req[t].seat /\ public = req[t].seat.pin
          /\ epoch = req[t].seat.pin /\ req[t].old = NoSeat
      BY <1>3, <3>1 DEF WritesInv, SeedsInv, Reseats
    <3>4. Idle.op # "pin.change"
      BY DEF Idle
    <3>. QED
      BY <1>3, <1>4, <3>1, <3>2, <3>3, <3>4 DEF WritesInv, SeedsInv, NumberedInv,
         BindingCoherent, Bound, Reseats, Early
  <2>. QED
    BY <2>1, <2>2, <2>3, <2>4, <2>5, <2>6, <2>7, <2>8, <2>9, <2>10, <2>11,
       RotationSteps
<1>. QED
  BY <1>1, <1>2, <1>3, <1>5 DEF SeatInv

LEMMA SeatInvInit == Init => SeatInv
  <1>. SUFFICES ASSUME Init PROVE SeatInv
    OBVIOUS
  <1>1. \A t \in Thread : pc[t] = "idle" /\ req[t] = Idle
    BY DEF Init
  <1>2. NoSeat.no = 0 /\ zeroing = {} /\ closed = {} /\ fresh = 2
    BY DEF Init, NoSeat
  <1>3. NumberedInv /\ BindingCoherent
    BY <1>2 DEF Init, NumberedInv, BindingCoherent, Bound
  <1>. QED
    BY <1>1, <1>3 DEF SeatInv, RotationFlow, OneRotator, Rotating, WritesInv,
       SeedsInv, Reseats, Idle, Rotation, Early

\* One PIN change is let in only when none is under way.
LEMMA RotatorsAsk ==
  ASSUME TypeOK, MaxRotators <= 1, NEW t \in Thread, NEW r \in Request,
         Dispatch(t, r), OneRotator, r.op = "pin.change" => MayRotate
  PROVE  OneRotator'
<1>1. \A u \in Thread \ {t} : Rotating(u)' = Rotating(u)
  BY DispatchFrame DEF Rotating
<1>2. CASE r.op = "pin.change"
  <2>. DEFINE S == {u \in Thread : Rotating(u)}
  <2>1. ASSUME NEW u \in S PROVE FALSE
    <3>1. S = {u}
      BY <2>1 DEF OneRotator
    <3>2. Cardinality(S) = 1
      BY <3>1, FS_Singleton
    <3>. QED
      BY <1>2, <3>2, StaffConstants DEF MayRotate
  <2>. QED
    BY <1>1, <2>1 DEF OneRotator
<1>3. CASE r.op # "pin.change"
  <2>1. ~Rotating(t)'
    BY <1>3, DispatchFrame DEF Rotating
  <2>. QED
    BY <1>1, <2>1 DEF OneRotator
<1>. QED
  BY <1>2, <1>3

LEMMA SeatInvNext ==
  ASSUME TypeInv, SeatInv, MaxRotators <= 1, [Next]_vars
  PROVE  SeatInv'
<1>. USE DEF TypeInv
<1>1. CASE Tick \/ UNCHANGED vars
  BY <1>1 DEF Tick, vars, seat, seeds, SeatInv, RotationFlow, OneRotator,
     Rotating, NumberedInv, BindingCoherent, Bound, WritesInv, SeedsInv, Reseats
<1>2. CASE Restart
  <2>1. \A t \in Thread : pc'[t] = "idle" /\ req'[t] = Idle
    BY <1>2 DEF Restart
  <2>2. RotationFlow' /\ OneRotator' /\ \A t \in Thread : WritesInv(t)' /\ SeedsInv(t)'
    BY <2>1 DEF RotationFlow, OneRotator, Rotating, WritesInv,
       SeedsInv, Reseats, Idle, Rotation, Early
  <2>3. /\ fresh \in Nat /\ fresh' = fresh + 1 /\ NoSeat.no = 0
        /\ zeroing \subseteq Nat /\ closed \subseteq Nat
        /\ UNCHANGED <<zeroing, closed>>
    BY <1>2 DEF Restart, TypeOK, NoSeat, seeds
  <2>4. \/ signer' = NoSeat
        \/ /\ signer'.no = fresh /\ signer'.pin = credential
           /\ public' = credential /\ epoch' = credential
    BY <1>2 DEF Restart
  <2>5. NumberedInv' /\ BindingCoherent'
    BY <2>3, <2>4 DEF SeatInv, NumberedInv, BindingCoherent, Bound
  <2>. QED
    BY <2>2, <2>5 DEF SeatInv
<1>3. ASSUME NEW t \in Thread, Ask(t) PROVE SeatInv'
  <2>1. PICK r \in Request : Dispatch(t, r) /\ Asked(r)
    BY <1>3, AskDispatch
  <2>2. /\ pc'[t] \in {"status", "consume", "bound"} /\ req'[t] = r
        /\ r.op = "pin.change" => pc'[t] = "consume"
        /\ req'[t].seat = NoSeat
    BY <2>1, DispatchFrame DEF FirstAccess, Asked, Purpose
  <2>3. /\ \A u \in Thread \ {t} : pc'[u] = pc[u] /\ req'[u] = req[u]
        /\ UNCHANGED <<fresh, signer, public, epoch, posture, zeroing, closed>>
    BY <2>1, DispatchFrame DEF seat, seeds
  <2>4. OneRotator'
    BY <2>1, RotatorsAsk DEF SeatInv, Asked
  <2>5. RotationFlow'
    BY <2>2, <2>3 DEF SeatInv, RotationFlow, Early, Rotation
  <2>6. NumberedInv' /\ BindingCoherent'
    BY <2>3 DEF SeatInv, NumberedInv, BindingCoherent, Bound
  <2>7. WritesInv(t)' /\ SeedsInv(t)'
    BY <2>2 DEF WritesInv, SeedsInv, Reseats
  <2>8. \A u \in Thread \ {t} : WritesInv(u)' /\ SeedsInv(u)'
    BY <2>3 DEF SeatInv, WritesInv, SeedsInv, Reseats
  <2>. QED
    BY <2>4, <2>5, <2>6, <2>7, <2>8 DEF SeatInv
<1>4. ASSUME NEW t \in Thread, Step(t) PROVE SeatInv'
  BY <1>4, SeatBystanders, SeatRotation
<1>. QED
  BY <1>1, <1>2, <1>3, <1>4 DEF Next

LEMMA SeatInvHolds ==
  ASSUME MaxRotators <= 1
  PROVE  Spec => [](TypeInv /\ SeatInv)
<1>1. Init => TypeInv /\ SeatInv
  BY TypeInvInit, SeatInvInit
<1>2. TypeInv /\ SeatInv /\ [Next]_vars => (TypeInv /\ SeatInv)'
  BY TypeInvNext, SeatInvNext
<1>. QED
  BY <1>1, <1>2, PTL DEF Spec

\* While the staff says BOUND, its signer, public key and epoch are of one
\* PIN, although _bind_startup writes the four fields one by one outside the
\* lock: the posture is withdrawn before the first and given back after the
\* last, and no second PIN change is under way.
THEOREM SeatIsOfOnePin ==
  ASSUME MaxRotators <= 1
  PROVE  Spec => []BindingCoherent
<1>1. TypeInv /\ SeatInv => BindingCoherent
  BY DEF SeatInv
<1>. QED
  BY <1>1, SeatInvHolds, PTL

\* _close wipes seeds byte by byte while others sign; the seed of the signer
\* that a BOUND staff has seated is never among them.
THEOREM SeatedSeedIsWhole ==
  ASSUME MaxRotators <= 1
  PROVE  Spec => []SeatedSignerIsOpen
<1>1. TypeInv /\ SeatInv => SeatedSignerIsOpen
  BY DEF SeatInv, NumberedInv, SeatedSignerIsOpen, Bound
<1>. QED
  BY <1>1, SeatInvHolds, PTL
==============================================================================
