--------------------------- MODULE AttendanceProofs ---------------------------
(***************************************************************************)
(* Theorems about AttendanceStaff, for any number of threads, documents,   *)
(* PINs and scopes, any limits, and any mix of operations.                 *)
(***************************************************************************)
EXTENDS AttendanceStaff, TLAPS

\* TypeOK alone is not inductive: the fields of a request range over the
\* absent values too, and only the operation says which of them are given
\* before one enters a registry or reaches Keyman.
RequestsComplete ==
  \A t \in Thread :
    /\ req[t].op = "session.mint" => req[t].doc \in Doc
    /\ req[t].op = "capability.mint" => req[t].scope \in Scope
    /\ req[t].op = "pin.change" => req[t].new \in Pin
    /\ pc[t] \in {"check", "rewrite"} => req[t].op = "pin.change"

TypeInv == TypeOK /\ RequestsComplete

LEMMA NoSeatType == NoSeat \in Seat
  BY DEF NoSeat, Seat

LEMMA IdleType == Idle \in Request
  BY NoSeatType DEF Idle, Request, Operation, Purpose, Key

\* Setting the control of one thread keeps both arrays in their types.
LEMMA GoType ==
  ASSUME TypeOK, NEW t \in Thread, NEW l \in Label, NEW r \in Request,
         Go(t, l, r)
  PROVE  pc' \in [Thread -> Label] /\ req' \in [Thread -> Request]
  BY DEF TypeOK, Go

LEMMA RefuseType ==
  ASSUME TypeOK, NEW t \in Thread, Refuse(t)
  PROVE  pc' \in [Thread -> Label] /\ req' \in [Thread -> Request]
  BY IdleType, GoType DEF Refuse, Label

\* The locals a handler may assign.
LEMMA RequestUpdate ==
  ASSUME NEW r \in Request
  PROVE  /\ \A n \in Nat : [r EXCEPT !.id = n] \in Request
         /\ \A s \in Seat : [r EXCEPT !.seat = s] \in Request
         /\ \A s \in Seat : [r EXCEPT !.old = s] \in Request
         /\ \A k \in Key : [r EXCEPT !.key = k] \in Request
         /\ \A k \in Key : [r EXCEPT !.epoch = k] \in Request
         /\ \A n \in Nat, k \in Key, e \in Nat :
              [r EXCEPT !.id = n, !.epoch = k, !.exp = e] \in Request
  BY DEF Request

\* What a client asks for is a well-typed request.
LEMMA DispatchType ==
  ASSUME TypeOK, NEW t \in Thread, NEW r \in Request, Dispatch(t, r)
  PROVE  TypeOK'
<1>1. FirstAccess(r.op) \in Label
  BY DEF FirstAccess, Label, Request
<1>2. pc' \in [Thread -> Label] /\ req' \in [Thread -> Request]
  BY <1>1, GoType DEF Dispatch
<1>. QED
  BY <1>2 DEF TypeOK, Dispatch, registries, seat, seeds

\* What the clients fill in, operation by operation.
Asked(r) ==
  /\ r.op = "session.mint" => r.doc \in Doc
  /\ r.op = "capability.mint" => r.scope \in Scope /\ r.ticket \in known.ticket
  /\ r.op = "pin.change" => r.new \in Pin /\ MayRotate
  /\ r.seat = NoSeat
  /\ r.op \in {"capability.consume", "pin.change"} => r.cap \in known.capability

LEMMA AskDispatch ==
  ASSUME TypeOK, NEW t \in Thread, Ask(t)
  PROVE  \E r \in Request : Dispatch(t, r) /\ Asked(r)
<1>0. known.challenge \subseteq Nat /\ known.ticket \subseteq Nat
        /\ known.capability \subseteq Nat
  BY DEF TypeOK
<1>1. CASE AskSessionChallenge(t)
  <2>1. PICK d \in Doc : Dispatch(t, [Idle EXCEPT !.op = "challenge.mint",
                                !.purpose = "session.mint", !.doc = d])
    BY <1>1 DEF AskSessionChallenge
  <2>2. [Idle EXCEPT !.op = "challenge.mint",
                                !.purpose = "session.mint", !.doc = d] \in Request
    BY <1>0, IdleType DEF Request, Operation, Purpose
  <2>3. Asked([Idle EXCEPT !.op = "challenge.mint",
                                !.purpose = "session.mint", !.doc = d])
    BY DEF Asked, Idle
  <2>. QED
    BY <2>1, <2>2, <2>3
<1>2. CASE AskTicketChallenge(t)
  <2>1. PICK p \in Purpose, k \in known.ticket, s \in Scope \cup {NoScope} :
          Dispatch(t, [Idle EXCEPT !.op = "challenge.mint", !.purpose = p,
                                   !.ticket = k, !.scope = s])
    BY <1>2 DEF AskTicketChallenge
  <2>2. [Idle EXCEPT !.op = "challenge.mint", !.purpose = p,
                                   !.ticket = k, !.scope = s] \in Request
    BY <1>0, IdleType DEF Request, Operation, Purpose
  <2>3. Asked([Idle EXCEPT !.op = "challenge.mint", !.purpose = p,
                                   !.ticket = k, !.scope = s])
    BY DEF Asked, Idle
  <2>. QED
    BY <2>1, <2>2, <2>3
<1>3. CASE AskSessionMint(t)
  <2>1. PICK c \in known.challenge, d \in Doc, p \in Pin :
          Dispatch(t, [Idle EXCEPT !.op = "session.mint", !.cid = c,
                                   !.doc = d, !.pin = p])
    BY <1>3 DEF AskSessionMint
  <2>2. [Idle EXCEPT !.op = "session.mint", !.cid = c,
                                   !.doc = d, !.pin = p] \in Request
    BY <1>0, IdleType DEF Request, Operation, Purpose, Key
  <2>3. Asked([Idle EXCEPT !.op = "session.mint", !.cid = c,
                                   !.doc = d, !.pin = p])
    BY DEF Asked, Idle
  <2>. QED
    BY <2>1, <2>2, <2>3
<1>4. CASE AskTicketed(t)
  <2>1. PICK p \in {"session.prove", "session.clear", "capability.mint"},
             c \in known.challenge, k \in known.ticket, d \in Doc,
             s \in Scope \cup {NoScope} :
          /\ s = NoScope <=> p = "session.clear"
          /\ Dispatch(t, [Idle EXCEPT !.op = p, !.purpose = p, !.cid = c,
                                      !.ticket = k, !.doc = d, !.scope = s])
    BY <1>4 DEF AskTicketed
  <2>2. [Idle EXCEPT !.op = p, !.purpose = p, !.cid = c,
                                   !.ticket = k, !.doc = d, !.scope = s] \in Request
    BY <1>0, IdleType DEF Request, Operation, Purpose
  <2>3. Asked([Idle EXCEPT !.op = p, !.purpose = p, !.cid = c,
                                   !.ticket = k, !.doc = d, !.scope = s])
    BY <2>1 DEF Asked, Idle
  <2>. QED
    BY <2>1, <2>2, <2>3
<1>5. CASE AskConsume(t)
  <2>1. PICK k \in known.ticket, c \in known.capability, s \in Scope :
          Dispatch(t, [Idle EXCEPT !.op = "capability.consume",
                                   !.ticket = k, !.cap = c, !.scope = s])
    BY <1>5 DEF AskConsume
  <2>2. [Idle EXCEPT !.op = "capability.consume",
                                   !.ticket = k, !.cap = c, !.scope = s] \in Request
    BY <1>0, IdleType DEF Request, Operation, Purpose
  <2>3. Asked([Idle EXCEPT !.op = "capability.consume",
                                   !.ticket = k, !.cap = c, !.scope = s])
    BY DEF Asked, Idle
  <2>. QED
    BY <2>1, <2>2, <2>3
<1>6. CASE AskPinChange(t)
  <2>1. PICK c \in known.challenge, k \in known.ticket, d \in Doc,
             a \in known.capability, old \in Pin, new \in Pin :
          Dispatch(t, [Idle EXCEPT !.op = "pin.change",
                         !.purpose = "pin.change", !.cid = c, !.ticket = k,
                         !.doc = d, !.cap = a, !.scope = PIN_ROTATION,
                         !.pin = old, !.new = new])
    BY <1>6 DEF AskPinChange
  <2>2. [Idle EXCEPT !.op = "pin.change",
                         !.purpose = "pin.change", !.cid = c, !.ticket = k,
                         !.doc = d, !.cap = a, !.scope = PIN_ROTATION,
                         !.pin = old, !.new = new] \in Request
    BY <1>0, IdleType, StaffConstants DEF Request, Operation, Purpose, Key
  <2>3. Asked([Idle EXCEPT !.op = "pin.change",
                         !.purpose = "pin.change", !.cid = c, !.ticket = k,
                         !.doc = d, !.cap = a, !.scope = PIN_ROTATION,
                         !.pin = old, !.new = new])
    BY <1>6 DEF Asked, Idle, AskPinChange
  <2>. QED
    BY <2>1, <2>2, <2>3
<1>7. CASE AskCurrent(t)
  <2>1. PICK k \in known.ticket :
          Dispatch(t, [Idle EXCEPT !.op = "attendance.current", !.ticket = k])
    BY <1>7 DEF AskCurrent
  <2>2. [Idle EXCEPT !.op = "attendance.current", !.ticket = k] \in Request
    BY <1>0, IdleType DEF Request, Operation, Purpose
  <2>3. Asked([Idle EXCEPT !.op = "attendance.current", !.ticket = k])
    BY DEF Asked, Idle
  <2>. QED
    BY <2>1, <2>2, <2>3
<1>8. CASE AskStatus(t)
  BY <1>8, IdleType DEF AskStatus, Asked, Idle
<1>. QED
  BY <1>1, <1>2, <1>3, <1>4, <1>5, <1>6, <1>7, <1>8 DEF Ask

LEMMA ReqType ==
  ASSUME TypeOK, NEW t \in Thread
  PROVE  /\ req[t] \in Request
         /\ req[t].id \in Nat /\ req[t].exp \in Nat /\ req[t].ticket \in Nat
         /\ req[t].purpose \in Purpose /\ req[t].doc \in Doc \cup {NoDoc}
         /\ req[t].scope \in Scope \cup {NoScope}
         /\ req[t].pin \in Key /\ req[t].new \in Key
         /\ req[t].epoch \in Key /\ req[t].key \in Key
         /\ req[t].seat \in Seat /\ req[t].old \in Seat
         /\ signer \in Seat /\ fresh \in Nat /\ now \in Nat
         /\ public \in Key /\ epoch \in Key /\ NoSeat \in Seat
  BY NoSeatType DEF TypeOK, Request, Key

\* The steps that move a thread on and touch nothing but its locals.
LEMMA QuietType ==
  ASSUME TypeOK, NEW t \in Thread,
         \/ CheckBound(t) \/ Lookup(t) \/ Derive(t) \/ Compare(t)
         \/ TokenBound(t) \/ TokenSigner(t) \/ Sign(t) \/ KeymanCheck(t)
         \/ Rebind(t) \/ SigningStatus(t) \/ ReplyBound(t)
         \/ ReplyPublic(t) \/ ReplyEpoch(t)
  PROVE  TypeOK'
<1>1. /\ UNCHANGED <<now, fresh, registries, seat, seeds, credential, known>>
      /\ pc' \in [Thread -> Label] /\ req' \in [Thread -> Request]
  <2>. USE GoType, RefuseType, ReqType, RequestUpdate
  <2>1. CASE CheckBound(t)
    BY <2>1 DEF CheckBound, Label
  <2>2. CASE Lookup(t)
    BY <2>2 DEF Lookup, Label, AfterLookup
  <2>3. CASE Derive(t)
    BY <2>3 DEF Derive, Label
  <2>4. CASE Compare(t)
    BY <2>4 DEF Compare, Label
  <2>5. CASE TokenBound(t)
    BY <2>5 DEF TokenBound, Label
  <2>6. CASE KeymanCheck(t)
    BY <2>6 DEF KeymanCheck, Label
  <2>7. CASE Rebind(t)
    BY <2>7 DEF Rebind, Label
  <2>8. CASE SigningStatus(t)
    BY <2>8, IdleType DEF SigningStatus, Label, Refuse
  <2>9. CASE ReplyBound(t)
    BY <2>9 DEF ReplyBound, Label
  <2>10. CASE TokenSigner(t)
    BY <2>10 DEF TokenSigner, Label
  <2>11. CASE Sign(t)
    BY <2>11 DEF Sign, Label, Key, Seat
  <2>12. CASE ReplyPublic(t)
    BY <2>12 DEF ReplyPublic, Label
  <2>13. CASE ReplyEpoch(t)
    BY <2>13 DEF ReplyEpoch, Label
  <2>. QED
    BY <2>1, <2>2, <2>3, <2>4, <2>5, <2>6, <2>7, <2>8, <2>9, <2>10, <2>11, <2>12, <2>13
<1>. QED
  BY <1>1 DEF TypeOK, registries, seat, seeds

\* Minting and storing: what enters a registry is well typed.
LEMMA RegistryType ==
  ASSUME TypeOK, RequestsComplete, NEW t \in Thread,
         \/ ChallengeMint(t) \/ Consume(t) \/ Store(t) \/ SessionClear(t)
         \/ Spend(t) \/ Claims(t) \/ Void(t)
  PROVE  TypeOK'
<1>1. CASE ChallengeMint(t)
  <2>0. fresh + 1 \in Nat /\ now + CHALLENGE_TTL_SECONDS \in Nat
    BY ReqType, StaffConstants
  <2>3. [req[t] EXCEPT !.id = fresh] \in Request
    BY ReqType, RequestUpdate
  <2>1. /\ pc' \in [Thread -> Label] /\ req' \in [Thread -> Request]
        /\ fresh' \in Nat
    BY <1>1, <2>0, <2>3, GoType, RefuseType, ReqType DEF ChallengeMint, Label
  <2>2. challenges' \subseteq Challenge
    <3>. DEFINE item == [id |-> fresh, purpose |-> req[t].purpose,
                         doc |-> req[t].doc, ticket |-> req[t].ticket,
                         scope |-> req[t].scope,
                         exp |-> now + CHALLENGE_TTL_SECONDS]
    <3>1. item \in Challenge
      BY <2>0, ReqType DEF Challenge
    <3>2. Live(challenges) \subseteq Challenge
      BY DEF TypeOK, Live
    <3>. QED
      BY <1>1, <3>1, <3>2 DEF ChallengeMint
  <2>. QED
    BY <1>1, <2>1, <2>2 DEF TypeOK, ChallengeMint, Live, seat, seeds
<1>2. CASE Consume(t)
  <2>1. pc' \in [Thread -> Label] /\ req' \in [Thread -> Request]
    BY <1>2, GoType, RefuseType, ReqType DEF Consume, Label
  <2>. QED
    BY <1>2, <2>1 DEF TypeOK, Consume, Live, Without, seat, seeds
<1>3. CASE Store(t)
  <2>1. pc' \in [Thread -> Label] /\ req' \in [Thread -> Request]
    BY <1>3, GoType, RefuseType, ReqType DEF Store, Label
  <2>2. attendances' \subseteq Attendance /\ capabilities' \subseteq Capability
    <3>. DEFINE a == [id |-> req[t].id, doc |-> req[t].doc,
                      verified |-> req[t].pin, epoch |-> req[t].epoch,
                      key |-> req[t].key]
                c == [id |-> req[t].id, ticket |-> req[t].ticket,
                      scope |-> req[t].scope, exp |-> req[t].exp,
                      epoch |-> req[t].epoch, key |-> req[t].key]
    <3>1. req[t].op = "session.mint" => a \in Attendance
      BY ReqType DEF Attendance, RequestsComplete
    <3>2. req[t].op = "capability.mint" => c \in Capability
      BY ReqType DEF Capability, RequestsComplete
    <3>. HIDE DEF a, c
    <3>3. \/ UNCHANGED <<attendances, capabilities>>
          \/ /\ req[t].op = "session.mint"
             /\ attendances' = attendances \cup {a} /\ UNCHANGED capabilities
          \/ /\ req[t].op = "capability.mint"
             /\ capabilities' = capabilities \cup {c} /\ UNCHANGED attendances
      BY <1>3 DEF Store, a, c
    <3>. QED
      BY <3>1, <3>2, <3>3 DEF TypeOK
  <2>. QED
    BY <1>3, <2>1, <2>2 DEF TypeOK, Store, seat, seeds
<1>4. CASE SessionClear(t)
  <2>1. pc' \in [Thread -> Label] /\ req' \in [Thread -> Request]
    BY <1>4, GoType, RefuseType, ReqType DEF SessionClear, Label
  <2>. QED
    BY <1>4, <2>1 DEF TypeOK, SessionClear, WithoutChildren, seat, seeds
<1>5. CASE Spend(t)
  <2>1. pc' \in [Thread -> Label] /\ req' \in [Thread -> Request]
    BY <1>5, GoType, RefuseType, ReqType DEF Spend, Label
  <2>. QED
    BY <1>5, <2>1 DEF TypeOK, Spend, Live, Without, seat, seeds
<1>6. CASE Claims(t)
  <2>. DEFINE e == IF req[t].op = "capability.mint"
                   THEN now + CAPABILITY_TTL_SECONDS ELSE 0
  <2>0. e \in Nat /\ fresh + 1 \in Nat
    BY ReqType, StaffConstants
  <2>. HIDE DEF e
  <2>2. [req[t] EXCEPT !.id = fresh, !.epoch = epoch, !.exp = e] \in Request
    BY <2>0, ReqType, RequestUpdate
  <2>1. /\ pc' \in [Thread -> Label] /\ req' \in [Thread -> Request]
        /\ fresh' \in Nat
    BY <1>6, <2>0, <2>2, GoType DEF Claims, Label, e
  <2>. QED
    BY <1>6, <2>1 DEF TypeOK, Claims, registries, seat, seeds
<1>7. CASE Void(t)
  <2>1. pc' \in [Thread -> Label] /\ req' \in [Thread -> Request]
    BY <1>7, GoType, RefuseType, ReqType DEF Void, Label
  <2>. QED
    BY <1>7, <2>1 DEF TypeOK, Void, seat, seeds
<1>. QED
  BY <1>1, <1>2, <1>3, <1>4, <1>5, <1>6, <1>7

\* Keyman, the four writes of the signing seat, and the seeds being wiped.
LEMMA SeatType ==
  ASSUME TypeOK, RequestsComplete, NEW t \in Thread,
         \/ KeymanRewrite(t) \/ Unseat(t) \/ Stale(t) \/ Zero(t) \/ Erase(t)
         \/ BindDerived(t) \/ WriteSigner(t) \/ WritePublic(t)
         \/ WriteEpoch(t) \/ WritePosture(t)
  PROVE  TypeOK'
<1>0. /\ Closing(req[t]) \subseteq Nat
      /\ req[t].seat \in Seat /\ req[t].seat.pin \in Pin \cup {NoKey}
  BY ReqType DEF Closing, Seat
<1>1. CASE KeymanRewrite(t)
  <2>1. pc' \in [Thread -> Label] /\ req' \in [Thread -> Request]
    BY <1>1, GoType, RefuseType, ReqType DEF KeymanRewrite, Label
  <2>2. credential' \in Pin
    BY <1>1 DEF KeymanRewrite, RequestsComplete, TypeOK
  <2>. QED
    BY <1>1, <2>1, <2>2 DEF TypeOK, KeymanRewrite, registries, seat, seeds
<1>2. CASE Unseat(t)
  <2>1. pc' \in [Thread -> Label] /\ req' \in [Thread -> Request]
    BY <1>2, GoType, ReqType, RequestUpdate DEF Unseat, Label
  <2>. QED
    BY <1>2, <1>0, <2>1, NoSeatType DEF TypeOK, Unseat, registries, seat, seeds
<1>3. CASE Stale(t)
  <2>1. pc' \in [Thread -> Label] /\ req' \in [Thread -> Request]
    BY <1>3, GoType, RefuseType, ReqType DEF Stale, Label
  <2>. QED
    BY <1>3, <1>0, <2>1, NoSeatType DEF TypeOK, Stale, registries, seat, seeds, Posture
<1>4. CASE Zero(t)
  <2>1. pc' \in [Thread -> Label] /\ req' \in [Thread -> Request]
    BY <1>4, GoType, RefuseType, ReqType DEF Zero, Label
  <2>. QED
    BY <1>4, <1>0, <2>1, NoSeatType DEF TypeOK, Zero, registries, seat, seeds
<1>5. CASE Erase(t)
  <2>1. pc' \in [Thread -> Label] /\ req' \in [Thread -> Request]
    BY <1>5, GoType, RefuseType, ReqType DEF Erase, Label
  <2>. QED
    BY <1>5, <1>0, <2>1, NoSeatType DEF TypeOK, Erase, registries, seat, seeds
<1>6. CASE WriteSigner(t)
  <2>1. pc' \in [Thread -> Label] /\ req' \in [Thread -> Request]
    BY <1>6, GoType, RefuseType, ReqType DEF WriteSigner, Label
  <2>. QED
    BY <1>6, <1>0, <2>1, NoSeatType DEF TypeOK, WriteSigner, registries, seat, seeds
<1>7. CASE WritePublic(t)
  <2>1. pc' \in [Thread -> Label] /\ req' \in [Thread -> Request]
    BY <1>7, GoType, RefuseType, ReqType DEF WritePublic, Label
  <2>. QED
    BY <1>7, <1>0, <2>1, NoSeatType DEF TypeOK, WritePublic, registries, seat, seeds
<1>8. CASE WriteEpoch(t)
  <2>1. pc' \in [Thread -> Label] /\ req' \in [Thread -> Request]
    BY <1>8, GoType, RefuseType, ReqType DEF WriteEpoch, Label
  <2>. QED
    BY <1>8, <1>0, <2>1, NoSeatType DEF TypeOK, WriteEpoch, registries, seat, seeds
<1>9. CASE WritePosture(t)
  <2>1. pc' \in [Thread -> Label] /\ req' \in [Thread -> Request]
    BY <1>9, GoType, RefuseType, ReqType DEF RebindFailed, WritePosture, Label
  <2>. QED
    BY <1>9, <1>0, <2>1, NoSeatType DEF TypeOK, WritePosture, registries, seat, seeds, Posture, UnboundPosture
<1>10. CASE BindDerived(t)
  <2>1. Derived(t) \in Seat
    BY DEF Derived, Seat, TypeOK
  <2>2. /\ [req[t] EXCEPT !.seat = Derived(t)] \in Request
        /\ [req[t] EXCEPT !.seat = NoSeat] \in Request
    BY <2>1, NoSeatType, ReqType, RequestUpdate
  <2>3. /\ pc' \in [Thread -> Label] /\ req' \in [Thread -> Request]
        /\ fresh' \in Nat
    BY <1>10, <2>2, GoType, ReqType DEF BindDerived, Label
  <2>. QED
    BY <1>10, <2>3 DEF TypeOK, BindDerived, registries, seat, seeds
<1>. QED
  BY <1>1, <1>2, <1>3, <1>4, <1>5, <1>6, <1>7, <1>8, <1>9, <1>10

LEMMA DeliverType ==
  ASSUME TypeOK, NEW t \in Thread, Deliver(t)
  PROVE  TypeOK'
<1>1. pc' \in [Thread -> Label] /\ req' \in [Thread -> Request]
  BY GoType, IdleType DEF Deliver, Label
<1>2. known' \in [challenge : SUBSET Nat, ticket : SUBSET Nat,
                  capability : SUBSET Nat]
  BY ReqType DEF Deliver, Learnt, TypeOK
<1>. QED
  BY <1>1, <1>2 DEF TypeOK, Deliver, registries, seat, seeds

------------------------------------------------------------------------------
(* What a step leaves alone *)

\* The part of a request that no handler assigns.
SameRequest(r, q) ==
  /\ r.op = q.op /\ r.cid = q.cid /\ r.ticket = q.ticket
  /\ r.cap = q.cap /\ r.doc = q.doc /\ r.scope = q.scope /\ r.new = q.new

LEMMA UpdateKeeps ==
  ASSUME NEW r \in Request
  PROVE  /\ SameRequest(r, r)
         /\ \A n : SameRequest([r EXCEPT !.id = n], r)
         /\ \A s : SameRequest([r EXCEPT !.seat = s], r)
         /\ \A s : SameRequest([r EXCEPT !.old = s], r)
         /\ \A k : SameRequest([r EXCEPT !.key = k], r)
         /\ \A k : SameRequest([r EXCEPT !.epoch = k], r)
         /\ \A n, k, e :
              SameRequest([r EXCEPT !.id = n, !.epoch = k, !.exp = e], r)
  BY DEF Request, SameRequest

LEMMA GoFrame ==
  ASSUME TypeOK, NEW t \in Thread, NEW l, NEW r, Go(t, l, r)
  PROVE  /\ pc'[t] = l /\ req'[t] = r
         /\ \A u \in Thread \ {t} : pc'[u] = pc[u] /\ req'[u] = req[u]
  BY DEF TypeOK, Go

\* The thread of a step ends, or goes on with the request it has; the other
\* threads do not notice.
Ends(t) == pc'[t] = "idle" /\ req'[t] = Idle

LEMMA StepFrame ==
  ASSUME TypeOK, NEW t \in Thread, Step(t)
  PROVE  /\ Ends(t) \/ SameRequest(req'[t], req[t])
         /\ \A u \in Thread \ {t} : pc'[u] = pc[u] /\ req'[u] = req[u]
         /\ pc[t] # "idle"
<1>. DEFINE F ==
       /\ Ends(t) \/ SameRequest(req'[t], req[t])
       /\ \A u \in Thread \ {t} : pc'[u] = pc[u] /\ req'[u] = req[u]
       /\ pc[t] # "idle"
<1>a. ASSUME NEW l, NEW r, Go(t, l, r), pc[t] # "idle",
             SameRequest(r, req[t]) \/ (l = "idle" /\ r = Idle)
      PROVE  F
  BY <1>a, GoFrame DEF Ends
<1>b. ASSUME NEW l, Go(t, l, req[t]), pc[t] # "idle" PROVE F
  BY <1>a, <1>b, ReqType, UpdateKeeps
<1>c. ASSUME Refuse(t), pc[t] # "idle" PROVE F
  BY <1>a, <1>c DEF Refuse
<1>. SUFFICES F
  OBVIOUS
<1>. HIDE DEF F
<1>1. CASE CheckBound(t)
  BY <1>1, <1>b, <1>c DEF CheckBound
<1>2. CASE ChallengeMint(t)
  BY <1>2, <1>a, <1>c, ReqType, UpdateKeeps DEF ChallengeMint
<1>3. CASE Consume(t)
  BY <1>3, <1>b, <1>c DEF Consume
<1>4. CASE Lookup(t)
  BY <1>4, <1>b, <1>c DEF Lookup
<1>5. CASE Store(t)
  BY <1>5, <1>b, <1>c DEF Store
<1>6. CASE SessionClear(t)
  BY <1>6, <1>b, <1>c DEF SessionClear
<1>7. CASE Spend(t)
  BY <1>7, <1>b, <1>c DEF Spend
<1>8. CASE Derive(t)
  BY <1>8, <1>b, <1>c DEF Derive
<1>9. CASE Compare(t)
  BY <1>9, <1>b, <1>c DEF Compare
<1>10. CASE Claims(t)
  BY <1>10, <1>a, <1>c, ReqType, UpdateKeeps DEF Claims
<1>11. CASE TokenBound(t)
  BY <1>11, <1>b, <1>c DEF TokenBound
<1>12. CASE TokenSigner(t)
  BY <1>12, <1>a, <1>c, ReqType, UpdateKeeps DEF TokenSigner
<1>13. CASE Sign(t)
  BY <1>13, <1>a, <1>c, ReqType, UpdateKeeps DEF Sign
<1>14. CASE KeymanCheck(t)
  BY <1>14, <1>b, <1>c DEF KeymanCheck
<1>15. CASE KeymanRewrite(t)
  BY <1>15, <1>b, <1>c DEF KeymanRewrite
<1>16. CASE Void(t)
  BY <1>16, <1>b, <1>c DEF Void
<1>17. CASE Unseat(t)
  BY <1>17, <1>a, <1>c, ReqType, UpdateKeeps DEF Unseat
<1>18. CASE Stale(t)
  BY <1>18, <1>b, <1>c DEF Stale
<1>19. CASE Zero(t)
  BY <1>19, <1>b, <1>c DEF Zero
<1>20. CASE Erase(t)
  BY <1>20, <1>b, <1>c DEF Erase
<1>21. CASE Rebind(t)
  BY <1>21, <1>a, <1>c, ReqType, UpdateKeeps DEF Rebind
<1>22. CASE BindDerived(t)
  BY <1>22, <1>a, <1>c, ReqType, UpdateKeeps DEF BindDerived
<1>23. CASE WriteSigner(t)
  BY <1>23, <1>b, <1>c DEF WriteSigner
<1>24. CASE WritePublic(t)
  BY <1>24, <1>b, <1>c DEF WritePublic
<1>25. CASE WriteEpoch(t)
  BY <1>25, <1>b, <1>c DEF WriteEpoch
<1>26. CASE WritePosture(t)
  BY <1>26, <1>b, <1>c DEF WritePosture, RebindFailed
<1>27. CASE SigningStatus(t)
  BY <1>27, <1>a, <1>b DEF SigningStatus
<1>28. CASE ReplyBound(t)
  BY <1>28, <1>b, <1>c DEF ReplyBound
<1>29. CASE ReplyPublic(t)
  BY <1>29, <1>a, <1>c, ReqType, UpdateKeeps DEF ReplyPublic
<1>30. CASE ReplyEpoch(t)
  BY <1>30, <1>a, <1>c, ReqType, UpdateKeeps DEF ReplyEpoch
<1>31. CASE Deliver(t)
  BY <1>31, <1>a, <1>b DEF Deliver
<1>. QED
  BY <1>1, <1>2, <1>3, <1>4, <1>5, <1>6, <1>7, <1>8, <1>9, <1>10,
     <1>11, <1>12, <1>13, <1>14, <1>15, <1>16, <1>17, <1>18, <1>19, <1>20,
     <1>21, <1>22, <1>23, <1>24, <1>25, <1>26, <1>27, <1>28, <1>29, <1>30,
     <1>31
  DEF Step, F

LEMMA DispatchFrame ==
  ASSUME TypeOK, NEW t \in Thread, NEW r \in Request, Dispatch(t, r)
  PROVE  /\ pc[t] = "idle" /\ pc'[t] = FirstAccess(r.op) /\ req'[t] = r
         /\ \A u \in Thread \ {t} : pc'[u] = pc[u] /\ req'[u] = req[u]
         /\ UNCHANGED <<now, fresh, registries, seat, seeds, credential, known>>
  BY GoFrame DEF Dispatch

\* Where a step takes its thread: the control of every handler.
Rotation == {"void", "unseat", "stale", "zero", "erase", "rebind", "underive",
             "seat", "public", "epoch", "posture"}
Answer == {"reply", "project", "answer", "sent"}

Flow(t) ==
  LET op == req[t].op
  IN \/ pc'[t] = "idle"
     \/ /\ pc[t] = "bound"
        /\ pc'[t] = CASE op = "challenge.mint" -> "challenge"
                      [] op = "session.mint" -> "consume"
                      [] OTHER -> "lookup"
     \/ /\ pc[t] = "consume"
        /\ pc'[t] = IF op = "session.mint" THEN "derive" ELSE "bound"
     \/ pc[t] = "lookup" /\ pc'[t] = AfterLookup(op)
     \/ pc[t] = "derive" /\ pc'[t] = "compare"
     \/ pc[t] = "compare" /\ pc'[t] = "claims"
     \/ pc[t] = "claims" /\ pc'[t] = "token"
     \/ pc[t] = "token" /\ pc'[t] = "signer"
     \/ pc[t] = "signer" /\ pc'[t] = "sign"
     \/ pc[t] = "sign" /\ pc'[t] = "store"
     \/ pc[t] = "spend" /\ pc'[t] = "check" /\ op = "pin.change"
     \/ pc[t] = "spend" /\ pc'[t] = "sent" /\ op = "capability.consume"
     \/ pc[t] = "check" /\ pc'[t] = "rewrite"
     \/ pc[t] = "rewrite" /\ pc'[t] = "void"
     \/ pc[t] \in Rotation /\ pc'[t] \in Rotation \cup {"reply"}
     \/ pc[t] \in {"challenge", "store", "clear", "status"} /\ pc'[t] = "reply"
     \/ pc[t] \in Answer \ {"sent"} /\ pc'[t] \in Answer \ {"reply"}

LEMMA StepFlow ==
  ASSUME TypeOK, NEW t \in Thread, Step(t)
  PROVE  Flow(t)
<1>a. ASSUME NEW l, NEW r, Go(t, l, r) PROVE pc'[t] = l
  BY <1>a, GoFrame
<1>b. ASSUME Refuse(t) PROVE pc'[t] = "idle"
  BY <1>b, GoFrame DEF Refuse
<1>1. CASE CheckBound(t)
  BY <1>1, <1>a, <1>b DEF CheckBound, Flow
<1>2. CASE ChallengeMint(t)
  BY <1>2, <1>a, <1>b DEF ChallengeMint, Flow
<1>3. CASE Consume(t)
  BY <1>3, <1>a, <1>b DEF Consume, Flow
<1>4. CASE Lookup(t)
  BY <1>4, <1>a, <1>b DEF Lookup, Flow
<1>5. CASE Store(t)
  BY <1>5, <1>a, <1>b DEF Store, Flow
<1>6. CASE SessionClear(t)
  BY <1>6, <1>a, <1>b DEF SessionClear, Flow
<1>7. CASE Spend(t)
  BY <1>7, <1>a, <1>b DEF Spend, Flow
<1>8. CASE Derive(t)
  BY <1>8, <1>a, <1>b DEF Derive, Flow
<1>9. CASE Compare(t)
  BY <1>9, <1>a, <1>b DEF Compare, Flow
<1>10. CASE Claims(t)
  BY <1>10, <1>a, <1>b DEF Claims, Flow
<1>11. CASE TokenBound(t)
  BY <1>11, <1>a, <1>b DEF TokenBound, Flow
<1>12. CASE TokenSigner(t)
  BY <1>12, <1>a, <1>b DEF TokenSigner, Flow
<1>13. CASE Sign(t)
  BY <1>13, <1>a, <1>b DEF Sign, Flow
<1>14. CASE KeymanCheck(t)
  BY <1>14, <1>a, <1>b DEF KeymanCheck, Flow
<1>15. CASE KeymanRewrite(t)
  BY <1>15, <1>a, <1>b DEF KeymanRewrite, Flow
<1>16. CASE Void(t)
  BY <1>16, <1>a, <1>b DEF Void, Flow, Rotation
<1>17. CASE Unseat(t)
  BY <1>17, <1>a, <1>b DEF Unseat, Flow, Rotation
<1>18. CASE Stale(t)
  BY <1>18, <1>a, <1>b DEF Stale, Flow, Rotation
<1>19. CASE Zero(t)
  BY <1>19, <1>a, <1>b DEF Zero, Flow, Rotation
<1>20. CASE Erase(t)
  BY <1>20, <1>a, <1>b DEF Erase, Flow, Rotation
<1>21. CASE Rebind(t)
  BY <1>21, <1>a, <1>b DEF Rebind, Flow, Rotation
<1>22. CASE BindDerived(t)
  BY <1>22, <1>a, <1>b DEF BindDerived, Flow, Rotation
<1>23. CASE WriteSigner(t)
  BY <1>23, <1>a, <1>b DEF WriteSigner, Flow, Rotation
<1>24. CASE WritePublic(t)
  BY <1>24, <1>a, <1>b DEF WritePublic, Flow, Rotation
<1>25. CASE WriteEpoch(t)
  BY <1>25, <1>a, <1>b DEF WriteEpoch, Flow, Rotation
<1>26. CASE WritePosture(t)
  BY <1>26, <1>a, <1>b DEF WritePosture, Flow, RebindFailed, Rotation
<1>27. CASE SigningStatus(t)
  BY <1>27, <1>a, <1>b DEF SigningStatus, Flow
<1>28. CASE ReplyBound(t)
  BY <1>28, <1>a, <1>b DEF ReplyBound, Flow, Answer
<1>29. CASE ReplyPublic(t)
  BY <1>29, <1>a, <1>b DEF ReplyPublic, Flow, Answer
<1>30. CASE ReplyEpoch(t)
  BY <1>30, <1>a, <1>b DEF ReplyEpoch, Flow, Answer
<1>31. CASE Deliver(t)
  BY <1>31, <1>a, <1>b DEF Deliver, Flow
<1>. QED
  BY <1>1, <1>2, <1>3, <1>4, <1>5, <1>6, <1>7, <1>8, <1>9, <1>10,
     <1>11, <1>12, <1>13, <1>14, <1>15, <1>16, <1>17, <1>18, <1>19, <1>20,
     <1>21, <1>22, <1>23, <1>24, <1>25, <1>26, <1>27, <1>28, <1>29, <1>30,
     <1>31
  DEF Step

LEMMA RequestsStayComplete ==
  ASSUME TypeInv, NEW t \in Thread, Step(t)
  PROVE  RequestsComplete'
<1>1. pc'[t] \in {"check", "rewrite"} => req[t].op = "pin.change"
  BY StepFlow DEF Flow, AfterLookup, TypeInv, RequestsComplete, Rotation, Answer
<1>2. \/ Ends(t)
      \/ SameRequest(req'[t], req[t])
  BY StepFrame DEF TypeInv
<1>3. \A u \in Thread \ {t} : pc'[u] = pc[u] /\ req'[u] = req[u]
  BY StepFrame DEF TypeInv
<1>4. CASE Ends(t)
  BY <1>3, <1>4 DEF Ends, Idle, TypeInv, RequestsComplete
<1>5. CASE SameRequest(req'[t], req[t])
  BY <1>1, <1>3, <1>5 DEF SameRequest, TypeInv, RequestsComplete
<1>. QED
  BY <1>2, <1>4, <1>5

------------------------------------------------------------------------------
(* Types *)

LEMMA TypeInvInit == Init => TypeInv
  BY IdleType, NoSeatType
  DEF Init, TypeInv, TypeOK, RequestsComplete, Seat, Posture, Label, Idle

LEMMA TypeInvNext == TypeInv /\ [Next]_vars => TypeInv'
<1>. SUFFICES ASSUME TypeInv, [Next]_vars
              PROVE  TypeInv'
  OBVIOUS
<1>. USE DEF TypeInv
<1>1. CASE Tick
  BY <1>1 DEF Tick, TypeOK, RequestsComplete, registries, seat, seeds
<1>2. CASE Restart
  <2>1. TypeOK'
    BY <1>2, IdleType, NoSeatType
    DEF Restart, TypeOK, seeds, Seat, Posture, Label
  <2>. QED
    BY <1>2, <2>1 DEF Restart, RequestsComplete, Idle
<1>3. ASSUME NEW t \in Thread, Ask(t) PROVE TypeInv'
  <2>1. PICK r \in Request : Dispatch(t, r) /\ Asked(r)
    BY <1>3, AskDispatch
  <2>2. TypeOK'
    BY <2>1, DispatchType
  <2>3. FirstAccess(r.op) \notin {"check", "rewrite"}
    BY DEF FirstAccess
  <2>. QED
    BY <2>1, <2>2, <2>3, DispatchFrame DEF RequestsComplete, Asked
<1>4. ASSUME NEW t \in Thread, Step(t) PROVE TypeInv'
  BY <1>4, QuietType, RegistryType, SeatType, DeliverType,
     RequestsStayComplete DEF Step
<1>5. CASE UNCHANGED vars
  BY <1>5 DEF vars, TypeOK, RequestsComplete, registries, seat, seeds
<1>. QED
  BY <1>1, <1>2, <1>3, <1>4, <1>5 DEF Next

\* Every variable keeps its type, whatever the clients ask and however their
\* handlers interleave: nothing but a PIN is ever written to Keyman.
THEOREM TypeCorrect == Spec => []TypeOK
<1>1. Spec => []TypeInv
  BY TypeInvInit, TypeInvNext, PTL DEF Spec
<1>. QED
  BY <1>1, PTL DEF TypeInv

------------------------------------------------------------------------------
(* Challenges *)

\* A redeemed challenge was popped, so its number is below the counter and
\* no challenge minted later can carry it.
ChallengeInv ==
  /\ ChallengeRedeemedOnce
  /\ \A c \in challenges : c.id < fresh
  /\ \A t \in Thread : Redeemed(t) => req[t].cid < fresh

\* Only the pop turns a request into one that holds its challenge.
LEMMA RedeemingIsConsuming ==
  ASSUME TypeOK, NEW t \in Thread, Step(t), Redeemed(t)'
  PROVE  /\ req'[t].cid = req[t].cid
         /\ Redeemed(t) \/ Consume(t)
<1>1. SameRequest(req'[t], req[t])
  BY StepFrame DEF Ends, Redeemed
<1>2. CASE pc[t] = "consume"
  BY <1>1, <1>2 DEF Step, SameRequest, Consume, CheckBound, ChallengeMint,
     Lookup, Store, SessionClear, Spend, Derive, Compare, Claims, TokenBound,
     TokenSigner, Sign, KeymanCheck, KeymanRewrite, Void, Unseat, Stale, Zero,
     Erase, Rebind, BindDerived, WriteSigner, WritePublic, WriteEpoch,
     WritePosture, SigningStatus, ReplyBound, ReplyPublic, ReplyEpoch, Deliver
<1>3. CASE pc[t] # "consume"
  BY <1>1, <1>3, StepFlow, StepFrame
  DEF Flow, SameRequest, Redeemed, Rotation, Answer
<1>. QED
  BY <1>1, <1>2, <1>3 DEF SameRequest

\* The other threads redeem what they redeemed before.
LEMMA OthersRedeemed ==
  ASSUME TypeOK, NEW t \in Thread, Step(t), NEW u \in Thread \ {t}
  PROVE  (Redeemed(u)' <=> Redeemed(u)) /\ req'[u].cid = req[u].cid
  BY StepFrame DEF Redeemed

\* What a step can do to the challenges: mint one, or drop some.
LEMMA ChallengeChange ==
  ASSUME TypeOK, NEW t \in Thread, Step(t)
  PROVE  /\ fresh \in Nat /\ fresh' \in {fresh, fresh + 1}
         /\ \A c \in challenges' :
              c \in challenges \/ (c.id = fresh /\ fresh' = fresh + 1)
<1>0. fresh \in Nat
  BY DEF TypeOK
<1>1. CASE ChallengeMint(t)
  BY <1>0, <1>1 DEF ChallengeMint, Live
<1>2. CASE Consume(t) \/ Spend(t) \/ Void(t) \/ Claims(t) \/ BindDerived(t)
  BY <1>0, <1>2 DEF Consume, Spend, Void, Claims, BindDerived, Live, Without,
     registries
<1>3. CASE UNCHANGED <<challenges, fresh>>
  BY <1>0, <1>3
<1>. QED
  BY <1>1, <1>2, <1>3 DEF Step, registries, CheckBound,
     Lookup, Store, SessionClear, Derive, Compare, TokenBound,
     TokenSigner, Sign, KeymanCheck, KeymanRewrite, Unseat, Stale, Zero,
     Erase, Rebind, WriteSigner, WritePublic, WriteEpoch,
     WritePosture, SigningStatus, ReplyBound, ReplyPublic, ReplyEpoch, Deliver

LEMMA ChallengeInvStep ==
  ASSUME TypeInv, ChallengeInv, NEW t \in Thread, Step(t)
  PROVE  ChallengeInv'
<1>. USE DEF TypeInv
<1>1. CASE Consume(t)
  <2>1. /\ challenges' \subseteq challenges /\ fresh' = fresh
        /\ \A c \in challenges' : c.id # req[t].cid
    BY <1>1 DEF Consume, Live, Without
  <2>2. Redeemed(t)' => \E c \in challenges : c.id = req[t].cid
    BY <1>1, GoFrame DEF Consume, Refuse, Redeemed, Live
  <2>. QED
    BY <1>1, <2>1, <2>2, OthersRedeemed, RedeemingIsConsuming
    DEF ChallengeInv, ChallengeRedeemedOnce
<1>2. CASE ~Consume(t)
  <2>1. Redeemed(t)' => Redeemed(t) /\ req'[t].cid = req[t].cid
    BY <1>2, RedeemingIsConsuming
  <2>2. \A u \in Thread : Redeemed(u)' => Redeemed(u) /\ req'[u].cid = req[u].cid
    BY <2>1, OthersRedeemed
  <2>3. \A u \in Thread : req[u].cid \in Nat
    BY DEF TypeOK, Request
  <2>4. \A c \in challenges : c.id \in Nat
    BY DEF TypeOK, Challenge
  <2>. QED
    BY <2>2, <2>3, <2>4, ChallengeChange DEF ChallengeInv, ChallengeRedeemedOnce
<1>. QED
  BY <1>1, <1>2

\* One challenge answers one request, for any number of handlers that race
\* for it: the pop under the lock is enough, whatever happens around it.
THEOREM ChallengesAreSingleUse == Spec => []ChallengeRedeemedOnce
<1>1. Init => TypeInv /\ ChallengeInv
  BY TypeInvInit DEF Init, ChallengeInv, ChallengeRedeemedOnce, Redeemed
<1>2. TypeInv /\ ChallengeInv /\ [Next]_vars => ChallengeInv'
  <2>. SUFFICES ASSUME TypeInv, ChallengeInv, [Next]_vars
                PROVE  ChallengeInv'
    OBVIOUS
  <2>. USE DEF TypeInv
  <2>1. CASE Tick \/ UNCHANGED vars
    BY <2>1 DEF Tick, vars, ChallengeInv, ChallengeRedeemedOnce, Redeemed,
       registries
  <2>2. CASE Restart
    BY <2>2 DEF Restart, ChallengeInv, ChallengeRedeemedOnce, Redeemed
  <2>3. ASSUME NEW t \in Thread, Ask(t) PROVE ChallengeInv'
    <3>1. PICK r \in Request : Dispatch(t, r)
      BY <2>3, AskDispatch
    <3>2. ~Redeemed(t)'
      BY <3>1, DispatchFrame DEF Redeemed, FirstAccess
    <3>3. \A u \in Thread \ {t} :
            (Redeemed(u)' <=> Redeemed(u)) /\ req'[u].cid = req[u].cid
      BY <3>1, DispatchFrame DEF Redeemed
    <3>. QED
      BY <3>1, <3>2, <3>3 DEF Dispatch, ChallengeInv, ChallengeRedeemedOnce,
         registries
  <2>4. ASSUME NEW t \in Thread, Step(t) PROVE ChallengeInv'
    BY <2>4, ChallengeInvStep
  <2>. QED
    BY <2>1, <2>2, <2>3, <2>4 DEF Next
<1>3. TypeInv /\ ChallengeInv /\ [Next]_vars => (TypeInv /\ ChallengeInv)'
  BY <1>2, TypeInvNext
<1>4. TypeInv /\ ChallengeInv => ChallengeRedeemedOnce
  BY DEF ChallengeInv
<1>. QED
  BY <1>1, <1>3, <1>4, PTL DEF Spec
==============================================================================
