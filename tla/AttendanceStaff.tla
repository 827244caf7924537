--------------------------- MODULE AttendanceStaff ---------------------------
(***************************************************************************)
(* The Caduceus staff process (lib/attendance/index.py): the registries of *)
(* challenges, attendances and capabilities, the seat of the derived       *)
(* signer, and the handler of every dispatched operation.                  *)
(*                                                                         *)
(* The socket daemon runs one thread per connection and the staff object   *)
(* takes its lock only around a registry access.  The posture, the signer, *)
(* the public key and the epoch are read and written outside the lock.     *)
(* One action here is one such access, so any two handlers may interleave  *)
(* between them.  pc[t] names the next access of thread t, req[t] holds    *)
(* its request and its local variables.                                    *)
(*                                                                         *)
(* Identifiers, tickets and tokens are numbers drawn from one counter:     *)
(* secrets.token_urlsafe never repeats.  The Ed25519 key and the epoch are *)
(* functions of the PIN alone (the skeleton identity never changes), so a  *)
(* PIN stands for both.                                                    *)
(***************************************************************************)
EXTENDS Naturals, FiniteSets

CONSTANTS
  Thread,               \* connections served at once
  Doc,                  \* browser documents, each with its own P-256 key
  Pin,                  \* PINs, hence derived keys and epochs
  Scope,                \* (action, target) pairs of a challenge or capability
  PIN_ROTATION,         \* the scope of PIN_ROTATION_ACTION and _TARGET
  NoKey,                \* Python's None in _public and _epoch
  ZeroedKey,            \* the key of a seed read while close() zeroes it
  NoDoc, NoScope,       \* absent fields of a request or of a challenge
  Ops,                  \* the operations that clients ask for
  CHALLENGE_TTL_SECONDS, CAPABILITY_TTL_SECONDS, MAX_REGISTRY_ITEMS,
  MaxRotators,          \* pin.change requests in flight at once
  KeymanLate,           \* whether Keyman may write and still time out
  Crashes,              \* whether the process may be killed and restarted
  MaxFresh, MaxTime     \* bounds of the counters, used in guards only

Purpose == {"session.mint", "session.prove", "session.clear",
            "capability.mint", "pin.change"}
Operation == Purpose \cup {"challenge.mint", "capability.consume",
                           "attendance.current", "signing.status"}
Posture == {"UNBOUND", "BOUND", "STALE_DERIVED"}

ASSUME StaffConstants ==
  /\ PIN_ROTATION \in Scope /\ NoScope \notin Scope
  /\ NoDoc \notin Doc
  /\ NoKey \notin Pin /\ ZeroedKey \notin Pin /\ NoKey # ZeroedKey
  /\ Ops \subseteq Operation
  /\ CHALLENGE_TTL_SECONDS \in Nat /\ CAPABILITY_TTL_SECONDS \in Nat
  /\ MAX_REGISTRY_ITEMS \in Nat \ {0}
  /\ MaxRotators \in Nat /\ KeymanLate \in BOOLEAN /\ Crashes \in BOOLEAN
  /\ MaxFresh \in Nat /\ MaxTime \in Nat

VARIABLES
  now,            \* seconds on the clock
  fresh,          \* the next number no token, identifier or seat carries
  challenges,     \* _challenges
  attendances,    \* _attendances, and _attendance_ids by their id
  capabilities,   \* _capabilities
  signer,         \* _signer: NoSeat or the seat of a derived signer
  public,         \* _public
  epoch,          \* _epoch
  posture,        \* _posture
  zeroing,        \* seats whose seed close() is overwriting
  closed,         \* seats whose seed is gone
  credential,     \* the PIN in Keyman's custody
  pc,             \* the next access of each thread
  req,            \* the request and the locals of each thread
  known           \* what the clients have been told

registries == <<challenges, attendances, capabilities>>
seat == <<signer, public, epoch, posture>>
seeds == <<zeroing, closed>>
vars == <<now, fresh, registries, seat, seeds, credential, pc, req, known>>

NoSeat == [no |-> 0, pin |-> NoKey]
Seat == [no : Nat, pin : Pin \cup {NoKey}]
Key == Pin \cup {NoKey, ZeroedKey}

Challenge == [id : Nat, purpose : Purpose, doc : Doc \cup {NoDoc},
              ticket : Nat, scope : Scope \cup {NoScope}, exp : Nat]

\* verified is the PIN Keyman accepted, epoch and key what the ticket carries
Attendance == [id : Nat, doc : Doc, verified : Key, epoch : Key, key : Key]
Capability == [id : Nat, ticket : Nat, scope : Scope, exp : Nat,
               epoch : Key, key : Key]

Request ==
  [op : Operation, purpose : Purpose, doc : Doc \cup {NoDoc},
   scope : Scope \cup {NoScope}, pin : Key, new : Key,
   cid : Nat, ticket : Nat, cap : Nat,
   id : Nat, exp : Nat, epoch : Key, key : Key, seat : Seat, old : Seat]

\* A thread between two connections; also the unset fields of a request.
Idle ==
  [op |-> "signing.status", purpose |-> "session.mint", doc |-> NoDoc,
   scope |-> NoScope, pin |-> NoKey, new |-> NoKey,
   cid |-> 0, ticket |-> 0, cap |-> 0,
   id |-> 0, exp |-> 0, epoch |-> NoKey, key |-> NoKey,
   seat |-> NoSeat, old |-> NoSeat]

Label == {"idle", "bound", "challenge", "consume", "lookup",
          "derive", "compare", "claims", "token", "signer", "sign", "store",
          "clear", "spend", "check", "rewrite", "void", "unseat", "stale",
          "zero", "erase", "rebind", "underive", "seat", "public", "epoch",
          "posture", "status", "reply", "project", "answer", "sent"}

Init ==
  /\ now = 0
  /\ challenges = {} /\ attendances = {} /\ capabilities = {}
  /\ zeroing = {} /\ closed = {}
  /\ credential \in Pin
  /\ fresh = 2
  /\ \/ /\ signer = [no |-> 1, pin |-> credential]
        /\ public = credential /\ epoch = credential /\ posture = "BOUND"
     \/ /\ signer = NoSeat
        /\ public = NoKey /\ epoch = NoKey /\ posture = "UNBOUND"
  /\ pc = [t \in Thread |-> "idle"]
  /\ req = [t \in Thread |-> Idle]
  /\ known = [challenge |-> {}, ticket |-> {}, capability |-> {}]

------------------------------------------------------------------------------
(* Control *)

\* Thread t goes on to the access named label, with locals r.
Go(t, label, r) ==
  /\ pc' = [pc EXCEPT ![t] = label]
  /\ req' = [req EXCEPT ![t] = r]

\* AccessRefused, and every other exception: _handle answers public_error.
Refuse(t) == Go(t, "idle", Idle)

Bound == posture = "BOUND" /\ signer # NoSeat

Live(registry) == {c \in registry : c.exp > now}
Room(registry) == Cardinality(registry) < MAX_REGISTRY_ITEMS

\* Mutants: get instead of pop; a session that leaves its capabilities behind.
PeekAt(registry, popped) == registry
OrphansKept(registry, ticket) == registry

Without(registry, popped) == registry \ popped
WithoutChildren(registry, ticket) == {c \in registry : c.ticket # ticket}

Rotating(t) == pc[t] # "idle" /\ req[t].op = "pin.change"
Busy == {t \in Thread : pc[t] # "idle"}
MayRotate == Cardinality({t \in Thread : Rotating(t)}) < MaxRotators

------------------------------------------------------------------------------
(* What a client may send: only what it has been told *)

FirstAccess(op) ==
  CASE op = "signing.status" -> "status"
    [] op \in Purpose \ {"session.mint"} -> "consume"
    [] OTHER -> "bound"

Dispatch(t, r) ==
  /\ pc[t] = "idle" /\ r.op \in Ops
  /\ fresh + Cardinality(Busy) < MaxFresh
  /\ Go(t, FirstAccess(r.op), r)
  /\ UNCHANGED <<now, fresh, registries, seat, seeds, credential, known>>

AskSessionChallenge(t) ==
  \E d \in Doc :
    Dispatch(t, [Idle EXCEPT !.op = "challenge.mint",
                             !.purpose = "session.mint", !.doc = d])

AskTicketChallenge(t) ==
  \E p \in (Purpose \ {"session.mint"}) \cap Ops, k \in known.ticket,
     s \in Scope \cup {NoScope} :
    /\ s = NoScope <=> p = "session.clear"
    /\ p = "pin.change" => s = PIN_ROTATION
    /\ Dispatch(t, [Idle EXCEPT !.op = "challenge.mint", !.purpose = p,
                                !.ticket = k, !.scope = s])

AskSessionMint(t) ==
  \E c \in known.challenge, d \in Doc, p \in Pin :
    Dispatch(t, [Idle EXCEPT !.op = "session.mint", !.cid = c, !.doc = d,
                             !.pin = p])

\* session.prove, session.clear and capability.mint, each under its purpose.
AskTicketed(t) ==
  \E p \in {"session.prove", "session.clear", "capability.mint"},
     c \in known.challenge, k \in known.ticket, d \in Doc,
     s \in Scope \cup {NoScope} :
    /\ s = NoScope <=> p = "session.clear"
    /\ Dispatch(t, [Idle EXCEPT !.op = p, !.purpose = p, !.cid = c,
                                !.ticket = k, !.doc = d, !.scope = s])

AskConsume(t) ==
  \E k \in known.ticket, c \in known.capability, s \in Scope :
    Dispatch(t, [Idle EXCEPT !.op = "capability.consume", !.ticket = k,
                             !.cap = c, !.scope = s])

AskPinChange(t) ==
  /\ MayRotate
  /\ \E c \in known.challenge, k \in known.ticket, d \in Doc,
        a \in known.capability, old \in Pin, new \in Pin :
       Dispatch(t, [Idle EXCEPT !.op = "pin.change", !.purpose = "pin.change",
                                !.cid = c, !.ticket = k, !.doc = d, !.cap = a,
                                !.scope = PIN_ROTATION, !.pin = old,
                                !.new = new])

AskCurrent(t) ==
  \E k \in known.ticket :
    Dispatch(t, [Idle EXCEPT !.op = "attendance.current", !.ticket = k])

AskStatus(t) == Dispatch(t, Idle)

Ask(t) ==
  \/ AskSessionChallenge(t) \/ AskTicketChallenge(t) \/ AskSessionMint(t)
  \/ AskTicketed(t) \/ AskConsume(t) \/ AskPinChange(t)
  \/ AskCurrent(t) \/ AskStatus(t)

------------------------------------------------------------------------------
(* Accesses of the registries, each inside one `with self._lock` *)

\* _bound at the head of a handler and of _active.
CheckBound(t) ==
  /\ pc[t] = "bound"
  /\ \/ /\ Bound
        /\ Go(t, CASE req[t].op = "challenge.mint" -> "challenge"
                   [] req[t].op = "session.mint" -> "consume"
                   [] OTHER -> "lookup",
              req[t])
     \/ ~Bound /\ Refuse(t)
  /\ UNCHANGED <<now, fresh, registries, seat, seeds, credential, known>>

ChallengeMint(t) ==
  /\ pc[t] = "challenge"
  /\ \/ /\ Room(Live(challenges))
        /\ LET r == req[t]
               item == [id |-> fresh, doc |-> r.doc, ticket |-> r.ticket,
                        scope |-> r.scope,
                        exp |-> now + CHALLENGE_TTL_SECONDS,
                        purpose |-> r.purpose]
           IN /\ challenges' = Live(challenges) \cup {item}
              /\ Go(t, "reply", [r EXCEPT !.id = fresh])
        /\ fresh' = fresh + 1
     \/ /\ ~Room(Live(challenges))
        /\ challenges' = Live(challenges)
        /\ Refuse(t) /\ UNCHANGED fresh
  /\ capabilities' = Live(capabilities)
  /\ UNCHANGED <<now, attendances, seat, seeds, credential, known>>

\* The popped challenge answers the request.  For session.mint the proof is
\* checked at once, with the document key the challenge itself carries.
Answers(item, r) ==
  /\ item.purpose = r.op
  /\ IF r.op = "session.mint" THEN item.doc = r.doc
     ELSE item.ticket = r.ticket /\ item.scope = r.scope

Consume(t) ==
  /\ pc[t] = "consume"
  /\ LET r == req[t]
         popped == {c \in Live(challenges) : c.id = r.cid}
     IN /\ challenges' = Without(Live(challenges), popped)
        /\ capabilities' = Live(capabilities)
        /\ \/ /\ \E c \in popped : Answers(c, r)
              /\ Go(t, IF r.op = "session.mint" THEN "derive" ELSE "bound", r)
           \/ /\ ~\E c \in popped : Answers(c, r)
              /\ Refuse(t)
  /\ UNCHANGED <<now, fresh, attendances, seat, seeds, credential, known>>

\* Mutant: an operation that nobody gave a continuation.
AfterLookupOpen(op) ==
  CASE op = "capability.mint" -> "claims"
    [] op = "session.clear" -> "clear"
    [] op = "capability.consume" -> "spend"
    [] OTHER -> op

AfterLookup(op) ==
  CASE op = "capability.mint" -> "claims"
    [] op = "session.clear" -> "clear"
    [] op \in {"pin.change", "capability.consume"} -> "spend"
    [] OTHER -> "reply"

\* _active and _verify: a registered ticket, the proof by its document key.
\* attendance_current answers for any id; consume_capability asks no proof.
Admitted(r) ==
  \/ r.op = "attendance.current"
  \/ \E a \in attendances :
       a.id = r.ticket /\ (r.op = "capability.consume" \/ a.doc = r.doc)

Lookup(t) ==
  /\ pc[t] = "lookup"
  /\ \/ Admitted(req[t]) /\ Go(t, AfterLookup(req[t].op), req[t])
     \/ ~Admitted(req[t]) /\ Refuse(t)
  /\ UNCHANGED <<now, fresh, registries, seat, seeds, credential, known>>

Store(t) ==
  /\ pc[t] = "store"
  /\ LET r == req[t]
         full == ~Room(IF r.op = "session.mint" THEN attendances
                                                ELSE capabilities)
     IN \/ full /\ Refuse(t) /\ UNCHANGED <<attendances, capabilities>>
        \/ /\ ~full /\ r.op = "session.mint"
           /\ attendances' = attendances \cup
                {[id |-> r.id, doc |-> r.doc, verified |-> r.pin,
                  epoch |-> r.epoch, key |-> r.key]}
           /\ Go(t, "reply", r) /\ UNCHANGED capabilities
        \/ /\ ~full /\ r.op = "capability.mint"
           /\ capabilities' = capabilities \cup
                {[id |-> r.id, epoch |-> r.epoch, key |-> r.key,
                  ticket |-> r.ticket, scope |-> r.scope, exp |-> r.exp]}
           /\ Go(t, "reply", r) /\ UNCHANGED attendances
  /\ UNCHANGED <<now, fresh, challenges, seat, seeds, credential, known>>

SessionClear(t) ==
  /\ pc[t] = "clear"
  /\ attendances' = {a \in attendances : a.id # req[t].ticket}
  /\ capabilities' = WithoutChildren(capabilities, req[t].ticket)
  /\ Go(t, "reply", req[t])
  /\ UNCHANGED <<now, fresh, challenges, seat, seeds, credential, known>>

\* The pop of consume_capability and of pin_change, which spends the
\* capability whatever it turns out to be good for.
Spend(t) ==
  /\ pc[t] = "spend"
  /\ LET r == req[t]
         popped == {c \in Live(capabilities) : c.id = r.cap}
         good == \E c \in popped : c.ticket = r.ticket /\ c.scope = r.scope
     IN /\ capabilities' = Without(Live(capabilities), popped)
        /\ challenges' = Live(challenges)
        /\ \/ good /\ r.op = "pin.change" /\ Go(t, "check", r)
           \/ good /\ r.op = "capability.consume" /\ Go(t, "sent", r)
           \/ ~good /\ Refuse(t)
  /\ UNCHANGED <<now, fresh, attendances, seat, seeds, credential, known>>

------------------------------------------------------------------------------
(* Accesses outside the lock: Keyman, the signing seat, the projection *)

\* verify_and_derive_caduceus: Keyman decrypts, the presented PIN must match.
Derive(t) ==
  /\ pc[t] = "derive"
  /\ \/ req[t].pin = credential /\ Go(t, "compare", req[t])
     \/ Refuse(t)
  /\ UNCHANGED <<now, fresh, registries, seat, seeds, credential, known>>

\* same: the derived key and epoch against the bound ones.
Compare(t) ==
  /\ pc[t] = "compare"
  /\ LET same == public = req[t].pin /\ epoch = req[t].pin
     IN \/ same /\ Go(t, "claims", req[t])
        \/ ~same /\ Refuse(t)
  /\ UNCHANGED <<now, fresh, registries, seat, seeds, credential, known>>

Claims(t) ==
  /\ pc[t] = "claims"
  /\ Go(t, "token", [req[t] EXCEPT
       !.id = fresh, !.epoch = epoch,
       !.exp = IF req[t].op = "capability.mint"
               THEN now + CAPABILITY_TTL_SECONDS ELSE 0])
  /\ fresh' = fresh + 1
  /\ UNCHANGED <<now, registries, seat, seeds, credential, known>>

\* _token: _bound, then the read of self._signer, then private_key().sign.
TokenBound(t) ==
  /\ pc[t] = "token"
  /\ \/ Bound /\ Go(t, "signer", req[t])
     \/ ~Bound /\ Refuse(t)
  /\ UNCHANGED <<now, fresh, registries, seat, seeds, credential, known>>

TokenSigner(t) ==
  /\ pc[t] = "signer"
  /\ \/ signer # NoSeat /\ Go(t, "sign", [req[t] EXCEPT !.seat = signer])
     \/ signer = NoSeat /\ Refuse(t)
  /\ UNCHANGED <<now, fresh, registries, seat, seeds, credential, known>>

Sign(t) ==
  /\ pc[t] = "sign"
  /\ LET s == req[t].seat
         key == IF s.no \in zeroing THEN ZeroedKey ELSE s.pin
     IN \/ s.no \in closed /\ Refuse(t)
        \/ s.no \notin closed /\ Go(t, "store", [req[t] EXCEPT !.key = key])
  /\ UNCHANGED <<now, fresh, registries, seat, seeds, credential, known>>

\* change_caduceus_pin: Keyman decrypts and compares, then reencrypts.
KeymanCheck(t) ==
  /\ pc[t] = "check"
  /\ \/ req[t].pin = credential /\ Go(t, "rewrite", req[t])
     \/ Refuse(t)
  /\ UNCHANGED <<now, fresh, registries, seat, seeds, credential, known>>

KeymanRewrite(t) ==
  /\ pc[t] = "rewrite"
  /\ \/ credential' = req[t].new /\ Go(t, "void", req[t])
     \/ UNCHANGED credential /\ Refuse(t)
     \/ KeymanLate /\ credential' = req[t].new /\ Refuse(t)
  /\ UNCHANGED <<now, fresh, registries, seat, seeds, known>>

\* The epoch transition of pin_change: void the registries, leave the seat.
Void(t) ==
  /\ pc[t] = "void"
  /\ challenges' = {} /\ attendances' = {} /\ capabilities' = {}
  /\ Go(t, "unseat", req[t])
  /\ UNCHANGED <<now, fresh, seat, seeds, credential, known>>

Unseat(t) ==
  /\ pc[t] = "unseat"
  /\ signer' = NoSeat
  /\ Go(t, "stale", [req[t] EXCEPT !.old = signer])
  /\ UNCHANGED <<now, fresh, registries, public, epoch, posture, seeds,
                 credential, known>>

Stale(t) ==
  /\ pc[t] = "stale"
  /\ posture' = "STALE_DERIVED"
  /\ Go(t, "zero", req[t])
  /\ UNCHANGED <<now, fresh, registries, signer, public, epoch, seeds,
                 credential, known>>

\* Mutant: the new signer is closed in place of the old one.
ClosingNew(r) == {r.seat.no} \ {0}

Closing(r) == {r.old.no} \ {0}

\* _close(old): the seed is zeroed byte by byte, then cleared.
Zero(t) ==
  /\ pc[t] = "zero"
  /\ zeroing' = zeroing \cup (Closing(req[t]) \ closed)
  /\ Go(t, "erase", req[t])
  /\ UNCHANGED <<now, fresh, registries, seat, closed, credential, known>>

Erase(t) ==
  /\ pc[t] = "erase"
  /\ zeroing' = zeroing \ Closing(req[t])
  /\ closed' = closed \cup Closing(req[t])
  /\ Go(t, IF req[t].seat = NoSeat THEN "rebind" ELSE "reply", req[t])
  /\ UNCHANGED <<now, fresh, registries, seat, credential, known>>

\* _bind_startup: old, the derivation, then the four writes in order.
Rebind(t) ==
  /\ pc[t] = "rebind"
  /\ Go(t, "underive", [req[t] EXCEPT !.old = signer])
  /\ UNCHANGED <<now, fresh, registries, seat, seeds, credential, known>>

Derived(t) == [no |-> fresh, pin |-> credential]

BindDerived(t) ==
  /\ pc[t] = "underive"
  /\ \/ /\ Go(t, "seat", [req[t] EXCEPT !.seat = Derived(t)])
        /\ fresh' = fresh + 1
     \/ /\ Go(t, "seat", [req[t] EXCEPT !.seat = NoSeat])
        /\ UNCHANGED fresh
  /\ UNCHANGED <<now, registries, seat, seeds, credential, known>>

WriteSigner(t) ==
  /\ pc[t] = "seat"
  /\ signer' = req[t].seat
  /\ Go(t, "public", req[t])
  /\ UNCHANGED <<now, fresh, registries, public, epoch, posture, seeds,
                 credential, known>>

WritePublic(t) ==
  /\ pc[t] = "public"
  /\ public' = req[t].seat.pin
  /\ Go(t, "epoch", req[t])
  /\ UNCHANGED <<now, fresh, registries, signer, epoch, posture, seeds,
                 credential, known>>

\* Mutant: the old epoch is kept beside the new key.
EpochForgotten(t) ==
  /\ pc[t] = "epoch"
  /\ Go(t, "posture", req[t])
  /\ UNCHANGED <<now, fresh, registries, seat, seeds, credential, known>>

WriteEpoch(t) ==
  /\ pc[t] = "epoch"
  /\ epoch' = req[t].seat.pin
  /\ Go(t, "posture", req[t])
  /\ UNCHANGED <<now, fresh, registries, signer, public, posture, seeds,
                 credential, known>>

\* Mutant: a failed rebind is tried again, without end.
RebindRetried(t) == Go(t, "rebind", [req[t] EXCEPT !.seat = NoSeat])

RebindFailed(t) == Refuse(t)

UnboundPosture(old) == IF old = NoSeat THEN "UNBOUND" ELSE "STALE_DERIVED"

WritePosture(t) ==
  /\ pc[t] = "posture"
  /\ LET r == req[t]
     IN \/ /\ r.seat # NoSeat
           /\ posture' = "BOUND"
           /\ Go(t, "zero", r)
        \/ /\ r.seat = NoSeat
           /\ posture' = UnboundPosture(r.old)
           /\ RebindFailed(t)
  /\ UNCHANGED <<now, fresh, registries, signer, public, epoch, seeds,
                 credential, known>>

SigningStatus(t) ==
  /\ pc[t] = "status"
  /\ LET bound == posture = "BOUND" /\ public # NoKey /\ epoch # NoKey
     IN \/ bound /\ Go(t, "reply", req[t])
        \/ ~bound /\ Go(t, "idle", Idle)
  /\ UNCHANGED <<now, fresh, registries, seat, seeds, credential, known>>

\* _success: _bound, the check for None, then the two fields of the reply.
ReplyBound(t) ==
  /\ pc[t] = "reply"
  /\ \/ Bound /\ Go(t, "project", req[t])
     \/ ~Bound /\ Refuse(t)
  /\ UNCHANGED <<now, fresh, registries, seat, seeds, credential, known>>

ReplyPublic(t) ==
  /\ pc[t] = "project"
  /\ LET set == public # NoKey /\ epoch # NoKey
     IN \/ set /\ Go(t, "answer", [req[t] EXCEPT !.key = public])
        \/ ~set /\ Refuse(t)
  /\ UNCHANGED <<now, fresh, registries, seat, seeds, credential, known>>

ReplyEpoch(t) ==
  /\ pc[t] = "answer"
  /\ Go(t, "sent", [req[t] EXCEPT !.epoch = epoch])
  /\ UNCHANGED <<now, fresh, registries, seat, seeds, credential, known>>

Learnt(r) ==
  [ticket |-> known.ticket \cup
                   (IF r.op = "session.mint" THEN {r.id} ELSE {}),
   challenge |-> known.challenge \cup
                   (IF r.op = "challenge.mint" THEN {r.id} ELSE {}),
   capability |-> known.capability \cup
                   (IF r.op = "capability.mint" THEN {r.id} ELSE {})]

\* sendall reaches the client, or its connection is gone.
Deliver(t) ==
  /\ pc[t] = "sent"
  /\ \/ known' = Learnt(req[t])
     \/ UNCHANGED known
  /\ Go(t, "idle", Idle)
  /\ UNCHANGED <<now, fresh, registries, seat, seeds, credential>>

------------------------------------------------------------------------------

Step(t) ==
  \/ CheckBound(t) \/ ChallengeMint(t) \/ Consume(t) \/ Lookup(t)
  \/ Store(t) \/ SessionClear(t) \/ Spend(t)
  \/ Derive(t) \/ Compare(t) \/ Claims(t)
  \/ TokenBound(t) \/ TokenSigner(t) \/ Sign(t)
  \/ KeymanCheck(t) \/ KeymanRewrite(t)
  \/ Void(t) \/ Unseat(t) \/ Stale(t) \/ Zero(t) \/ Erase(t)
  \/ Rebind(t) \/ BindDerived(t)
  \/ WriteSigner(t) \/ WritePublic(t) \/ WriteEpoch(t) \/ WritePosture(t)
  \/ SigningStatus(t) \/ ReplyBound(t) \/ ReplyPublic(t) \/ ReplyEpoch(t)
  \/ Deliver(t)

Tick ==
  /\ now < MaxTime
  /\ now' = now + 1
  /\ UNCHANGED <<fresh, registries, seat, seeds, credential, pc, req, known>>

\* The process dies and is started again: its maps are process-local.
Restart ==
  /\ Crashes /\ fresh < MaxFresh
  /\ fresh' = fresh + 1
  /\ challenges' = {} /\ attendances' = {} /\ capabilities' = {}
  /\ \/ /\ signer' = [no |-> fresh, pin |-> credential]
        /\ public' = credential /\ epoch' = credential /\ posture' = "BOUND"
     \/ /\ signer' = NoSeat
        /\ public' = NoKey /\ epoch' = NoKey /\ posture' = "UNBOUND"
  /\ pc' = [t \in Thread |-> "idle"]
  /\ req' = [t \in Thread |-> Idle]
  /\ UNCHANGED <<now, seeds, credential, known>>

Next == Tick \/ Restart \/ \E t \in Thread : Ask(t) \/ Step(t)

Spec == Init /\ [][Next]_vars

\* Every accepted connection has a thread of its own, and no handler waits:
\* a thread that can take its next step is scheduled eventually.
FairSpec == Spec /\ \A t \in Thread : WF_vars(Step(t))

------------------------------------------------------------------------------
(* Properties *)

\* Every variable ranges over what the code may put there.
TypeOK ==
  /\ now \in Nat /\ fresh \in Nat
  /\ challenges \subseteq Challenge
  /\ attendances \subseteq Attendance
  /\ capabilities \subseteq Capability
  /\ signer \in Seat
  /\ public \in Pin \cup {NoKey} /\ epoch \in Pin \cup {NoKey}
  /\ posture \in Posture
  /\ zeroing \subseteq Nat /\ closed \subseteq Nat
  /\ credential \in Pin
  /\ pc \in [Thread -> Label]
  /\ req \in [Thread -> Request]
  /\ known \in [challenge : SUBSET Nat, ticket : SUBSET Nat,
                capability : SUBSET Nat]

\* Thread t acts on a challenge that _consume handed to it.
Redeemed(t) ==
  /\ req[t].op \in Purpose
  /\ pc[t] \notin {"idle", "consume"}
  /\ ~(req[t].op = "session.mint" /\ pc[t] = "bound")

\* One challenge answers one request: two handlers never both act on the same
\* one, and none acts on a challenge that could still be popped again.
ChallengeRedeemedOnce ==
  \A t \in Thread : Redeemed(t) =>
    /\ \A c \in challenges : c.id # req[t].cid
    /\ \A u \in Thread \ {t} : Redeemed(u) => req[u].cid # req[t].cid

\* Thread t has taken its capability out of the registry.
HoldsSpent(t) ==
  \/ req[t].op = "pin.change"
       /\ pc[t] \notin {"idle", "consume", "bound", "lookup", "spend"}
  \/ req[t].op = "capability.consume" /\ pc[t] = "sent"

\* One capability pays for one actuation, whichever handlers race for it.
CapabilitySpentOnce ==
  \A t \in Thread : HoldsSpent(t) =>
    /\ \A c \in capabilities : c.id # req[t].cap
    /\ \A u \in Thread \ {t} : HoldsSpent(u) => req[u].cap # req[t].cap

\* A capability that is about to be spent by the handler it belongs to still
\* has its attendance, although _active looked that up in an earlier lock
\* block, and although capability_mint may store one after the session ended.
SpendNeedsLiveSession ==
  \A t \in Thread : pc[t] = "spend" =>
    \A c \in capabilities :
      c.id = req[t].cap /\ c.ticket = req[t].ticket =>
        \E a \in attendances : a.id = c.ticket

\* The numbers that a thread has drawn for what it may still store.
Drawn == {req[t].id : t \in {u \in Thread :
            pc[u] \in {"token", "signer", "sign", "store"}}}

Open == {a.id : a \in attendances}

\* The staff keeps the promises of CapabilityLedger.  A capability stored
\* after its session ended stays in the map but is no grant of the ledger.
Ledger == INSTANCE CapabilityLedger WITH
  next <- fresh,
  drawn <- Drawn,
  sessions <- Open,
  grants <- {[id |-> c.id, session |-> c.ticket] :
               c \in {k \in capabilities : k.ticket \in Open}},
  paid <- {req[t].cap : t \in {u \in Thread : HoldsSpent(u)}}

\* The staff implements the ledger: no interleaving grants on a closed session,
\* pays one grant twice, or reopens a number.
ImplementsLedger == Ledger!Spec

\* While the staff is BOUND its signer, public key and epoch are of one PIN.
BindingCoherent ==
  Bound => signer.pin = public /\ public = epoch

\* Once Keyman has answered that it rewrote the PIN the rotation comes to an end,
\* by a kill if not by itself, and leaves the staff either on the PIN in custody or
\* refusing everything.
RotationSettles ==
  \A t \in Thread :
    pc[t] = "void" ~> (pc[t] = "idle" /\ (Bound => epoch = credential))

\* A signer whose seed is being or has been wiped is never the seated one.
SeatedSignerIsOpen ==
  Bound => signer.no \notin zeroing \cup closed

\* "A successful Keyman change is the epoch transition": between rotations
\* every registered attendance was admitted with the bound PIN.
RotationEndsOldSessions ==
  Bound /\ (\A t \in Thread : ~Rotating(t)) =>
    \A a \in attendances : a.verified = epoch
==============================================================================
