------------------------------- MODULE RootProofs -------------------------------
(***************************************************************************)
(* Invariants of the programs that root runs (module MCRoot), one program    *)
(* after the other.  Each is proved of the program's own specification, for  *)
(* every value of its constants; a behaviour of RootSpec is a behaviour of   *)
(* each of them.                                                             *)
(***************************************************************************)
EXTENDS MCRoot, TLAPS

-----------------------------------------------------------------------------
(* The credential launcher.                                                  *)

SkeletonOrNone == Skeleton \cup {"none"}
PinOrNone == Pin_ \cup {"none"}
Key_ == SkeletonOrNone \X PinOrNone
Op_ == {"none", "bind", "verify", "change", "reset", "provision"}
Pc_ == {"none", "ok", "refused", "identity", "expected", "default", "exists", "decrypt", "keyman"}
Job_ == {"none", "bind", "verify", "rewrite", "create"}
Why_ == {"none", "derived-unbound", "default-not-provisioned", "key-exists",
         "skeleton-unavailable", "keyman-refused", "identity-mismatch", "pin-refused",
         "key-mismatch"}
Work ==
    [op : Op_, pc : Pc_, pin : PinOrNone, new : PinOrNone, given : Key_, bound : Key_,
     id : SkeletonOrNone, job : Job_, why : Why_]

\* A command that has begun has the record of this moment among those it saw in
\* custody; what it has bound was one of them.
CustodyInv ==
    /\ skeleton \in Skeleton /\ default \in PinOrNone /\ record \in Key_ /\ served \in Key_
    /\ launcher \in [Process -> Work]
    /\ inCustody \in [Process -> SUBSET Key_]
    /\ \A p \in Process :
          /\ launcher[p].pc # "none" => record \in inCustody[p]
          /\ launcher[p].bound # NoKey => launcher[p].bound \in inCustody[p]
          /\ launcher[p].pc = "decrypt" => launcher[p].job \in {"bind", "rewrite", "verify"}
          /\ launcher[p].pc # "none" => launcher[p].job # "none"

LEMMA CustodyInit == CredInit => CustodyInv
  BY DEF CredInit, CustodyInv, Unused, NoKey, SkeletonOrNone, PinOrNone, Key_, Work, Op_, Pc_, Job_, Why_

\* A command that begins has bound nothing, and has seen the record.
LEMMA CustodyLaunch ==
  ASSUME CustodyInv, NEW p \in Process,
         NEW op \in {"bind", "verify", "change", "reset", "provision"},
         NEW pin \in PinOrNone, NEW new \in PinOrNone, NEW given \in Key_,
         NEW pc_ \in {"identity", "expected", "default", "exists"},
         NEW job \in {"bind", "verify", "rewrite", "create"},
         Launch(p, op, pin, new, given, pc_, job)
  PROVE  CustodyInv'
<1> PICK w : w = [Unused EXCEPT !.op = op, !.pin = pin, !.new = new, !.given = given, !.pc = pc_, !.job = job]
  OBVIOUS
<1>1. Unused \in Work /\ Unused.bound = NoKey
  BY DEF Unused, Work, Key_, NoKey, SkeletonOrNone, PinOrNone, Op_, Pc_, Job_, Why_
<1>2. w \in Work /\ w.bound = NoKey
  BY <1>1 DEF Work, Op_, Pc_, Job_
<1>3. launcher' = [launcher EXCEPT ![p] = w] /\ inCustody' = [inCustody EXCEPT ![p] = {record}]
      /\ UNCHANGED <<skeleton, record, default, served>>
  BY Zenon DEF Launch
<1> QED
  BY <1>2, <1>3 DEF CustodyInv

\* A step that only reads, of a command that has begun, may bind the record.
LEMMA CustodyReads ==
  ASSUME CustodyInv, NEW p \in Process, Reads, launcher[p].pc # "none",
         launcher' \in [Process -> Work], \A q \in Process \ {p} : launcher'[q] = launcher[q],
         launcher'[p].bound \in {launcher[p].bound, record},
         launcher'[p].job # "none",
         launcher'[p].pc = "decrypt" => launcher'[p].job # "create"
  PROVE  CustodyInv'
<1>1. \A q \in Process : launcher'[q].job \in Job_
  BY DEF Work
<1> QED
  BY <1>1 DEF CustodyInv, Reads, Job_

LEMMA Names ==
  /\ {"ok", "refused", "identity", "decrypt", "keyman"} \subseteq Pc_
  /\ {"bind", "verify", "rewrite", "create"} \subseteq Job_
  /\ {"keyman-refused", "identity-mismatch", "pin-refused", "key-mismatch"} \subseteq Why_
  /\ {"derived-unbound", "default-not-provisioned", "key-exists", "skeleton-unavailable"} \subseteq Why_
  BY DEF Pc_, Job_, Why_

LEMMA CustodyStep == CustodyInv /\ [CredNext]_credVars => CustodyInv'
<1> SUFFICES ASSUME CustodyInv, [CredNext]_credVars PROVE CustodyInv'
  OBVIOUS
<1>1. CASE UNCHANGED credVars
  BY <1>1 DEF CustodyInv, credVars
<1>2. ASSUME NEW p \in Process,
             \/ Bind(p) \/ ResetDefaultPin(p)
             \/ \E pin \in Pin_ : VerifyPin(p, pin) \/ Provision(p, pin)
             \/ \E old, new \in Pin_ : AtomicChangePin(p, old, new)
      PROVE CustodyInv'
  <2>1. NoKey \in Key_ /\ served \in Key_ /\ default \in PinOrNone
    BY DEF NoKey, CustodyInv, Key_, SkeletonOrNone, PinOrNone
  <2> QED
    BY <1>2, <2>1, CustodyLaunch DEF PinOrNone, Bind, ResetDefaultPin, VerifyPin, Provision, AtomicChangePin
<1>3. ASSUME NEW p \in Process, Expects(p) \/ Default(p) \/ Exists(p) \/ RawIdentity(p)
      PROVE CustodyInv'
  <2>1. Reads /\ launcher[p].pc # "none"
    BY <1>3 DEF Expects, Default, Exists, RawIdentity
  <2>2. /\ launcher' \in [Process -> Work] /\ \A q \in Process \ {p} : launcher'[q] = launcher[q]
        /\ launcher'[p].bound = launcher[p].bound /\ launcher'[p].job = launcher[p].job
        /\ launcher'[p].pc = "decrypt" => launcher'[p].job # "create"
    BY <1>3, Names DEF CustodyInv, Work, Expects, Default, Exists, RawIdentity, Refuse, To, SkeletonOrNone
  <2> QED
    BY <2>1, <2>2, CustodyReads DEF CustodyInv
<1>4. ASSUME NEW p \in Process, Decrypt(p) PROVE CustodyInv'
  <2> DEFINE u == launcher[p]
             Moves == /\ launcher' \in [Process -> Work]
                      /\ \A q \in Process \ {p} : launcher'[q] = launcher[q]
                      /\ launcher'[p].bound \in {launcher[p].bound, record}
                      /\ launcher'[p].job \in {"bind", "rewrite", "verify"}
             Why == {"keyman-refused", "identity-mismatch", "pin-refused", "key-mismatch"}
             Bound == launcher' = [launcher EXCEPT ![p].pc = "ok", ![p].bound = <<u.id, record[2]>>]
             Checked == launcher' = [launcher EXCEPT ![p].bound = <<u.id, u.pin>>, ![p].job = "rewrite",
                                       ![p].pc = IF u.op = "change" THEN "identity" ELSE "ok"]
  <2>1. Reads /\ launcher[p].pc = "decrypt"
    BY <1>4 DEF Decrypt, Decrypted
  <2>2. record = <<record[1], record[2]>> /\ launcher \in [Process -> Work]
        /\ u.job \in {"bind", "rewrite", "verify"}
    BY <2>1 DEF CustodyInv, Key_
  <2>3. ASSUME NEW why \in Why, Refuse(p, why) PROVE Moves
    BY <2>2, <2>3, Names DEF Work, Refuse
  <2>4. ASSUME To(p, "keyman") PROVE Moves
    BY <2>2, <2>4, Names DEF Work, To
  <2>5. ASSUME record[1] = u.id, Bound PROVE Moves
    <3>1. <<u.id, record[2]>> = record /\ record \in Key_
      BY <2>2, <2>5 DEF CustodyInv
    <3> QED BY ZenonT(40), <2>2, <2>5, <3>1, Names DEF Work
  <2>6. ASSUME record[1] = u.id, u.pin = record[2], Checked PROVE Moves
    <3>1. <<u.id, u.pin>> = record /\ record \in Key_
      BY <2>2, <2>6 DEF CustodyInv
    <3> DEFINE then == IF u.op = "change" THEN "identity" ELSE "ok"
               v == [u EXCEPT !.bound = record, !.job = "rewrite", !.pc = then]
    <3>2. launcher' = [launcher EXCEPT ![p] = v]
      BY <2>2, <2>6, <3>1
    <3>3. u \in Work /\ then \in Pc_ /\ "rewrite" \in Job_
      BY <2>2 DEF Pc_, Job_
    <3> HIDE DEF then
    <3>4. v \in Work /\ v.bound = record /\ v.job = "rewrite"
      BY <3>1, <3>3 DEF Work
    <3> HIDE DEF v
    <3> QED BY <2>2, <3>2, <3>4
  <2>7. \/ \E why \in Why : Refuse(p, why)
        \/ To(p, "keyman")
        \/ record[1] = u.id /\ Bound
        \/ record[1] = u.id /\ u.pin = record[2] /\ Checked
    <3> DEFINE fits == record[1] = u.id
               fitting == {record[2]}
               AtBind == u.job = "bind" => Bound
               AtRewrite == u.job = "rewrite" =>
                              IF u.op = "change" /\ u.pin \notin fitting THEN Refuse(p, "pin-refused") ELSE To(p, "keyman")
               AtVerify == u.job = "verify" =>
                              \/ Refuse(p, "pin-refused") \/ Refuse(p, "key-mismatch")
                              \/ u.pin \in fitting /\ Checked
    <3>1. CASE Refuse(p, "keyman-refused") \/ Refuse(p, "identity-mismatch")
      BY <3>1
    <3>2. CASE fits /\ AtBind /\ AtRewrite /\ AtVerify
      BY <2>2, <3>2, Zenon
    <3> QED
      BY <1>4, <2>2, <3>1, <3>2, Zenon DEF Decrypt, Decrypted
  <2>8. Moves
    BY <2>3, <2>4, <2>5, <2>6, <2>7, Zenon
  <2> QED
    BY <2>1, <2>8, CustodyReads
<1>5. ASSUME NEW p \in Process, Keyman(p) PROVE CustodyInv'
  <2> DEFINE w == launcher[p]
             r == Rewritten(w)
  <2>1. w \in Work /\ w.pc = "keyman" /\ r \in Key_ /\ UNCHANGED <<skeleton, default, served>>
        /\ launcher \in [Process -> Work] /\ w.job \in Job_
    BY <1>5 DEF CustodyInv, Keyman, Rewritten, Work, Key_
  <2>2. /\ launcher' \in [Process -> Work] /\ \A q \in Process \ {p} : launcher'[q] = launcher[q]
        /\ launcher'[p].bound = w.bound
        /\ launcher'[p].pc # "decrypt" /\ launcher'[p].job \in {w.job, "bind"}
    <3>1. CASE launcher' = [launcher EXCEPT ![p].pc = IF w.op = "provision" THEN "ok" ELSE "identity",
                              ![p].job = "bind"]
      BY <2>1, <3>1, Names DEF Work
    <3>2. CASE Refuse(p, "keyman-refused")
      BY <2>1, <3>2, Names DEF Work, Refuse
    <3> QED
      BY <1>5, <3>1, <3>2 DEF Keyman
  <2>3. w.job # "none"
    BY <2>1 DEF CustodyInv
  <2>4. CASE Custody(Rewritten(w))
    <3>1. record' = r /\ inCustody' = [q \in Process |-> inCustody[q] \cup {r}]
      BY <2>4 DEF Custody
    <3> HIDE DEF r
    <3>2. inCustody' \in [Process -> SUBSET Key_]
      BY <2>1, <3>1 DEF CustodyInv
    <3>3. ASSUME NEW q \in Process
          PROVE  r \in inCustody'[q] /\ inCustody[q] \subseteq inCustody'[q]
      BY <3>1
    <3>4. \A q \in Process : launcher'[q].bound \in {NoKey} \cup inCustody'[q]
      BY <2>2, <3>3 DEF CustodyInv
    <3>5. \A q \in Process : /\ launcher'[q].pc = "decrypt" => launcher'[q].job \in {"bind", "rewrite", "verify"}
                             /\ launcher'[q].pc # "none" => launcher'[q].job # "none"
      BY <2>2, <2>3 DEF CustodyInv
    <3> QED
      BY <2>1, <2>2, <3>1, <3>2, <3>3, <3>4, <3>5 DEF CustodyInv
  <2>5. CASE UNCHANGED <<record, inCustody>>
    <3> HIDE DEF r
    <3> QED
      BY <2>1, <2>2, <2>3, <2>5 DEF CustodyInv
  <2> QED
    <3> HIDE DEF r
    <3>1. Custody(Rewritten(w)) \/ UNCHANGED <<record, inCustody>>
      BY <1>5, Zenon DEF Keyman
    <3> QED BY <2>4, <2>5, <3>1
<1>6. ASSUME NEW p \in Process, Take(p) PROVE CustodyInv'
  <2>1. Unused \in Work /\ Unused.bound = NoKey /\ Unused.pc = "none"
    BY DEF Unused, Work, Key_, NoKey, SkeletonOrNone, PinOrNone, Op_, Pc_, Job_, Why_
  <2>2. launcher[p].bound \in Key_
    BY DEF CustodyInv, Work
  <2> QED
    BY <1>6, <2>1, <2>2 DEF CustodyInv, Take
<1>7. ASSUME NEW s \in Skeleton, NEW d \in Pin_, ReplaceByHand(s, d) PROVE CustodyInv'
  BY <1>7 DEF CustodyInv, ReplaceByHand, PinOrNone
<1> QED
  BY <1>1, <1>2, <1>3, <1>4, <1>5, <1>6, <1>7 DEF CredNext

\* A key that the launcher vouches for was in custody during that command, with
\* any number of launchers at once and any key passed to them.
THEOREM VouchedKeysWereHeld == CredSpec => []VouchedWasHeld
<1>1. CustodyInv => VouchedWasHeld
  BY DEF CustodyInv, VouchedWasHeld
<1> QED
  BY <1>1, CustodyInit, CustodyStep, PTL DEF CredSpec

-----------------------------------------------------------------------------
(* The house certificate authority.                                          *)

Verb == {"ensure-root", "renew-root", "rotate-ca", "issue-leaf", "bundle-export",
         "trust-install", "portal-admit"}
StepName == {"refuse", "drop older", "drop previous", "set ca aside", "set key aside", "make", "keep key",
             "keep ca", "leaf key", "leaf cert", "verify", "export", "trust", "commit trust",
             "proxy", "commit portal"}
CallType ==
    [verb : Verb \cup {"none"}, todo : Seq(StepName), portal : Portal \cup {CHOOSE p \in Portal : TRUE},
     found : [ca : Nat, key : Nat], answer : {"none", "running", "ok", "refused"},
     failed : StepName \cup {"none", "restore", "receipt"}]

Running == call.answer = "running"
Rotating == call.verb = "rotate-ca" /\ call.answer = "running"
Left == Len(call.todo)
FoundCa == call.found.ca
FoundKey == call.found.key

\* The step that comes when so many are left.
Nth(left) == Rotate[11 - left]

\* What is left of a rotation is the end of its list.
EndOfRotation ==
    /\ Left <= 10
    /\ \A i \in 1 .. Left : call.todo[i] = Rotate[i + 10 - Left]

\* Where the ring that a rotation found is, by the number of steps it has left:
\* in place, then half aside, then aside until the last removal; and where its own.
RingKept ==
    /\ Left >= 9 => ring.ca = FoundCa /\ ring.key = FoundKey
    /\ Left = 9 => ring.oldCa = 0 /\ ring.oldKey = 0
    /\ Left = 8 => ring.oldCa = FoundCa /\ ring.oldKey = 0 /\ ring.key = FoundKey
    /\ Left \in 1 .. 7 => ring.oldCa = FoundCa /\ ring.oldKey = FoundKey
RingMade ==
    /\ Left \in 0 .. 5 => ring.key = made
    /\ Left \in 0 .. 4 => ring.ca = made

RingType == [ca : Nat, key : Nat, oldCa : Nat, oldKey : Nat]
RingInv ==
    /\ ring \in RingType /\ made \in Nat /\ call \in CallType
    /\ call.answer # "running" => call.todo = <<>>
    /\ Rotating => EndOfRotation /\ RingKept /\ RingMade
    /\ FailedRotationRestores

LEMMA RotationList == Rotate \in Seq(StepName) /\ Len(Rotate) = 10
<1>1. ASSUME NEW S, NEW a \in S, NEW b \in S, NEW c \in S, NEW d \in S, NEW e \in S,
             NEW f \in S, NEW g \in S, NEW h \in S, NEW i \in S, NEW j \in S
      PROVE  <<a, b, c, d, e, f, g, h, i, j>> \in Seq(S)
  OBVIOUS
<1>2. Rotate \in Seq(StepName)
  BY <1>1 DEF Rotate, StepName
<1> QED
  BY <1>2 DEF Rotate

\* The moves of the ring that was found are the first steps and the last; those
\* of the new root come in between.
Moving(step) == step \in {"drop older", "drop previous", "set ca aside", "set key aside"}

LEMMA NthSteps ==
  /\ Nth(10) = "drop older" /\ Nth(9) = "set ca aside" /\ Nth(8) = "set key aside"
  /\ Nth(7) = "make" /\ Nth(6) = "keep key" /\ Nth(5) = "keep ca"
  /\ Nth(4) = "leaf key" /\ Nth(3) = "leaf cert" /\ Nth(2) = "verify"
  /\ Nth(1) = "drop previous"
<1>1. /\ 11 - 10 = 1 /\ 11 - 9 = 2 /\ 11 - 8 = 3 /\ 11 - 7 = 4 /\ 11 - 6 = 5 /\ 11 - 5 = 6
      /\ 11 - 4 = 7 /\ 11 - 3 = 8 /\ 11 - 2 = 9 /\ 11 - 1 = 10
  OBVIOUS
<1>2. /\ Rotate[1] = "drop older" /\ Rotate[2] = "set ca aside" /\ Rotate[3] = "set key aside"
      /\ Rotate[4] = "make" /\ Rotate[5] = "keep key" /\ Rotate[6] = "keep ca"
      /\ Rotate[7] = "leaf key" /\ Rotate[8] = "leaf cert" /\ Rotate[9] = "verify"
      /\ Rotate[10] = "drop previous"
  BY DEF Rotate
<1> QED
  BY <1>1, <1>2, Zenon DEF Nth

\* How much a rotation has left when it is at a step.
AtOnes(step, left) ==
  \/ left = 10 /\ step = "drop older"
  \/ left = 9 /\ step = "set ca aside"
  \/ left = 8 /\ step = "set key aside"
  \/ left = 7 /\ step = "make"
  \/ left = 6 /\ step = "keep key"
  \/ left = 5 /\ step = "keep ca"
  \/ left = 4 /\ step = "leaf key"
  \/ left = 3 /\ step = "leaf cert"
  \/ left = 2 /\ step = "verify"
  \/ left = 1 /\ step = "drop previous"

LEMMA StepsAt ==
  ASSUME NEW left \in 1 .. 10, NEW step, step = Nth(left)
  PROVE  AtOnes(step, left)
<1>1. \/ left = 10 \/ left = 9 \/ left = 8 \/ left = 7 \/ left = 6 \/ left = 5 \/ left = 4
      \/ left = 3 \/ left = 2 \/ left = 1
  OBVIOUS
<1> QED
  BY <1>1, NthSteps, Zenon DEF AtOnes

LEMMA OnesMove ==
  ASSUME NEW step, NEW left \in 1 .. 10, AtOnes(step, left)
  PROVE  /\ Moving(step) => left = 10 \/ left = 9 \/ left = 8 \/ left = 1
         /\ step \in Tried => left = 7 \/ left = 6 \/ left = 5 \/ left = 4 \/ left = 3 \/ left = 2
         /\ Moving(step) \/ step \in Tried
         /\ step = "make" => left = 7
         /\ step = "keep key" => left = 6
         /\ step = "keep ca" => left = 5
         /\ step = "drop older" => left = 10
         /\ step = "set ca aside" => left = 9
         /\ step = "set key aside" => left = 8
         /\ step = "drop previous" => left = 1
         /\ left = 10 => step = "drop older"
         /\ left = 9 => step = "set ca aside"
         /\ left = 8 => step = "set key aside"
         /\ left = 1 => step = "drop previous"
<1>1. Moving(step) => left = 10 \/ left = 9 \/ left = 8 \/ left = 1
  BY DEF AtOnes, Moving
<1>2. step \in Tried => left = 7 \/ left = 6 \/ left = 5 \/ left = 4 \/ left = 3 \/ left = 2
  BY DEF AtOnes, Tried
<1>4. Moving(step) \/ step \in Tried
  BY DEF AtOnes, Tried, Moving
<1>3. /\ step = "make" => left = 7
      /\ step = "keep key" => left = 6
      /\ step = "keep ca" => left = 5
      /\ step = "drop older" => left = 10
      /\ step = "set ca aside" => left = 9
      /\ step = "set key aside" => left = 8
      /\ step = "drop previous" => left = 1
  BY DEF AtOnes
<1>5. /\ left = 10 => step = "drop older"
      /\ left = 9 => step = "set ca aside"
      /\ left = 8 => step = "set key aside"
      /\ left = 1 => step = "drop previous"
  <2>1. /\ ~(10 = 9) /\ ~(10 = 8) /\ ~(10 = 7) /\ ~(10 = 6) /\ ~(10 = 5) /\ ~(10 = 4)
        /\ ~(10 = 3) /\ ~(10 = 2) /\ ~(10 = 1) /\ ~(9 = 8) /\ ~(9 = 7) /\ ~(9 = 6)
        /\ ~(9 = 5) /\ ~(9 = 4) /\ ~(9 = 3) /\ ~(9 = 2) /\ ~(9 = 1) /\ ~(8 = 7)
        /\ ~(8 = 6) /\ ~(8 = 5) /\ ~(8 = 4) /\ ~(8 = 3) /\ ~(8 = 2) /\ ~(8 = 1)
        /\ ~(7 = 1) /\ ~(6 = 1) /\ ~(5 = 1) /\ ~(4 = 1) /\ ~(3 = 1) /\ ~(2 = 1)
    OBVIOUS
  <2> QED
    BY <2>1, Zenon DEF AtOnes
<1> QED
  BY <1>1, <1>2, <1>3, <1>4, <1>5, Zenon

LEMMA FilesMoved ==
  /\ Files("drop older") = [ring EXCEPT !.oldCa = 0, !.oldKey = 0]
  /\ Files("set ca aside") = IF ring.ca = 0 THEN ring ELSE [ring EXCEPT !.oldCa = ring.ca, !.ca = 0]
  /\ Files("set key aside") = IF ring.key = 0 THEN ring ELSE [ring EXCEPT !.oldKey = ring.key, !.key = 0]
  BY DEF Files

LEMMA FilesType ==
  ASSUME NEW step, Moving(step) \/ step \in {"keep key", "keep ca"}, ring \in RingType, made \in Nat
  PROVE  Files(step) \in RingType
  BY DEF Files, Moving, RingType

\* Every command is a list of steps.
LEMMA StepsList == \A verb \in Verb : Steps(verb) \in Seq(StepName)
<1>1. ASSUME NEW S, NEW a \in S, NEW b \in S, NEW c \in S
      PROVE  <<a>> \in Seq(S) /\ <<a, b>> \in Seq(S) /\ <<a, b, c>> \in Seq(S)
  OBVIOUS
<1>2. \A authority \in BOOLEAN : EnsureRoot(authority) \in Seq(StepName)
  <2>1. <<>> \in Seq(StepName) /\ <<"refuse">> \in Seq(StepName)
    BY <1>1 DEF StepName
  <2>2. <<"make", "keep key", "keep ca">> \in Seq(StepName)
    BY <1>1 DEF StepName
  <2> QED
    BY <2>1, <2>2, Zenon DEF EnsureRoot
<1>3. IssueLeaf \in Seq(StepName)
  BY <1>1 DEF IssueLeaf, StepName
<1>4. /\ <<"export">> \in Seq(StepName) /\ <<"trust", "commit trust">> \in Seq(StepName)
      /\ <<"proxy", "commit portal">> \in Seq(StepName)
  BY <1>1 DEF StepName
<1>5. \A s, t \in Seq(StepName) : s \o t \in Seq(StepName)
  OBVIOUS
<1> QED
  BY <1>2, <1>3, <1>4, <1>5, RotationList, Zenon DEF Verb, Steps

LEMMA RingInit == CaInit => RingInv
  BY DEF CaInit, RingInv, RingType, CallType, Verb, Rotating, FailedRotationRestores

LEMMA LeftType == ASSUME RingInv PROVE Left \in Nat /\ (call.todo # <<>> => Left >= 1 /\ Head(call.todo) = call.todo[1])
<1>1. call.todo \in Seq(StepName)
  BY DEF RingInv, CallType
<1> QED
  BY <1>1 DEF Left

\* The first step left of a rotation.
LEMMA NextStep ==
  ASSUME RingInv, Rotating, call.todo # <<>>
  PROVE  Left \in 1 .. 10 /\ Head(call.todo) = Nth(Left) /\ AtOnes(Head(call.todo), Left)
<1>1. EndOfRotation
  BY DEF RingInv
<1>2. Left \in Nat /\ Left >= 1 /\ Left <= 10 /\ Head(call.todo) = call.todo[1]
  BY <1>1, LeftType DEF EndOfRotation
<1>3. 1 \in 1 .. Left /\ 1 + 10 - Left = 11 - Left
  BY <1>2
<1>4. call.todo[1] = Rotate[1 + 10 - Left]
  BY <1>1, <1>3 DEF EndOfRotation
<1>5. Left \in 1 .. 10 /\ Head(call.todo) = Nth(Left)
  BY <1>2, <1>3, <1>4 DEF Nth
<1> QED
  BY <1>5, StepsAt, Zenon

\* A command that has steps left is running; with one step less its list is
\* still the end of a rotation's.
LEMMA DoneStep ==
  ASSUME RingInv, NEW step, Doing(step), Done
  PROVE  /\ call' \in CallType /\ call.answer = "running" /\ call'.answer = "running"
         /\ (Rotating' <=> Rotating) /\ FoundCa' = FoundCa /\ FoundKey' = FoundKey
         /\ Left \in Nat /\ Left' = Left - 1
         /\ Rotating => EndOfRotation' /\ Left \in 1 .. 10 /\ AtOnes(step, Left)
<1>1. call \in CallType /\ call.todo \in Seq(StepName) /\ call.todo # <<>> /\ step = Head(call.todo)
  BY DEF RingInv, CallType, Doing
<1>2. call.answer = "running"
  BY <1>1 DEF RingInv
<1>3. call'.todo = Tail(call.todo) /\ call'.todo \in Seq(StepName)
  BY <1>1 DEF Done, CallType
<1>4. call' \in CallType /\ call'.verb = call.verb /\ call'.found = call.found /\ call'.answer = call.answer
  BY <1>1, <1>3 DEF Done, CallType
<1>5. Left \in Nat /\ Left' = Left - 1 /\ \A i \in 1 .. Left' : call'.todo[i] = call.todo[i + 1]
  BY <1>1, <1>3 DEF Left
<1>6. ASSUME Rotating PROVE EndOfRotation' /\ Left \in 1 .. 10 /\ AtOnes(step, Left)
  <2>1. EndOfRotation
    BY <1>6 DEF RingInv
  <2>2. Left \in 1 .. 10 /\ AtOnes(step, Left)
    BY <1>1, <1>6, NextStep, Zenon
  <2>3. ASSUME NEW i \in 1 .. Left'
        PROVE  call'.todo[i] = Rotate[i + 10 - Left']
    <3>1. i + 1 \in 1 .. Left /\ (i + 1) + 10 - Left = i + 10 - Left'
      BY <1>5, <2>2
    <3>2. call'.todo[i] = call.todo[i + 1]
      BY <1>5
    <3> QED
      BY <2>1, <3>1, <3>2 DEF EndOfRotation
  <2>4. Left' <= 10
    BY <1>5, <2>2
  <2> QED
    BY <2>2, <2>3, <2>4 DEF EndOfRotation
<1>7. (Rotating' <=> Rotating) /\ FoundCa' = FoundCa /\ FoundKey' = FoundKey
  BY <1>4 DEF Rotating, FoundCa, FoundKey
<1> QED
  BY <1>2, <1>4, <1>5, <1>6, <1>7

\* A step that moves no file, or one of the two that keep the new ring, comes
\* when the ring that was found is aside.
LEMMA RingAside ==
  ASSUME RingInv, NEW step, Doing(step), Done,
         ~Moving(step), ring' \in RingType, made' \in Nat,
         ring'.oldCa = ring.oldCa, ring'.oldKey = ring.oldKey,
         Rotating => RingMade'
  PROVE  RingInv'
<1>1. ASSUME Rotating PROVE EndOfRotation' /\ RingKept'
  <2>1. RingKept
    BY <1>1 DEF RingInv
  <2>0. Left \in 1 .. 10 /\ AtOnes(step, Left)
    BY <1>1, DoneStep, Zenon
  <2>2. EndOfRotation' /\ Left' = Left - 1 /\ FoundCa' = FoundCa /\ FoundKey' = FoundKey
    BY <1>1, DoneStep, Zenon
  <2>3. Left = 7 \/ Left = 6 \/ Left = 5 \/ Left = 4 \/ Left = 3 \/ Left = 2
    BY <2>0, OnesMove, Zenon
  <2>4. Left \in 1 .. 7 /\ Left' < 7
    BY <2>2, <2>3
  <2>5. ring'.oldCa = FoundCa' /\ ring'.oldKey = FoundKey'
    BY <2>1, <2>2, <2>4 DEF RingKept
  <2> QED
    BY <2>2, <2>4, <2>5 DEF RingKept
<1> QED
  BY <1>1, DoneStep DEF RingInv, FailedRotationRestores

LEMMA MadeStaysLater ==
  ASSUME RingMade, Left = 4 \/ Left = 3 \/ Left = 2 \/ Left = 1, Left' = Left - 1,
         ring'.ca = ring.ca, ring'.key = ring.key, UNCHANGED made
  PROVE  RingMade'
BY DEF RingMade

\* The ring and the root that was made last stay as they are.
LEMMA MadeStays ==
  ASSUME RingInv, Rotating, NEW step, Doing(step), Done, ~(step \in {"make", "keep key", "keep ca"}),
         ring'.ca = ring.ca, ring'.key = ring.key, UNCHANGED made,
         ~Moving(step) \/ step = "drop previous"
  PROVE  RingMade'
<1>1. Left \in 1 .. 10 /\ AtOnes(step, Left) /\ Left' = Left - 1
  BY DoneStep, Zenon
<1>2. Left = 4 \/ Left = 3 \/ Left = 2 \/ Left = 1
  BY <1>1 DEF AtOnes, Moving
<1>3. RingMade
  BY DEF RingInv
<1>4. Left' = Left - 1
  BY <1>1
<1>5. UNCHANGED made /\ ring'.ca = ring.ca /\ ring'.key = ring.key
  OBVIOUS
<1> QED
  BY <1>2, <1>3, <1>4, <1>5, MadeStaysLater, Zenon

\* The files that a rotation moves aside before it makes a root, and the ones
\* it removes, first and last.
LEMMA RingMoves ==
  ASSUME RingInv, NEW step, Moving(step), Doing(step), Done, ring' = Files(step), UNCHANGED made
  PROVE  RingInv'
<1>1. ring \in RingType /\ made \in Nat
  BY DEF RingInv
<1>2. ring' \in RingType
  BY <1>1, FilesType
<1>3. ASSUME Rotating PROVE EndOfRotation' /\ RingKept' /\ RingMade'
  <2>1. RingKept
    BY <1>3 DEF RingInv
  <2>0. Left \in 1 .. 10 /\ AtOnes(step, Left)
    BY <1>3, DoneStep, Zenon
  <2>2. /\ Left \in 1 .. 10 /\ EndOfRotation' /\ Left' = Left - 1
        /\ FoundCa' = FoundCa /\ FoundKey' = FoundKey
    BY <1>3, DoneStep, Zenon
  <2>3. Left = 10 \/ Left = 9 \/ Left = 8 \/ Left = 1
    BY <2>0, OnesMove, Zenon
  <2>4. CASE Left = 10
    <3>1. ring.ca = FoundCa /\ ring.key = FoundKey
      BY <2>1, <2>4 DEF RingKept
    <3>2. ring' = [ring EXCEPT !.oldCa = 0, !.oldKey = 0]
      <4>1. step = "drop older"
        BY <2>0, <2>4, OnesMove, Zenon
      <4> QED
        BY <4>1, FilesMoved, Zenon
    <3>3. ring'.ca = FoundCa' /\ ring'.key = FoundKey' /\ ring'.oldCa = 0 /\ ring'.oldKey = 0
      BY <1>1, <2>2, <3>1, <3>2 DEF RingType
    <3>4. Left' = 9
      BY <2>2, <2>4
    <3> QED
      BY <2>2, <3>3, <3>4 DEF RingKept, RingMade
  <2>5. CASE Left = 9
    <3>1. ring.ca = FoundCa /\ ring.key = FoundKey /\ ring.oldCa = 0 /\ ring.oldKey = 0
      BY <2>1, <2>5 DEF RingKept
    <3>2. ring' = IF ring.ca = 0 THEN ring ELSE [ring EXCEPT !.oldCa = ring.ca, !.ca = 0]
      <4>1. step = "set ca aside"
        BY <2>0, <2>5, OnesMove, Zenon
      <4> QED
        BY <4>1, FilesMoved, Zenon
    <3>3. ring'.oldCa = FoundCa' /\ ring'.oldKey = 0 /\ ring'.key = FoundKey'
      BY <1>1, <2>2, <3>1, <3>2 DEF RingType
    <3>4. Left' = 8
      BY <2>2, <2>5
    <3> QED
      BY <2>2, <3>3, <3>4 DEF RingKept, RingMade
  <2>6. CASE Left = 8
    <3>1. ring.key = FoundKey /\ ring.oldCa = FoundCa /\ ring.oldKey = 0
      BY <2>1, <2>6 DEF RingKept
    <3>2. ring' = IF ring.key = 0 THEN ring ELSE [ring EXCEPT !.oldKey = ring.key, !.key = 0]
      <4>1. step = "set key aside"
        BY <2>0, <2>6, OnesMove, Zenon
      <4> QED
        BY <4>1, FilesMoved, Zenon
    <3>3. ring'.oldCa = FoundCa' /\ ring'.oldKey = FoundKey'
      BY <1>1, <2>2, <3>1, <3>2 DEF RingType
    <3>4. Left' = 7
      BY <2>2, <2>6
    <3> QED
      BY <2>2, <3>3, <3>4 DEF RingKept, RingMade
  <2>7. CASE Left = 1
    <3>1. step = "drop previous"
      BY <2>0, <2>7, OnesMove, Zenon
    <3>2. ring'.ca = ring.ca /\ ring'.key = ring.key
      BY <1>1, <3>1 DEF Files, RingType
    <3>3. RingMade'
      BY <1>3, <3>1, <3>2, MadeStays
    <3> QED
      BY <2>2, <2>7, <3>3 DEF RingKept
  <2> QED
    BY <2>3, <2>4, <2>5, <2>6, <2>7
<1> QED
  BY <1>1, <1>2, <1>3, DoneStep DEF RingInv, FailedRotationRestores

\* While a command runs only a rotation has something to keep.
LEMMA RunningKeeps ==
  ASSUME ring' \in RingType, made' \in Nat, call' \in CallType, Running',
         Rotating' => EndOfRotation' /\ RingKept' /\ RingMade'
  PROVE  RingInv'
  BY DEF RingInv, CallType, Running, FailedRotationRestores

LEMMA RingStep == RingInv /\ [CaNext]_caVars => RingInv'
<1> SUFFICES ASSUME RingInv, [CaNext]_caVars PROVE RingInv'
  OBVIOUS
<1>1. CASE UNCHANGED caVars
  BY <1>1 DEF RingInv, caVars, Rotating, EndOfRotation, RingKept, RingMade, FoundCa, FoundKey, Left,
              FailedRotationRestores, FoundKept, Live
<1>2. ASSUME NEW verb \in Verb, NEW p \in Portal, Begin(verb, p) PROVE RingInv'
  <2>1. Live \in [ca : Nat, key : Nat] /\ Live.ca = ring.ca /\ Live.key = ring.key /\ ring' = ring /\ made' = made
    BY <1>2 DEF RingInv, RingType, Live, Begin
  <2>2. call' = [verb |-> verb, todo |-> Steps(verb), portal |-> p, found |-> Live, answer |-> "running",
                failed |-> "none"]
    BY <1>2 DEF Begin
  <2>3. call' \in CallType /\ FoundCa' = ring.ca /\ FoundKey' = ring.key
    BY <2>1, <2>2, StepsList DEF CallType, FoundCa, FoundKey
  <2>4. ASSUME verb = "rotate-ca" PROVE EndOfRotation' /\ RingKept' /\ RingMade'
    <3>1. call'.todo = Rotate
      BY <2>2, <2>4 DEF Steps
    <3>2. Left' = 10
      BY <3>1, RotationList DEF Left
    <3> QED
      BY <2>1, <2>3, <3>1, <3>2 DEF EndOfRotation, RingKept, RingMade
  <2>5. call'.verb = verb /\ call'.answer = "running"
    BY <2>2
  <2>6. Rotating' => EndOfRotation' /\ RingKept' /\ RingMade'
    BY <2>4, <2>5 DEF Rotating
  <2>7. ring' \in RingType /\ made' \in Nat
    BY <2>1 DEF RingInv
  <2>8. Running'
    BY <2>2 DEF Running
  <2> QED
    BY <2>3, <2>6, <2>7, <2>8, RunningKeeps
<1>3. CASE Make
  <2>1. ring \in RingType /\ made \in Nat
    BY DEF RingInv
  <2>2. Doing("make") /\ Done /\ UNCHANGED ring /\ made' = made + 1 /\ ~Moving("make")
    BY <1>3 DEF Make, Moving
  <2>3. ASSUME Rotating PROVE RingMade'
    <3>1. Left \in 1 .. 10 /\ AtOnes("make", Left) /\ Left' = Left - 1
      BY <2>2, <2>3, DoneStep, Zenon
    <3>2. Left = 7
      BY <3>1, OnesMove
    <3> QED
      BY <3>1, <3>2 DEF RingMade
  <2> QED
    BY <2>1, <2>2, <2>3, RingAside
<1>4. CASE MoveFile
  <2>1. PICK step : (Moving(step) \/ step \in {"keep key", "keep ca"}) /\ Doing(step) /\ Done
                    /\ ring' = Files(step) /\ UNCHANGED made
    BY <1>4 DEF MoveFile, Moving
  <2>2. CASE step \in {"keep key", "keep ca"}
    <3>1. ring \in RingType /\ made \in Nat
      BY DEF RingInv
    <3>2. Files(step) \in RingType /\ Files(step).oldCa = ring.oldCa /\ Files(step).oldKey = ring.oldKey
          /\ (step = "keep key" => Files(step).key = made /\ Files(step).ca = ring.ca)
          /\ (step = "keep ca" => Files(step).ca = made /\ Files(step).key = ring.key)
      BY <2>2, <3>1 DEF Files, RingType
    <3>3. ~Moving(step)
      BY <2>2 DEF Moving
    <3>4. ASSUME Rotating PROVE RingMade'
      <4>1. Left \in 1 .. 10 /\ AtOnes(step, Left) /\ Left' = Left - 1
        BY <2>1, <3>4, DoneStep, Zenon
      <4>2. (step = "keep key" => Left = 6) /\ (step = "keep ca" => Left = 5)
        BY <4>1, OnesMove
      <4>3. RingMade
        BY <3>4 DEF RingInv
      <4>4. CASE step = "keep key"
        <5>0. ring'.key = made' /\ Left = 6
          BY <2>1, <3>2, <4>2, <4>4, Zenon
        <5>1. Left' = 5 /\ ring'.key = made'
          BY <4>1, <5>0
        <5> QED
          BY <5>1 DEF RingMade
      <4>5. CASE step = "keep ca"
        <5>0. ring'.ca = made' /\ ring'.key = ring.key /\ UNCHANGED made /\ Left = 5
          BY <2>1, <3>2, <4>2, <4>5, Zenon
        <5>1. Left' = 4 /\ ring'.key = made' /\ ring'.ca = made'
          BY <4>1, <4>3, <5>0 DEF RingMade
        <5> QED
          BY <5>1 DEF RingMade
      <4> QED
        BY <2>2, <4>4, <4>5
    <3> QED
      BY <2>1, <3>1, <3>2, <3>3, <3>4, RingAside
  <2> QED
    BY <2>1, <2>2, RingMoves
<1>5. CASE LeafKey \/ LeafCert \/ Verify \/ ExportBundle \/ TrustInstall \/ ApplyNginx \/ StateCommit
  <2>1. PICK step : ~Moving(step) /\ ~(step \in {"make", "keep key", "keep ca"}) /\ Doing(step) /\ Done
                    /\ UNCHANGED <<ring, made>>
    BY <1>5 DEF LeafKey, LeafCert, Verify, ExportBundle, TrustInstall, ApplyNginx, StateCommit, Moving
  <2>2. Rotating => RingMade'
    BY <2>1, MadeStays
  <2> QED
    BY <2>1, <2>2, RingAside DEF RingInv
<1>6. ASSUME NEW why, RefusedAt(why), UNCHANGED made, Running,
             why \in StepName \cup {"restore", "receipt"}, ring' \in RingType,
             Rotating =>
               CASE why \in Tried \cup {"drop older"} -> Live' = call.found
                 [] why \in {"set ca aside", "set key aside", "restore"} ->
                      call.found.ca \in {ring'.ca, ring'.oldCa} /\ call.found.key \in {ring'.key, ring'.oldKey}
                 [] why \in {"drop previous", "receipt"} -> Live' = [ca |-> made, key |-> made]
      PROVE  RingInv'
  <2>1. call \in CallType /\ <<>> \in Seq(StepName) /\ made \in Nat
    BY DEF RingInv
  <2>2. call' \in CallType /\ call'.verb = call.verb /\ call'.found = call.found /\ call'.failed = why
        /\ call'.answer = "refused" /\ call'.todo = <<>>
    BY <1>6, <2>1 DEF RefusedAt, CallType
  <2>3. FailedRotationRestores'
    BY <1>6, <2>2, Zenon DEF FailedRotationRestores, FoundKept, Rotating, Running
  <2> QED
    BY <1>6, <2>1, <2>2, <2>3 DEF RingInv, Rotating
<1>7. CASE Raise
  <2>. DEFINE step == Head(call.todo)
  <2>1. call \in CallType /\ call.todo # <<>> /\ ring \in RingType /\ made \in Nat /\ UNCHANGED made
    BY <1>7 DEF Raise, RingInv
  <2>2. Running /\ step \in StepName
    BY <2>1 DEF RingInv, Running, CallType
  <2>3. ASSUME Rotating
        PROVE  Left \in 1 .. 10 /\ AtOnes(step, Left) /\ RingKept /\ RingMade
    BY <2>1, <2>3, NextStep DEF RingInv
  <2>4. CASE call.verb = "rotate-ca" /\ step \in Tried
    <3>1. Rotating
      BY <2>2, <2>4 DEF Rotating, Running
    <3>2. Left = 7 \/ Left = 6 \/ Left = 5 \/ Left = 4 \/ Left = 3 \/ Left = 2
      BY <2>3, <2>4, <3>1, OnesMove, Zenon
    <3>3. ring.oldCa = FoundCa /\ ring.oldKey = FoundKey
      <4>1. RingKept
        BY <2>3, <3>1, Zenon
      <4> QED
        BY <3>2, <4>1 DEF RingKept
    <3>4. call.found \in [ca : Nat, key : Nat]
      BY <2>1 DEF CallType
    <3>5. CASE ring' = RestoreRing /\ RefusedAt(step)
      <4>1. ring' \in RingType /\ ring'.ca = FoundCa /\ ring'.key = FoundKey
        BY <2>1, <3>3, <3>5 DEF RestoreRing, RingType
      <4>2. Live' = call.found
        BY <3>4, <4>1 DEF Live, FoundCa, FoundKey
      <4>3. ASSUME NEW why, why \in Tried, RefusedAt(why)
            PROVE  RingInv'
        BY <1>6, <2>1, <2>2, <4>1, <4>2, <4>3 DEF Tried, StepName
      <4> QED
        BY <2>4, <3>5, <4>3, Zenon
    <3>6. CASE ring' \in Halfway /\ RefusedAt("restore")
      <4>0. ASSUME NEW r \in {ring, [ring EXCEPT !.ca = 0], [ring EXCEPT !.ca = 0, !.key = 0],
                              [ring EXCEPT !.ca = ring.oldCa, !.oldCa = 0, !.key = 0]}
            PROVE  r \in RingType /\ ring.oldCa \in {r.ca, r.oldCa} /\ ring.oldKey \in {r.key, r.oldKey}
        <5>1. CASE r = ring
          BY <2>1, <5>1
        <5>2. CASE r = [ring EXCEPT !.ca = 0]
          BY <2>1, <5>2 DEF RingType
        <5>3. CASE r = [ring EXCEPT !.ca = 0, !.key = 0]
          BY <2>1, <5>3 DEF RingType
        <5>4. CASE r = [ring EXCEPT !.ca = ring.oldCa, !.oldCa = 0, !.key = 0]
          BY <2>1, <5>4 DEF RingType
        <5> QED
          BY <5>1, <5>2, <5>3, <5>4
      <4>1. /\ ring' \in RingType /\ FoundCa \in {ring'.ca, ring'.oldCa}
            /\ FoundKey \in {ring'.key, ring'.oldKey}
        BY <3>3, <3>6, <4>0, Zenon DEF Halfway
      <4>2. "restore" \notin Tried \cup {"drop older"}
        BY DEF Tried
      <4> QED
        BY <1>6, <2>1, <2>2, <3>6, <4>1, <4>2 DEF FoundCa, FoundKey
    <3> QED
      BY <1>7, <2>4, <3>5, <3>6, Zenon DEF Raise
  <2>5. CASE ~(call.verb = "rotate-ca" /\ step \in Tried)
    <3>1. RefusedAt(step) /\ (ring' = ring \/ ring' = [ring EXCEPT !.oldCa = 0])
          /\ (ring' = ring \/ step \in {"drop older", "drop previous"})
      BY <1>7, <2>5, Zenon DEF Raise
    <3>2. ring' \in RingType /\ ring'.ca = ring.ca /\ ring'.key = ring.key
      <4>1. ASSUME NEW r, r = ring \/ r = [ring EXCEPT !.oldCa = 0]
            PROVE  r \in RingType /\ r.ca = ring.ca /\ r.key = ring.key
        BY <2>1, <4>1 DEF RingType
      <4> QED
        BY <3>1, <4>1, Zenon
    <3>3. ASSUME Rotating
          PROVE  CASE step \in Tried \cup {"drop older"} -> Live' = call.found
                   [] step \in {"set ca aside", "set key aside", "restore"} ->
                        call.found.ca \in {ring'.ca, ring'.oldCa} /\ call.found.key \in {ring'.key, ring'.oldKey}
                   [] step \in {"drop previous", "receipt"} -> Live' = [ca |-> made, key |-> made]
      <4>1. Moving(step) /\ step \notin Tried
        BY <2>3, <2>5, <3>3, OnesMove DEF Rotating
      <4>2. CASE step = "drop older"
        <5>1. ring.ca = FoundCa /\ ring.key = FoundKey
          <6>1. Left = 10 /\ RingKept
            BY <2>3, <3>3, <4>2, OnesMove, Zenon
          <6> QED
            BY <6>1 DEF RingKept
        <5>2. call.found \in [ca : Nat, key : Nat]
          BY <2>1 DEF CallType
        <5>3. Live' = call.found
          BY <3>2, <5>1, <5>2 DEF Live, FoundCa, FoundKey
        <5> QED
          BY <4>1, <4>2, <5>3
      <4>3. CASE step \in {"set ca aside", "set key aside"}
        <5>1. Left = 9 \/ Left = 8
          BY <2>3, <3>3, <4>3, OnesMove, Zenon
        <5>4. RingKept
          BY <2>3, <3>3, Zenon
        <5>2. FoundCa \in {ring.ca, ring.oldCa} /\ FoundKey \in {ring.key, ring.oldKey}
          BY <5>1, <5>4 DEF RingKept
        <5>3. ring' = ring
          BY <3>1, <4>3
        <5> QED
          BY <4>1, <4>3, <5>2, <5>3 DEF FoundCa, FoundKey
      <4>4. CASE step = "drop previous"
        <5>1. Left = 1
          BY <2>3, <3>3, <4>4, OnesMove, Zenon
        <5>4. RingMade
          BY <2>3, <3>3, Zenon
        <5>2. ring.ca = made /\ ring.key = made
          BY <5>1, <5>4 DEF RingMade
        <5>3. Live' = [ca |-> made, key |-> made]
          BY <3>2, <5>2 DEF Live
        <5> QED
          BY <4>1, <4>4, <5>3
      <4> QED
        BY <4>1, <4>2, <4>3, <4>4 DEF Moving
    <3> QED
      BY <1>6, <2>1, <2>2, <3>1, <3>2, <3>3
  <2> QED
    BY <2>4, <2>5
<1>8. CASE Answer
  <2>1. Running /\ call.todo = <<>> /\ UNCHANGED <<ring, made>> /\ ring \in RingType
    BY <1>8 DEF Answer, Running, RingInv
  <2>2. CASE call' = [call EXCEPT !.answer = "ok"]
    <3>1. call' \in CallType /\ call'.answer = "ok" /\ call'.todo = <<>>
      BY <2>1, <2>2 DEF RingInv, CallType
    <3> QED
      BY <2>1, <3>1 DEF RingInv, Rotating, FailedRotationRestores
  <2>3. CASE RefusedAt("receipt")
    <3>1. ASSUME Rotating PROVE Live' = [ca |-> made, key |-> made]
      <4>1. Left = 0 /\ RingMade
        BY <2>1, <3>1 DEF RingInv, Left
      <4> QED
        BY <2>1, <4>1 DEF RingMade, Live
    <3>2. "receipt" \notin Tried \cup {"drop older"}
      BY DEF Tried
    <3> QED
      BY <1>6, <2>1, <2>3, <3>1, <3>2
  <2> QED
    BY <1>8, <2>2, <2>3 DEF Answer
<1>9. CASE KillCall
  <2>1. call \in CallType /\ <<>> \in Seq(StepName)
    BY DEF RingInv
  <2>2. call' \in CallType /\ call'.answer = "none" /\ call'.todo = <<>> /\ UNCHANGED <<ring, made>>
    BY <1>9, <2>1 DEF KillCall, CallType
  <2> QED
    BY <2>2 DEF RingInv, Rotating, FailedRotationRestores
<1> QED
  BY <1>1, <1>2, <1>3, <1>4, <1>5, <1>7, <1>8, <1>9 DEF CaNext, Verb

\* A rotation that is refused loses no ring, also one that begins over what an
\* earlier, killed one left.
THEOREM FailedRotationsRestore == CaSpec => []FailedRotationRestores
<1>1. RingInv => FailedRotationRestores
  BY DEF RingInv
<1> QED
  BY <1>1, RingInit, RingStep, PTL DEF CaSpec
-----------------------------------------------------------------------------
(* The exposure switch of sshd.                                              *)

PwState == {"absent", "yes", "no", "twice"}
PkState == {"absent", "yes", "no"}
ConfigText == [pw : PwState, pk : PkState]
UnitState == [enabled : BOOLEAN, active : BOOLEAN]
SwitchPc ==
    {"none", "read", "validate", "write", "validate again", "undo", "restore", "restored", "service",
     "enable", "start", "check", "ok", "refused", "restore refused"}
SwitchState ==
    [pc : SwitchPc, on : BOOLEAN, original : ConfigText, before : UnitState, open : BOOLEAN,
     written : BOOLEAN, torn : BOOLEAN]

\* The switch, disturbed or not: what it has written it knows of, and tee is
\* open only where it writes, or was killed.
SwitchInv ==
    /\ directives \in ConfigText /\ unit \in UnitState /\ loaded \in ConfigText /\ hup \in BOOLEAN
    /\ ssh \in SwitchState
    /\ ssh.pc \in {"read", "validate", "write"} => ~ssh.written
    /\ ssh.pc \in {"validate again", "undo"} => ssh.written
    /\ ssh.open => ssh.pc \in {"write", "undo", "restore", "none"}
    /\ "ssh" \in clean /\ ~ssh.torn =>
         /\ ssh.pc \in {"read", "validate", "restored", "refused"} => directives = ssh.original
         /\ ssh.pc = "write" /\ ~ssh.open => directives = ssh.original
         /\ ssh.pc \in {"service", "enable", "start", "check"} /\ ~ssh.written =>
              directives = ssh.original

LEMMA SwitchInit == SshInit => SwitchInv
<1> SUFFICES ASSUME SshInit PROVE SwitchInv
  OBVIOUS
<1>1. directives \in ConfigText /\ Blank \in ConfigText
  BY DEF SshInit, Directives, Blank, ConfigText, PwState, PkState
<1>2. unit \in UnitState /\ loaded = directives /\ hup = FALSE /\ clean = {}
  BY DEF SshInit, UnitState
<1>3. ssh = [pc |-> "none", on |-> FALSE, original |-> Blank, before |-> unit,
             open |-> FALSE, written |-> FALSE, torn |-> FALSE]
  BY DEF SshInit
<1>4. ssh \in SwitchState
  BY <1>1, <1>2, <1>3 DEF SwitchState, SwitchPc
<1> QED
  BY <1>1, <1>2, <1>3, <1>4 DEF SwitchInv

\* A step of the switch that leaves the host alone, or only its unit.
LEMMA SwitchQuiet ==
  ASSUME SwitchInv, UNCHANGED directives, unit' \in UnitState, loaded' \in ConfigText,
         hup' \in BOOLEAN, clean' \subseteq clean,
         ReadSshdConfig \/ ValidateConfig \/ ValidateAgain \/ Restored \/ ServiceUnit
           \/ EnableOrDisable \/ StartOrStop \/ Check
  PROVE  SwitchInv'
<1> USE DEF SwitchInv, SwitchState, At, Goto, RaiseRefusal
<1>1. CASE ReadSshdConfig
  BY <1>1 DEF ReadSshdConfig, SwitchPc
<1>2. CASE ValidateConfig
  BY <1>2 DEF ValidateConfig, SwitchPc
<1>3. CASE ValidateAgain \/ Restored \/ ServiceUnit
  BY ZenonT(40), <1>3 DEF ValidateAgain, Restored, ServiceUnit, SwitchPc
<1>4. CASE EnableOrDisable
  BY <1>4 DEF EnableOrDisable, SwitchPc
<1>5. CASE StartOrStop
  BY <1>5 DEF StartOrStop, SwitchPc
<1>6. CASE Check
  BY <1>6 DEF Check, SwitchPc
<1> QED
  BY <1>1, <1>2, <1>3, <1>4, <1>5, <1>6

\* Nothing is promised of a killed switch, whose file may be torn.
LEMMA SwitchKilled ==
  ASSUME SwitchInv, UNCHANGED directives, UNCHANGED unit, UNCHANGED loaded, UNCHANGED hup, "ssh" \in clean' => "ssh" \in clean,
         ssh' = [ssh EXCEPT !.pc = "none"]
  PROVE  SwitchInv'
  BY DEF SwitchInv, SwitchState, SwitchPc, ConfigText, UnitState

LEMMA SwitchTee == ASSUME SwitchInv, TeeOpen \/ TeeWrite PROVE SwitchInv'
<1> USE DEF SwitchInv, SwitchState, At, Goto
<1>1. CASE TeeOpen
  <2>1. Blank \in ConfigText
    BY DEF Blank, ConfigText, PwState, PkState
  <2> QED
    BY <1>1, <2>1 DEF TeeOpen, Writing, Fails, Alone, SwitchPc
<1>2. CASE TeeWrite
  <2>1. Desired(ssh.on) \in ConfigText
    BY DEF Desired, ConfigText, PwState, PkState
  <2> QED
    BY <1>2, <2>1 DEF TeeWrite, Writing, Alone, SwitchPc
<1> QED
  BY <1>1, <1>2

\* What the switch leaves to others: whoever touches the file says so.
LEMMA SwitchOthers ==
  ASSUME SwitchInv, UNCHANGED ssh, directives' \in ConfigText, unit' \in UnitState,
         loaded' \in ConfigText, hup' \in BOOLEAN, "ssh" \in clean' => "ssh" \in clean /\ UNCHANGED directives
  PROVE  SwitchInv'
  BY DEF SwitchInv

DoorOp == {"none", "password", "units", "enable", "start", "restart"}
DoorPc == {"none", "count", "sed", "sshd -t", "reload", "units", "enable", "start", "restart", "look",
           "ok", "refused"}
PasswordPc == {"count", "sed", "sshd -t", "reload"}
UnitPc == {"units", "enable", "start", "restart", "look"}

\* The daemon runs with the file, or reads it next.
Applies == unit.active /\ (hup \/ loaded.pw = directives.pw)

\* The service door: an edit of PasswordAuthentication goes from the count, by
\* way of the file, to the reload, which tells the daemon to read the file.
DoorInv ==
    /\ svc \in [pc : DoorPc, op : DoorOp, on : BOOLEAN]
    /\ svc.pc \in PasswordPc => svc.op = "password"
    /\ svc.pc \in UnitPc => svc.op # "password"
    /\ "svc" \in clean =>
         /\ svc.pc = "sed" => directives.pw \in {"yes", "no"}
         /\ svc.pc \in {"sshd -t", "reload"} => directives.pw = YesNo(svc.on)
         /\ svc.pc = "ok" /\ svc.op = "password" =>
              directives.pw = YesNo(svc.on) /\ Applies

LEMMA DoorInit == SshInit => DoorInv
  BY DEF SshInit, DoorInv, DoorPc, DoorOp, PasswordPc, UnitPc

\* What the door leaves to others.
LEMMA DoorOthers ==
  ASSUME DoorInv, UNCHANGED svc, "svc" \in clean' => "svc" \in clean /\ UNCHANGED <<directives, unit, loaded, hup>>
  PROVE  DoorInv'
  BY DEF DoorInv, Applies

\* The daemon reads its file.
LEMMA DoorReread ==
  ASSUME DoorInv, UNCHANGED <<svc, directives, unit, clean>>, loaded' = directives
  PROVE  DoorInv'
  BY DEF DoorInv, Applies

\* What a verb of systemctl does to the unit, and when the daemon reads the file.
LEMMA DoorUnits ==
  ASSUME Units \/ PortalService
  PROVE  /\ UNCHANGED directives
         /\ loaded' = loaded \/ loaded' = directives
         /\ hup' = hup \/ hup' = FALSE \/ hup' = (hup /\ svc.on /\ unit.active)
         /\ clean' = clean \/ clean' = clean \cap {"svc"}
         /\ \/ unit' = [enabled |-> svc.on, active |-> svc.on]
            \/ unit' = [unit EXCEPT !.enabled = svc.on]
            \/ unit' = [unit EXCEPT !.active = svc.on]
            \/ unit' = [unit EXCEPT !.active = TRUE]
            \/ unit' = unit
<1>1. CASE Units
  BY <1>1, Zenon DEF Units, Enable, Alone
<1>2. CASE PortalService
  <2>1. UNCHANGED directives /\ (clean' = clean \/ clean' = clean \cap {"svc"})
    BY <1>2, Zenon DEF PortalService, Alone
  <2>2. \/ DoorAt("enable") /\ Enable(svc.on)
        \/ DoorAt("start") /\ Activate(svc.on)
        \/ DoorAt("restart") /\ RestartUnit
        \/ UNCHANGED <<unit, loaded, hup>>
    BY <1>2, Zenon DEF PortalService, DoorAt
  <2> QED
    BY <2>1, <2>2, Zenon DEF Enable, Activate, RestartUnit
<1> QED
  BY <1>1, <1>2

\* The types of the host, and who a step of the door disturbs.
LEMMA DoorHost ==
  ASSUME SwitchInv, DoorInv, Service
  PROVE  /\ directives' \in ConfigText /\ unit' \in UnitState /\ loaded' \in ConfigText
         /\ hup' \in BOOLEAN
         /\ "ssh" \in clean' => "ssh" \in clean /\ UNCHANGED directives
         /\ UNCHANGED ssh
<1> USE DEF SwitchInv, DoorAt, DoorGoto
<1>1. CASE \E op \in {"password", "units", "enable", "start", "restart"}, on \in BOOLEAN : Door(op, on)
  BY <1>1 DEF Door, host
<1>2. CASE (Count \/ Test \/ Look) /\ UNCHANGED ssh
  <2>1. UNCHANGED <<directives, unit, loaded, hup, clean, ssh>>
    BY <1>2 DEF Count, Test, Look, host, DoorInv
  <2> QED
    BY <2>1
<1>3. CASE ReloadSshd /\ UNCHANGED ssh
  <2>1. UNCHANGED <<directives, unit, loaded, clean, ssh>>
    BY <1>3, Zenon DEF ReloadSshd
  <2>2. hup' = TRUE \/ hup' = hup
    BY <1>3, Zenon DEF ReloadSshd
  <2> QED
    BY <2>1, <2>2
<1>4. CASE Sed /\ UNCHANGED ssh
  <2>1. directives' \in ConfigText
    BY <1>4 DEF Sed, ConfigText, PwState, YesNo, DoorInv
  <2>2. UNCHANGED <<unit, loaded, hup, ssh>>
    BY <1>4, Zenon DEF Sed
  <2>3. UNCHANGED <<directives, clean>> \/ clean' = clean \cap {"svc"}
    BY <1>4, Zenon DEF Sed, Alone
  <2> QED
    BY <2>1, <2>2, <2>3
<1>5. CASE (Units \/ PortalService) /\ UNCHANGED ssh
  <2>1. svc.on \in BOOLEAN /\ unit \in UnitState
    BY DEF DoorInv
  <2>2. unit' \in UnitState
    <3>1. ASSUME NEW u \in UnitState, NEW on \in BOOLEAN
          PROVE  /\ [enabled |-> on, active |-> on] \in UnitState
                 /\ [u EXCEPT !.enabled = on] \in UnitState
                 /\ [u EXCEPT !.active = on] \in UnitState
                 /\ [u EXCEPT !.active = TRUE] \in UnitState
      BY DEF UnitState
    <3>2. \/ unit' = [enabled |-> svc.on, active |-> svc.on]
          \/ unit' = [unit EXCEPT !.enabled = svc.on]
          \/ unit' = [unit EXCEPT !.active = svc.on]
          \/ unit' = [unit EXCEPT !.active = TRUE]
          \/ unit' = unit
      BY <1>5, DoorUnits
    <3> QED
      BY <2>1, <3>1, <3>2, Zenon
  <2>3. UNCHANGED <<directives, ssh>> /\ (loaded' = loaded \/ loaded' = directives)
    BY <1>5, DoorUnits
  <2>5. hup' \in BOOLEAN
    BY <1>5, DoorUnits
  <2>4. clean' = clean \/ clean' = clean \cap {"svc"}
    BY <1>5, DoorUnits
  <2> QED
    BY <2>2, <2>3, <2>4, <2>5
<1> QED
  BY <1>1, <1>2, <1>3, <1>4, <1>5, Zenon DEF Service

LEMMA DoorStep == ASSUME SwitchInv, DoorInv, Service PROVE DoorInv'
<1> USE DEF DoorInv, DoorAt, DoorGoto, Alone
<1>1. CASE \E op \in {"password", "units", "enable", "start", "restart"}, on \in BOOLEAN : Door(op, on)
  <2>1. PICK op \in {"password", "units", "enable", "start", "restart"}, on \in BOOLEAN :
          svc' = [pc |-> IF op = "password" THEN "count" ELSE op, op |-> op, on |-> on]
    BY <1>1, Zenon DEF Door
  <2>2. svc' \in [pc : DoorPc, op : DoorOp, on : BOOLEAN]
    BY <2>1 DEF DoorPc, DoorOp
  <2>3. /\ svc'.pc \notin {"sed", "sshd -t", "reload", "ok"}
        /\ svc'.pc \in PasswordPc => svc'.op = "password"
        /\ svc'.pc \in UnitPc => svc'.op # "password"
    BY <2>1 DEF PasswordPc, UnitPc
  <2> QED
    BY <2>2, <2>3
<1>2. CASE Count
  BY <1>2 DEF Count, host, DoorPc, DoorOp, PasswordPc, UnitPc
<1>3. CASE Sed
  <2>1. CASE svc' = [svc EXCEPT !.pc = "refused"]
    BY <2>1 DEF DoorPc, PasswordPc, UnitPc
  <2>2. CASE /\ directives' = [directives EXCEPT !.pw = IF @ \in {"yes", "no"} THEN YesNo(svc.on) ELSE @]
             /\ svc' = [svc EXCEPT !.pc = "sshd -t"] /\ clean' = clean \cap {"svc"}
    <3>1. svc.pc = "sed" /\ svc.op = "password" /\ directives \in ConfigText
      BY <1>3 DEF Sed, SwitchInv, PasswordPc
    <3>2. "svc" \in clean => directives'.pw = YesNo(svc.on)
      BY <2>2, <3>1 DEF ConfigText, YesNo
    <3>3. svc' \in [pc : DoorPc, op : DoorOp, on : BOOLEAN] /\ svc'.pc = "sshd -t"
          /\ svc'.op = "password" /\ svc'.on = svc.on
      BY <2>2, <3>1 DEF DoorPc
    <3>4. "svc" \in clean' => "svc" \in clean
      BY <2>2
    <3> QED
      BY <3>2, <3>3, <3>4 DEF UnitPc
  <2> QED
    BY <1>3, <2>1, <2>2, Zenon DEF Sed
<1>4. CASE Test \/ Look
  BY <1>4 DEF Test, Look, host, DoorPc, PasswordPc, UnitPc
<1>6. CASE ReloadSshd
  <2>1. /\ svc.pc = "reload" /\ svc.op = "password" /\ UNCHANGED <<directives, unit, clean>>
        /\ \/ unit.active /\ hup' = TRUE /\ svc' = [svc EXCEPT !.pc = "ok"]
           \/ svc' = [svc EXCEPT !.pc = "refused"]
    BY <1>6 DEF ReloadSshd, PasswordPc
  <2>2. directives \in ConfigText /\ unit \in UnitState
    BY DEF SwitchInv
  <2> QED
    BY <2>1, <2>2 DEF DoorPc, PasswordPc, UnitPc, ConfigText, UnitState, Applies
<1>5. CASE Units \/ PortalService
  BY <1>5 DEF Units, PortalService, DoorPc, DoorOp, PasswordPc, UnitPc
<1> QED
  BY <1>1, <1>2, <1>3, <1>4, <1>5, <1>6, Zenon DEF Service

\* A step of the switch keeps the types, and removes the door from the clean
\* when it touches the host.
LEMMA SwitchHost ==
  ASSUME SwitchInv, Exposure
  PROVE  /\ unit' \in UnitState /\ loaded' \in ConfigText /\ hup' \in BOOLEAN /\ UNCHANGED svc
         /\ "svc" \in clean' => "svc" \in clean /\ UNCHANGED <<directives, unit, loaded, hup>>
<1> USE DEF SwitchInv
<1>1. CASE \E on \in BOOLEAN : Toggle(on)
  BY <1>1 DEF Toggle, host
<1>2. CASE ReadSshdConfig \/ ValidateConfig \/ ValidateAgain \/ Restored \/ ServiceUnit \/ Check
  <2>1. Quiet
    BY <1>2, Zenon DEF ReadSshdConfig, ValidateConfig, ValidateAgain, Restored, ServiceUnit, Check
  <2> QED
    BY <2>1 DEF Quiet, host
<1>3. CASE TeeOpen \/ TeeWrite
  BY <1>3 DEF TeeOpen, TeeWrite, Alone
<1>4. CASE EnableOrDisable \/ StartOrStop
  <2>1. UNCHANGED svc /\ ("svc" \in clean' => "svc" \in clean /\ UNCHANGED <<directives, unit, loaded, hup>>)
    BY <1>4, Zenon DEF EnableOrDisable, StartOrStop, Enable, Activate, Alone
  <2>2. unit' \in UnitState
    BY <1>4 DEF EnableOrDisable, StartOrStop, Enable, Activate, UnitState, SwitchState
  <2>3. loaded' \in ConfigText /\ hup' \in BOOLEAN
    BY <1>4 DEF EnableOrDisable, StartOrStop, Enable, Activate, UnitState
  <2> QED
    BY <2>1, <2>2, <2>3
<1> QED
  BY <1>1, <1>2, <1>3, <1>4, Zenon DEF Exposure

LEMMA SwitchStep == ASSUME SwitchInv, Exposure PROVE SwitchInv'
<1>1. CASE \E on \in BOOLEAN : Toggle(on)
  <2>1. PICK on \in BOOLEAN :
          ssh' = [pc |-> "read", on |-> on, original |-> directives, before |-> unit,
                  open |-> FALSE, written |-> FALSE, torn |-> FALSE]
    BY <1>1, Zenon DEF Toggle
  <2>2. UNCHANGED <<directives, unit, loaded, hup>>
    BY <1>1, Zenon DEF Toggle, host
  <2> QED
    BY <2>1, <2>2 DEF SwitchInv, SwitchState, SwitchPc
<1>2. CASE TeeOpen \/ TeeWrite
  BY <1>2, SwitchTee
<1>3. ASSUME ReadSshdConfig \/ ValidateConfig \/ ValidateAgain \/ Restored \/ ServiceUnit
               \/ EnableOrDisable \/ StartOrStop \/ Check
      PROVE SwitchInv'
  <2>1. UNCHANGED directives /\ clean' \subseteq clean
    <3>1. CASE ReadSshdConfig \/ ValidateConfig \/ ValidateAgain \/ Restored \/ ServiceUnit \/ Check
      BY <3>1 DEF ReadSshdConfig, ValidateConfig, ValidateAgain, Restored, ServiceUnit, Check, Quiet, host
    <3>2. CASE EnableOrDisable \/ StartOrStop
      <4>1. UNCHANGED directives /\ (clean' = clean \/ clean' = clean \cap {"ssh"})
        BY <3>2, Zenon DEF EnableOrDisable, StartOrStop, Alone
      <4> QED
        BY <4>1
    <3> QED
      BY <1>3, <3>1, <3>2, Zenon
  <2>2. unit' \in UnitState /\ loaded' \in ConfigText /\ hup' \in BOOLEAN
    BY <1>3, SwitchHost DEF Exposure
  <2> QED
    BY <1>3, <2>1, <2>2, SwitchQuiet
<1> QED
  BY <1>1, <1>2, <1>3 DEF Exposure

LEMMA SshStep == SwitchInv /\ DoorInv /\ [SshNext]_sshVars => SwitchInv' /\ DoorInv'
<1> SUFFICES ASSUME SwitchInv, DoorInv, [SshNext]_sshVars PROVE SwitchInv' /\ DoorInv'
  OBVIOUS
<1>1. CASE UNCHANGED sshVars
  BY <1>1, SwitchOthers, DoorOthers DEF sshVars, host, SwitchInv
<1>2. CASE Exposure
  BY <1>2, SwitchStep, SwitchHost, DoorOthers
<1>3. CASE Service
  BY <1>3, DoorStep, DoorHost, SwitchOthers
<1>4. CASE Die
  <2>1. unit' \in UnitState
    BY <1>4 DEF Die, SwitchInv, UnitState
  <2> QED
    BY <1>4, <2>1, SwitchOthers, DoorOthers DEF Die, SwitchInv
<1>5. CASE ProgramKilled
  <2>1. CASE ssh' = [ssh EXCEPT !.pc = "none"] /\ UNCHANGED <<svc, host, clean>>
    <3>1. SwitchInv'
      BY <2>1, SwitchKilled DEF host
    <3> QED
      BY <2>1, <3>1, DoorOthers DEF host
  <2>2. CASE svc' = [svc EXCEPT !.pc = "none"] /\ UNCHANGED <<ssh, host, clean>>
    <3>1. DoorInv'
      BY <2>2 DEF DoorInv, host, DoorPc, PasswordPc, UnitPc
    <3> QED
      BY <2>2, <3>1, SwitchOthers DEF host, SwitchInv
  <2> QED
    BY <1>5, <2>1, <2>2 DEF ProgramKilled
<1>6. ASSUME NEW text \in Directives, EditConfig(text) PROVE SwitchInv' /\ DoorInv'
  <2>1. text \in ConfigText
    BY DEF Directives, Blank, ConfigText, PwState, PkState
  <2> QED
    BY <1>6, <2>1, SwitchOthers, DoorOthers DEF EditConfig, SwitchInv
<1>7. CASE Reread
  <2>1. UNCHANGED <<directives, unit, ssh, svc, clean>> /\ loaded' = directives /\ hup' \in BOOLEAN
    BY <1>7, Zenon DEF Reread
  <2> QED
    BY <2>1, SwitchOthers, DoorReread DEF SwitchInv
<1> QED
  BY <1>1, <1>2, <1>3, <1>4, <1>5, <1>6, <1>7 DEF SshNext

LEMMA SshInvariant == SshSpec => [](SwitchInv /\ DoorInv)
<1> QED
  BY SwitchInit, DoorInit, SshStep, PTL DEF SshSpec

\* The switch takes its change of sshd_config back whenever it refuses, unless
\* its own tee failed or somebody else came between.
THEOREM RefusalsRestoreFile == SshSpec => []RefusedRestoresFile
<1>1. SwitchInv => RefusedRestoresFile
  BY DEF SwitchInv, RefusedRestoresFile, At
<1> QED
  BY <1>1, SshInvariant, PTL

\* An answered change of PasswordAuthentication, of a door that nobody disturbed,
\* is in the file, and the daemon applies it or has been told to read the file.
THEOREM PasswordsAreServed == SshSpec => []PasswordIsServed
<1>1. DoorInv => PasswordIsServed
  BY DEF DoorInv, PasswordIsServed, DoorAt, Applies
<1> QED
  BY <1>1, SshInvariant, PTL
-----------------------------------------------------------------------------
(* The updater of Kea's file, for any number of runs that are killed and     *)
(* interrupted at any point.  The strengthening says where an input must     *)
(* have been validated: between the check of the copy and the move that      *)
(* makes the copy the live file.                                             *)

Unaccepted == Config \ Valid

\* Only an accepted input can still be moved into place; the three files and
\* the service hold nothing that was not accepted.
SourcesInv ==
  /\ pc \in [Writer -> Label]
  /\ input \in [Writer -> Config]
  /\ DOMAIN backup = Writer
  /\ \A w \in Writer : pc[w] \in {"validated", "saved"} => input[w] \in Valid
  /\ file \notin Unaccepted /\ running \notin Unaccepted
  /\ kept \cap Unaccepted = {}
  /\ \A w \in Writer : backup[w] \notin Unaccepted

LEMMA SourcesImply == SourcesInv => NeverUnvalidated
  BY DEF SourcesInv, NeverUnvalidated, Unaccepted

LEMMA SourcesInit == ASSUME KeaConstants PROVE Init => SourcesInv
  BY DEF KeaConstants, Init, SourcesInv, Unaccepted, Label

\* The end of a run touches its own labels and private files, and adds to the
\* backups that are kept only what its own backup held.
LEMMA CleanupKeeps ==
  ASSUME SourcesInv, KeaConstants, NEW w \in Writer, NEW code,
         Cleanup(w, code), UNCHANGED input,
         file' \notin Unaccepted, running' \notin Unaccepted
  PROVE  SourcesInv'
  BY DEF SourcesInv, KeaConstants, Cleanup, Go, Label, Unaccepted

LEMMA SourcesStep ==
  ASSUME SourcesInv, KeaConstants, [Next]_vars
  PROVE  SourcesInv'
<1>1. CASE UNCHANGED vars
  BY <1>1 DEF SourcesInv, vars, Unaccepted
<1>2. ASSUME NEW w \in Writer, Copy(w) PROVE SourcesInv'
  BY <1>2 DEF SourcesInv, Copy, Cleanup, Go, Label, Unaccepted, KeaConstants
<1>3. ASSUME NEW w \in Writer, Validate(w) PROVE SourcesInv'
  <2>1. CASE Exit(w, 1)
    BY <1>3, <2>1, CleanupKeeps DEF SourcesInv, Validate, Exit
  <2>2. CASE ~Exit(w, 1)
    BY <1>3, <2>2 DEF SourcesInv, Validate, Go, Label, Unaccepted
  <2> QED BY <2>1, <2>2
<1>4. ASSUME NEW w \in Writer, Save(w) PROVE SourcesInv'
  <2>1. CASE Exit(w, 1)
    BY <1>4, <2>1, CleanupKeeps DEF SourcesInv, Save, Exit
  <2>2. CASE ~Exit(w, 1)
    BY <1>4, <2>2 DEF SourcesInv, Save, Go, Label, Unaccepted
  <2> QED BY <2>1, <2>2
<1>5. ASSUME NEW w \in Writer, Apply(w) PROVE SourcesInv'
  BY <1>5 DEF SourcesInv, Apply, Go, Label, Unaccepted, KeaConstants
<1>6. ASSUME NEW w \in Writer, Recheck(w) PROVE SourcesInv'
  BY <1>6 DEF SourcesInv, Recheck, Go, Label, Unaccepted, KeaConstants
<1>7. ASSUME NEW w \in Writer, Restore(w) PROVE SourcesInv'
  BY <1>7, CleanupKeeps DEF SourcesInv, Restore, Exit
<1>8. ASSUME NEW w \in Writer, Restart(w) PROVE SourcesInv'
  <2>1. CASE Exit(w, 1)
    BY <1>8, <2>1, CleanupKeeps DEF SourcesInv, Restart, Exit, KeaConstants, Unaccepted
  <2>2. CASE ~Exit(w, 1)
    BY <1>8, <2>2 DEF SourcesInv, Restart, Go, Label, Unaccepted
  <2> QED BY <2>1, <2>2
<1>9. ASSUME NEW w \in Writer, Settle(w) PROVE SourcesInv'
  BY <1>9, CleanupKeeps DEF SourcesInv, Settle, Exit, KeaConstants, Unaccepted
<1>10. ASSUME NEW w \in Writer, Kill(w) PROVE SourcesInv'
  BY <1>10, CleanupKeeps DEF SourcesInv, Kill
<1>11. ASSUME NEW w \in Writer, Interrupt(w) PROVE SourcesInv'
  BY <1>11, CleanupKeeps DEF SourcesInv, Interrupt, Exit
<1> QED
  BY <1>1, <1>2, <1>3, <1>4, <1>5, <1>6, <1>7, <1>8, <1>9, <1>10, <1>11 DEF Next, Step

\* A configuration that kea-dhcp4 -t refused is never the live file, the loaded
\* one or a backup, for any number of runs and however they end.
THEOREM LiveWasValidated == Spec => []NeverUnvalidated
<1>1. Init => SourcesInv
  BY SourcesInit, KeaConstants
<1>2. SourcesInv /\ [Next]_vars => SourcesInv'
  BY SourcesStep, KeaConstants
<1> QED
  BY <1>1, <1>2, SourcesImply, PTL DEF Spec

-----------------------------------------------------------------------------
(* Runs of the updater one after the other.                                  *)

\* What the run of w has left at label at: the file is the one it saved, or the
\* one it was handed, and what the service has loaded is on disk somewhere.
Traces(w, at) ==
  /\ at \in {"idle", "copied", "validated", "saved"} => running \in {file, Stopped} \cup kept
  /\ at = "saved" => backup[w] = file
  /\ at \in {"applied", "restoring", "accepted"} => running \in {backup[w], Stopped} \cup kept
  /\ at \in {"applied", "accepted", "restarted"} => file = input[w]
  /\ at = "restarted" => running = file

SerialInv ==
  /\ pc \in [Writer -> Label] /\ input \in [Writer -> Config]
  /\ file \in Content /\ backup \in [Writer -> Content] /\ status \in [Writer -> {0, 1}]
  /\ \A v, w \in Writer : pc[v] # "idle" /\ pc[w] # "idle" => v = w
  /\ running = Absent => running = Stopped
  /\ \A w \in Writer : pc[w] \in {"idle", "copied", "validated"} => backup[w] = Absent
  /\ (\A w \in Writer : pc[w] = "idle") => running \in {file, Stopped} \cup kept
  /\ \A w \in Writer : (\A v \in Writer \ {w} : pc[v] = "idle") => Traces(w, pc[w])

LEMMA SerialInit == Init => SerialInv
  BY KeaConstants DEF Init, SerialInv, Traces, Label, Content

\* A run goes on.
LEMMA SerialGoes ==
  ASSUME SerialInv, NEW w \in Writer, \A v \in Writer \ {w} : pc[v] = "idle",
         NEW l \in Label, l # "idle", Go(w, l), UNCHANGED status,
         input' \in [Writer -> Config], file' \in Content, backup' \in [Writer -> Content],
         \A v \in Writer \ {w} : backup'[v] = backup[v],
         l \in {"copied", "validated"} => backup'[w] = Absent,
         running' = Absent => running' = Stopped, Traces(w, l)'
  PROVE  SerialInv'
<1>1. pc' \in [Writer -> Label] /\ pc'[w] = l /\ \A v \in Writer \ {w} : pc'[v] = "idle"
  BY DEF SerialInv, Go
<1>2. \A v \in Writer : pc'[v] \in {"idle", "copied", "validated"} => backup'[v] = Absent
  BY <1>1 DEF SerialInv
<1>3. Traces(w, pc[w])'
  BY <1>1 DEF Traces
<1>4. ASSUME NEW v \in Writer, \A u \in Writer \ {v} : pc'[u] = "idle" PROVE v = w
  BY <1>1, <1>4
<1> QED
  BY <1>1, <1>2, <1>3, <1>4 DEF SerialInv

\* A run ends: what the service has loaded is the file, or a backup that is kept.
LEMMA SerialEnds ==
  ASSUME SerialInv, NEW w \in Writer, \A v \in Writer \ {w} : pc[v] = "idle", NEW code \in {0, 1},
         Cleanup(w, code), input' \in [Writer -> Config], file' \in Content,
         running' = Absent => running' = Stopped, running' \in {file', Stopped} \cup kept'
  PROVE  SerialInv' /\ status'[w] = code
<1>1. pc' \in [Writer -> Label] /\ \A v \in Writer : pc'[v] = "idle"
  BY DEF SerialInv, Cleanup, Go, Label
<1>2. backup' \in [Writer -> Content] /\ \A v \in Writer : backup'[v] = Absent
  BY DEF SerialInv, Cleanup, Content
<1>3. \A v \in Writer : Traces(v, pc[v])'
  BY <1>1, <1>2 DEF Traces
<1>4. status' \in [Writer -> {0, 1}] /\ status'[w] = code
  BY DEF SerialInv, Cleanup
<1> QED
  BY <1>1, <1>2, <1>3, <1>4 DEF SerialInv

LEMMA SerialStep ==
  ASSUME SerialInv, NEW w \in Writer, \A v \in Writer \ {w} : pc[v] = "idle", Step(w)
  PROVE  SerialInv' /\ (pc[w] # "idle" /\ pc'[w] = "idle" /\ status'[w] = 0 =>
                          file' = input[w] /\ running' = input[w])
<1> DEFINE Success == pc[w] # "idle" /\ pc'[w] = "idle" /\ status'[w] = 0 =>
                        file' = input[w] /\ running' = input[w]
<1>0. /\ Traces(w, pc[w]) /\ pc \in [Writer -> Label]
      /\ input \in [Writer -> Config] /\ input[w] \in Config /\ input[w] \in Content
      /\ backup \in [Writer -> Content] /\ backup[w] \in Content /\ file \in Content
      /\ running = Absent => running = Stopped
      /\ pc[w] \in {"copied", "validated"} => backup[w] = Absent
  BY DEF SerialInv, Content
\* A run that ends with an error.
<1>1. ASSUME Cleanup(w, 1), UNCHANGED input, file' \in Content, running' = Absent => running' = Stopped,
             running' \in {file', Stopped} \cup kept'
      PROVE  SerialInv' /\ Success
  <2>1. SerialInv' /\ status'[w] = 1
    BY <1>0, <1>1, SerialEnds
  <2> QED
    BY <2>1
\* The trap keeps what was saved.
<1>2. ASSUME Cleanup(w, 1)
      PROVE  kept \subseteq kept' /\ (backup[w] = Absent \/ backup[w] \in kept')
  BY <1>2 DEF Cleanup
<1>3. ASSUME NEW l \in Label, l # "idle", Go(w, l) PROVE Success
  BY <1>0, <1>3 DEF Go
<1>4. CASE Copy(w)
  <2>1. pc[w] = "idle" /\ input' \in [Writer -> Config] /\ UNCHANGED <<file, running>>
    BY <1>0, <1>4 DEF Copy
  <2>2. CASE Go(w, "copied") /\ UNCHANGED <<backup, kept, status>>
    <3>1. Traces(w, "copied")' /\ backup[w] = Absent
      BY <1>0, <2>1, <2>2 DEF Traces, SerialInv
    <3> QED
      BY <1>0, <1>3, <2>1, <2>2, <3>1, SerialGoes DEF Label
  <2>3. CASE Cleanup(w, 1)
    <3>1. running' \in {file', Stopped} \cup kept'
      BY <1>0, <1>2, <2>1, <2>3 DEF Traces
    <3> QED
      BY <1>0, <2>1, <2>3, <3>1, SerialEnds
  <2> QED
    BY <1>4, <2>2, <2>3 DEF Copy
<1>5. CASE Validate(w)
  <2>1. pc[w] = "copied" /\ UNCHANGED <<file, running, input>>
    BY <1>5 DEF Validate, Exit
  <2>2. CASE Go(w, "validated") /\ UNCHANGED <<backup, kept, status>>
    <3>1. Traces(w, "validated")'
      BY <1>0, <2>1, <2>2 DEF Traces
    <3> QED
      BY <1>0, <1>3, <2>1, <2>2, <3>1, SerialGoes DEF Label
  <2>3. CASE Cleanup(w, 1)
    BY <1>0, <1>1, <1>2, <2>1, <2>3 DEF Traces
  <2> QED
    BY <1>5, <2>2, <2>3 DEF Validate, Exit
<1>6. CASE Save(w)
  <2>1. pc[w] = "validated" /\ UNCHANGED <<file, running, input>>
    BY <1>6 DEF Save, Exit
  <2>2. CASE backup' = [backup EXCEPT ![w] = file] /\ Go(w, "saved") /\ UNCHANGED <<kept, status>>
    <3>1. backup' \in [Writer -> Content] /\ backup'[w] = file /\ \A v \in Writer \ {w} : backup'[v] = backup[v]
      BY <1>0, <2>2
    <3>2. Traces(w, "saved")'
      BY <1>0, <2>1, <2>2, <3>1 DEF Traces
    <3> QED
      BY <1>0, <1>3, <2>1, <2>2, <3>1, <3>2, SerialGoes DEF Label
  <2>3. CASE Cleanup(w, 1)
    BY <1>0, <1>1, <1>2, <2>1, <2>3 DEF Traces
  <2> QED
    BY <1>6, <2>2, <2>3 DEF Save, Exit
<1>7. CASE Apply(w)
  <2>1. pc[w] = "saved" /\ UNCHANGED <<running, input, backup, kept, status>>
    BY <1>7 DEF Apply
  <2>2. CASE file' = input[w] /\ Go(w, "applied")
    <3>1. Traces(w, "applied")' /\ file' \in Content
      BY <1>0, <2>1, <2>2 DEF Traces
    <3> QED
      BY <1>0, <1>3, <2>1, <2>2, <3>1, SerialGoes DEF Label
  <2>3. CASE file' = (IF backup[w] = Absent THEN file ELSE Torn) /\ Go(w, "restoring")
    <3>1. Traces(w, "restoring")' /\ file' \in Content
      BY <1>0, <2>1, <2>3 DEF Traces, Content
    <3> QED
      BY <1>0, <1>3, <2>1, <2>3, <3>1, SerialGoes DEF Label
  <2> QED
    BY <1>7, <2>2, <2>3 DEF Apply
<1>8. CASE Recheck(w)
  <2>1. pc[w] = "applied" /\ UNCHANGED <<running, input, backup, kept, status>>
    BY <1>8 DEF Recheck
  <2>2. CASE Go(w, "accepted") /\ UNCHANGED file
    <3>1. Traces(w, "accepted")'
      BY <1>0, <2>1, <2>2 DEF Traces
    <3> QED
      BY <1>0, <1>3, <2>1, <2>2, <3>1, SerialGoes DEF Label
  <2>3. CASE file' = (IF backup[w] = Absent THEN file ELSE Torn) /\ Go(w, "restoring")
    <3>1. Traces(w, "restoring")' /\ file' \in Content
      BY <1>0, <2>1, <2>3 DEF Traces, Content
    <3> QED
      BY <1>0, <1>3, <2>1, <2>3, <3>1, SerialGoes DEF Label
  <2> QED
    BY <1>8, <2>2, <2>3 DEF Recheck
<1>9. CASE Restore(w)
  <2>1. pc[w] = "restoring" /\ UNCHANGED <<running, input>> /\ Cleanup(w, 1)
        /\ (file' = backup[w] \/ file' = file)
    BY <1>9 DEF Restore, Exit
  <2>2. running' \in {file', Stopped} \cup kept'
    BY <1>0, <1>2, <2>1 DEF Traces
  <2> QED
    BY <1>0, <1>1, <2>1, <2>2
<1>10. CASE Restart(w)
  <2>1. pc[w] = "accepted" /\ UNCHANGED <<file, input>>
    BY <1>10 DEF Restart, Exit
  <2>2. CASE running' = file /\ file \in Valid /\ Go(w, "restarted") /\ UNCHANGED <<backup, kept, status>>
    <3>1. Traces(w, "restarted")'
      BY <1>0, <2>1, <2>2 DEF Traces
    <3>2. running' # Absent
      BY <2>2, KeaConstants DEF KeaConstants
    <3> QED
      BY <1>0, <1>3, <2>1, <2>2, <3>1, <3>2, SerialGoes DEF Label
  <2>3. CASE running' \in {running, Stopped} /\ Cleanup(w, 1)
    BY <1>0, <1>1, <1>2, <2>1, <2>3 DEF Traces
  <2> QED
    BY <1>10, <2>2, <2>3 DEF Restart, Exit
<1>11. CASE Settle(w)
  <2>1. pc[w] = "restarted" /\ UNCHANGED <<file, input>> /\ file = input[w] /\ running = file
    BY <1>0, <1>11 DEF Settle, Exit, Traces
  <2>2. CASE Cleanup(w, 0) /\ UNCHANGED running
    <3>1. SerialInv'
      BY <1>0, <2>1, <2>2, SerialEnds
    <3> QED
      BY <2>1, <2>2, <3>1
  <2>3. CASE running' = Stopped /\ Cleanup(w, 1)
    BY <1>0, <1>1, <2>1, <2>3
  <2> QED
    BY <1>11, <2>2, <2>3 DEF Settle, Exit
<1>12. CASE Kill(w)
  <2>1. pc[w] # "idle" /\ UNCHANGED input /\ Cleanup(w, 1)
    BY <1>12 DEF Kill
  <2>2. pc[w] \in Label
    BY <1>0
  <2>3. running \in {file, Stopped} \cup kept'
    BY <1>0, <1>2, <2>1, <2>2 DEF Traces, Label
  <2>4. CASE UNCHANGED <<file, running>>
    BY <1>0, <1>1, <2>1, <2>3, <2>4
  <2>5. CASE pc[w] = "restoring" /\ file' = backup[w] /\ UNCHANGED running
    <3>1. running' \in {file', Stopped} \cup kept'
      BY <1>0, <1>2, <2>1, <2>5 DEF Traces
    <3> QED
      BY <1>0, <1>1, <2>1, <2>5, <3>1
  <2>6. CASE file \in Valid /\ running' = file /\ UNCHANGED file
    <3>1. running' # Absent
      BY <2>6, KeaConstants DEF KeaConstants
    <3> QED
      BY <1>0, <1>1, <2>1, <2>6, <3>1
  <2> QED
    BY <1>12, <2>4, <2>5, <2>6 DEF Kill
<1> QED
  BY <1>4, <1>5, <1>6, <1>7, <1>8, <1>9, <1>10, <1>11, <1>12 DEF Step

-----------------------------------------------------------------------------
(* The reservations, when one command runs after the other.                  *)

Stages == {"idle", "range", "config", "existing", "choose", "update"}
Entries == [mac : Mac, ip : Int]
Drafts == [pool : Nat, res : SUBSET Entries]
Asked(r) ==
  /\ r.op \in {"add", "remove", "readdress", "boundary"}
  /\ r.op = "add" => r.mac \in Mac
  /\ r.op = "boundary" => r.max \in 0 .. Limit
Keeps(c) == c \in Drafts /\ Used(c) \subseteq Reserved(c)
Op(p) == request[p].op
IpOf(p) == request[p].ip

\* What a command at stage s knows, when it has read d and e: the file is still
\* what it read, and what it will write keeps the reserved range and the
\* reservations that it was not asked about.
Knows(p, s, d, e) ==
  /\ s # "idle" => Asked(request[p])
  /\ s = "range" => Op(p) = "readdress"
  /\ s = "config" /\ Op(p) = "readdress" => IpOf(p) \in Reserved(config)
  /\ s \in {"existing", "choose"} => d = config
  /\ s = "existing" => Op(p) \in {"add", "boundary"}
  /\ s = "choose" => Op(p) = "add"
  /\ s = "update" => Keeps(d) /\ held \ Touched(p) \subseteq d.res

BoundaryInv ==
  /\ Keeps(config)
  /\ held \subseteq config.res
  /\ stage \in [Client -> Stages] /\ draft \in [Client -> Drafts]
  /\ DOMAIN existing = Client /\ DOMAIN request = Client
  /\ \A p, q \in Client : stage[p] # "idle" /\ stage[q] # "idle" => p = q
  /\ \A p \in Client : Knows(p, stage[p], draft[p], existing[p])

LEMMA NothingType == NothingRead \in Drafts
  BY DEF NothingRead, Drafts, NoPool

\* A bound of the pool decides the range alone.
LEMMA SameRange ==
  ASSUME NEW c \in Drafts, NEW d \in Drafts, c.pool = d.pool
  PROVE  Reserved(c) = Reserved(d)
  BY DEF Reserved, Boundary, Drafts

LEMMA BoundaryInit == DhcpInit => BoundaryInv
<1> SUFFICES ASSUME DhcpInit PROVE BoundaryInv
  OBVIOUS
<1>1. Keeps(config)
  BY DhcpConstants DEF DhcpInit, Keeps, Drafts, Entries, Pools, PoolEnd, NoPool, Unreadable
<1>2. held = {} /\ stage = [p \in Client |-> "idle"] /\ draft = [p \in Client |-> NothingRead]
      /\ existing = [p \in Client |-> {}] /\ request = [p \in Client |-> NoRequest]
  BY Zenon DEF DhcpInit
<1> QED
  BY <1>1, <1>2, NothingType DEF BoundaryInv, Knows, Stages

\* A command ends and leaves a sound file behind.
LEMMA CommandEnds ==
  ASSUME BoundaryInv, NEW p \in Client, stage[p] # "idle", NEW a, End(p, a),
         Keeps(config'), held' \subseteq config'.res
  PROVE  BoundaryInv'
<1>1. \A q \in Client : stage'[q] = "idle"
  BY DEF End, BoundaryInv
<1>2. stage' \in [Client -> Stages]
  BY DEF End, BoundaryInv, Stages
<1>3. draft' \in [Client -> Drafts]
  BY NothingType DEF End, BoundaryInv
<1>4. DOMAIN existing' = Client /\ DOMAIN request' = Client
  BY DEF End, BoundaryInv
<1>5. \A q \in Client : Knows(q, stage[q], draft[q], existing[q])'
  BY <1>1 DEF Knows
<1>6. (Keeps(config))'
  BY DEF Keeps, Used, Reserved, Boundary
<1> QED
  BY <1>1, <1>2, <1>3, <1>4, <1>5, <1>6 DEF BoundaryInv

\* A command goes on, and has read what its new stage expects.
LEMMA CommandGoesOn ==
  ASSUME BoundaryInv, NEW p \in Client, stage[p] # "idle", UNCHANGED <<config, request, held>>,
         NEW s \in Stages, s # "idle", stage' = [stage EXCEPT ![p] = s],
         draft' \in [Client -> Drafts], DOMAIN existing' = Client,
         Knows(p, s, draft'[p], existing'[p])
  PROVE  BoundaryInv'
<1>1. \A q \in Client \ {p} : stage'[q] = "idle"
  BY DEF BoundaryInv
<1>2. stage' \in [Client -> Stages] /\ stage'[p] = s
  BY DEF BoundaryInv
<1>3. \A q \in Client \ {p} : Knows(q, stage[q], draft[q], existing[q])'
  BY <1>1 DEF Knows
<1>4. Knows(p, stage[p], draft[p], existing[p])'
  BY <1>2, Zenon DEF Knows, Op, IpOf, Keeps, Used, Reserved, Boundary, Touched, Named
<1>5. (Keeps(config))' /\ (held \subseteq config.res)'
  BY DEF BoundaryInv, Keeps, Used, Reserved, Boundary
<1> QED
  BY <1>1, <1>2, <1>3, <1>4, <1>5 DEF BoundaryInv

LEMMA RequestsAsk == \A r \in Requests : Asked(r)
<1> SUFFICES ASSUME NEW r \in Requests PROVE Asked(r)
  OBVIOUS
<1>1. CASE r \in [mac : Mac, ip : Offset, op : {"add"} \cap Actions, dashed : BOOLEAN]
  BY <1>1 DEF Asked
<1>2. CASE r \in [op : {"remove"} \cap Actions, id : Mac \cup Offset]
  BY <1>2 DEF Asked
<1>3. CASE r \in [ip : Offset, op : {"readdress"} \cap Actions, id : Mac \cup Offset]
  BY <1>3 DEF Asked
<1>4. CASE r \in [op : {"boundary"} \cap Actions, max : 0 .. Limit]
  BY <1>4 DEF Asked
<1> QED
  BY <1>1, <1>2, <1>3, <1>4, Zenon DEF Requests

\* The only way in: nobody else is at work, and the command was asked properly.
LEMMA Started == ASSUME BoundaryInv, ~Overlap, NEW p \in Client, Start(p) PROVE BoundaryInv'
<1>1. /\ \A q \in Client : stage[q] = "idle"
      /\ UNCHANGED <<config, draft, existing, held>>
  BY Zenon DEF Start
<1>2. PICK r \in Requests :
        /\ request' = [request EXCEPT ![p] = r]
        /\ stage' = [stage EXCEPT ![p] = IF r.op = "readdress" THEN "range" ELSE "config"]
  BY Zenon DEF Start
<1>3. PICK s \in {"range", "config"} :
        /\ stage' = [stage EXCEPT ![p] = s]
        /\ r.op = "readdress" <=> s = "range"
  <2>1. CASE r.op = "readdress"
    BY <1>2, <2>1, Zenon
  <2>2. CASE ~(r.op = "readdress")
    BY <1>2, <2>2, Zenon
  <2> QED
    BY <2>1, <2>2
<1>4. DOMAIN request' = Client /\ request'[p] = r
  BY <1>2, Zenon DEF BoundaryInv
<1>5. stage' \in [Client -> Stages] /\ stage'[p] = s /\ \A q \in Client \ {p} : stage'[q] = "idle"
  BY <1>1, <1>3 DEF BoundaryInv, Stages
<1>6. Knows(p, stage[p], draft[p], existing[p])'
  <2>1. Asked(request[p])'
    BY <1>4, RequestsAsk, Zenon DEF Asked
  <2>2. Op(p)' = r.op
    BY <1>4, Zenon DEF Op
  <2>3. s = "range" \/ (s = "config" /\ Op(p)' # "readdress")
    BY <1>3, <2>2
  <2>4. s = "range" => Op(p)' = "readdress"
    BY <1>3, <2>2
  <2> QED
    BY <1>5, <2>1, <2>3, <2>4 DEF Knows
<1>7. \A q \in Client \ {p} : Knows(q, stage[q], draft[q], existing[q])'
  BY <1>5 DEF Knows
<1>8. (Keeps(config))' /\ (held \subseteq config.res)'
  BY <1>1 DEF BoundaryInv, Keeps, Used, Reserved, Boundary
<1> QED
  BY <1>1, <1>4, <1>5, <1>6, <1>7, <1>8 DEF BoundaryInv

\* What a removal and a move leave of the file they read.
LEMMA RemovalKeeps ==
  ASSUME NEW c, Keeps(c), NEW id, NEW h \in SUBSET c.res
  PROVE  LET d == [c EXCEPT !.res = @ \ Named(c, id)] IN
           Keeps(d) /\ h \ Named([res |-> h], id) \subseteq d.res
<1> DEFINE d == [c EXCEPT !.res = @ \ Named(c, id)]
<1>1. d \in Drafts /\ d.pool = c.pool /\ d.res = c.res \ Named(c, id)
  BY DEF Keeps, Drafts
<1>2. Reserved(d) = Reserved(c)
  BY <1>1, SameRange DEF Keeps
<1>3. Used(d) \subseteq Used(c)
  BY <1>1 DEF Used
<1>4. h \ Named([res |-> h], id) \subseteq c.res \ Named(c, id)
  BY DEF Named
<1> QED
  BY <1>1, <1>2, <1>3, <1>4 DEF Keeps

LEMMA MoveKeeps ==
  ASSUME NEW c, Keeps(c), NEW id, NEW ip \in Reserved(c), NEW h \in SUBSET c.res
  PROVE  Keeps(Moved(c, id, ip)) /\ h \ Named([res |-> h], id) \subseteq Moved(c, id, ip).res
<1> DEFINE d == Moved(c, id, ip)
           new == {[r EXCEPT !.ip = ip] : r \in Named(c, id)}
<1>0. ip \in Int /\ Named(c, id) \subseteq Entries /\ Named(c, id) \subseteq c.res
  BY DEF Reserved, Keeps, Drafts, Named
<1>1. new \subseteq Entries /\ \A r \in new : r.ip = ip
  BY <1>0 DEF Entries
<1>2. d \in Drafts /\ d.pool = c.pool /\ d.res = (c.res \ Named(c, id)) \cup new
  BY <1>1 DEF Keeps, Drafts, Moved
<1>3. Reserved(d) = Reserved(c)
  BY <1>2, SameRange DEF Keeps
<1>4. Used(d) \subseteq Used(c) \cup {ip}
  BY <1>1, <1>2 DEF Used
<1>5. h \ Named([res |-> h], id) \subseteq c.res \ Named(c, id)
  BY DEF Named
<1> QED
  BY <1>2, <1>3, <1>4, <1>5 DEF Keeps

\* A boundary that every reservation lies below.
LEMMA BoundKeeps ==
  ASSUME NEW c, Keeps(c), NEW max \in 0 .. Limit, \A r \in c.res : r.ip <= max + 1
  PROVE  Keeps([c EXCEPT !.pool = PoolFrom(max)]) /\ [c EXCEPT !.pool = PoolFrom(max)].res = c.res
<1> DEFINE d == [c EXCEPT !.pool = PoolFrom(max)]
<1>1. PoolFrom(max) \in Nat
  BY DhcpConstants DEF PoolFrom, NoPool
<1>2. d \in Drafts /\ d.res = c.res /\ d.pool = PoolFrom(max)
  BY <1>1 DEF Keeps, Drafts
<1> HIDE DEF d
<1>3. Boundary(d) = max
  <2>1. CASE max = Limit
    <3>1. d.pool = NoPool /\ ~(d.pool = Unreadable)
      BY <1>2, <2>1, DhcpConstants DEF PoolFrom, NoPool, Unreadable
    <3> QED
      BY <2>1, <3>1 DEF Boundary
  <2>2. CASE max # Limit
    <3>1. d.pool = max + 2
      BY <1>2, <2>2 DEF PoolFrom
    <3>2. ~(d.pool = NoPool) /\ ~(d.pool = Unreadable) /\ Clamped(d.pool - 2) = max
      BY <2>2, <3>1, DhcpConstants DEF NoPool, Unreadable, Clamped
    <3> QED
      BY <3>2 DEF Boundary
  <2> QED
    BY <2>1, <2>2
<1>4. \A r \in c.res : r.ip \in Int /\ r.ip >= 2 /\ r.ip < Broadcast
  BY DEF Keeps, Used, Reserved, Drafts, Entries
<1>5. Used(d) \subseteq Reserved(d)
  BY <1>2, <1>3, <1>4 DEF Used, Reserved
<1> QED
  BY <1>2, <1>5 DEF Keeps, d

\* An address of the reserved range added.
LEMMA AppendKeeps ==
  ASSUME NEW c, Keeps(c), NEW mac \in Mac, NEW ip \in Reserved(c)
  PROVE  LET d == [c EXCEPT !.res = Appended(@, [mac |-> mac, ip |-> ip])] IN
           Keeps(d) /\ c.res \subseteq d.res
<1> DEFINE d == [c EXCEPT !.res = Appended(@, [mac |-> mac, ip |-> ip])]
<1>1. ip \in Int
  BY DEF Reserved
<1>2. d \in Drafts /\ d.pool = c.pool /\ d.res = c.res \cup {[mac |-> mac, ip |-> ip]}
  BY <1>1 DEF Keeps, Drafts, Entries, Appended
<1>3. Reserved(d) = Reserved(c)
  BY <1>2, SameRange DEF Keeps
<1>4. Used(d) \subseteq Used(c) \cup {ip}
  BY <1>2 DEF Used
<1> QED
  BY <1>2, <1>3, <1>4 DEF Keeps

\* Every step of a command that is under way.
LEMMA Stepped ==
  ASSUME BoundaryInv, NEW p \in Client,
         CheckRange(p) \/ ReadConfig(p) \/ ReadExisting(p) \/ RefuseExisting(p)
           \/ Choose(p) \/ RefuseChosen(p) \/ Update(p)
  PROVE  BoundaryInv'
<1>0. stage[p] # "idle"
  BY DEF CheckRange, ReadConfig, ReadExisting, RefuseExisting, Choose, RefuseChosen, Update
<1>1. Knows(p, stage[p], draft[p], existing[p]) /\ Keeps(config) /\ config \in Drafts
      /\ held \subseteq config.res /\ Asked(request[p])
  BY <1>0 DEF BoundaryInv, Knows, Keeps
<1>2. draft \in [Client -> Drafts] /\ DOMAIN existing = Client
  BY DEF BoundaryInv
\* A refusal leaves the file as it is.
<1>3. ASSUME NEW a, End(p, a), UNCHANGED <<config, held>> PROVE BoundaryInv'
  <2>1. Keeps(config') /\ held' \subseteq config'.res
    BY <1>1, <1>3
  <2> QED
    BY <1>0, <1>3, <2>1, CommandEnds
<1>4. ASSUME CheckRange(p) PROVE BoundaryInv'
  <2>1. CASE IpOf(p) \in Reserved(config) /\ Continue(p, "config") /\ UNCHANGED <<config, draft, existing>>
    <3>1. Knows(p, "config", draft'[p], existing'[p])
      BY <1>1, <2>1 DEF Knows
    <3> QED
      BY <1>0, <1>2, <2>1, <3>1, CommandGoesOn DEF Continue, Stages
  <2>2. CASE Error(p) /\ UNCHANGED config
    BY <1>3, <2>2, Zenon DEF Error
  <2> QED
    BY <1>4, <2>1, <2>2, Zenon DEF CheckRange, IpOf
<1>5. ASSUME ReadConfig(p) PROVE BoundaryInv'
  <2>1. UNCHANGED config
    BY <1>5, Zenon DEF ReadConfig
  <2>2. CASE /\ Op(p) \in {"add", "boundary"} /\ draft' = [draft EXCEPT ![p] = config]
             /\ UNCHANGED existing /\ Continue(p, "existing")
    <3>1. draft' \in [Client -> Drafts] /\ draft'[p] = config
      BY <1>1, <1>2, <2>2
    <3>2. Knows(p, "existing", draft'[p], existing'[p])
      BY <1>1, <2>2, <3>1 DEF Knows
    <3> QED
      BY <1>0, <1>2, <2>1, <2>2, <3>1, <3>2, CommandGoesOn DEF Continue, Stages
  <2>3. ASSUME NEW d, Keeps(d), held \ Touched(p) \subseteq d.res,
               draft' = [draft EXCEPT ![p] = d], UNCHANGED existing, Continue(p, "update")
        PROVE BoundaryInv'
    <3>1. draft' \in [Client -> Drafts] /\ draft'[p] = d
      BY <1>2, <2>3 DEF Keeps
    <3>2. Knows(p, "update", draft'[p], existing'[p])
      BY <1>1, <2>3, <3>1 DEF Knows
    <3> QED
      BY <1>0, <1>2, <2>1, <2>3, <3>1, <3>2, CommandGoesOn DEF Continue, Stages
  <2>4. CASE /\ Op(p) = "remove" /\ UNCHANGED existing /\ Continue(p, "update")
             /\ draft' = [draft EXCEPT ![p] = [config EXCEPT !.res = @ \ Named(config, request[p].id)]]
    <3>1. Touched(p) = Named([res |-> held], request[p].id)
      BY <2>4, Zenon DEF Touched, Op
    <3> QED
      BY <1>1, <2>3, <2>4, <3>1, RemovalKeeps
  <2>5. CASE /\ Op(p) = "readdress" /\ UNCHANGED existing /\ Continue(p, "update")
             /\ draft' = [draft EXCEPT ![p] = Moved(config, request[p].id, IpOf(p))]
    <3>1. Touched(p) = Named([res |-> held], request[p].id)
      BY <2>5, Zenon DEF Touched, Op
    <3>2. stage[p] = "config"
      BY <1>5, Zenon DEF ReadConfig
    <3>3. IpOf(p) \in Reserved(config)
      BY <1>1, <2>5, <3>2 DEF Knows
    <3> QED
      BY <1>1, <2>3, <2>5, <3>1, <3>3, MoveKeeps
  <2>6. CASE \E a \in {"ok", "error"} : End(p, a) /\ UNCHANGED held
    BY <1>3, <2>1, <2>6
  <2> QED
    BY <1>5, <2>2, <2>4, <2>5, <2>6, Zenon DEF ReadConfig, Op, IpOf, Error
<1>6. ASSUME ReadExisting(p) PROVE BoundaryInv'
  <2>1. stage[p] = "existing" /\ UNCHANGED config /\ existing' = [existing EXCEPT ![p] = config.res]
    BY <1>6, Zenon DEF ReadExisting
  <2>2. draft[p] = config /\ DOMAIN existing' = Client /\ existing'[p] = config.res
    BY <1>1, <1>2, <2>1 DEF Knows
  <2>3. CASE Op(p) = "add" /\ Continue(p, "choose") /\ UNCHANGED draft
    <3>1. Knows(p, "choose", draft'[p], existing'[p])
      BY <1>1, <2>2, <2>3 DEF Knows
    <3> QED
      BY <1>0, <1>2, <2>1, <2>2, <2>3, <3>1, CommandGoesOn DEF Continue, Stages
  <2>4. CASE /\ Op(p) = "boundary" /\ \A r \in config.res : r.ip <= request[p].max + 1
             /\ draft' = [draft EXCEPT ![p].pool = PoolFrom(request[p].max)] /\ Continue(p, "update")
    <3>1. request[p].max \in 0 .. Limit
      BY <1>1, <2>4, Zenon DEF Asked, Op
    <3>2. /\ Keeps([config EXCEPT !.pool = PoolFrom(request[p].max)])
          /\ [config EXCEPT !.pool = PoolFrom(request[p].max)].res = config.res
      BY <1>1, <2>4, <3>1, BoundKeeps
    <3>3. draft'[p] = [config EXCEPT !.pool = PoolFrom(request[p].max)]
      BY <1>2, <2>2, <2>4
    <3>4. draft' \in [Client -> Drafts]
      BY <1>2, <2>4, <3>2, <3>3 DEF Keeps
    <3>5. Knows(p, "update", draft'[p], existing'[p])
      BY <1>1, <3>2, <3>3 DEF Knows
    <3> QED
      BY <1>0, <2>1, <2>2, <2>4, <3>4, <3>5, CommandGoesOn DEF Continue, Stages
  <2> QED
    BY <1>6, <2>3, <2>4, Zenon DEF ReadExisting, Op, MayBound
<1>7. ASSUME Choose(p) PROVE BoundaryInv'
  <2>1. stage[p] = "choose" /\ UNCHANGED <<config, existing>> /\ Continue(p, "update")
    BY <1>7, Zenon DEF Choose
  <2>2. PICK ip \in Chosen(config, request[p].ip) :
          draft' = [draft EXCEPT ![p].res = Appended(@, [mac |-> request[p].mac, ip |-> ip])]
    BY <1>7, Zenon DEF Choose
  <2>3. ip \in Reserved(config)
    BY <2>2, Zenon DEF Chosen, Free
  <2>4. draft[p] = config /\ request[p].mac \in Mac
    BY <1>1, <2>1, Zenon DEF Knows, Op, Asked
  <2> DEFINE d == [config EXCEPT !.res = Appended(@, [mac |-> request[p].mac, ip |-> ip])]
  <2>5. Keeps(d) /\ config.res \subseteq d.res
    BY <1>1, <2>3, <2>4, AppendKeeps
  <2>6. draft'[p] = d
    BY <1>2, <2>2, <2>4
  <2> HIDE DEF d
  <2>7. draft' \in [Client -> Drafts]
    BY <1>2, <2>2, <2>5, <2>6 DEF Keeps
  <2>8. Knows(p, "update", draft'[p], existing'[p])
    BY <1>1, <2>5, <2>6 DEF Knows
  <2> QED
    BY <1>0, <1>2, <2>1, <2>7, <2>8, CommandGoesOn DEF Continue, Stages
<1>8. ASSUME RefuseExisting(p) \/ RefuseChosen(p) PROVE BoundaryInv'
  BY <1>3, <1>8, Zenon DEF RefuseExisting, RefuseChosen, Error
<1>9. ASSUME Update(p) PROVE BoundaryInv'
  <2>1. stage[p] = "update" /\ Keeps(draft[p]) /\ held \ Touched(p) \subseteq draft[p].res
    BY <1>1, <1>9 DEF Knows, Update
  <2>2. Gained(p) \subseteq draft[p].res
    BY Zenon DEF Gained
  <2>3. CASE config' = draft[p] /\ held' \in {held \ Touched(p), (held \ Touched(p)) \cup Gained(p)}
             /\ \E a \in {"ok", "error"} : End(p, a)
    BY <1>0, <2>1, <2>2, <2>3, CommandEnds
  <2>4. CASE UNCHANGED <<config, held>> /\ End(p, "error")
    BY <1>3, <2>4
  <2> QED
    BY <1>9, <2>3, <2>4, Zenon DEF Update
<1> QED
  BY <1>4, <1>5, <1>6, <1>7, <1>8, <1>9

LEMMA BoundaryStep == ASSUME ~Overlap PROVE BoundaryInv /\ [DhcpNext]_dhcpVars => BoundaryInv'
<1> SUFFICES ASSUME BoundaryInv, [DhcpNext]_dhcpVars PROVE BoundaryInv'
  OBVIOUS
<1>1. CASE UNCHANGED dhcpVars
  BY <1>1 DEF dhcpVars, BoundaryInv, Keeps, Knows, Asked, Op, IpOf, Used, Reserved, Boundary, Touched, Named
<1>2. CASE DhcpNext
  BY <1>2, Started, Stepped DEF DhcpNext
<1> QED
  BY <1>1, <1>2

LEMMA BoundaryInvariant == ASSUME ~Overlap PROVE DhcpSpec => []BoundaryInv
<1> QED
  BY BoundaryInit, BoundaryStep, PTL DEF DhcpSpec

\* As long as one command runs after the other, every reservation lies in the
\* reserved range, whatever is added, moved, removed and bounded.
THEOREM ReservationsBelowPool == ASSUME ~Overlap PROVE DhcpSpec => []ReservedBelowPool
<1>1. BoundaryInv => ReservedBelowPool
  BY DEF BoundaryInv, Keeps, ReservedBelowPool
<1> QED
  BY <1>1, BoundaryInvariant, PTL

\* And what a client was told it has stays in the file until a command names it,
\* which supposes what no lock of the code sees to: one command at a time.
LEMMA AcknowledgedReservationsStand == ASSUME ~Overlap PROVE DhcpSpec => []AcknowledgedStands
<1>1. BoundaryInv => AcknowledgedStands
  BY DEF BoundaryInv, AcknowledgedStands
<1> QED
  BY <1>1, BoundaryInvariant, PTL

-----------------------------------------------------------------------------
(* The programs together.                                                    *)

\* A behaviour of the programs is a behaviour of each: when another one is at
\* work, it stands still.
LEMMA EachStarts ==
  RootInit => CaInit /\ SshInit /\ CredInit /\ Init /\ DhcpInit
  BY Zenon DEF RootInit

LEMMA EachSteps ==
  [RootNext]_roots =>
    [CaNext]_caVars /\ [SshNext]_sshVars /\ [CredNext]_credVars /\ [Next]_vars /\ [DhcpNext]_dhcpVars
<1> SUFFICES ASSUME [RootNext]_roots
             PROVE  /\ [CaNext]_caVars /\ [SshNext]_sshVars /\ [CredNext]_credVars /\ [Next]_vars
                    /\ [DhcpNext]_dhcpVars
  OBVIOUS
<1>1. CASE UNCHANGED roots
  BY <1>1, Zenon DEF roots, keaVars
<1>2. CASE RootNext
  BY <1>2, Zenon DEF RootNext, keaVars, Next
<1> QED
  BY <1>1, <1>2

LEMMA EachRuns == RootSpec => CaSpec /\ SshSpec /\ CredSpec /\ Spec /\ DhcpSpec
<1> QED
  BY EachStarts, EachSteps, PTL DEF RootSpec, CaSpec, SshSpec, CredSpec, Spec, DhcpSpec

\* Runs of the updater that come one after the other.
LEMMA SerialNext ==
  ASSUME [RootNext]_roots, program = "serial kea", SerialInv
  PROVE  /\ SerialInv'
         /\ \A w \in Writer : pc[w] # "idle" /\ pc'[w] = "idle" /\ status'[w] = 0 =>
              file' = input[w] /\ running' = input[w]
<1>1. CASE UNCHANGED vars
  BY <1>1 DEF vars, SerialInv, Traces
<1>2. CASE \E w \in Writer : Step(w) /\ \A v \in Writer \ {w} : pc[v] = "idle"
  <2>1. PICK w \in Writer : Step(w) /\ \A v \in Writer \ {w} : pc[v] = "idle"
    BY <1>2
  <2>2. SerialInv' /\ (pc[w] # "idle" /\ pc'[w] = "idle" /\ status'[w] = 0 =>
                          file' = input[w] /\ running' = input[w])
    BY <2>1, SerialStep
  <2> QED
    BY <2>1, <2>2
<1> QED
  <2>1. UNCHANGED roots => UNCHANGED vars
    BY Zenon DEF roots, keaVars
  <2>2. RootNext => \/ UNCHANGED vars
                    \/ \E w \in Writer : Step(w) /\ \A v \in Writer \ {w} : pc[v] = "idle"
    BY Zenon DEF RootNext, keaVars
  <2> QED
    BY <1>1, <1>2, <2>1, <2>2

LEMMA SerialInvariant == RootSpec => [](program = "serial kea" => SerialInv)
<1>1. RootInit => (program = "serial kea" => SerialInv)
  BY SerialInit, EachStarts
<1>2. [RootNext]_roots => UNCHANGED program
  BY Zenon DEF RootNext, roots
<1>3. (program = "serial kea" => SerialInv) /\ [RootNext]_roots => (program = "serial kea" => SerialInv)'
  BY <1>2, SerialNext
<1> QED
  BY <1>1, <1>3, PTL DEF RootSpec

\* Between runs of the updater that come one after the other, and that only
\* SIGKILL may end, what Kea runs is on disk or in a backup.
THEOREM SerialRunsRecoverable == RootSpec => []SerialRecoverable
<1>1. (program = "serial kea" => SerialInv) => SerialRecoverable
  <2> SUFFICES ASSUME program = "serial kea", SerialInv, \A w \in Writer : pc[w] = "idle"
               PROVE  running \in {file, Stopped} \cup kept
    BY DEF SerialRecoverable, RunningRecoverable
  <2> QED
    BY DEF SerialInv, Traces
<1> QED
  BY <1>1, SerialInvariant, PTL

\* Status 0 of such a run means that its configuration is the file and is loaded.
THEOREM SerialSuccessIsLive == RootSpec => SerialSuccess
<1>1. (program = "serial kea" => SerialInv) /\ [RootNext]_roots =>
        [program = "serial kea" => \A w \in Writer :
           pc[w] # "idle" /\ pc'[w] = "idle" /\ status'[w] = 0 =>
             file' = input[w] /\ running' = input[w]]_keaVars
  BY SerialNext
<1> QED
  BY <1>1, SerialInvariant, PTL DEF RootSpec, SerialSuccess

-----------------------------------------------------------------------------
(* The settings.                                                             *)

Field == UNION Kinds
Saved == UNION {[p -> Value] : p \in Path}
Asked_ == Field \X Value
Held == {<<>>} \cup [Key -> Value]
Stage == {"unsupported", "ask", "http", "https", "back up", "replace", "reload"}
Order ==
  [todo : Seq(Asked_), steps : Seq(Stage), backups : Seq(Saved), torn : SUBSET Key, found : Held, before : Held,
   fields : Seq(Asked_), answer : {"none", "running", "ok", "refused", "killed"}]

\* The command: what is left of it is the end of what it was asked.
CommandInv ==
  /\ stored \in [Key -> Value] /\ shown \in [Shown -> Value] /\ doubt \in BOOLEAN
  /\ set \in Order
  /\ set.answer # "none" => set.found \in [Key -> Value]
  /\ set.answer = "running" =>
       /\ set.before \in [Key -> Value]
       /\ \E kind \in Kinds : set.fields \in Seq(kind \X Value)
       /\ Len(set.todo) \in 1 .. Len(set.fields)
       /\ \A i \in 1 .. Len(set.todo) :
            set.todo[i] = set.fields[Len(set.fields) - Len(set.todo) + i]

\* A key that the command is about to write, or has written, is in a backup; put
\* back, the backups give what was found at every step.
UndoInv ==
  /\ set.answer # "none" =>
       \A k \in Key \ {"http", "https"} : Undoes(set.backups, stored, k, set.found[k])
  /\ StepIs("replace") \/ StepIs("reload") =>
       \A k \in KeysOf(Pick) : \E i \in DOMAIN set.backups : k \in DOMAIN set.backups[i]

\* What may be left of a route.
AskThenWrite == <<"ask", "back up", "replace">>
WriteThenLoad == <<"back up", "replace", "reload">>
SchemesThenWrite == <<"http", "https", "back up", "replace">>
SchemeThenWrite == <<"https", "back up", "replace">>
WriteBoth == <<"back up", "replace">>
PutThenLoad == <<"replace", "reload">>
Never == <<"unsupported">>
AskOnly == <<"ask">>
PutOnly == <<"replace">>
LoadOnly == <<"reload">>
Through == <<>>

\* How far the field at work is, and what its steps have done already.
Came(field, wanted, steps) ==
  /\ field = "wallpaper" => steps = Never
  /\ field = "volume" =>
       \/ steps = AskOnly
       \/ steps = Through /\ shown["volume"] = wanted
  /\ field = "scale" =>
       \/ steps = AskThenWrite
       \/ /\ shown["scale"] = wanted
          /\ \/ steps = WriteBoth \/ steps = PutOnly
             \/ steps = Through /\ stored["scale"] = wanted
  /\ field = "layout" =>
       \/ /\ steps = WriteThenLoad \/ steps = PutThenLoad
          /\ stored["layout"] = set.before["layout"]
       \/ /\ steps = LoadOnly /\ stored["layout"] = wanted
          /\ ~doubt => shown["layout"] = set.before["layout"]
       \/ steps = Through /\ stored["layout"] = wanted
  /\ field = "browser" =>
       \/ steps = SchemesThenWrite
       \/ /\ stored["http"] = wanted
          /\ \/ steps = SchemeThenWrite \/ steps = WriteBoth
             \/ steps = PutOnly \/ steps = Through
  /\ field = "mail" =>
       \/ steps = WriteBoth \/ steps = PutOnly
       \/ steps = Through /\ stored["mailto"] = wanted

\* A field that is done is reported as it was asked until another one of its name
\* is at work.
Holds(f) ==
  f[1] # "wallpaper" /\
    \A answers \in BOOLEAN : (f[1] = "layout" => ~doubt) => Reported(f[1], answers)[2] = f[2]
Told(n) ==
  \A i \in 1 .. n :
    /\ set.fields[i][1] # "wallpaper"
    /\ (\A j \in i + 1 .. n : set.fields[j][1] # set.fields[i][1]) /\
       (n < Len(set.fields) => set.fields[n + 1][1] # set.fields[i][1]) => Holds(set.fields[i])
Past == Len(set.fields) - Len(set.todo)

ReportInv ==
  /\ ~doubt /\ ~StepIs("reload") => shown["layout"] = stored["layout"]
  /\ set.answer = "running" => Came(Pick, Wanted, set.steps) /\ Told(Past)
  /\ set.answer = "ok" => Told(Len(set.fields))

SettingsInv == CommandInv /\ UndoInv /\ ReportInv
LEMMA Tails ==
  /\ \A a : <<a>> # <<>> /\ Head(<<a>>) = a /\ Tail(<<a>>) = <<>>
  /\ \A a, b : <<a, b>> # <<>> /\ Head(<<a, b>>) = a /\ Tail(<<a, b>>) = <<b>>
  /\ \A a, b, c : <<a, b, c>> # <<>> /\ Head(<<a, b, c>>) = a /\ Tail(<<a, b, c>>) = <<b, c>>
  /\ \A a, b, c, d : <<a, b, c, d>> # <<>> /\ Head(<<a, b, c, d>>) = a /\ Tail(<<a, b, c, d>>) = <<b, c, d>>
<1>1. \A a : <<a>> # <<>> /\ Head(<<a>>) = a /\ Tail(<<a>>) = <<>>
  OBVIOUS
<1>2. \A a, b : <<a, b>> # <<>> /\ Head(<<a, b>>) = a /\ Tail(<<a, b>>) = <<b>>
  OBVIOUS
<1>3. \A a, b, c : <<a, b, c>> # <<>> /\ Head(<<a, b, c>>) = a /\ Tail(<<a, b, c>>) = <<b, c>>
  OBVIOUS
<1>4. \A a, b, c, d : <<a, b, c, d>> # <<>> /\ Head(<<a, b, c, d>>) = a /\ Tail(<<a, b, c, d>>) = <<b, c, d>>
  OBVIOUS
<1>. QED
  BY <1>1, <1>2, <1>3, <1>4

LEMMA RoutesEnd ==
  /\ Never # Through /\ Head(Never) = "unsupported" /\ Tail(Never) = Through
  /\ AskOnly # Through /\ Head(AskOnly) = "ask" /\ Tail(AskOnly) = Through
  /\ AskThenWrite # Through /\ Head(AskThenWrite) = "ask" /\ Tail(AskThenWrite) = WriteBoth
  /\ WriteBoth # Through /\ Head(WriteBoth) = "back up" /\ Tail(WriteBoth) = PutOnly
  /\ PutOnly # Through /\ Head(PutOnly) = "replace" /\ Tail(PutOnly) = Through
  /\ WriteThenLoad # Through /\ Head(WriteThenLoad) = "back up" /\ Tail(WriteThenLoad) = PutThenLoad
  /\ PutThenLoad # Through /\ Head(PutThenLoad) = "replace" /\ Tail(PutThenLoad) = LoadOnly
  /\ LoadOnly # Through /\ Head(LoadOnly) = "reload" /\ Tail(LoadOnly) = Through
  /\ SchemesThenWrite # Through /\ Head(SchemesThenWrite) = "http" /\ Tail(SchemesThenWrite) = SchemeThenWrite
  /\ SchemeThenWrite # Through /\ Head(SchemeThenWrite) = "https" /\ Tail(SchemeThenWrite) = WriteBoth
<1>1. Never # Through /\ Head(Never) = "unsupported" /\ Tail(Never) = Through
  BY Tails, Zenon DEF Through, Never
<1>2. AskOnly # Through /\ Head(AskOnly) = "ask" /\ Tail(AskOnly) = Through
  BY Tails, Zenon DEF Through, AskOnly
<1>3. AskThenWrite # Through /\ Head(AskThenWrite) = "ask" /\ Tail(AskThenWrite) = WriteBoth
  <2>. DEFINE a == "ask"
              b == "back up"
              c == "replace"
  <2>1. AskThenWrite = <<a, b, c>> /\ WriteBoth = <<b, c>>
    BY DEF AskThenWrite, WriteBoth
  <2>. HIDE DEF a, b, c
  <2>2. AskThenWrite # Through /\ Head(AskThenWrite) = a /\ Tail(AskThenWrite) = WriteBoth
    BY <2>1, Tails DEF Through
  <2>. QED
    BY <2>2 DEF a
<1>4. WriteBoth # Through /\ Head(WriteBoth) = "back up" /\ Tail(WriteBoth) = PutOnly
  BY Tails, Zenon DEF Through, WriteBoth, PutOnly
<1>5. PutOnly # Through /\ Head(PutOnly) = "replace" /\ Tail(PutOnly) = Through
  BY Tails, Zenon DEF Through, PutOnly
<1>6. WriteThenLoad # Through /\ Head(WriteThenLoad) = "back up" /\ Tail(WriteThenLoad) = PutThenLoad
  <2>. DEFINE a == "back up"
              b == "replace"
              c == "reload"
  <2>1. WriteThenLoad = <<a, b, c>> /\ PutThenLoad = <<b, c>>
    BY DEF WriteThenLoad, PutThenLoad
  <2>. HIDE DEF a, b, c
  <2>2. WriteThenLoad # Through /\ Head(WriteThenLoad) = a /\ Tail(WriteThenLoad) = PutThenLoad
    BY <2>1, Tails DEF Through
  <2>. QED
    BY <2>2 DEF a
<1>7. PutThenLoad # Through /\ Head(PutThenLoad) = "replace" /\ Tail(PutThenLoad) = LoadOnly
  BY Tails, Zenon DEF Through, PutThenLoad, LoadOnly
<1>8. LoadOnly # Through /\ Head(LoadOnly) = "reload" /\ Tail(LoadOnly) = Through
  BY Tails, Zenon DEF Through, LoadOnly
<1>9. SchemesThenWrite # Through /\ Head(SchemesThenWrite) = "http" /\ Tail(SchemesThenWrite) = SchemeThenWrite
  <2>. DEFINE a == "http"
              b == "https"
              c == "back up"
              d == "replace"
  <2>1. SchemesThenWrite = <<a, b, c, d>> /\ SchemeThenWrite = <<b, c, d>>
    BY DEF SchemesThenWrite, SchemeThenWrite
  <2>. HIDE DEF a, b, c, d
  <2>2. SchemesThenWrite # Through /\ Head(SchemesThenWrite) = a /\ Tail(SchemesThenWrite) = SchemeThenWrite
    BY <2>1, Tails DEF Through
  <2>. QED
    BY <2>2 DEF a
<1>10. SchemeThenWrite # Through /\ Head(SchemeThenWrite) = "https" /\ Tail(SchemeThenWrite) = WriteBoth
  <2>. DEFINE a == "https"
              b == "back up"
              c == "replace"
  <2>1. SchemeThenWrite = <<a, b, c>> /\ WriteBoth = <<b, c>>
    BY DEF SchemeThenWrite, WriteBoth
  <2>. HIDE DEF a, b, c
  <2>2. SchemeThenWrite # Through /\ Head(SchemeThenWrite) = a /\ Tail(SchemeThenWrite) = WriteBoth
    BY <2>1, Tails DEF Through
  <2>. QED
    BY <2>2 DEF a
<1>. QED
  BY <1>1, <1>2, <1>3, <1>4, <1>5, <1>6, <1>7, <1>8, <1>9, <1>10

LEMMA Kinds_ ==
  /\ \A kind \in Kinds : kind \subseteq Field
  /\ \A f \in Field : f \in {"scale", "volume", "layout", "browser", "mail", "wallpaper"}
BY DEF Kinds, Field

LEMMA KeysAre ==
  /\ KeysOf("scale") = {"scale"} /\ KeysOf("layout") = {"layout"}
  /\ KeysOf("browser") = {"http", "https"} /\ KeysOf("mail") = {"mailto"}
  /\ KeysOf("volume") = {} /\ KeysOf("wallpaper") = {}
BY DEF KeysOf, Key

LEMMA PathsAre ==
  /\ PathOf("scale") = {"scale"} /\ PathOf("layout") = {"layout"}
  /\ \A k \in {"http", "https", "mailto"} : PathOf(k) = {"http", "https", "mailto"}
<1>1. PathOf("scale") = {"scale"}
  BY DEF PathOf, Path
<1>2. PathOf("layout") = {"layout"}
  BY DEF PathOf, Path
<1>3. \A k \in {"http", "https", "mailto"} : PathOf(k) = {"http", "https", "mailto"}
  BY DEF PathOf, Path
<1>. QED
  BY <1>1, <1>2, <1>3

LEMMA RoutesAre ==
  /\ Route("wallpaper") = Never /\ Route("volume") = AskOnly
  /\ Route("scale") = AskThenWrite
  /\ Route("layout") = WriteThenLoad
  /\ Route("browser") = SchemesThenWrite
  /\ Route("mail") = WriteBoth
BY DEF Route, AskThenWrite, WriteThenLoad, SchemesThenWrite, SchemeThenWrite, WriteBoth, PutThenLoad, Never, AskOnly, PutOnly, LoadOnly
LEMMA ReportsAre ==
  \A answers \in BOOLEAN :
    /\ Reported("scale", answers)[2] = IF answers THEN shown["scale"] ELSE stored["scale"]
    /\ Reported("layout", answers)[2] = IF answers THEN shown["layout"] ELSE stored["layout"]
    /\ Reported("browser", answers)[2] = stored["http"]
    /\ Reported("mail", answers)[2] = stored["mailto"]
    /\ Reported("volume", answers)[2] = shown["volume"]
<1>1. \A form, value : <<form, value>>[2] = value
  OBVIOUS
<1> QED
  BY <1>1 DEF Reported

\* The field at work.
LEMMA FieldNow ==
  ASSUME CommandInv, Busy
  PROVE  /\ set.todo \in Seq(Asked_) /\ set.todo # <<>> /\ Len(set.todo) \in Nat \ {0}
         /\ Pick \in Field /\ Wanted \in Value /\ Past \in Nat /\ Past + 1 \in 1 .. Len(set.fields)
         /\ set.fields[Past + 1] = Head(set.todo) /\ Head(set.todo) = set.todo[1]
<1>1. /\ set.todo \in Seq(Asked_) /\ set.fields \in Seq(Asked_)
      /\ Len(set.todo) \in 1 .. Len(set.fields)
      /\ \A i \in 1 .. Len(set.todo) :
            set.todo[i] = set.fields[Len(set.fields) - Len(set.todo) + i]
  BY DEF CommandInv, Busy, Order
<1>. DEFINE todo == set.todo
            fields == set.fields
<1>2. /\ todo \in Seq(Asked_) /\ fields \in Seq(Asked_) /\ Len(todo) \in 1 .. Len(fields)
      /\ \A i \in 1 .. Len(todo) : todo[i] = fields[Len(fields) - Len(todo) + i]
  BY <1>1
<1>3. /\ todo # <<>> /\ Len(todo) \in Nat \ {0} /\ Head(todo) = todo[1] /\ todo[1] \in Asked_
      /\ Len(fields) - Len(todo) \in Nat
      /\ Len(fields) - Len(todo) + 1 \in 1 .. Len(fields)
      /\ fields[Len(fields) - Len(todo) + 1] = todo[1]
  <2>. HIDE DEF todo, fields
  <2>1. Len(todo) \in Nat /\ Len(fields) \in Nat /\ 1 \in 1 .. Len(todo)
    BY <1>2
  <2>. QED
    BY <1>2, <2>1
<1>4. Pick \in Field /\ Wanted \in Value
  BY <1>3 DEF Pick, Wanted, Asked_
<1>. QED
  BY <1>2, <1>3, <1>4 DEF Past

\* What a stage says of the field at work and of what is left of it.
Says(steps, rest) ==
  /\ StepIs("unsupported") => steps = Never
  /\ StepIs("ask") =>
       \/ Pick = "volume" /\ rest = Through
       \/ Pick = "scale" /\ rest = WriteBoth
  /\ StepIs("http") => Pick = "browser" /\ rest = SchemeThenWrite
  /\ StepIs("https") => /\ Pick = "browser" /\ rest = WriteBoth
                       /\ stored["http"] = Wanted
  /\ StepIs("back up") =>
       \/ /\ Pick = "scale" /\ rest = PutOnly
          /\ shown["scale"] = Wanted
       \/ /\ Pick = "layout" /\ rest = PutThenLoad
          /\ stored["layout"] = set.before["layout"]
       \/ Pick = "browser" /\ rest = PutOnly /\ stored["http"] = Wanted
       \/ Pick = "mail" /\ rest = PutOnly
  /\ StepIs("replace") =>
       \/ Pick = "scale" /\ rest = Through /\ shown["scale"] = Wanted
       \/ /\ Pick = "layout" /\ rest = LoadOnly
          /\ stored["layout"] = set.before["layout"]
       \/ Pick = "browser" /\ rest = Through /\ stored["http"] = Wanted
       \/ Pick = "mail" /\ rest = Through
  /\ StepIs("reload") =>
       /\ Pick = "layout" /\ rest = Through /\ stored["layout"] = Wanted
       /\ ~doubt => shown["layout"] = set.before["layout"]

LEMMA StepsNow ==
  ASSUME CommandInv, Busy, Came(Pick, Wanted, set.steps)
  PROVE  Says(set.steps, Tail(set.steps))
<1>1. Pick \in {"scale", "volume", "layout", "browser", "mail", "wallpaper"}
  BY FieldNow, Kinds_
<1>. DEFINE h == Head(set.steps)
            tl == Tail(set.steps)
            s == set.steps
<1>2. /\ StepIs("unsupported") => s # Through /\ h = "unsupported"
      /\ StepIs("ask") => s # Through /\ h = "ask"
      /\ StepIs("http") => s # Through /\ h = "http"
      /\ StepIs("https") => s # Through /\ h = "https"
      /\ StepIs("back up") => s # Through /\ h = "back up"
      /\ StepIs("replace") => s # Through /\ h = "replace"
      /\ StepIs("reload") => s # Through /\ h = "reload"
  BY DEF StepIs, Through
<1>3. CASE Pick = "wallpaper"
  <2>1. \/ s = Through
        \/ s = Never
    BY <1>3 DEF Came
  <2>2. \/ s = Through
        \/ h = "unsupported" /\ tl = Through /\ s = Never
    BY <2>1, RoutesEnd, Zenon
  <2>. HIDE DEF h, tl, s
  <2>3. Says(s, tl)
    BY <1>2, <1>3, <2>2 DEF Says
  <2>. QED
    BY <2>3 DEF tl, s
<1>4. CASE Pick = "volume"
  <2>1. \/ s = Through
        \/ s = AskOnly
    BY <1>4 DEF Came
  <2>2. \/ s = Through
        \/ h = "ask" /\ tl = Through
    BY <2>1, RoutesEnd, Zenon
  <2>. HIDE DEF h, tl, s
  <2>3. Says(s, tl)
    BY <1>2, <1>4, <2>2 DEF Says
  <2>. QED
    BY <2>3 DEF tl, s
<1>5. CASE Pick = "scale"
  <2>1. \/ s = Through
        \/ s = AskThenWrite
        \/ s = WriteBoth /\ shown["scale"] = Wanted
        \/ s = PutOnly /\ shown["scale"] = Wanted
    BY <1>5 DEF Came
  <2>2. \/ s = Through
        \/ h = "ask" /\ tl = WriteBoth
        \/ h = "back up" /\ tl = PutOnly /\ shown["scale"] = Wanted
        \/ h = "replace" /\ tl = Through /\ shown["scale"] = Wanted
    BY <2>1, RoutesEnd, Zenon
  <2>. HIDE DEF h, tl, s
  <2>3. Says(s, tl)
    BY <1>2, <1>5, <2>2 DEF Says
  <2>. QED
    BY <2>3 DEF tl, s
<1>6. CASE Pick = "layout"
  <2>1. \/ s = Through
        \/ s = WriteThenLoad /\ stored["layout"] = set.before["layout"]
        \/ s = PutThenLoad /\ stored["layout"] = set.before["layout"]
        \/ s = LoadOnly /\ stored["layout"] = Wanted /\ (~doubt => shown["layout"] = set.before["layout"])
    BY <1>6 DEF Came
  <2>2. \/ s = Through
        \/ h = "back up" /\ tl = PutThenLoad /\ stored["layout"] = set.before["layout"]
        \/ h = "replace" /\ tl = LoadOnly /\ stored["layout"] = set.before["layout"]
        \/ h = "reload" /\ tl = Through /\ stored["layout"] = Wanted /\ (~doubt => shown["layout"] = set.before["layout"])
    BY <2>1, RoutesEnd, Zenon
  <2>. HIDE DEF h, tl, s
  <2>3. Says(s, tl)
    BY <1>2, <1>6, <2>2 DEF Says
  <2>. QED
    BY <2>3 DEF tl, s
<1>7. CASE Pick = "browser"
  <2>1. \/ s = Through
        \/ s = SchemesThenWrite
        \/ s = SchemeThenWrite /\ stored["http"] = Wanted
        \/ s = WriteBoth /\ stored["http"] = Wanted
        \/ s = PutOnly /\ stored["http"] = Wanted
    BY <1>7 DEF Came
  <2>2. \/ s = Through
        \/ h = "http" /\ tl = SchemeThenWrite
        \/ h = "https" /\ tl = WriteBoth /\ stored["http"] = Wanted
        \/ h = "back up" /\ tl = PutOnly /\ stored["http"] = Wanted
        \/ h = "replace" /\ tl = Through /\ stored["http"] = Wanted
    BY <2>1, RoutesEnd, Zenon
  <2>. HIDE DEF h, tl, s
  <2>3. Says(s, tl)
    BY <1>2, <1>7, <2>2 DEF Says
  <2>. QED
    BY <2>3 DEF tl, s
<1>8. CASE Pick = "mail"
  <2>1. \/ s = Through
        \/ s = WriteBoth
        \/ s = PutOnly
    BY <1>8 DEF Came
  <2>2. \/ s = Through
        \/ h = "back up" /\ tl = PutOnly
        \/ h = "replace" /\ tl = Through
    BY <2>1, RoutesEnd, Zenon
  <2>. HIDE DEF h, tl, s
  <2>3. Says(s, tl)
    BY <1>2, <1>8, <2>2 DEF Says
  <2>. QED
    BY <2>3 DEF tl, s
<1>. QED
  BY <1>1, <1>3, <1>4, <1>5, <1>6, <1>7, <1>8

\* A command that goes on, or that is refused.
LEMMA Advances ==
  ASSUME CommandInv, Busy, set.steps # Through, set' = Advance
  PROVE  /\ set' \in Order /\ set'.steps = Tail(set.steps) /\ set'.answer = "running"
         /\ set'.todo = set.todo /\ set'.fields = set.fields /\ set'.before = set.before
         /\ set'.found = set.found /\ set'.backups = set.backups
<1>1. set \in Order
  BY DEF CommandInv
<1>2. Tail(set.steps) \in Seq(Stage)
  <2>. DEFINE s == set.steps
  <2>1. s \in Seq(Stage) /\ s # <<>>
    BY <1>1 DEF Order, Through
  <2>. HIDE DEF s
  <2>2. Tail(s) \in Seq(Stage)
    BY <2>1
  <2>. QED
    BY <2>2 DEF s
<1>3. set' = [set EXCEPT !.steps = Tail(set.steps)]
  BY DEF Advance
<1>. QED
  BY <1>1, <1>2, <1>3 DEF Order, Busy

\* With the backup that was cut off, if one was.
RefusedNow == set' = Refused \/ \E cut \in SUBSET Key : set' = [Refused EXCEPT !.torn = cut]

LEMMA Refuses ==
  ASSUME CommandInv, RefusedNow
  PROVE  /\ set' \in Order /\ set'.answer = "refused" /\ set'.steps = Through
         /\ set'.found = set.found /\ set'.backups = set.backups
<1>1. set \in Order
  BY DEF CommandInv
<1>2. Refused = [set EXCEPT !.steps = Through, !.todo = Through, !.answer = "refused"]
  BY DEF Refused, Through
<1>3. Through \in Seq(Stage) /\ Through \in Seq(Asked_)
  BY DEF Through
<1>4. /\ Refused \in Order /\ Refused.answer = "refused" /\ Refused.steps = Through
      /\ Refused.found = set.found /\ Refused.backups = set.backups
  BY <1>1, <1>2, <1>3 DEF Order
<1>5. CASE set' = Refused
  BY <1>4, <1>5
<1>6. ASSUME NEW cut \in SUBSET Key, set' = [Refused EXCEPT !.torn = cut]
      PROVE  /\ set' \in Order /\ set'.answer = "refused" /\ set'.steps = Through
             /\ set'.found = set.found /\ set'.backups = set.backups
  BY <1>4, <1>6 DEF Order
<1>. QED
  BY <1>5, <1>6 DEF RefusedNow
LEMMA EarlierFields ==
  ASSUME CommandInv, Busy
  PROVE  /\ \A i \in 1 .. Past : set.fields[i][1] \in Field
         /\ Pick = "layout" => \A i \in 1 .. Past : set.fields[i][1] = "layout"
<1>1. PICK kind \in Kinds : set.fields \in Seq(kind \X Value)
  BY DEF CommandInv, Busy
<1>. DEFINE fields == set.fields
            n == Past
<1>2. /\ n \in Nat /\ n + 1 \in 1 .. Len(fields) /\ fields[n + 1][1] = Pick
      /\ fields \in Seq(kind \X Value)
  BY <1>1, FieldNow DEF Pick
<1>. HIDE DEF fields, n
<1>3. \A i \in 1 .. n + 1 : fields[i] \in kind \X Value
  BY <1>2
<1>4. Pick \in kind /\ \A i \in 1 .. n : fields[i][1] \in kind
  BY <1>2, <1>3
<1>5. kind \subseteq Field /\ ("layout" \in kind => kind = {"layout"})
  BY Kinds_ DEF Kinds
<1>. QED
  BY <1>4, <1>5 DEF fields, n

\* A step with which the command goes on.
LEMMA GoesOn ==
  ASSUME CommandInv, Busy, set' \in Order, set'.answer = "running",
         set'.todo = set.todo, set'.fields = set.fields, set'.before = set.before,
         set'.found = set.found, stored' \in [Key -> Value], shown' \in [Shown -> Value],
         doubt' \in BOOLEAN
  PROVE  CommandInv' /\ Pick' = Pick /\ Wanted' = Wanted /\ Past' = Past
BY DEF CommandInv, Busy, Pick, Wanted, Past

\* A step with which it ends.
LEMMA Stops ==
  ASSUME CommandInv, Busy, set' \in Order, set'.answer \in {"ok", "refused", "killed"},
         set'.found = set.found, stored' \in [Key -> Value], shown' \in [Shown -> Value],
         doubt' \in BOOLEAN
  PROVE  CommandInv' /\ ~Busy' /\ \A st : ~StepIs(st)'
BY DEF CommandInv, Busy, StepIs

LEMMA UndoStays ==
  ASSUME UndoInv, set.answer # "none",
         set'.found = set.found, set'.backups = set.backups,
         \A k \in Key \ {"http", "https"} :
           stored'[k] = stored[k] \/ \E i \in DOMAIN set.backups : k \in DOMAIN set.backups[i]
  PROVE  \A k \in Key \ {"http", "https"} : Undoes(set'.backups, stored', k, set'.found[k])
<1>. SUFFICES ASSUME NEW k \in Key \ {"http", "https"}
     PROVE  Undoes(set.backups, stored', k, set.found[k])
  OBVIOUS
<1>1. Undoes(set.backups, stored, k, set.found[k])
  BY DEF UndoInv
<1>. QED
  BY <1>1 DEF Undoes

LEMMA UndoMore ==
  ASSUME UndoInv, set \in Order, set.answer # "none", stored' = stored,
         NEW b, set'.found = set.found, set'.backups = Append(set.backups, b),
         \A k \in DOMAIN b : b[k] = stored[k]
  PROVE  /\ \A k \in Key \ {"http", "https"} : Undoes(set'.backups, stored', k, set'.found[k])
         /\ \A k \in DOMAIN b : \E i \in DOMAIN set'.backups : k \in DOMAIN set'.backups[i]
<1>. DEFINE bs == set.backups
            cs == set'.backups
            n == Len(bs) + 1
<1>1. /\ n \in DOMAIN cs /\ n \notin DOMAIN bs /\ cs[n] = b /\ 1 .. n - 1 = DOMAIN bs
      /\ DOMAIN cs = DOMAIN bs \cup {n} /\ \A i \in DOMAIN bs : cs[i] = bs[i]
      /\ \A i \in DOMAIN bs : 1 .. i - 1 \subseteq DOMAIN bs
  <2>1. bs \in Seq(Saved) /\ cs = Append(bs, b)
    BY DEF Order
  <2>. HIDE DEF bs, cs
  <2>. QED
    BY <2>1
<1>. HIDE DEF bs, cs, n
<1>2. ASSUME NEW k \in Key \ {"http", "https"}
      PROVE  Undoes(cs, stored, k, set.found[k])
  <2>1. Undoes(bs, stored, k, set.found[k])
    BY DEF UndoInv, bs
  <2>2. CASE stored[k] = set.found[k] /\ \A i \in DOMAIN bs : k \notin DOMAIN bs[i]
    <3>1. CASE k \in DOMAIN b
      <4>1. k \in DOMAIN cs[n] /\ cs[n][k] = set.found[k]
        BY <1>1, <2>2, <3>1
      <4>2. \A j \in 1 .. n - 1 : k \notin DOMAIN cs[j]
        BY <1>1, <2>2
      <4>. QED
        BY <1>1, <4>1, <4>2 DEF Undoes
    <3>2. CASE k \notin DOMAIN b
      BY <1>1, <2>2, <3>2 DEF Undoes
    <3>. QED
      BY <3>1, <3>2
  <2>3. CASE \E i \in DOMAIN bs : /\ k \in DOMAIN bs[i] /\ bs[i][k] = set.found[k]
                                  /\ \A j \in 1 .. i - 1 : k \notin DOMAIN bs[j]
    <3>1. PICK i \in DOMAIN bs : /\ k \in DOMAIN bs[i] /\ bs[i][k] = set.found[k]
                                 /\ \A j \in 1 .. i - 1 : k \notin DOMAIN bs[j]
      BY <2>3
    <3>2. \A j \in 1 .. i - 1 : k \notin DOMAIN cs[j]
      BY <1>1, <3>1
    <3>. QED
      BY <1>1, <3>1, <3>2 DEF Undoes
  <2>. QED
    BY <2>1, <2>2, <2>3 DEF Undoes
<1>3. \A k \in DOMAIN b : \E i \in DOMAIN cs : k \in DOMAIN cs[i]
  BY <1>1
<1>. QED
  BY <1>2, <1>3 DEF cs

\* What a step that leaves the values of a field alone leaves of its report.
Untouched(f) ==
  /\ doubt' = doubt
  /\ f \in {"scale", "layout"} => stored'[f] = stored[f] /\ shown'[f] = shown[f]
  /\ f = "volume" => shown'[f] = shown[f]
  /\ f = "browser" => stored'["http"] = stored["http"]
  /\ f = "mail" => stored'["mailto"] = stored["mailto"]

LEMMA HoldsSame ==
  ASSUME NEW f, f[1] \in Field, Untouched(f[1])
  PROVE  Holds(f)' <=> Holds(f)
<1>1. \A answers \in BOOLEAN : f[1] # "wallpaper" =>
        Reported(f[1], answers)'[2] = Reported(f[1], answers)[2]
  <2>1. f[1] \in {"scale", "volume", "layout", "browser", "mail", "wallpaper"}
    BY Kinds_
  <2>. QED
    BY <2>1 DEF Reported, Untouched
<1>. QED
  BY <1>1 DEF Holds, Untouched

LEMMA DoneStays ==
  ASSUME CommandInv, Busy, Told(Past), set'.fields = set.fields, set'.todo = set.todo,
         \A i \in 1 .. Past : set.fields[i][1] # Pick => Untouched(set.fields[i][1])
  PROVE  Told(Past)'
<1>1. /\ Past' = Past /\ Past \in Nat /\ Past + 1 \in 1 .. Len(set.fields)
      /\ set.fields[Past + 1][1] = Pick
  BY FieldNow DEF Past, Pick
<1>. DEFINE n == Past
            fields == set.fields
<1>2. /\ n \in Nat /\ n < Len(fields) /\ fields[n + 1][1] = Pick
  <2>1. Len(fields) \in Nat
    BY DEF CommandInv, Order
  <2>. HIDE DEF n, fields
  <2>2. n \in Nat /\ n + 1 \in 1 .. Len(fields) /\ fields[n + 1][1] = Pick
    BY <1>1 DEF n, fields
  <2>. QED
    BY <2>1, <2>2
<1>3. \A i \in 1 .. n : fields[i][1] \in Field
  <2>1. fields \in Seq(Asked_)
    BY DEF CommandInv, Order
  <2>. HIDE DEF n, fields
  <2>2. \A i \in 1 .. n : fields[i] \in Asked_
    BY <1>2, <2>1
  <2>. QED
    BY <2>2 DEF Asked_
<1>4. \A i \in 1 .. n : fields[i][1] # Pick => (Holds(fields[i])' <=> Holds(fields[i]))
  <2>1. \A i \in 1 .. n : fields[i][1] # Pick => Untouched(fields[i][1])
    OBVIOUS
  <2>. QED
    BY <1>3, <2>1, HoldsSame
<1>5. \A i \in 1 .. n :
        /\ fields[i][1] # "wallpaper"
        /\ (\A j \in i + 1 .. n : fields[j][1] # fields[i][1]) /\ Pick # fields[i][1] =>
             Holds(fields[i])
  BY <1>2 DEF Told
<1>6. \A i \in 1 .. n :
        /\ fields[i][1] # "wallpaper"
        /\ (\A j \in i + 1 .. n : fields[j][1] # fields[i][1]) /\ Pick # fields[i][1] =>
             Holds(fields[i])'
  BY <1>4, <1>5
<1>. QED
  BY <1>1, <1>2, <1>6 DEF Told
\* What a step has to see to when the command goes on, and when it is refused.
LEMMA AdvancesWell ==
  ASSUME SettingsInv, Busy, set.steps # Through, set' = Advance,
         stored' \in [Key -> Value], shown' \in [Shown -> Value], doubt' \in BOOLEAN,
         \A k \in Key \ {"http", "https"} :
           stored'[k] = stored[k] \/ \E i \in DOMAIN set.backups : k \in DOMAIN set.backups[i],
         StepIs("replace")' \/ StepIs("reload")' =>
           \A k \in KeysOf(Pick) : \E i \in DOMAIN set.backups : k \in DOMAIN set.backups[i],
         \A i \in 1 .. Past : set.fields[i][1] # Pick => Untouched(set.fields[i][1]),
         Came(Pick, Wanted, set.steps)',
         ~doubt' /\ ~StepIs("reload")' => shown'["layout"] = stored'["layout"]
  PROVE  SettingsInv'
<1>1. /\ CommandInv /\ UndoInv /\ ReportInv
      /\ set.steps # <<>> /\ set.answer = "running"
  BY DEF SettingsInv, Through, Busy
<1>2. /\ set' \in Order /\ set'.steps = Tail(set.steps) /\ set'.answer = "running"
      /\ set'.todo = set.todo /\ set'.fields = set.fields /\ set'.before = set.before
      /\ set'.found = set.found /\ set'.backups = set.backups
  BY <1>1, Advances
<1>3. CommandInv' /\ Pick' = Pick
  BY <1>1, <1>2, GoesOn
<1>4. UndoInv'
  <2>1. \A k \in Key \ {"http", "https"} : Undoes(set'.backups, stored', k, set'.found[k])
    BY <1>1, <1>2, UndoStays
  <2>2. KeysOf(Pick)' = KeysOf(Pick)
    BY <1>3 DEF KeysOf, Key
  <2>. QED
    BY <1>2, <2>1, <2>2 DEF UndoInv
<1>5. Told(Past)
  BY <1>1 DEF ReportInv
<1>6. Told(Past)'
  BY <1>1, <1>2, <1>5, DoneStays
<1>7. ReportInv'
  BY <1>2, <1>6 DEF ReportInv
<1>. QED
  BY <1>3, <1>4, <1>7 DEF SettingsInv

LEMMA RefusedAnyhow ==
  ASSUME SettingsInv, Busy, RefusedNow,
         stored' \in [Key -> Value], shown' \in [Shown -> Value], doubt' \in BOOLEAN,
         \A k \in Key \ {"http", "https"} :
           stored'[k] = stored[k] \/ \E i \in DOMAIN set.backups : k \in DOMAIN set.backups[i],
         ~doubt' => shown'["layout"] = stored'["layout"]
  PROVE  SettingsInv'
<1>1. /\ CommandInv /\ UndoInv /\ set.answer = "running"
  BY DEF SettingsInv, Busy
<1>2. /\ set' \in Order /\ set'.answer = "refused" /\ set'.steps = Through
      /\ set'.found = set.found /\ set'.backups = set.backups
  BY <1>1, Refuses
<1>3. CommandInv' /\ ~Busy' /\ \A st : ~StepIs(st)'
  BY <1>1, <1>2, Stops
<1>4. \A k \in Key \ {"http", "https"} : Undoes(set'.backups, stored', k, set'.found[k])
  BY <1>1, <1>2, UndoStays
<1>5. UndoInv'
  BY <1>2, <1>3, <1>4 DEF UndoInv
<1>6. ReportInv'
  BY <1>2, <1>3 DEF ReportInv, Busy
<1>. QED
  BY <1>3, <1>5, <1>6 DEF SettingsInv

LEMMA RefusedWell ==
  ASSUME SettingsInv, Busy, set' = Refused,
         stored' \in [Key -> Value], shown' \in [Shown -> Value], doubt' \in BOOLEAN,
         \A k \in Key \ {"http", "https"} :
           stored'[k] = stored[k] \/ \E i \in DOMAIN set.backups : k \in DOMAIN set.backups[i],
         ~doubt' => shown'["layout"] = stored'["layout"]
  PROVE  SettingsInv'
BY RefusedAnyhow DEF RefusedNow

\* The facts of a step, from its stage.
LEMMA AtStage ==
  ASSUME SettingsInv, NEW st, StepIs(st)
  PROVE  /\ Busy /\ set.steps # Through /\ CommandInv /\ UndoInv /\ ReportInv
         /\ Head(set.steps) = st /\ Says(set.steps, Tail(set.steps))
         /\ Pick \in Field /\ Wanted \in Value
         /\ stored \in [Key -> Value] /\ shown \in [Shown -> Value] /\ doubt \in BOOLEAN
<1>1. Busy /\ set.steps # Through /\ CommandInv /\ UndoInv /\ ReportInv /\ Head(set.steps) = st
  BY DEF SettingsInv, StepIs, Through
<1>2. Came(Pick, Wanted, set.steps)
  BY <1>1 DEF ReportInv, Busy
<1>. QED
  BY <1>1, <1>2, StepsNow, FieldNow DEF CommandInv

\* What comes next is the head of what is left.
LEMMA NextStage ==
  ASSUME set'.steps = Tail(set.steps)
  PROVE  /\ Tail(set.steps) \in {Through, WriteBoth, SchemeThenWrite} =>
              ~StepIs("replace")' /\ ~StepIs("reload")'
         /\ Tail(set.steps) \in {PutOnly, PutThenLoad} => ~StepIs("reload")'
<1>. DEFINE s == set'.steps
<1>1. \A st : StepIs(st)' => s # Through /\ Head(s) = st
  BY DEF StepIs, Through
<1>2. s = Tail(set.steps)
  OBVIOUS
<1>. HIDE DEF s
<1>. QED
  BY <1>1, <1>2, RoutesEnd

LEMMA SettingsAsk ==
  ASSUME SettingsInv, AskTool
  PROVE  SettingsInv'
<1>1. /\ StepIs("ask") /\ UNCHANGED <<stored, doubt>>
      /\ \/ shown' = [shown EXCEPT ![Pick] = Wanted] /\ set' = Advance
         \/ set' = Refused /\ shown' \in {shown, [shown EXCEPT ![Pick] = Wanted]}
  BY DEF AskTool
<1>2. /\ Busy /\ set.steps # Through /\ CommandInv /\ UndoInv /\ ReportInv
      /\ Head(set.steps) = "ask" /\ Says(set.steps, Tail(set.steps))
      /\ Wanted \in Value
      /\ stored \in [Key -> Value] /\ shown \in [Shown -> Value] /\ doubt \in BOOLEAN
  BY <1>1, AtStage
<1>3. \/ Pick = "volume" /\ Tail(set.steps) = Through
      \/ Pick = "scale" /\ Tail(set.steps) = WriteBoth
  BY <1>1, <1>2 DEF Says
<1>4. /\ shown' \in [Shown -> Value] /\ shown'["layout"] = shown["layout"]
      /\ \A f \in Field \ {Pick} : Untouched(f)
  BY <1>1, <1>2, <1>3, Kinds_ DEF Untouched, Shown
<1>5. ~doubt => shown["layout"] = stored["layout"]
  <2>1. ~StepIs("reload")
    BY <1>2 DEF StepIs
  <2>. QED
    BY <1>2, <2>1 DEF ReportInv
<1>6. CASE shown' = [shown EXCEPT ![Pick] = Wanted] /\ set' = Advance
  <2>1. /\ set'.steps = Tail(set.steps) /\ Pick' = Pick /\ Wanted' = Wanted
    BY <1>1, <1>2, <1>4, <1>6, Advances, GoesOn DEF Through
  <2>2. ~StepIs("replace")' /\ ~StepIs("reload")'
    BY <1>3, <2>1, NextStage
  <2>3. shown'[Pick] = Wanted
    BY <1>2, <1>3, <1>6 DEF Shown
  <2>4. Came(Pick, Wanted, set.steps)'
    BY <1>3, <2>1, <2>3 DEF Came
  <2>5. \A i \in 1 .. Past : set.fields[i][1] # Pick => Untouched(set.fields[i][1])
    BY <1>2, <1>4, EarlierFields
  <2>. QED
    BY <1>1, <1>2, <1>4, <1>5, <1>6, <2>2, <2>4, <2>5, AdvancesWell
<1>7. CASE set' = Refused
  BY <1>1, <1>2, <1>4, <1>5, <1>7, RefusedWell
<1>. QED
  BY <1>1, <1>6, <1>7
LEMMA SettingsUnsupported ==
  ASSUME SettingsInv, Unsupported
  PROVE  SettingsInv'
<1>1. StepIs("unsupported") /\ set' = Refused /\ UNCHANGED <<stored, shown, doubt>>
  BY DEF Unsupported
<1>2. /\ Busy /\ CommandInv /\ ReportInv /\ Head(set.steps) = "unsupported"
      /\ stored \in [Key -> Value] /\ shown \in [Shown -> Value] /\ doubt \in BOOLEAN
  BY <1>1, AtStage
<1>3. ~doubt => shown["layout"] = stored["layout"]
  <2>1. ~StepIs("reload")
    BY <1>2 DEF StepIs
  <2>. QED
    BY <1>2, <2>1 DEF ReportInv
<1>. QED
  BY <1>1, <1>2, <1>3, RefusedWell

LEMMA SettingsScheme ==
  ASSUME SettingsInv, NEW key \in {"http", "https"}, Scheme(key)
  PROVE  SettingsInv'
<1>1. /\ StepIs(key) /\ UNCHANGED <<shown, doubt>>
      /\ \/ stored' = [stored EXCEPT ![key] = Wanted] /\ set' = Advance
         \/ set' = Refused /\ stored' \in {stored, [stored EXCEPT ![key] = Wanted]}
  BY DEF Scheme
<1>2. /\ Busy /\ set.steps # Through /\ CommandInv /\ UndoInv /\ ReportInv
      /\ Head(set.steps) = key /\ Says(set.steps, Tail(set.steps))
      /\ Wanted \in Value
      /\ stored \in [Key -> Value] /\ shown \in [Shown -> Value] /\ doubt \in BOOLEAN
  BY <1>1, AtStage
<1>3. /\ Pick = "browser"
      /\ key = "http" => Tail(set.steps) = SchemeThenWrite
      /\ key = "https" => Tail(set.steps) = WriteBoth /\ stored["http"] = Wanted
  BY <1>1, <1>2 DEF Says
<1>4. /\ stored' \in [Key -> Value] /\ \A k \in Key \ {"http", "https"} : stored'[k] = stored[k]
      /\ stored'["layout"] = stored["layout"]
      /\ \A f \in Field \ {Pick} : Untouched(f)
  <2>1. /\ stored' \in [Key -> Value]
        /\ \A k \in Key \ {"http", "https"} : stored'[k] = stored[k]
    BY <1>1, <1>2 DEF Key
  <2>. QED
    BY <1>1, <1>3, <2>1 DEF Untouched, Key
<1>5. ~doubt => shown["layout"] = stored["layout"]
  <2>1. ~StepIs("reload")
    BY <1>2 DEF StepIs
  <2>. QED
    BY <1>2, <2>1 DEF ReportInv
<1>6. CASE stored' = [stored EXCEPT ![key] = Wanted] /\ set' = Advance
  <2>1. /\ set'.steps = Tail(set.steps) /\ Pick' = Pick /\ Wanted' = Wanted
    BY <1>1, <1>2, <1>4, <1>6, Advances, GoesOn DEF Through
  <2>2. ~StepIs("replace")' /\ ~StepIs("reload")'
    BY <1>3, <2>1, NextStage
  <2>3. stored'["http"] = Wanted
    BY <1>2, <1>3, <1>6 DEF Key
  <2>4. Came(Pick, Wanted, set.steps)'
    BY <1>3, <2>1, <2>3 DEF Came
  <2>5. \A i \in 1 .. Past : set.fields[i][1] # Pick => Untouched(set.fields[i][1])
    BY <1>2, <1>4, EarlierFields
  <2>. QED
    BY <1>1, <1>2, <1>4, <1>5, <1>6, <2>2, <2>4, <2>5, AdvancesWell
<1>7. CASE set' = Refused
  BY <1>1, <1>2, <1>4, <1>5, <1>7, RefusedWell
<1>. QED
  BY <1>1, <1>6, <1>7

\* What the field at work writes, and where.
LEMMA KeysNow ==
  ASSUME Pick \in {"scale", "layout", "browser", "mail"}
  PROVE  /\ KeysOf(Pick) \subseteq Key /\ KeysOf(Pick) # {}
         /\ \A k \in KeysOf(Pick) : PathOf(k) \in Path /\ KeysOf(Pick) \subseteq PathOf(k)
         /\ \A p \in Path : p \subseteq Key
BY KeysAre, PathsAre DEF Key, Path

\* The file of the field at work is put in place.
LEMMA PutFacts ==
  ASSUME SettingsInv, StepIs("replace"), stored' = Put
  PROVE  /\ stored' \in [Key -> Value]
         /\ \A k \in Key : stored'[k] = IF k \in KeysOf(Pick) THEN Wanted ELSE stored[k]
         /\ \A k \in KeysOf(Pick) : \E i \in DOMAIN set.backups : k \in DOMAIN set.backups[i]
<1>1. Wanted \in Value /\ stored \in [Key -> Value] /\ UndoInv
  BY AtStage
<1> QED
  BY <1>1 DEF Put, UndoInv

LEMMA SettingsReplaced ==
  ASSUME SettingsInv, StepIs("replace"), stored' = Put, set' = Advance, UNCHANGED <<shown, doubt>>
  PROVE  SettingsInv'
<1>1. /\ StepIs("replace") /\ set' = Advance /\ UNCHANGED <<shown, doubt>>
  OBVIOUS
<1>2. /\ Busy /\ set.steps # Through /\ CommandInv /\ UndoInv /\ ReportInv
      /\ Head(set.steps) = "replace" /\ Says(set.steps, Tail(set.steps))
      /\ Wanted \in Value
      /\ stored \in [Key -> Value] /\ shown \in [Shown -> Value] /\ doubt \in BOOLEAN
  BY <1>1, AtStage
<1>3. \/ Pick = "scale" /\ Tail(set.steps) = Through /\ shown["scale"] = Wanted
      \/ /\ Pick = "layout" /\ Tail(set.steps) = LoadOnly
         /\ stored["layout"] = set.before["layout"]
      \/ Pick = "browser" /\ Tail(set.steps) = Through /\ stored["http"] = Wanted
      \/ Pick = "mail" /\ Tail(set.steps) = Through
  BY <1>1, <1>2 DEF Says
<1>4. /\ stored' \in [Key -> Value]
      /\ \A k \in Key : stored'[k] = IF k \in KeysOf(Pick) THEN Wanted ELSE stored[k]
  BY PutFacts
<1>5. \A k \in KeysOf(Pick) : \E i \in DOMAIN set.backups : k \in DOMAIN set.backups[i]
  BY PutFacts
<1>6. \A f \in Field \ {Pick} : Untouched(f)
  BY <1>1, <1>3, <1>4, KeysAre DEF Untouched, Key
<1>7. ~doubt => shown["layout"] = stored["layout"]
  <2>1. ~StepIs("reload")
    BY <1>2 DEF StepIs
  <2>. QED
    BY <1>2, <2>1 DEF ReportInv
<1>8. /\ set'.steps = Tail(set.steps) /\ Pick' = Pick /\ Wanted' = Wanted
      /\ set'.before = set.before
  BY <1>1, <1>2, <1>4, Advances, GoesOn DEF Through
<1>9. \A i \in 1 .. Past : set.fields[i][1] # Pick => Untouched(set.fields[i][1])
  BY <1>2, <1>6, EarlierFields
<1>10. Came(Pick, Wanted, set.steps)'
  BY <1>1, <1>3, <1>4, <1>7, <1>8, KeysAre DEF Came, Key
<1>11. ~doubt' /\ ~StepIs("reload")' => shown'["layout"] = stored'["layout"]
  <2>1. CASE Pick = "layout"
    <3>1. StepIs("reload")'
      <4>1. set'.steps = LoadOnly /\ set'.answer = "running"
        BY <1>1, <1>2, <1>3, <1>8, <2>1, Advances DEF Through
      <4>. QED
        BY <4>1, RoutesEnd DEF StepIs, Busy, Through
    <3>. QED
      BY <3>1
  <2>2. CASE Pick # "layout"
    <3>1. stored'["layout"] = stored["layout"]
      BY <1>3, <1>4, <2>2, KeysAre DEF Key
    <3>. QED
      BY <1>1, <1>7, <3>1
  <2>. QED
    BY <2>1, <2>2
<1>. QED
  BY <1>1, <1>2, <1>4, <1>5, <1>9, <1>10, <1>11, AdvancesWell

LEMMA SettingsReplace ==
  ASSUME SettingsInv, Replace
  PROVE  SettingsInv'
<1>1. StepIs("replace") /\ UNCHANGED shown
  BY DEF Replace
<1>2. /\ Busy /\ ReportInv /\ Says(set.steps, Tail(set.steps)) /\ Head(set.steps) = "replace"
      /\ stored \in [Key -> Value] /\ shown \in [Shown -> Value] /\ doubt \in BOOLEAN
  BY <1>1, AtStage
<1>3. ~doubt => shown["layout"] = stored["layout"]
  <2>1. ~StepIs("reload")
    BY <1>2 DEF StepIs
  <2>. QED
    BY <1>2, <2>1 DEF ReportInv
<1>4. CASE stored' = Put /\ set' = Advance /\ UNCHANGED doubt
  BY <1>1, <1>4, SettingsReplaced
<1>5. CASE set' = Refused /\ UNCHANGED <<stored, doubt>>
  BY <1>1, <1>2, <1>3, <1>5, RefusedWell
<1>6. CASE stored' = Put /\ set' = Refused /\ doubt' = (doubt \/ Pick = "layout")
  <2>1. /\ stored' \in [Key -> Value]
        /\ \A k \in Key : stored'[k] = IF k \in KeysOf(Pick) THEN Wanted ELSE stored[k]
        /\ \A k \in KeysOf(Pick) : \E i \in DOMAIN set.backups : k \in DOMAIN set.backups[i]
    BY <1>1, <1>6, PutFacts
  <2>2. doubt' \in BOOLEAN
    BY <1>6
  <2>3. \/ Pick = "scale" \/ Pick = "layout" \/ Pick = "browser" \/ Pick = "mail"
    BY <1>1, <1>2 DEF Says
  <2>4. ~doubt' => stored'["layout"] = stored["layout"]
    BY <1>6, <2>1, <2>3, KeysAre DEF Key
  <2>5. ~doubt' => shown'["layout"] = stored'["layout"]
    BY <1>1, <1>3, <1>6, <2>4
  <2>6. shown' \in [Shown -> Value]
    BY <1>1, <1>2
  <2>. QED
    BY <1>2, <1>6, <2>1, <2>2, <2>5, <2>6, RefusedWell
<1>. QED
  BY <1>4, <1>5, <1>6, Zenon DEF Replace

LEMMA SettingsReload ==
  ASSUME SettingsInv, Reload
  PROVE  SettingsInv'
<1>1. /\ StepIs("reload")
      /\ \/ shown' = Reloaded /\ set' = Advance /\ doubt' = FALSE /\ UNCHANGED stored
         \/ stored' = RolledBack /\ set' = Refused /\ UNCHANGED <<shown, doubt>>
         \/ /\ stored' \in {stored, RolledBack} /\ shown' \in {shown, Reloaded}
            /\ set' = Refused /\ doubt' = TRUE
  BY DEF Reload
<1>2. /\ Busy /\ set.steps # Through /\ CommandInv /\ UndoInv /\ ReportInv
      /\ Head(set.steps) = "reload" /\ Says(set.steps, Tail(set.steps))
      /\ Wanted \in Value
      /\ stored \in [Key -> Value] /\ shown \in [Shown -> Value] /\ doubt \in BOOLEAN
  BY <1>1, AtStage
<1>3. /\ Pick = "layout" /\ Tail(set.steps) = Through /\ stored["layout"] = Wanted
      /\ ~doubt => shown["layout"] = set.before["layout"]
  BY <1>1, <1>2 DEF Says
<1>4. \E i \in DOMAIN set.backups : "layout" \in DOMAIN set.backups[i]
  BY <1>1, <1>2, <1>3, KeysAre DEF UndoInv
<1>5. Reloaded \in [Shown -> Value] /\ Reloaded["layout"] = stored["layout"]
  BY <1>2 DEF Reloaded, Shown, Key
<1>6. /\ RolledBack \in [Key -> Value] /\ RolledBack["layout"] = set.before["layout"]
      /\ \A k \in Key \ {"layout"} : RolledBack[k] = stored[k]
  <2>1. set.before \in [Key -> Value]
    BY <1>2 DEF CommandInv, Busy
  <2>. QED
    BY <1>2, <2>1 DEF RolledBack, Key
<1>7. CASE shown' = Reloaded /\ set' = Advance /\ doubt' = FALSE /\ UNCHANGED stored
  <2>1. /\ set'.steps = Tail(set.steps) /\ Pick' = Pick /\ Wanted' = Wanted
    BY <1>2, <1>5, <1>7, Advances, GoesOn DEF Through
  <2>2. ~StepIs("replace")' /\ ~StepIs("reload")'
    BY <1>3, <2>1, NextStage
  <2>3. Came(Pick, Wanted, set.steps)'
    BY <1>3, <1>7, <2>1 DEF Came
  <2>4. \A i \in 1 .. Past : set.fields[i][1] # Pick => Untouched(set.fields[i][1])
    BY <1>2, <1>3, EarlierFields
  <2>. QED
    BY <1>2, <1>5, <1>7, <2>2, <2>3, <2>4, AdvancesWell
<1>8. CASE stored' = RolledBack /\ set' = Refused /\ UNCHANGED <<shown, doubt>>
  BY <1>2, <1>3, <1>4, <1>6, <1>8, RefusedWell
<1>9. CASE /\ stored' \in {stored, RolledBack} /\ shown' \in {shown, Reloaded}
           /\ set' = Refused /\ doubt' = TRUE
  BY <1>2, <1>4, <1>5, <1>6, <1>9, RefusedWell
<1>. QED
  BY <1>1, <1>7, <1>8, <1>9
LEMMA SettingsBackUp ==
  ASSUME SettingsInv, BackUp
  PROVE  SettingsInv'
<1>. DEFINE path == PathNow
            b == [k \in path |-> stored[k]]
<1>1. /\ StepIs("back up") /\ UNCHANGED <<stored, shown, doubt>>
      /\ \/ Same /\ set' = [set EXCEPT !.steps = Through]
         \/ set' = [Advance EXCEPT !.backups = Append(@, b)]
         \/ set' = [Refused EXCEPT !.torn = {}] \/ set' = [Refused EXCEPT !.torn = path]
  BY DEF BackUp, Copied, Through
<1>2. /\ Busy /\ set.steps # Through /\ CommandInv /\ UndoInv /\ ReportInv
      /\ Head(set.steps) = "back up" /\ Says(set.steps, Tail(set.steps))
      /\ Pick \in Field /\ Wanted \in Value
      /\ stored \in [Key -> Value] /\ shown \in [Shown -> Value] /\ doubt \in BOOLEAN
  BY <1>1, AtStage
<1>3. \/ Pick = "scale" /\ Tail(set.steps) = PutOnly /\ shown["scale"] = Wanted
      \/ /\ Pick = "layout" /\ Tail(set.steps) = PutThenLoad
         /\ stored["layout"] = set.before["layout"]
      \/ Pick = "browser" /\ Tail(set.steps) = PutOnly /\ stored["http"] = Wanted
      \/ Pick = "mail" /\ Tail(set.steps) = PutOnly
  BY <1>1, <1>2 DEF Says
<1>4. path \in Path /\ KeysOf(Pick) \subseteq path /\ path \subseteq Key
  <2>. DEFINE k == CHOOSE x \in KeysOf(Pick) : TRUE
  <2>1. k \in KeysOf(Pick)
    BY <1>3, KeysNow
  <2>. QED
    BY <1>3, <2>1, KeysNow DEF PathNow
<1>. HIDE DEF path
<1>5. b \in Saved /\ DOMAIN b = path /\ \A k \in path : b[k] = stored[k]
  <2>1. b \in [path -> Value] /\ DOMAIN b = path /\ \A k \in path : b[k] = stored[k]
    BY <1>2, <1>4
  <2>. HIDE DEF b
  <2>2. b \in UNION {[p -> Value] : p \in Path}
    BY <1>4, <2>1
  <2>. QED
    BY <2>1, <2>2 DEF Saved
<1>. HIDE DEF b
<1>6. ~doubt => shown["layout"] = stored["layout"]
  <2>1. ~StepIs("reload")
    BY <1>2 DEF StepIs
  <2>. QED
    BY <1>2, <2>1 DEF ReportInv
<1>7. set \in Order /\ set.answer = "running"
  BY <1>2 DEF CommandInv, Busy
<1>8. \A i \in 1 .. Past : set.fields[i][1] # Pick => Untouched(set.fields[i][1])
  BY <1>1 DEF Untouched
<1>9. CASE Same /\ set' = [set EXCEPT !.steps = Through]
  <2>1. /\ set' \in Order /\ set'.steps = Through /\ set'.answer = "running"
        /\ set'.todo = set.todo /\ set'.fields = set.fields /\ set'.before = set.before
        /\ set'.found = set.found /\ set'.backups = set.backups
    <3>1. Through \in Seq(Stage)
      BY DEF Through
    <3>. QED
      BY <1>7, <1>9, <3>1 DEF Order
  <2>2. CommandInv' /\ Pick' = Pick /\ Wanted' = Wanted
    BY <1>1, <1>2, <2>1, GoesOn
  <2>3. \A st : ~StepIs(st)'
    BY <2>1 DEF StepIs, Through
  <2>4. \A k \in Key \ {"http", "https"} : Undoes(set'.backups, stored', k, set'.found[k])
    BY <1>1, <1>2, <1>7, <2>1, UndoStays
  <2>5. UndoInv'
    BY <2>3, <2>4 DEF UndoInv
  <2>6. \A k \in KeysOf(Pick) : stored[k] = Wanted
    BY <1>9 DEF Same
  <2>7. Came(Pick, Wanted, set.steps)'
    BY <1>1, <1>3, <2>1, <2>2, <2>6, KeysAre DEF Came
  <2>8. Told(Past)'
    BY <1>2, <1>7, <1>8, <2>1, DoneStays DEF ReportInv
  <2>9. ReportInv'
    BY <1>1, <1>6, <2>1, <2>7, <2>8 DEF ReportInv
  <2>. QED
    BY <2>2, <2>5, <2>9 DEF SettingsInv
<1>10. CASE set' = [Advance EXCEPT !.backups = Append(@, b)]
  <2>1. /\ set' \in Order /\ set'.steps = Tail(set.steps) /\ set'.answer = "running"
        /\ set'.todo = set.todo /\ set'.fields = set.fields /\ set'.before = set.before
        /\ set'.found = set.found /\ set'.backups = Append(set.backups, b)
    <3>. DEFINE s == Tail(set.steps)
                bs == Append(set.backups, b)
    <3>1. s \in Seq(Stage)
      <4>1. set.steps \in Seq(Stage) /\ set.steps # <<>>
        BY <1>2, <1>7 DEF Order, Through
      <4>. QED
        BY <4>1
    <3>2. bs \in Seq(Saved)
      <4>1. set.backups \in Seq(Saved)
        BY <1>7 DEF Order
      <4>. QED
        BY <1>5, <4>1
    <3>3. set' = [set EXCEPT !.steps = s, !.backups = bs]
      BY <1>7, <1>10 DEF Advance, Order
    <3>. HIDE DEF s, bs
    <3>. QED
      BY <1>7, <3>1, <3>2, <3>3 DEF Order, s, bs
  <2>2. CommandInv' /\ Pick' = Pick /\ Wanted' = Wanted
    BY <1>1, <1>2, <2>1, GoesOn
  <2>3. ~StepIs("reload")'
    BY <1>3, <2>1, NextStage
  <2>4. /\ \A k \in Key \ {"http", "https"} : Undoes(set'.backups, stored', k, set'.found[k])
        /\ \A k \in DOMAIN b : \E i \in DOMAIN set'.backups : k \in DOMAIN set'.backups[i]
    BY <1>1, <1>2, <1>5, <1>7, <2>1, UndoMore
  <2>5. \A k \in KeysOf(Pick)' : \E i \in DOMAIN set'.backups : k \in DOMAIN set'.backups[i]
    <3>1. KeysOf(Pick)' = KeysOf(Pick)
      BY <2>2 DEF KeysOf, Key
    <3>. QED
      BY <1>4, <1>5, <2>4, <3>1
  <2>6. UndoInv'
    BY <2>4, <2>5 DEF UndoInv
  <2>7. Came(Pick, Wanted, set.steps)'
    BY <1>1, <1>3, <2>1, <2>2 DEF Came
  <2>8. Told(Past)'
    BY <1>2, <1>7, <1>8, <2>1, DoneStays DEF ReportInv
  <2>9. ReportInv'
    BY <1>1, <1>6, <2>1, <2>7, <2>8 DEF ReportInv
  <2>. QED
    BY <2>2, <2>6, <2>9 DEF SettingsInv
<1>11. CASE set' = [Refused EXCEPT !.torn = {}] \/ set' = [Refused EXCEPT !.torn = path]
  <2>1. RefusedNow
    BY <1>4, <1>11 DEF RefusedNow
  <2>. QED
    BY <1>1, <1>2, <1>6, <2>1, RefusedAnyhow
<1>. QED
  BY <1>1, <1>9, <1>10, <1>11

-----------------------------------------------------------------------------
LEMMA StagesInOrder ==
  /\ \A a \in Stage : <<a>> \in Seq(Stage)
  /\ \A a, b \in Stage : <<a, b>> \in Seq(Stage)
  /\ \A a, b, c \in Stage : <<a, b, c>> \in Seq(Stage)
  /\ \A a, b, c, d \in Stage : <<a, b, c, d>> \in Seq(Stage)
OBVIOUS

LEMMA RouteType ==
  \A f \in Field : /\ Route(f) \in Seq(Stage)
                   /\ Route(f) # <<>> => Head(Route(f)) \notin {"replace", "reload"}
<1>. SUFFICES ASSUME NEW f \in Field
     PROVE  Route(f) \in Seq(Stage) /\ Head(Route(f)) \notin {"replace", "reload"}
  OBVIOUS
<1>1. f \in {"scale", "volume", "layout", "browser", "mail", "wallpaper"}
  BY Kinds_
<1>2. Route(f) \in {Never, AskOnly, AskThenWrite, WriteThenLoad, SchemesThenWrite, WriteBoth}
  BY <1>1, RoutesAre
<1>3. \A r \in {Never, AskOnly, AskThenWrite, WriteThenLoad, SchemesThenWrite, WriteBoth} :
        r \in Seq(Stage)
  <2>1. /\ "unsupported" \in Stage /\ "ask" \in Stage /\ "http" \in Stage
        /\ "https" \in Stage /\ "back up" \in Stage /\ "replace" \in Stage
        /\ "reload" \in Stage
    BY DEF Stage
  <2>2. Never \in Seq(Stage)
    BY <2>1, StagesInOrder, Zenon DEF Never
  <2>3. AskOnly \in Seq(Stage)
    BY <2>1, StagesInOrder, Zenon DEF AskOnly
  <2>4. AskThenWrite \in Seq(Stage)
    BY <2>1, StagesInOrder, Zenon DEF AskThenWrite
  <2>5. WriteThenLoad \in Seq(Stage)
    BY <2>1, StagesInOrder, Zenon DEF WriteThenLoad
  <2>6. SchemesThenWrite \in Seq(Stage)
    BY <2>1, StagesInOrder, Zenon DEF SchemesThenWrite
  <2>7. WriteBoth \in Seq(Stage)
    BY <2>1, StagesInOrder, Zenon DEF WriteBoth
  <2>. QED
    BY <2>2, <2>3, <2>4, <2>5, <2>6, <2>7
<1>4. \A r \in {Never, AskOnly, AskThenWrite, WriteThenLoad, SchemesThenWrite, WriteBoth} :
        Head(r) \notin {"replace", "reload"}
  BY RoutesEnd
<1>. QED
  BY <1>2, <1>3, <1>4

LEMMA CameStarts ==
  ASSUME Pick' \in Field, set'.steps = Route(Pick'), stored'["layout"] = set'.before["layout"]
  PROVE  Came(Pick, Wanted, set.steps)'
<1>. DEFINE f == Pick'
<1>1. f \in {"scale", "volume", "layout", "browser", "mail", "wallpaper"}
  BY Kinds_
<1>2. /\ f = "wallpaper" => set'.steps = Never
      /\ f = "volume" => set'.steps = AskOnly
      /\ f = "scale" => set'.steps = AskThenWrite
      /\ f = "layout" => set'.steps = WriteThenLoad
      /\ f = "browser" => set'.steps = SchemesThenWrite
      /\ f = "mail" => set'.steps = WriteBoth
  BY RoutesAre
<1>. QED
  BY <1>2 DEF Came

\* A field that is through is reported as it was asked.
LEMMA CameHolds ==
  ASSUME SettingsInv, Busy, set.steps = Through
  PROVE  Pick # "wallpaper" /\ Holds(Head(set.todo))
<1>1. /\ Came(Pick, Wanted, Through) /\ Pick \in {"scale", "volume", "layout", "browser", "mail", "wallpaper"}
      /\ Pick = Head(set.todo)[1] /\ Wanted = Head(set.todo)[2]
  BY FieldNow, Kinds_ DEF SettingsInv, ReportInv, Busy, Pick, Wanted
<1>2. ~doubt => shown["layout"] = stored["layout"]
  BY DEF SettingsInv, ReportInv, StepIs, Through
<1>3. Pick # "wallpaper"
  BY <1>1, RoutesEnd DEF Came
<1>4. /\ Pick = "volume" => shown["volume"] = Wanted
      /\ Pick = "scale" => shown["scale"] = Wanted /\ stored["scale"] = Wanted
      /\ Pick = "layout" => stored["layout"] = Wanted
      /\ Pick = "browser" => stored["http"] = Wanted
      /\ Pick = "mail" => stored["mailto"] = Wanted
  BY <1>1, RoutesEnd, Zenon DEF Came
<1>5. \A answers \in BOOLEAN : (Pick = "layout" => ~doubt) => Reported(Pick, answers)[2] = Wanted
  BY <1>1, <1>2, <1>3, <1>4, ReportsAre
<1>. QED
  BY <1>1, <1>3, <1>5 DEF Holds

LEMMA DoneMore ==
  ASSUME SettingsInv, Busy, set.steps = Through
  PROVE  Told(Past + 1)
<1>1. CommandInv /\ Told(Past)
  BY DEF SettingsInv, ReportInv, Busy
<1>. DEFINE n == Past
            fields == set.fields
<1>2. /\ n \in Nat /\ n + 1 \in 1 .. Len(fields) /\ fields[n + 1] = Head(set.todo)
      /\ Len(fields) \in Nat
  <2>1. Len(fields) \in Nat
    <3>1. fields \in Seq(Asked_)
      BY <1>1 DEF CommandInv, Order
    <3>. HIDE DEF fields
    <3>. QED
      BY <3>1
  <2>. QED
    BY <1>1, <2>1, FieldNow
<1>3. fields[n + 1][1] # "wallpaper" /\ Holds(fields[n + 1])
  BY <1>2, CameHolds DEF Pick
<1>4. \A i \in 1 .. n :
        /\ fields[i][1] # "wallpaper"
        /\ (\A j \in i + 1 .. n : fields[j][1] # fields[i][1]) /\ fields[n + 1][1] # fields[i][1] =>
             Holds(fields[i])
  BY <1>1, <1>2 DEF Told
<1>. HIDE DEF n
<1>5. \A i \in 1 .. n + 1 : i = n + 1 \/ (i \in 1 .. n /\ n + 1 \in i + 1 .. n + 1
                                           /\ i + 1 .. n \subseteq i + 1 .. n + 1)
  BY <1>2
<1>6. \A i \in 1 .. n + 1 :
        /\ fields[i][1] # "wallpaper"
        /\ (\A j \in i + 1 .. n + 1 : fields[j][1] # fields[i][1]) => Holds(fields[i])
  BY <1>3, <1>4, <1>5
<1>7. Told(n + 1)
  BY <1>6 DEF Told
<1>. QED
  BY <1>7 DEF n
\* Nothing that is reported changes where the files and the session stay.
LEMMA HoldsStays ==
  ASSUME UNCHANGED <<stored, shown, doubt>>
  PROVE  \A f : Holds(f)' <=> Holds(f)
BY Zenon DEF Holds, Reported

\* The answer of a command that is through.
LEMMA SettingsAnswered ==
  ASSUME SettingsInv, Busy, set.steps = Through, UNCHANGED <<stored, shown, doubt>>, Len(set.todo) = 1,
         set' = [set EXCEPT !.todo = Through, !.answer = "ok"]
  PROVE  SettingsInv'
<1>1. /\ CommandInv /\ UndoInv /\ ReportInv /\ set \in Order /\ set.answer = "running"
      /\ stored \in [Key -> Value] /\ shown \in [Shown -> Value] /\ doubt \in BOOLEAN
  BY DEF SettingsInv, CommandInv, Busy
<1>2. ~doubt => shown["layout"] = stored["layout"]
  BY <1>1 DEF ReportInv, StepIs, Through
<1>3. Told(Past + 1)
  BY <1>1, DoneMore
<1>4. Len(set.todo) = 1
  OBVIOUS
<1>11. set' = [set EXCEPT !.todo = Through, !.answer = "ok"]
  OBVIOUS
<1>12. /\ set' \in Order /\ set'.answer = "ok" /\ set'.fields = set.fields
      /\ set'.found = set.found /\ set'.backups = set.backups
  <2>1. Through \in Seq(Asked_)
    BY DEF Through
  <2>. QED
    BY <1>1, <1>11, <2>1 DEF Order
<1>13. CommandInv' /\ ~Busy' /\ \A st : ~StepIs(st)'
  BY <1>1, <1>12, Stops
<1>14. \A k \in Key \ {"http", "https"} : Undoes(set'.backups, stored', k, set'.found[k])
  BY <1>1, <1>12, UndoStays
<1>15. UndoInv'
  BY <1>13, <1>14 DEF UndoInv
<1>16. Told(Len(set.fields))
  <2>1. Past + 1 = Len(set.fields)
    <3>1. Len(set.fields) \in Nat
      <4>1. set.fields \in Seq(Asked_)
        BY <1>1 DEF Order
      <4>. QED
        BY <4>1
    <3>. QED
      BY <1>4, <3>1 DEF Past
  <2>. QED
    BY <1>3, <2>1
<1>17. Told(Len(set.fields))'
  BY <1>1, <1>12, <1>16, HoldsStays DEF Told
<1>18. ReportInv'
  BY <1>1, <1>2, <1>12, <1>13, <1>17 DEF ReportInv
<1>. QED
  BY <1>13, <1>15, <1>18 DEF SettingsInv

LEMMA SettingsNextField ==
  ASSUME SettingsInv, NextField
  PROVE  SettingsInv'
<1>1. /\ Busy /\ set.steps = Through /\ UNCHANGED <<stored, shown, doubt>>
      /\ CommandInv /\ UndoInv /\ ReportInv /\ set \in Order /\ set.answer = "running"
      /\ stored \in [Key -> Value] /\ shown \in [Shown -> Value] /\ doubt \in BOOLEAN
  BY DEF NextField, Through, SettingsInv, CommandInv, Busy
<1>2. ~doubt => shown["layout"] = stored["layout"]
  BY <1>1 DEF ReportInv, StepIs, Through
<1>3. Told(Past + 1)
  BY <1>1, DoneMore
<1>4. CASE Len(set.todo) = 1
  <2>1. CASE set' = Refused
    BY <1>1, <1>2, <2>1, RefusedWell
  <2>2. CASE set' = [set EXCEPT !.todo = Through, !.answer = "ok"]
    BY <1>1, <1>4, <2>2, SettingsAnswered
  <2>. QED
    BY <1>4, <2>1, <2>2 DEF NextField, Through
<1>5. CASE Len(set.todo) # 1
  <2>. DEFINE todo == set.todo
              fields == set.fields
              rest == Tail(todo)
              next == todo[2][1]
              r == Route(next)
  <2>0. /\ todo \in Seq(Asked_) /\ fields \in Seq(Asked_) /\ Len(todo) \in 1 .. Len(fields)
        /\ Len(todo) # 1
    BY <1>1, <1>5 DEF CommandInv, Order
  <2>1. \A i \in 1 .. Len(todo) : todo[i] = fields[Len(fields) - Len(todo) + i]
    BY <1>1 DEF CommandInv
  <2>2. set' = [set EXCEPT !.todo = rest, !.before = stored, !.steps = r]
    BY <1>5 DEF NextField
  <2>3. /\ rest \in Seq(Asked_) /\ Len(rest) = Len(todo) - 1 /\ Len(rest) \in 1 .. Len(fields)
        /\ Head(rest) = todo[2] /\ todo[2] \in Asked_
        /\ \A i \in 1 .. Len(rest) : rest[i] = fields[Len(fields) - Len(rest) + i]
        /\ Len(fields) - Len(rest) = Len(fields) - Len(todo) + 1
    <3>. HIDE DEF todo, fields
    <3>1. /\ Len(todo) \in Nat /\ Len(fields) \in Nat /\ Len(todo) >= 2
          /\ Len(todo) <= Len(fields)
      <4>1. Len(todo) \in Nat /\ Len(fields) \in Nat
        BY <2>0
      <4>. DEFINE n == Len(todo)
                  m == Len(fields)
      <4>2. n \in Nat /\ m \in Nat /\ n \in 1 .. m /\ n # 1
        BY <2>0, <4>1
      <4>. HIDE DEF n, m
      <4>3. n >= 2 /\ n <= m
        BY <4>2
      <4>. QED
        BY <4>1, <4>3 DEF n, m
    <3>2. /\ rest \in Seq(Asked_) /\ Len(rest) = Len(todo) - 1 /\ Len(rest) \in 1 .. Len(fields)
          /\ Head(rest) = todo[2] /\ todo[2] \in Asked_
          /\ \A i \in 1 .. Len(rest) : rest[i] = todo[i + 1]
          /\ Len(fields) - Len(rest) = Len(fields) - Len(todo) + 1
      <4>1. rest \in Seq(Asked_) /\ Len(rest) = Len(todo) - 1
        BY <2>0, <3>1
      <4>2. Head(rest) = todo[2] /\ todo[2] \in Asked_
        BY <2>0, <3>1
      <4>3. \A i \in 1 .. Len(rest) : rest[i] = todo[i + 1]
        BY <2>0, <3>1
      <4>. HIDE DEF rest
      <4>. QED
        BY <3>1, <4>1, <4>2, <4>3
    <3>. HIDE DEF rest
    <3>3. ASSUME NEW i \in 1 .. Len(rest) PROVE rest[i] = fields[Len(fields) - Len(rest) + i]
      <4>1. i + 1 \in 1 .. Len(todo) /\ Len(fields) - Len(todo) + (i + 1) = Len(fields) - Len(rest) + i
        BY <3>1, <3>2
      <4>2. todo[i + 1] = fields[Len(fields) - Len(todo) + (i + 1)]
        BY <2>1, <4>1
      <4>. QED
        BY <3>2, <4>1, <4>2
    <3>. QED
      BY <3>2, <3>3
  <2>4. next \in Field
    BY <2>3 DEF Asked_
  <2>5. r \in Seq(Stage) /\ (r # <<>> => Head(r) \notin {"replace", "reload"})
    BY <2>4, RouteType
  <2>. HIDE DEF rest, r
  <2>6. /\ set' \in Order /\ set'.todo = rest /\ set'.fields = set.fields
        /\ set'.before = stored /\ set'.steps = r /\ set'.answer = "running"
        /\ set'.found = set.found /\ set'.backups = set.backups
    BY <1>1, <2>2, <2>3, <2>5 DEF Order, Held
  <2>7. CommandInv'
    BY <1>1, <2>3, <2>6 DEF CommandInv
  <2>8. ~StepIs("replace")' /\ ~StepIs("reload")'
    BY <2>5, <2>6 DEF StepIs
  <2>9. \A k \in Key \ {"http", "https"} : Undoes(set'.backups, stored', k, set'.found[k])
    BY <1>1, <2>6, UndoStays
  <2>10. UndoInv'
    BY <2>8, <2>9 DEF UndoInv
  <2>11. Pick' = next
    BY <2>3, <2>6 DEF Pick
  <2>12. Came(Pick, Wanted, set.steps)'
    <3>1. stored'["layout"] = set'.before["layout"]
      BY <1>1, <2>6
    <3>2. Pick' \in Field /\ set'.steps = Route(Pick')
      BY <2>4, <2>6, <2>11 DEF r
    <3>. QED
      BY <3>1, <3>2, CameStarts
  <2>13. Past' = Past + 1
    BY <2>3, <2>6 DEF Past
  <2>14. Told(Past)'
    BY <1>1, <1>3, <2>6, <2>13, HoldsStays DEF Told
  <2>15. ReportInv'
    BY <1>1, <1>2, <2>6, <2>12, <2>14 DEF ReportInv
  <2>. QED
    BY <2>7, <2>10, <2>15 DEF SettingsInv
<1>. QED
  BY <1>4, <1>5

LEMMA AtBackUp ==
  ASSUME SettingsInv, StepIs("back up")
  PROVE  PathNow \in Path /\ PathNow \subseteq Key
<1>1. Says(set.steps, Tail(set.steps))
  BY AtStage
<1>2. Pick \in {"scale", "layout", "browser", "mail"}
  BY <1>1 DEF Says
<1>. DEFINE k == CHOOSE x \in KeysOf(Pick) : TRUE
<1>3. k \in KeysOf(Pick)
  BY <1>2, KeysNow
<1>. QED
  BY <1>2, <1>3, KeysNow DEF PathNow

LEMMA SettingsKilled ==
  ASSUME SettingsInv, Killed
  PROVE  SettingsInv'
<1>1. /\ Busy /\ UNCHANGED <<stored, shown>> /\ doubt' = (doubt \/ StepIs("reload"))
      /\ CommandInv /\ UndoInv /\ ReportInv /\ set \in Order /\ set.answer = "running"
      /\ stored \in [Key -> Value] /\ shown \in [Shown -> Value] /\ doubt \in BOOLEAN
  BY DEF Killed, Through, SettingsInv, CommandInv, Busy
<1>8. PICK cut \in SUBSET Key :
        set' = [set EXCEPT !.todo = Through, !.steps = Through, !.torn = cut, !.answer = "killed"]
  <2>1. StepIs("back up") => PathNow \subseteq Key
    BY AtBackUp
  <2>. QED
    BY <2>1 DEF Killed, Through
<1>2. doubt' \in BOOLEAN /\ (~doubt' => shown["layout"] = stored["layout"])
  BY <1>1 DEF ReportInv, StepIs
<1>3. /\ set' \in Order /\ set'.answer = "killed"
      /\ set'.found = set.found /\ set'.backups = set.backups
  <2>1. Through \in Seq(Asked_) /\ Through \in Seq(Stage)
    BY DEF Through
  <2>. QED
    BY <1>1, <1>8, <2>1 DEF Order
<1>4. CommandInv' /\ ~Busy' /\ \A st : ~StepIs(st)'
  BY <1>1, <1>2, <1>3, Stops
<1>5. \A k \in Key \ {"http", "https"} : Undoes(set'.backups, stored', k, set'.found[k])
  BY <1>1, <1>3, UndoStays
<1>6. UndoInv'
  BY <1>4, <1>5 DEF UndoInv
<1>7. ReportInv'
  BY <1>1, <1>2, <1>3, <1>4 DEF ReportInv
<1>. QED
  BY <1>4, <1>6, <1>7 DEF SettingsInv

LEMMA NoCommandType == NoCommand \in Order /\ NoCommand.answer = "none"
<1>1. Through \in Seq(Asked_) /\ Through \in Seq(Stage) /\ Through \in Seq(Saved) /\ Through \in Held
  BY DEF Through, Held
<1>2. NoCommand = [todo |-> Through, steps |-> Through, backups |-> Through, torn |-> {}, found |-> Through,
                   before |-> Through, fields |-> Through, answer |-> "none"]
  BY DEF NoCommand, Through
<1>. QED
  BY <1>1, <1>2 DEF Order

\* Between commands.
AtRest ==
  /\ stored \in [Key -> Value] /\ shown \in [Shown -> Value] /\ doubt \in BOOLEAN
  /\ set = NoCommand /\ (~doubt => shown["layout"] = stored["layout"])

LEMMA SettingsRest == AtRest => SettingsInv
<1>. SUFFICES ASSUME AtRest PROVE SettingsInv
  OBVIOUS
<1>. USE DEF AtRest
<1>1. set \in Order /\ set.answer = "none"
  BY NoCommandType
<1>2. \A st : ~StepIs(st)
  BY <1>1 DEF StepIs, Busy
<1>. QED
  BY <1>1, <1>2 DEF SettingsInv, CommandInv, UndoInv, ReportInv

LEMMA SettingsRests == AtRest' => SettingsInv'
BY SettingsRest, PTL

LEMMA SettingsLogin ==
  ASSUME SettingsInv, Login \/ \E k \in Key : \E v \in Value : Edit(k, v)
  PROVE  SettingsInv'
<1>1. /\ ~Busy /\ stored \in [Key -> Value] /\ shown \in [Shown -> Value] /\ doubt \in BOOLEAN
      /\ ~doubt => shown["layout"] = stored["layout"]
      /\ set' = NoCommand
  BY DEF SettingsInv, CommandInv, ReportInv, StepIs, Login, Edit
<1>2. CASE Login
  <2>1. stored' = stored /\ shown' = Reloaded /\ doubt' = FALSE
    BY <1>2 DEF Login
  <2>2. Reloaded \in [Shown -> Value] /\ Reloaded["layout"] = stored["layout"]
    BY <1>1 DEF Reloaded, Shown, Key
  <2>. QED
    BY <1>1, <2>1, <2>2, SettingsRests DEF AtRest
<1>3. ASSUME NEW k \in Key, NEW v \in Value, Edit(k, v) PROVE SettingsInv'
  <2>1. /\ stored' = [stored EXCEPT ![k] = v]
        /\ shown' = IF k \in Shown THEN [shown EXCEPT ![k] = v] ELSE shown
        /\ doubt' = (doubt /\ k # "layout")
    BY <1>3 DEF Edit
  <2>2. /\ stored' \in [Key -> Value] /\ shown' \in [Shown -> Value] /\ doubt' \in BOOLEAN
        /\ ~doubt' => shown'["layout"] = stored'["layout"]
    BY <1>1, <2>1 DEF Key, Shown
  <2>. QED
    BY <1>1, <2>2, SettingsRests DEF AtRest
<1>. QED
  BY <1>2, <1>3

LEMMA SettingsBegin ==
  ASSUME SettingsInv, NEW fields \in Lists, BeginSet(fields)
  PROVE  SettingsInv'
<1>1. /\ ~Busy /\ stored \in [Key -> Value] /\ shown \in [Shown -> Value] /\ doubt \in BOOLEAN
      /\ ~doubt => shown["layout"] = stored["layout"]
      /\ UNCHANGED <<stored, shown, doubt>>
  BY DEF SettingsInv, CommandInv, ReportInv, StepIs, BeginSet
<1>2. PICK kind \in Kinds, n \in 1 .. MaxFields : fields \in [1 .. n -> kind \X Value]
  BY DEF Lists
<1>3. n \in Nat \ {0}
  OBVIOUS
<1>4. fields \in Seq(kind \X Value) /\ Len(fields) = n
  BY <1>2, <1>3
<1>5. \A i \in 1 .. n : fields[i] \in Asked_
  BY <1>2, Kinds_ DEF Asked_
<1>6. fields \in Seq(Asked_) /\ Head(fields) = fields[1] /\ fields[1] \in Asked_
  BY <1>2, <1>3, <1>4, <1>5
<1>. DEFINE next == fields[1][1]
            r == Route(next)
<1>7. next \in Field
  BY <1>6 DEF Asked_
<1>8. r \in Seq(Stage) /\ (r # <<>> => Head(r) \notin {"replace", "reload"})
  BY <1>7, RouteType
<1>9. set' = [NoCommand EXCEPT !.todo = fields, !.fields = fields, !.found = stored,
                 !.before = stored, !.steps = r, !.answer = "running"]
  BY DEF BeginSet
<1>. HIDE DEF r
<1>10. /\ set' \in Order /\ set'.todo = fields /\ set'.fields = fields /\ set'.found = stored
       /\ set'.before = stored /\ set'.steps = r /\ set'.answer = "running"
       /\ set'.backups = <<>>
  <2>1. NoCommand.backups = <<>>
    BY DEF NoCommand
  <2>. QED
    BY <1>1, <1>6, <1>8, <1>9, <2>1, NoCommandType DEF Order, Held
<1>11. CommandInv'
  <2>1. /\ Len(fields) \in 1 .. Len(fields)
        /\ \A i \in 1 .. Len(fields) : Len(fields) - Len(fields) + i = i
    BY <1>3, <1>4
  <2>. QED
    BY <1>1, <1>4, <1>10, <2>1 DEF CommandInv
<1>12. ~StepIs("replace")' /\ ~StepIs("reload")'
  BY <1>8, <1>10 DEF StepIs
<1>13. UndoInv'
  <2>1. \A k \in Key : Undoes(set'.backups, stored', k, set'.found[k])
    BY <1>1, <1>10 DEF Undoes
  <2>. QED
    BY <1>12, <2>1 DEF UndoInv
<1>14. Pick' = next
  BY <1>6, <1>10 DEF Pick
<1>15. Came(Pick, Wanted, set.steps)'
  <2>1. stored'["layout"] = set'.before["layout"]
    BY <1>1, <1>10
  <2>2. Pick' \in Field /\ set'.steps = Route(Pick')
    BY <1>7, <1>10, <1>14 DEF r
  <2>. QED
    BY <2>1, <2>2, CameStarts
<1>16. Told(Past)'
  <2>1. Past' = 0
    BY <1>3, <1>4, <1>10 DEF Past
  <2>. QED
    BY <2>1 DEF Told
<1>17. ReportInv'
  BY <1>1, <1>10, <1>15, <1>16 DEF ReportInv
<1>. QED
  BY <1>11, <1>13, <1>17 DEF SettingsInv

LEMMA SettingsSafe == SettingsSpec => []SettingsInv
<1>1. SettingsInit => SettingsInv
  <2>. SUFFICES ASSUME SettingsInit PROVE SettingsInv
    OBVIOUS
  <2>1. PICK v \in Value : stored = [k \in Key |-> v] /\ shown = [s \in Shown |-> v]
    BY DEF SettingsInit
  <2>2. set = NoCommand /\ doubt = FALSE
    BY DEF SettingsInit
  <2>. QED
    BY <2>1, <2>2, SettingsRest DEF AtRest, Key, Shown
<1>2. SettingsInv /\ [SettingsNext]_settingsVars => SettingsInv'
  <2>. SUFFICES ASSUME SettingsInv, [SettingsNext]_settingsVars PROVE SettingsInv'
    OBVIOUS
  <2>1. CASE SettingsNext
    BY <2>1, SettingsBegin, SettingsUnsupported, SettingsAsk, SettingsScheme, SettingsBackUp,
       SettingsReplace, SettingsReload, SettingsNextField, SettingsKilled, SettingsLogin
       DEF SettingsNext
  <2>2. CASE UNCHANGED settingsVars
    <3>1. UNCHANGED <<stored, shown, set, doubt>>
      BY <2>2 DEF settingsVars
    <3>2. CommandInv' /\ UndoInv'
      BY <3>1 DEF SettingsInv, CommandInv, UndoInv, Undoes, StepIs, Busy, Pick, KeysOf, Key
    <3>3. /\ Came(Pick, Wanted, set.steps)' <=> Came(Pick, Wanted, set.steps)
          /\ Told(Past)' <=> Told(Past)
          /\ Told(Len(set.fields))' <=> Told(Len(set.fields))
      BY <3>1 DEF Came, Pick, Wanted, Told, Past, Holds, Reported
    <3>4. StepIs("reload")' <=> StepIs("reload")
      BY <3>1 DEF StepIs, Busy
    <3>5. ReportInv'
      BY <3>1, <3>3, <3>4 DEF SettingsInv, ReportInv
    <3>. QED
      BY <3>2, <3>5 DEF SettingsInv
  <2>. QED
    BY <2>1, <2>2
<1>. QED
  BY <1>1, <1>2, PTL DEF SettingsSpec

\* Nothing but xdg-settings has touched the files since the field at work began,
\* until it replaces its own: a backup that is cut off is of a file that is there.
Saved_ == Key \ {"http", "https"}
Began == \A k \in Saved_ : stored[k] = set.before[k]
TornInv ==
  /\ set.answer \in {"none", "running", "ok"} => set.torn = {}
  /\ \A k \in set.torn \ {"http", "https"} : stored[k] = set.before[k]
  /\ set.answer = "running" /\ set.steps # <<>> /\ ~StepIs("reload") => Began

\* A command that ends with nothing cut off, and one that begins.
LEMMA TornEnds ==
  ASSUME set'.torn = {}, set'.answer # "running" \/ (Began)'
  PROVE  TornInv'
BY DEF TornInv

LEMMA TornRefused == ASSUME SettingsInv, TornInv, Busy, set' = Refused PROVE TornInv'
<1>1. set \in Order /\ set.torn = {}
  BY DEF SettingsInv, CommandInv, TornInv, Busy
<1>2. set'.torn = {} /\ set'.answer = "refused"
  BY <1>1 DEF Refused, Order
<1> QED
  BY <1>2, TornEnds

\* A step that replaces none of the files that are backed up.
LEMMA TornAdvances ==
  ASSUME SettingsInv, TornInv, Busy, set.steps # Through, ~StepIs("reload"),
         set' = Advance, \A k \in Saved_ : stored'[k] = stored[k]
  PROVE  TornInv'
<1>1. set \in Order /\ set.torn = {} /\ Began
  BY DEF SettingsInv, CommandInv, TornInv, Busy, Through
<1>2. set'.torn = {} /\ set'.before = set.before
  BY <1>1 DEF Advance, Order
<1>3. (Began)'
  BY <1>1, <1>2 DEF Began
<1> QED
  BY <1>2, <1>3, TornEnds

LEMMA TornStep == SettingsInv /\ TornInv /\ [SettingsNext]_settingsVars => TornInv'
<1> SUFFICES ASSUME SettingsInv, TornInv, [SettingsNext]_settingsVars PROVE TornInv'
  OBVIOUS
<1>0. set \in Order /\ stored \in [Key -> Value]
  BY DEF SettingsInv, CommandInv
<1>1. ASSUME NEW fields \in Lists, BeginSet(fields) PROVE TornInv'
  <2>1. /\ UNCHANGED stored
        /\ set' = [NoCommand EXCEPT !.todo = fields, !.fields = fields, !.found = stored,
                     !.before = stored, !.steps = Route(fields[1][1]), !.answer = "running"]
    BY <1>1 DEF BeginSet
  <2>2. set'.torn = {} /\ set'.before = stored
    BY <2>1 DEF NoCommand
  <2>3. (Began)'
    BY <2>1, <2>2 DEF Began
  <2> QED
    BY <2>2, <2>3, TornEnds
<1>2. CASE Unsupported \/ AskTool
  <2>1. \/ Busy /\ set' = Refused
        \/ StepIs("ask") /\ set' = Advance /\ UNCHANGED stored
    BY <1>2 DEF Unsupported, AskTool, StepIs
  <2>2. ASSUME StepIs("ask") PROVE Busy /\ set.steps # Through /\ ~StepIs("reload")
    BY <2>2 DEF StepIs, Through
  <2> QED
    BY <2>1, <2>2, TornRefused, TornAdvances
<1>3. ASSUME NEW key \in {"http", "https"}, Scheme(key) PROVE TornInv'
  <2>1. \/ set' = Refused
        \/ set' = Advance /\ stored' = [stored EXCEPT ![key] = Wanted]
    BY <1>3 DEF Scheme
  <2>2. Busy /\ set.steps # Through /\ ~StepIs("reload")
    BY <1>3 DEF Scheme, StepIs, Through
  <2>3. ASSUME stored' = [stored EXCEPT ![key] = Wanted]
        PROVE  \A k \in Saved_ : stored'[k] = stored[k]
    BY <1>0, <2>3 DEF Saved_, Key
  <2> QED
    BY <2>1, <2>2, <2>3, TornRefused, TornAdvances
<1>4. CASE BackUp
  <2>1. /\ StepIs("back up") /\ UNCHANGED stored
        /\ \/ set' = [set EXCEPT !.steps = Through]
           \/ set' = Copied(stored)
           \/ \E cut \in {{}, PathNow} : set' = [Refused EXCEPT !.torn = cut]
    BY <1>4 DEF BackUp, Through
  <2>2. Busy /\ set.answer = "running" /\ set.steps # Through /\ ~StepIs("reload")
    BY <2>1 DEF StepIs, Busy, Through
  <2>3. set.torn = {} /\ Began
    BY <2>2 DEF TornInv, Through
  <2>4. PathNow \subseteq Key
    BY <2>1, AtBackUp
  <2>5. CASE set' = [set EXCEPT !.steps = Through] \/ set' = Copied(stored)
    <3>1. set'.torn = {} /\ set'.before = set.before
      BY <1>0, <2>3, <2>5 DEF Copied, Advance, Order
    <3>2. (Began)'
      BY <2>1, <2>3, <3>1 DEF Began
    <3> QED
      BY <3>1, <3>2, TornEnds
  <2>6. ASSUME NEW cut \in {{}, PathNow}, set' = [Refused EXCEPT !.torn = cut] PROVE TornInv'
    <3>1. set'.torn = cut /\ set'.before = set.before /\ set'.answer = "refused"
      BY <1>0, <2>6 DEF Refused, Order
    <3>2. \A k \in cut \ {"http", "https"} : stored[k] = set.before[k]
      BY <2>3, <2>4 DEF Began, Saved_
    <3> QED
      BY <2>1, <3>1, <3>2 DEF TornInv
  <2> QED
    BY <2>1, <2>5, <2>6
<1>5. CASE Replace
  <2>1. StepIs("replace") /\ Busy /\ set.answer = "running"
    BY <1>5 DEF Replace, StepIs, Busy
  <2>2. CASE set' = Refused
    BY <2>1, <2>2, TornRefused
  <2>3. CASE set' = Advance
    <3>1. /\ set'.steps = Tail(set.steps) /\ set'.torn = {}
      BY <1>0, <2>1, <2>3 DEF Advance, Order, TornInv
    <3>2. Tail(set.steps) = Through \/ Tail(set.steps) = LoadOnly
      BY <2>1, AtStage DEF Says
    <3>3. set'.answer = "running"
      BY <1>0, <2>1, <2>3 DEF Advance, Order
    <3>4. set'.steps = <<>> \/ StepIs("reload")'
      BY <3>1, <3>2, <3>3, RoutesEnd DEF Through, StepIs, Busy
    <3> QED
      BY <3>1, <3>4 DEF TornInv
  <2> QED
    BY <1>5, <2>2, <2>3 DEF Replace
<1>6. CASE Reload
  <2>1. StepIs("reload") /\ Busy /\ set.answer = "running"
    BY <1>6 DEF Reload, StepIs, Busy
  <2>2. CASE set' = Refused
    BY <2>1, <2>2, TornRefused
  <2>3. CASE set' = Advance
    <3>1. set'.steps = Tail(set.steps) /\ set'.torn = {}
      BY <1>0, <2>1, <2>3 DEF Advance, Order, TornInv
    <3>2. Tail(set.steps) = Through
      BY <2>1, AtStage DEF Says
    <3> QED
      BY <3>1, <3>2 DEF TornInv, Through
  <2> QED
    BY <1>6, <2>2, <2>3 DEF Reload
<1>7. CASE NextField
  <2>1. Busy /\ set.answer = "running" /\ UNCHANGED stored /\ set.torn = {}
    BY <1>7 DEF NextField, Busy, TornInv
  <2>2. CASE set' = Refused
    BY <2>1, <2>2, TornRefused
  <2>3. CASE set' = [set EXCEPT !.todo = <<>>, !.answer = "ok"]
    <3>1. set'.torn = {} /\ set'.answer = "ok"
      BY <1>0, <2>1, <2>3 DEF Order
    <3> QED
      BY <3>1, TornEnds
  <2>4. CASE set' = [set EXCEPT !.todo = Tail(@), !.before = stored, !.steps = Route(set.todo[2][1])]
    <3>1. set'.torn = {} /\ set'.before = stored
      BY <1>0, <2>1, <2>4 DEF Order
    <3>2. (Began)'
      BY <2>1, <3>1 DEF Began
    <3> QED
      BY <3>1, <3>2, TornEnds
  <2> QED
    BY <1>7, <2>2, <2>3, <2>4, Zenon DEF NextField
<1>8. CASE Killed
  <2>1. Busy /\ set.answer = "running" /\ UNCHANGED stored /\ set.torn = {}
    BY <1>8 DEF Killed, Busy, TornInv
  <2>2. PICK cut : /\ cut = {} \/ (StepIs("back up") /\ cut = PathNow)
                   /\ set' = [set EXCEPT !.todo = <<>>, !.steps = <<>>, !.torn = cut, !.answer = "killed"]
    BY <1>8 DEF Killed
  <2>3. set'.torn = cut /\ set'.before = set.before /\ set'.answer = "killed"
    BY <1>0, <2>2 DEF Order
  <2>4. \A k \in cut \ {"http", "https"} : stored[k] = set.before[k]
    <3>1. CASE cut = {}
      BY <3>1
    <3>2. CASE StepIs("back up") /\ cut = PathNow
      <4>1. Began
        BY <2>1, <3>2 DEF TornInv, StepIs
      <4> QED
        BY <3>2, <4>1, AtBackUp DEF Began, Saved_
    <3> QED
      BY <2>2, <3>1, <3>2
  <2> QED
    BY <2>1, <2>3, <2>4 DEF TornInv
<1>9. CASE Login \/ \E k \in Key : \E v \in Value : Edit(k, v)
  <2>1. set' = NoCommand
    BY <1>9 DEF Login, Edit
  <2>2. set'.torn = {} /\ set'.answer = "none"
    BY <2>1 DEF NoCommand
  <2> QED
    BY <2>2, TornEnds
<1>10. CASE UNCHANGED settingsVars
  BY <1>10 DEF settingsVars, TornInv, Began, StepIs, Busy
<1> QED
  BY <1>1, <1>2, <1>3, <1>4, <1>5, <1>6, <1>7, <1>8, <1>9, <1>10, Zenon DEF SettingsNext

\* The whole backups of a run directory undo the run, wherever it was refused or
\* killed; a copy that was cut off is of a file the run has not replaced since
\* (settings/_shared.py).
THEOREM BackupsUndoTheRun == SettingsSpec => []BackupsUndo
<1>1. ASSUME SettingsInv, TornInv PROVE BackupsUndo
  <2>1. ASSUME set.answer \in {"ok", "refused", "killed"}
        PROVE  \A k \in Key \ {"http", "https"} : Undoes(set.backups, stored, k, set.found[k])
    BY <1>1, <2>1 DEF SettingsInv, UndoInv
  <2>. QED
    BY <1>1, <2>1 DEF BackupsUndo, TornInv
<1>2. SettingsInit => TornInv
  BY DEF SettingsInit, TornInv, NoCommand
<1>. QED
  BY SettingsSafe, <1>1, <1>2, TornStep, PTL DEF SettingsSpec

\* What is reported of a field that was answered ok comes from the value that was
\* set; of the input, when no command has stopped short of a reload that worked
\* (settings/_shared.py).
THEOREM AnsweredIsReported == SettingsSpec => []AcknowledgedIsReported
<1>1. ASSUME SettingsInv PROVE AcknowledgedIsReported
  <2>. SUFFICES ASSUME set.answer = "ok", NEW i \in DOMAIN set.fields, NEW answers \in BOOLEAN,
                       set.fields[i][1] = "layout" => ~doubt, LastOf(i)
       PROVE  Reported(set.fields[i][1], answers)[2] = set.fields[i][2]
    BY DEF AcknowledgedIsReported
  <2>. DEFINE fields == set.fields
  <2>1. fields \in Seq(Asked_) /\ Told(Len(fields))
    BY <1>1 DEF SettingsInv, CommandInv, Order, ReportInv
  <2>2. Len(fields) \in Nat /\ i \in 1 .. Len(fields) /\ ~(Len(fields) < Len(fields))
    <3>. HIDE DEF fields
    <3>1. i \in DOMAIN fields
      BY DEF fields
    <3>. QED
      BY <2>1, <3>1
  <2>3. \A j \in i + 1 .. Len(fields) : fields[j][1] # fields[i][1]
    BY DEF LastOf
  <2>4. Holds(fields[i])
    BY <2>1, <2>2, <2>3 DEF Told
  <2>. QED
    BY <2>4 DEF Holds
<1>. QED
  BY SettingsSafe, <1>1, PTL
================================================================================
