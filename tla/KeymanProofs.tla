---------------------------- MODULE KeymanProofs ----------------------------
(***************************************************************************)
(* What holds of the Keyman door for all devices, slots and passwords,     *)
(* where requests are served one at a time.                                *)
(*                                                                         *)
(* A request is followed through its queue: DoorInv lists the forms that   *)
(* the rest of the commands takes, with what the slots must hold for each. *)
(***************************************************************************)
EXTENDS KeymanDoor, SequenceTheorems, TLAPS

-----------------------------------------------------------------------------
(* Types *)

Slotted ==
  [do : {"dump", "verify", "kill", "add"}, key : {"current", "new"},
   dev : Device, slots : SUBSET Slot]
Account ==
  [do : {"newkey", "export", "exportsuite", "rotate", "owner", "samba"}]
Entry == Slotted \cup Account

LuksJob ==
  [slot : Slot, action : {"create-vault", "create-external", "create-both", "update"},
   strategy : Strategy, password : Password, current : Current, new : [Device -> Password]]
AdminJob == [action : {"admin-password"}, old : Password, new : Password]

DoorType ==
  /\ slots \in [Device -> [Slot -> Password \cup {Empty}]] /\ nas \in Password
  /\ suite \in Password /\ owner \in Password /\ samba \in Password
  /\ queue \in [Caller -> Seq(Entry)]
  /\ job \in [Caller -> {Idle} \cup LuksJob \cup AdminJob]

-----------------------------------------------------------------------------
(* What a caller has yet to run *)

Looks == {Look(d) : d \in Device}
LookSeq == Seq(Looks)

NewKeyFirst(s) == <<Plain("newkey")>> \o (<<Plain("export")>> \o s)
ExportFirst(s) == <<Plain("export")>> \o s
After == LookSeq \cup {NewKeyFirst(s) : s \in LookSeq}

KillNew(d) == Command("kill", d, {1}, "new")
KillOld(d, s) == Command("kill", d, {s}, "current")

\* The end of replace_primary, once slot 1 is staged: E is still to be removed.
Settle(d, E, rest) == KillAll(d, E, "new") \o (<<Add(d, 0, "new")>> \o (<<KillNew(d)>> \o rest))

\* The slots of E are enabled, and slot 0 is one of them or free already.
Doomed(d, E) ==
  /\ E \subseteq Slot \ {1} /\ \A s \in E : slots[d][s] # Empty
  /\ 0 \in E \/ slots[d][0] = Empty

Plan(c, d, rest) ==
  \/ queue[c] = <<KillNew(d)>> \o rest /\ slots[d][0] = job[c].new[d]
  \/ \E E \in SUBSET Slot :
       /\ Doomed(d, E)
       /\ \/ queue[c] = Settle(d, E, rest) /\ slots[d][1] = job[c].new[d]
          \/ queue[c] = <<Add(d, 1, "current")>> \o Settle(d, E, rest)
          \/ queue[c] = <<KillOld(d, 1)>> \o (<<Add(d, 1, "current")>> \o Settle(d, E, rest))
  \/ \E s \in Slot \ {0} :
       \/ queue[c] = <<Add(d, s, "current")>> \o rest
       \/ queue[c] = <<KillOld(d, s)>> \o (<<Add(d, s, "current")>> \o rest)

\* Devices still to come after the last export are to get the NAS password.
Follow(c, s) ==
  job[c].action # "create-vault" /\ s \in LookSeq =>
    \A i \in DOMAIN s : job[c].new[s[i].dev] = nas

Works(c, d, rest) ==
  /\ Plan(c, d, rest) /\ job[c].current[d] # Empty /\ Follow(c, rest)
  /\ job[c].action # "create-vault" /\ rest \in LookSeq => job[c].new[d] = nas

LuksInv(c) ==
  \/ queue[c] \in After /\ Follow(c, queue[c])
  \/ \E s \in LookSeq :
       \/ queue[c] = ExportFirst(s)
       \/ \E d \in Device :
            \/ queue[c] = <<Command("verify", d, {}, "current")>> \o ExportFirst(s)
            \/ queue[c] = <<Look(d)>> \o NewKeyFirst(s)
  \/ \E d \in Device, rest \in After : Works(c, d, rest)

\* Suite, owner and Samba at each command of an admin-password request.
AdminInv(c) ==
  LET j == job[c] IN
    \/ /\ queue[c] = <<Plain("exportsuite"), Plain("rotate"), Plain("owner"), Plain("samba")>>
       /\ told # {} \/ (suite = owner /\ owner = samba)
    \/ /\ queue[c] = <<Plain("rotate"), Plain("owner"), Plain("samba")>>
       /\ told # {} \/ (suite = owner /\ owner = samba)
    \/ /\ queue[c] = <<Plain("owner"), Plain("samba")>>
       /\ suite = j.new /\ (told # {} \/ (owner = j.old /\ samba = j.old))
    \/ /\ queue[c] = <<Plain("samba")>>
       /\ told # {} \/ (suite = j.new /\ owner = j.new)
    \/ queue[c] = <<>> /\ (told # {} \/ (suite = owner /\ owner = samba))

RequestInv(c) ==
  \/ job[c] = Idle /\ queue[c] = <<>> /\ (told # {} \/ (suite = owner /\ owner = samba))
  \/ job[c] \in LuksJob /\ LuksInv(c) /\ (told # {} \/ (suite = owner /\ owner = samba))
  \/ job[c] \in AdminJob /\ AdminInv(c)

\* Slot 0 of the device is being replaced: slot 1 has been staged.
Wiping(c, d) ==
  /\ Working(c, d) /\ Head(queue[c]).key = "new" /\ 1 \notin Head(queue[c]).slots

SlotZeroHeld ==
  ~faults => \A d \in Device : slots[d][0] # Empty \/ \E c \in Caller : Wiping(c, d)

DoorInv == DoorType /\ (\A c \in Caller : RequestInv(c)) /\ SlotZeroHeld

-----------------------------------------------------------------------------
(* Queues *)

LEMMA Cons ==
  ASSUME NEW T, NEW x \in T, NEW s \in Seq(T)
  PROVE  /\ <<x>> \o s \in Seq(T) /\ <<x>> \o s # <<>>
         /\ Head(<<x>> \o s) = x /\ Tail(<<x>> \o s) = s
         /\ DOMAIN (<<x>> \o s) = 1 .. Len(s) + 1 /\ (<<x>> \o s)[1] = x
         /\ \A i \in 1 .. Len(s) : (<<x>> \o s)[i + 1] = s[i]
<1>1. <<x>> \in Seq(T) /\ Len(<<x>>) = 1 /\ <<x>>[1] = x
  OBVIOUS
<1>. DEFINE w == <<x>>
            t == w \o s
<1>2. w \in Seq(T) /\ Len(w) = 1 /\ w[1] = x
  BY <1>1
<1>. HIDE DEF w
<1>3. /\ t \in Seq(T) /\ Len(t) = 1 + Len(s) /\ Len(s) \in Nat
      /\ \A i \in 1 .. 1 + Len(s) : t[i] = IF i <= 1 THEN x ELSE s[i - 1]
  <2>1. /\ t \in Seq(T) /\ Len(t) = Len(w) + Len(s)
        /\ \A i \in 1 .. Len(w) + Len(s) : t[i] = IF i <= Len(w) THEN w[i] ELSE s[i - Len(w)]
    BY <1>2, ConcatProperties
  <2>2. Len(s) \in Nat
    BY LenProperties
  <2>. HIDE DEF t
  <2>. DEFINE n == Len(s)
  <2>. HIDE DEF n
  <2>3. \A i \in 1 .. 1 + n : t[i] = IF i <= 1 THEN w[i] ELSE s[i - 1]
    BY <1>2, <2>1 DEF n
  <2>4. \A i \in 1 .. 1 + n : i <= 1 => i = 1
    BY <2>2 DEF n
  <2>. QED
    BY <1>2, <2>1, <2>2, <2>3, <2>4 DEF n
<1>. HIDE DEF t
<1>4. t # <<>>
  BY <1>3, EmptySeq
<1>5. t[1] = x /\ \A i \in 1 .. Len(s) : t[i + 1] = s[i]
  BY <1>3
<1>6. Head(t) = x
  BY <1>3, <1>4, <1>5
<1>7. Tail(t) \in Seq(T) /\ Len(Tail(t)) = Len(s) /\ \A i \in 1 .. Len(s) : Tail(t)[i] = s[i]
  BY <1>3, <1>4, <1>5, HeadTailProperties
<1>8. Tail(t) = s
  BY <1>7, SeqEqual
<1>9. DOMAIN t = 1 .. Len(s) + 1
  BY <1>3, LenProperties
<1>. QED
  BY <1>3, <1>4, <1>5, <1>6, <1>8, <1>9 DEF t, w

\* A sequence begins with its head.
LEMMA Uncons ==
  ASSUME NEW T, NEW s \in Seq(T), s # <<>>
  PROVE  Head(s) \in T /\ Tail(s) \in Seq(T) /\ s = <<Head(s)>> \o Tail(s) /\ s[1] = Head(s)
<1>. DEFINE h == Head(s)
            t == Tail(s)
<1>1. /\ h \in T /\ t \in Seq(T) /\ Len(t) = Len(s) - 1
      /\ \A i \in 1 .. Len(t) : t[i] = s[i + 1]
  BY HeadTailProperties
<1>2. h = s[1]
  OBVIOUS
<1>. HIDE DEF h, t
<1>3. /\ <<h>> \o t \in Seq(T) /\ (<<h>> \o t)[1] = h /\ DOMAIN (<<h>> \o t) = 1 .. Len(t) + 1
      /\ \A i \in 1 .. Len(t) : (<<h>> \o t)[i + 1] = t[i]
  BY <1>1, Cons
<1>. DEFINE u == <<h>> \o t
<1>. HIDE DEF u
<1>4. u \in Seq(T) /\ u[1] = h /\ DOMAIN u = 1 .. Len(t) + 1 /\ \A i \in 1 .. Len(t) : u[i + 1] = t[i]
  BY <1>3 DEF u
<1>5. Len(s) \in Nat /\ Len(u) \in Nat /\ Len(t) \in Nat /\ DOMAIN u = 1 .. Len(u)
  BY <1>1, <1>4, LenProperties
<1>6. Len(u) = Len(s)
  BY <1>1, <1>4, <1>5
<1>7. \A i \in 1 .. Len(u) : u[i] = s[i]
  <2>. TAKE i \in 1 .. Len(u)
  <2>1. CASE i = 1
    BY <2>1, <1>2, <1>4
  <2>2. CASE i # 1
    <3>1. i - 1 \in 1 .. Len(t) /\ (i - 1) + 1 = i
      BY <2>2, <1>1, <1>5, <1>6
    <3>. QED
      BY <3>1, <1>1, <1>4
  <2>. QED
    BY <2>1, <2>2
<1>8. u = s
  BY <1>4, <1>6, <1>7, SeqEqual
<1>. QED
  BY <1>1, <1>2, <1>8 DEF u, h, t

LEMMA Entries ==
  ASSUME DoorConstants, NEW d \in Device
  PROVE  /\ Look(d) \in Entry /\ Command("verify", d, {}, "current") \in Entry
         /\ KillNew(d) \in Entry /\ Add(d, 0, "new") \in Entry
         /\ \A E \in SUBSET Slot : Command("kill", d, E, "new") \in Entry
         /\ \A s \in Slot : Add(d, s, "current") \in Entry /\ KillOld(d, s) \in Entry
         /\ Plain("newkey") \in Entry /\ Plain("export") \in Entry
BY DEF DoorConstants, Entry, Slotted, Account, Look, Command, KillNew, KillOld, Add, Plain

LEMMA Lates ==
  ASSUME DoorConstants, NEW s \in LookSeq
  PROVE  /\ s \in Seq(Entry) /\ ExportFirst(s) \in Seq(Entry) /\ NewKeyFirst(s) \in Seq(Entry)
         /\ NewKeyFirst(s) # <<>> /\ Head(NewKeyFirst(s)) = Plain("newkey")
         /\ Tail(NewKeyFirst(s)) = ExportFirst(s) /\ NewKeyFirst(s)[1] = Plain("newkey")
         /\ ExportFirst(s) # <<>> /\ Head(ExportFirst(s)) = Plain("export") /\ Tail(ExportFirst(s)) = s
<1>1. Looks \subseteq Entry
  BY Entries DEF Looks
<1>2. s \in Seq(Entry)
  BY <1>1, SeqMonotonic DEF LookSeq
<1>3. Plain("newkey") \in Entry /\ Plain("export") \in Entry
  BY DEF Entry, Account, Plain
<1>. DEFINE a == Plain("newkey")
            b == Plain("export")
<1>. HIDE DEF a, b
<1>4. a \in Entry /\ b \in Entry
  BY <1>3 DEF a, b
<1>5. /\ <<b>> \o s \in Seq(Entry) /\ <<b>> \o s # <<>> /\ Head(<<b>> \o s) = b
      /\ Tail(<<b>> \o s) = s
  BY <1>2, <1>4, Cons
<1>. DEFINE t == <<b>> \o s
<1>. HIDE DEF t
<1>6. /\ <<a>> \o t \in Seq(Entry) /\ <<a>> \o t # <<>> /\ Head(<<a>> \o t) = a
      /\ Tail(<<a>> \o t) = t /\ (<<a>> \o t)[1] = a
  BY <1>4, <1>5, Cons DEF t
<1>. QED
  BY <1>2, <1>5, <1>6 DEF a, b, t, ExportFirst, NewKeyFirst

LEMMA AfterIsSeq ==
  ASSUME DoorConstants PROVE After \subseteq Seq(Entry) /\ <<>> \in After /\ <<>> \in LookSeq
<1>1. <<>> \in LookSeq
  BY EmptySeq DEF LookSeq
<1>. QED
  BY <1>1, Lates DEF After

Front(c, x, t) == queue[c] # <<>> /\ Head(queue[c]) = x /\ Tail(queue[c]) = t

LEMMA Settles ==
  ASSUME DoorConstants, NEW d \in Device, NEW E \in SUBSET Slot, NEW rest \in Seq(Entry)
  PROVE  /\ <<KillNew(d)>> \o rest \in Seq(Entry)
         /\ Settle(d, E, rest) \in Seq(Entry) /\ Settle(d, E, rest) # <<>>
         /\ E = {} => /\ Head(Settle(d, E, rest)) = Add(d, 0, "new")
                      /\ Tail(Settle(d, E, rest)) = <<KillNew(d)>> \o rest
         /\ E # {} => /\ Head(Settle(d, E, rest)) = Command("kill", d, E, "new")
                      /\ Tail(Settle(d, E, rest)) = Settle(d, {}, rest)
<1>. DEFINE k == KillNew(d)
            a == Add(d, 0, "new")
            w == Command("kill", d, E, "new")
            t == <<a>> \o (<<k>> \o rest)
<1>1. k \in Entry /\ a \in Entry /\ w \in Entry
  BY Entries
<1>2. KillAll(d, {}, "new") = <<>> /\ (E # {} => KillAll(d, E, "new") = <<w>>)
  BY DEF KillAll
<1>. HIDE DEF k, a, w
<1>3. <<k>> \o rest \in Seq(Entry)
  BY <1>1, Cons
<1>4. t \in Seq(Entry) /\ t # <<>> /\ Head(t) = a /\ Tail(t) = <<k>> \o rest
  BY <1>1, <1>3, Cons
<1>. HIDE DEF t
<1>5. <<>> \o t = t
  BY <1>4, ConcatEmptySeq
<1>6. Settle(d, {}, rest) = t
  BY <1>2, <1>5 DEF Settle, t, a, k
<1>7. /\ <<w>> \o t \in Seq(Entry) /\ <<w>> \o t # <<>> /\ Head(<<w>> \o t) = w
      /\ Tail(<<w>> \o t) = t
  BY <1>1, <1>4, Cons
<1>8. E # {} => Settle(d, E, rest) = <<w>> \o t
  BY <1>2 DEF Settle, t, a, k
<1>9. CASE E = {}
  BY <1>3, <1>4, <1>6, <1>9 DEF a, k
<1>10. CASE E # {}
  BY <1>3, <1>6, <1>7, <1>8, <1>10 DEF w, k
<1>. QED
  BY <1>9, <1>10

\* The step that a plan has come to, and what is left after it.
Ahead(c, d, rest) ==
  \/ Front(c, KillNew(d), rest) /\ slots[d][0] = job[c].new[d]
  \/ /\ Doomed(d, {}) /\ Front(c, Add(d, 0, "new"), <<KillNew(d)>> \o rest)
     /\ slots[d][1] = job[c].new[d]
  \/ \E E \in (SUBSET Slot) \ {{}} :
       /\ Doomed(d, E) /\ Front(c, Command("kill", d, E, "new"), Settle(d, {}, rest))
       /\ slots[d][1] = job[c].new[d]
  \/ \E E \in SUBSET Slot : Doomed(d, E) /\ Front(c, Add(d, 1, "current"), Settle(d, E, rest))
  \/ \E E \in SUBSET Slot :
       /\ Doomed(d, E)
       /\ Front(c, KillOld(d, 1), <<Add(d, 1, "current")>> \o Settle(d, E, rest))
  \/ \E s \in Slot \ {0} : Front(c, Add(d, s, "current"), rest)
  \/ \E s \in Slot \ {0} : Front(c, KillOld(d, s), <<Add(d, s, "current")>> \o rest)

LEMMA PlanAhead ==
  ASSUME DoorConstants, NEW c \in Caller, NEW d \in Device, NEW rest \in Seq(Entry), Plan(c, d, rest)
  PROVE  Ahead(c, d, rest)
<1>0. {0, 1} \subseteq Slot
  BY DEF DoorConstants
<1>1. CASE queue[c] = <<KillNew(d)>> \o rest /\ slots[d][0] = job[c].new[d]
  <2>. DEFINE k == KillNew(d)
  <2>1. k \in Entry
    BY Entries
  <2>. HIDE DEF k
  <2>2. <<k>> \o rest # <<>> /\ Head(<<k>> \o rest) = k /\ Tail(<<k>> \o rest) = rest
    BY <2>1, Cons
  <2>. QED
    BY <1>1, <2>2, Zenon DEF Ahead, Front, k
<1>2. ASSUME NEW E \in SUBSET Slot, Doomed(d, E), queue[c] = Settle(d, E, rest),
             slots[d][1] = job[c].new[d]
      PROVE  Ahead(c, d, rest)
  <2>1. CASE E = {}
    <3>0. LET t == Settle(d, E, rest)
          IN t # <<>> /\ Head(t) = Add(d, 0, "new") /\ Tail(t) = <<KillNew(d)>> \o rest
      BY <2>1, Settles
    <3>1. Front(c, Add(d, 0, "new"), <<KillNew(d)>> \o rest) /\ Doomed(d, {})
      BY <1>2, <2>1, <3>0, Zenon DEF Front
    <3>. QED
      BY <1>2, <3>1 DEF Ahead
  <2>2. CASE E # {}
    <3>0. LET t == Settle(d, E, rest)
          IN t # <<>> /\ Head(t) = Command("kill", d, E, "new") /\ Tail(t) = Settle(d, {}, rest)
      BY <2>2, Settles
    <3>1. Front(c, Command("kill", d, E, "new"), Settle(d, {}, rest))
      BY <1>2, <3>0, Zenon DEF Front
    <3>2. E \in (SUBSET Slot) \ {{}}
      BY <2>2
    <3>. QED
      BY <1>2, <3>1, <3>2 DEF Ahead
  <2>. QED
    BY <2>1, <2>2
<1>3. ASSUME NEW E \in SUBSET Slot, Doomed(d, E),
             \/ queue[c] = <<Add(d, 1, "current")>> \o Settle(d, E, rest)
             \/ queue[c] = <<KillOld(d, 1)>> \o (<<Add(d, 1, "current")>> \o Settle(d, E, rest))
      PROVE  Ahead(c, d, rest)
  <2>. DEFINE a == Add(d, 1, "current")
              k == KillOld(d, 1)
              t == Settle(d, E, rest)
  <2>1. a \in Entry /\ k \in Entry /\ t \in Seq(Entry)
    BY <1>0, Entries, Settles
  <2>2. queue[c] = <<a>> \o t \/ queue[c] = <<k>> \o (<<a>> \o t)
    BY <1>3
  <2>. HIDE DEF a, k, t
  <2>3. /\ <<a>> \o t \in Seq(Entry) /\ <<a>> \o t # <<>> /\ Head(<<a>> \o t) = a
        /\ Tail(<<a>> \o t) = t
    BY <2>1, Cons
  <2>. DEFINE u == <<a>> \o t
  <2>. HIDE DEF u
  <2>4. <<k>> \o u # <<>> /\ Head(<<k>> \o u) = k /\ Tail(<<k>> \o u) = u
    BY <2>1, <2>3, Cons DEF u
  <2>5. Front(c, a, t) \/ Front(c, k, u)
    BY <2>2, <2>3, <2>4 DEF Front, u
  <2>6. Front(c, Add(d, 1, "current"), Settle(d, E, rest)) \/
          Front(c, KillOld(d, 1), <<Add(d, 1, "current")>> \o Settle(d, E, rest))
    BY <2>5 DEF a, k, t, u
  <2>. QED
    BY <1>3, <2>6 DEF Ahead
<1>4. ASSUME NEW s \in Slot \ {0},
             \/ queue[c] = <<Add(d, s, "current")>> \o rest
             \/ queue[c] = <<KillOld(d, s)>> \o (<<Add(d, s, "current")>> \o rest)
      PROVE  Ahead(c, d, rest)
  <2>. DEFINE a == Add(d, s, "current")
              k == KillOld(d, s)
  <2>1. a \in Entry /\ k \in Entry
    BY Entries
  <2>2. queue[c] = <<a>> \o rest \/ queue[c] = <<k>> \o (<<a>> \o rest)
    BY <1>4
  <2>. HIDE DEF a, k
  <2>3. /\ <<a>> \o rest \in Seq(Entry) /\ <<a>> \o rest # <<>> /\ Head(<<a>> \o rest) = a
        /\ Tail(<<a>> \o rest) = rest
    BY <2>1, Cons
  <2>. DEFINE u == <<a>> \o rest
  <2>. HIDE DEF u
  <2>4. <<k>> \o u # <<>> /\ Head(<<k>> \o u) = k /\ Tail(<<k>> \o u) = u
    BY <2>1, <2>3, Cons DEF u
  <2>5. Front(c, a, rest) \/ Front(c, k, u)
    BY <2>2, <2>3, <2>4 DEF Front, u
  <2>6. Front(c, Add(d, s, "current"), rest) \/
          Front(c, KillOld(d, s), <<Add(d, s, "current")>> \o rest)
    BY <2>5 DEF a, k, u
  <2>. QED
    BY <2>6 DEF Ahead
<1>. QED
  BY <1>1, <1>2, <1>3, <1>4, Zenon DEF Plan

\* A device that is to be looked at, and what comes after it.
Looking(c, d, rest) ==
  /\ Front(c, Look(d), rest) /\ Follow(c, rest)
  /\ job[c].action # "create-vault" /\ rest \in LookSeq => job[c].new[d] = nas

LEMMA LuksForms ==
  ASSUME DoorConstants, NEW c \in Caller, LuksInv(c)
  PROVE  \/ queue[c] = <<>>
         \/ \E d \in Device, rest \in After : Looking(c, d, rest)
         \/ \E s \in LookSeq : Front(c, Plain("newkey"), ExportFirst(s))
         \/ \E s \in LookSeq : Front(c, Plain("export"), s)
         \/ \E s \in LookSeq, d \in Device :
              Front(c, Command("verify", d, {}, "current"), ExportFirst(s))
         \/ \E d \in Device, rest \in After : Works(c, d, rest)
<1>1. CASE queue[c] \in LookSeq /\ Follow(c, queue[c]) /\ queue[c] # <<>>
  <2>. DEFINE q == queue[c]
              t == Tail(q)
  <2>1. q \in Seq(Looks) /\ q # <<>> /\ Follow(c, q)
    BY <1>1 DEF LookSeq
  <2>. HIDE DEF q
  <2>2. Head(q) \in Looks /\ t \in Seq(Looks) /\ q = <<Head(q)>> \o t /\ q[1] = Head(q)
    BY <2>1, Uncons
  <2>3. PICK d \in Device : Head(q) = Look(d)
    BY <2>2 DEF Looks
  <2>. DEFINE x == Head(q)
  <2>. HIDE DEF x, t
  <2>4. x \in Looks /\ t \in Seq(Looks) /\ q = <<x>> \o t
    BY <2>2 DEF x
  <2>5. DOMAIN q = 1 .. Len(t) + 1 /\ \A i \in 1 .. Len(t) : q[i + 1] = t[i]
    BY <2>4, Cons
  <2>6. Len(t) \in Nat /\ DOMAIN t = 1 .. Len(t)
    BY <2>4, LenProperties
  <2>. DEFINE n == Len(t)
  <2>. HIDE DEF n
  <2>7. 1 \in DOMAIN q /\ \A i \in DOMAIN t : i + 1 \in DOMAIN q /\ q[i + 1] = t[i]
    BY <2>5, <2>6 DEF n
  <2>8. t \in LookSeq /\ t \in After /\ q \in LookSeq
    BY <2>1, <2>4 DEF LookSeq, After
  <2>9. Follow(c, t)
    BY <2>1, <2>7, <2>8 DEF Follow
  <2>10. q[1].dev = d
    BY <2>2, <2>3 DEF Look, Command
  <2>11. job[c].action # "create-vault" => job[c].new[d] = nas
    BY <2>1, <2>7, <2>8, <2>10 DEF Follow
  <2>12. Front(c, Look(d), t)
    BY <1>1, <2>3 DEF Front, t, q
  <2>13. Looking(c, d, t)
    BY <2>9, <2>11, <2>12 DEF Looking
  <2>. QED
    BY <2>8, <2>13
<1>2. ASSUME NEW s \in LookSeq, queue[c] = NewKeyFirst(s) \/ queue[c] = ExportFirst(s)
      PROVE  \/ Front(c, Plain("newkey"), ExportFirst(s))
             \/ Front(c, Plain("export"), s)
  BY <1>2, Lates DEF Front
<1>3. ASSUME NEW s \in LookSeq, NEW d \in Device,
             queue[c] = <<Command("verify", d, {}, "current")>> \o ExportFirst(s)
      PROVE  Front(c, Command("verify", d, {}, "current"), ExportFirst(s))
  <2>. DEFINE x == Command("verify", d, {}, "current")
              t == ExportFirst(s)
  <2>1. x \in Entry /\ t \in Seq(Entry) /\ queue[c] = <<x>> \o t
    BY <1>3, Entries, Lates
  <2>. HIDE DEF x, t
  <2>2. Front(c, x, t)
    BY <2>1, Cons DEF Front
  <2>. QED
    BY <2>2 DEF x, t
<1>4. ASSUME NEW s \in LookSeq, NEW d \in Device, queue[c] = <<Look(d)>> \o NewKeyFirst(s)
      PROVE  \E rest \in After : Looking(c, d, rest)
  <2>. DEFINE x == Look(d)
              t == NewKeyFirst(s)
  <2>1. x \in Entry /\ t \in Seq(Entry) /\ queue[c] = <<x>> \o t
    BY <1>4, Entries, Lates
  <2>2. t[1] = Plain("newkey") /\ t # <<>>
    BY Lates
  <2>3. t \notin LookSeq
    <3>1. SUFFICES ASSUME t \in Seq(Looks) PROVE FALSE
      BY DEF LookSeq
    <3>2. t[1] \in Looks
      <4>. HIDE DEF t
      <4>1. Head(t) \in Looks /\ t[1] = Head(t)
        BY <2>2, <3>1, Uncons
      <4>. QED
        BY <4>1
    <3>3. PICK e \in Device : t[1] = Look(e)
      BY <3>2 DEF Looks
    <3>4. Look(e).do = "dump" /\ Plain("newkey").do = "newkey"
      BY DEF Look, Command, Plain
    <3>. QED
      BY <2>2, <3>3, <3>4
  <2>4. t \in After
    BY DEF After
  <2>. HIDE DEF x, t
  <2>5. Front(c, x, t)
    BY <2>1, Cons DEF Front
  <2>. QED
    BY <2>3, <2>4, <2>5 DEF Looking, Follow, x
<1>. QED
  BY <1>1, <1>2, <1>3, <1>4 DEF LuksInv, After

-----------------------------------------------------------------------------
(* One request at a time                                                    *)

OneCaller == \E c : Caller = {c}

Agree == told # {} \/ (suite = owner /\ owner = samba)

LEMMA Dos ==
  ASSUME NEW d
  PROVE  /\ Look(d).do = "dump" /\ Command("verify", d, {}, "current").do = "verify"
         /\ \A do, at, key : /\ Command(do, d, at, key).do = do
                             /\ Command(do, d, at, key).dev = d
                             /\ Command(do, d, at, key).slots = at
                             /\ Command(do, d, at, key).key = key
         /\ KillNew(d).do = "kill" /\ KillNew(d).dev = d /\ KillNew(d).slots = {1}
         /\ KillNew(d).key = "new"
         /\ \A s : /\ KillOld(d, s).do = "kill" /\ KillOld(d, s).dev = d
                   /\ KillOld(d, s).slots = {s} /\ KillOld(d, s).key = "current"
         /\ \A s, key : /\ Add(d, s, key).do = "add" /\ Add(d, s, key).dev = d
                        /\ Add(d, s, key).slots = {s} /\ Add(d, s, key).key = key
         /\ \A do : Plain(do).do = do
BY DEF Look, Command, KillNew, KillOld, Add, Plain

\* The command that runs tells which kind of request it is of.
LEMMA AdminRuns ==
  ASSUME NEW c \in Caller, job[c] \in AdminJob, AdminInv(c), queue[c] # <<>>
  PROVE  /\ Head(queue[c]).do \in {"exportsuite", "rotate", "owner", "samba"}
         /\ Head(queue[c]).do = "exportsuite" =>
              Tail(queue[c]) = <<Plain("rotate"), Plain("owner"), Plain("samba")>> /\ Agree
         /\ Head(queue[c]).do = "rotate" =>
              Tail(queue[c]) = <<Plain("owner"), Plain("samba")>> /\ Agree
         /\ Head(queue[c]).do = "owner" =>
              /\ Tail(queue[c]) = <<Plain("samba")>> /\ suite = job[c].new
              /\ told # {} \/ (owner = job[c].old /\ samba = job[c].old)
         /\ Head(queue[c]).do = "samba" =>
              /\ Tail(queue[c]) = <<>>
              /\ told # {} \/ (suite = job[c].new /\ owner = job[c].new)
<1>. DEFINE e == Plain("exportsuite")
            r == Plain("rotate")
            o == Plain("owner")
            s == Plain("samba")
<1>1. e.do = "exportsuite" /\ r.do = "rotate" /\ o.do = "owner" /\ s.do = "samba"
  BY DEF Plain
<1>2. \/ queue[c] = <<e, r, o, s>> /\ Agree
      \/ queue[c] = <<r, o, s>> /\ Agree
      \/ /\ queue[c] = <<o, s>> /\ suite = job[c].new
         /\ told # {} \/ (owner = job[c].old /\ samba = job[c].old)
      \/ queue[c] = <<s>> /\ (told # {} \/ (suite = job[c].new /\ owner = job[c].new))
  BY DEF AdminInv, Agree
<1>. HIDE DEF e, r, o, s
<1>3. /\ Head(<<e, r, o, s>>) = e /\ Tail(<<e, r, o, s>>) = <<r, o, s>>
      /\ Head(<<r, o, s>>) = r /\ Tail(<<r, o, s>>) = <<o, s>>
      /\ Head(<<o, s>>) = o /\ Tail(<<o, s>>) = <<s>>
      /\ Head(<<s>>) = s /\ Tail(<<s>>) = <<>>
  OBVIOUS
<1>4. Agree => told # {} \/ (suite = owner /\ owner = samba)
  BY DEF Agree
<1>. DEFINE q == queue[c]
            w1 == <<e, r, o, s>>
            w2 == <<r, o, s>>
            w3 == <<o, s>>
            w4 == <<s>>
            exp == "exportsuite"
            rot == "rotate"
            own == "owner"
            sam == "samba"
<1>5. exp # rot /\ exp # own /\ exp # sam /\ rot # own /\ rot # sam /\ own # sam
  OBVIOUS
<1>. HIDE DEF q, w1, w2, w3, w4, exp, rot, own, sam
<1>6. /\ Head(w1) = e /\ Tail(w1) = w2 /\ Head(w2) = r /\ Tail(w2) = w3
      /\ Head(w3) = o /\ Tail(w3) = w4 /\ Head(w4) = s /\ Tail(w4) = <<>>
  BY <1>3, Zenon DEF w1, w2, w3, w4
<1>7. e.do = exp /\ r.do = rot /\ o.do = own /\ s.do = sam
  BY <1>1, Zenon DEF exp, rot, own, sam
<1>8. \/ q = w1 /\ Agree
      \/ q = w2 /\ Agree
      \/ /\ q = w3 /\ suite = job[c].new
         /\ told # {} \/ (owner = job[c].old /\ samba = job[c].old)
      \/ q = w4 /\ (told # {} \/ (suite = job[c].new /\ owner = job[c].new))
  BY <1>2, Zenon DEF q, w1, w2, w3, w4
<1>9. /\ Head(q).do \in {exp, rot, own, sam}
      /\ Head(q).do = exp => Tail(q) = w2 /\ Agree
      /\ Head(q).do = rot => Tail(q) = w3 /\ Agree
      /\ Head(q).do = own =>
           /\ Tail(q) = w4 /\ suite = job[c].new
           /\ told # {} \/ (owner = job[c].old /\ samba = job[c].old)
      /\ Head(q).do = sam =>
           /\ Tail(q) = <<>> /\ (told # {} \/ (suite = job[c].new /\ owner = job[c].new))
  BY <1>5, <1>6, <1>7, <1>8, Zenon
<1>. QED
  BY <1>9, Zenon DEF q, w2, w3, w4, exp, rot, own, sam, e, r, o, s

LuksDo == {"dump", "verify", "kill", "add", "newkey", "export"}

LEMMA LuksRuns ==
  ASSUME NEW c \in Caller, RequestInv(c), queue[c] # <<>>, Head(queue[c]).do \in LuksDo
  PROVE  job[c] \in LuksJob /\ LuksInv(c) /\ Agree
<1>1. CASE job[c] \in AdminJob /\ AdminInv(c)
  BY <1>1, AdminRuns DEF LuksDo
<1>. QED
  BY <1>1, Zenon DEF RequestInv, Agree

LEMMA AdminOnly ==
  ASSUME DoorConstants, NEW c \in Caller, RequestInv(c), queue[c] # <<>>,
         Head(queue[c]).do \in {"exportsuite", "rotate", "owner", "samba"}
  PROVE  job[c] \in AdminJob /\ AdminInv(c)
<1>1. ASSUME LuksInv(c) PROVE FALSE
  <2>1. ASSUME NEW d \in Device, NEW rest \in After, Works(c, d, rest)
        PROVE  FALSE
    <3>1. rest \in Seq(Entry) /\ Plan(c, d, rest)
      BY <2>1, AfterIsSeq DEF Works
    <3>2. Ahead(c, d, rest)
      BY <3>1, PlanAhead
    <3>. DEFINE do == Head(queue[c]).do
    <3>. DEFINE h == Head(queue[c])
    <3>6. \A x, t : Front(c, x, t) => h = x
      BY DEF Front
    <3>. HIDE DEF h
    <3>7. /\ h = KillNew(d) => h.do = "kill"
          /\ \A at : h = Command("kill", d, at, "new") => h.do = "kill"
          /\ \A s : h = KillOld(d, s) => h.do = "kill"
          /\ \A s, key : h = Add(d, s, key) => h.do = "add"
      BY DEF KillNew, Command, KillOld, Add
    <3>4. /\ \A t : Front(c, KillNew(d), t) => do = "kill"
          /\ \A t, E : Front(c, Command("kill", d, E, "new"), t) => do = "kill"
          /\ \A t, s : Front(c, KillOld(d, s), t) => do = "kill"
          /\ \A t, s, key : Front(c, Add(d, s, key), t) => do = "add"
      BY <3>6, <3>7, Zenon DEF h
    <3>. HIDE DEF do
    <3>5. do = "kill" \/ do = "add"
      BY <3>2, <3>4, Zenon DEF Ahead
    <3>3. Head(queue[c]).do \in {"kill", "add"}
      BY <3>5 DEF do
    <3>. QED
      BY <3>3
  <2>2. ~(\E d \in Device, rest \in After : Looking(c, d, rest))
    BY Dos DEF Looking, Front
  <2>3. /\ ~(\E s \in LookSeq : Front(c, Plain("newkey"), ExportFirst(s)))
        /\ ~(\E s \in LookSeq : Front(c, Plain("export"), s))
    BY DEF Front, Plain
  <2>4. ~(\E s \in LookSeq, d \in Device :
            Front(c, Command("verify", d, {}, "current"), ExportFirst(s)))
    BY Dos DEF Front
  <2>. QED
    BY <1>1, <2>1, <2>2, <2>3, <2>4, LuksForms
<1>. QED
  BY <1>1 DEF RequestInv

\* Slot 0 stays what it was where the caller was not replacing it.
LEMMA ZeroKept ==
  ASSUME OneCaller, SlotZeroHeld, NEW c \in Caller, faults' = faults,
         \A d \in Device : ~Wiping(c, d), \A d \in Device : slots'[d][0] = slots[d][0]
  PROVE  SlotZeroHeld'
BY DEF SlotZeroHeld, OneCaller

LEMMA ZeroFaulty ==
  ASSUME faults, faults' = faults PROVE SlotZeroHeld'
BY DEF SlotZeroHeld

LEMMA NotWiping ==
  ASSUME NEW c \in Caller,
         \/ queue[c] = <<>>
         \/ Head(queue[c]).do \notin {"kill", "add"}
         \/ Head(queue[c]).key # "new"
         \/ 1 \in Head(queue[c]).slots
  PROVE  \A d \in Device : ~Wiping(c, d)
BY DEF Wiping, Working

\* What a request keeps when it is the only one.
LEMMA RequestKept ==
  ASSUME OneCaller, NEW c \in Caller, DoorType', RequestInv(c)', SlotZeroHeld'
  PROVE  DoorInv'
<1>1. \A b \in Caller : RequestInv(b)'
  BY DEF OneCaller
<1>. QED
  BY <1>1 DEF DoorInv

LEMMA TypeKept ==
  ASSUME DoorType, NEW c \in Caller, NEW q \in Seq(Entry), queue' = [queue EXCEPT ![c] = q],
         UNCHANGED <<luks, accounts, job>>
  PROVE  DoorType' /\ queue'[c] = q /\ job'[c] = job[c]
BY DEF DoorType, luks, accounts

\* A refusal leaves the door free; what it says is never taken back.
LEMMA Refused ==
  ASSUME DoorType, NEW c \in Caller, NEW signal, Refuse(c, signal),
         slots' = slots, nas' = nas, suite' \in Password, owner' = owner, samba' = samba,
         Agree'
  PROVE  DoorType' /\ RequestInv(c)'
<1>1. <<>> \in Seq(Entry)
  BY EmptySeq
<1>2. queue' = [queue EXCEPT ![c] = <<>>] /\ job' = [job EXCEPT ![c] = Idle]
  BY DEF Refuse
<1>3. DoorType'
  BY <1>1, <1>2 DEF DoorType
<1>4. queue'[c] = <<>> /\ job'[c] = Idle
  BY <1>2 DEF DoorType
<1>. QED
  BY <1>3, <1>4 DEF RequestInv, Agree

LEMMA RefusedInv ==
  ASSUME OneCaller, DoorInv, NEW c \in Caller, NEW signal, Refuse(c, signal),
         UNCHANGED <<luks, accounts>>, faults' = faults, Agree,
         faults \/ \A d \in Device : ~Wiping(c, d)
  PROVE  DoorInv'
<1>1. Agree'
  BY DEF Agree, Refuse, accounts
<1>2. DoorType' /\ RequestInv(c)'
  BY <1>1, Refused DEF DoorInv, DoorType, luks, accounts
<1>3. SlotZeroHeld'
  BY ZeroKept, ZeroFaulty DEF DoorInv, luks
<1>. QED
  BY <1>2, <1>3, RequestKept

LEMMA FailsInv ==
  ASSUME OneCaller, DoorInv, NEW c \in Caller, NEW signal, Fails(c, signal), faults' = faults,
         Agree
  PROVE  DoorInv'
BY RefusedInv DEF Fails

LEMMA WorksDo ==
  ASSUME DoorConstants, NEW c \in Caller, NEW d \in Device, NEW rest \in After, Works(c, d, rest)
  PROVE  Ahead(c, d, rest) /\ Head(queue[c]).do \in {"kill", "add"}
<1>1. rest \in Seq(Entry) /\ Plan(c, d, rest)
  BY AfterIsSeq DEF Works
<1>2. Ahead(c, d, rest)
  BY <1>1, PlanAhead
<1>. DEFINE h == Head(queue[c])
<1>3. \A x, t : Front(c, x, t) => h = x
  BY DEF Front
<1>. HIDE DEF h
<1>4. /\ h = KillNew(d) => h.do = "kill"
      /\ \A at : h = Command("kill", d, at, "new") => h.do = "kill"
      /\ \A s : h = KillOld(d, s) => h.do = "kill"
      /\ \A s, key : h = Add(d, s, key) => h.do = "add"
  BY DEF KillNew, Command, KillOld, Add
<1>5. h.do = "kill" \/ h.do = "add"
  BY <1>2, <1>3, <1>4, Zenon DEF Ahead
<1>. QED
  BY <1>2, <1>5 DEF h

\* What the command at the head says of the rest of the queue.
LEMMA LuksStep ==
  ASSUME DoorConstants, NEW c \in Caller, LuksInv(c), queue[c] # <<>>
  PROVE  /\ Head(queue[c]).do \in LuksDo
         /\ Head(queue[c]).do = "dump" => \E d \in Device, rest \in After : Looking(c, d, rest)
         /\ Head(queue[c]).do = "newkey" =>
              \E s \in LookSeq : Front(c, Plain("newkey"), ExportFirst(s))
         /\ Head(queue[c]).do = "export" => \E s \in LookSeq : Front(c, Plain("export"), s)
         /\ Head(queue[c]).do = "verify" =>
              \E s \in LookSeq, d \in Device :
                Front(c, Command("verify", d, {}, "current"), ExportFirst(s))
         /\ Head(queue[c]).do \in {"kill", "add"} =>
              \E d \in Device, rest \in After : Works(c, d, rest)
<1>. DEFINE do == Head(queue[c]).do
<1>1. \A d \in Device, rest \in After : Looking(c, d, rest) => do = "dump"
  BY DEF Looking, Front, Look, Command
<1>2. \A s \in LookSeq : Front(c, Plain("newkey"), ExportFirst(s)) => do = "newkey"
  BY DEF Front, Plain
<1>3. \A s \in LookSeq : Front(c, Plain("export"), s) => do = "export"
  BY DEF Front, Plain
<1>4. \A s \in LookSeq, d \in Device :
        Front(c, Command("verify", d, {}, "current"), ExportFirst(s)) => do = "verify"
  BY DEF Front, Command
<1>5. \A d \in Device, rest \in After : Works(c, d, rest) => do \in {"kill", "add"}
  BY WorksDo
<1>6. \/ \E d \in Device, rest \in After : Looking(c, d, rest)
      \/ \E s \in LookSeq : Front(c, Plain("newkey"), ExportFirst(s))
      \/ \E s \in LookSeq : Front(c, Plain("export"), s)
      \/ \E s \in LookSeq, d \in Device :
           Front(c, Command("verify", d, {}, "current"), ExportFirst(s))
      \/ \E d \in Device, rest \in After : Works(c, d, rest)
  BY LuksForms
<1>. DEFINE A == \E d \in Device, rest \in After : Looking(c, d, rest)
            B == \E s \in LookSeq : Front(c, Plain("newkey"), ExportFirst(s))
            C == \E s \in LookSeq : Front(c, Plain("export"), s)
            D == \E s \in LookSeq, d \in Device :
                   Front(c, Command("verify", d, {}, "current"), ExportFirst(s))
            E == \E d \in Device, rest \in After : Works(c, d, rest)
<1>7. /\ A => do = "dump" 
      /\ B => do = "newkey" 
      /\ C => do = "export" 
      /\ D => do = "verify"
      /\ E => do \in {"kill", "add"}
      /\ A \/ B \/ C \/ D \/ E
  BY <1>1, <1>2, <1>3, <1>4, <1>5, <1>6
<1>. HIDE DEF do, A, B, C, D, E
<1>8. /\ do \in LuksDo
      /\ do = "dump" => A
      /\ do = "newkey" => B
      /\ do = "export" => C
      /\ do = "verify" => D
      /\ do \in {"kill", "add"} => E
  BY <1>7 DEF LuksDo
<1>. QED
  BY <1>8, Zenon DEF do, A, B, C, D, E

-----------------------------------------------------------------------------
(* A request begins                                                         *)

LEMMA IdleIsEmpty ==
  ASSUME NEW c \in Caller, RequestInv(c), job[c] = Idle
  PROVE  queue[c] = <<>> /\ Agree
<1>1. job[c] \notin LuksJob /\ job[c] \notin AdminJob
  BY DEF Idle, LuksJob, AdminJob
<1>. QED
  BY <1>1 DEF RequestInv, Agree

LEMMA BeginKeeps ==
  ASSUME OneCaller, DoorInv, NEW c \in Caller, NEW r, NEW q \in Seq(Entry), Begin(c, r, q),
         faults' = faults, r \in LuksJob \cup AdminJob,
         r \in LuksJob => LuksInv(c)', r \in AdminJob => AdminInv(c)'
  PROVE  DoorInv'
<1>1. /\ job[c] = Idle /\ job' = [job EXCEPT ![c] = r] /\ queue' = [queue EXCEPT ![c] = q]
      /\ UNCHANGED <<luks, accounts, told>>
  BY DEF Begin
<1>2. queue[c] = <<>> /\ Agree
  BY <1>1, IdleIsEmpty DEF DoorInv
<1>3. DoorType' /\ job'[c] = r
  BY <1>1 DEF DoorInv, DoorType, luks, accounts
<1>4. Agree'
  BY <1>1, <1>2 DEF Agree, accounts
<1>5. RequestInv(c)'
  BY <1>3, <1>4 DEF RequestInv, Agree
<1>6. SlotZeroHeld'
  BY <1>1, <1>2, NotWiping, ZeroKept DEF DoorInv, luks
<1>. QED
  BY <1>3, <1>5, <1>6, RequestKept

\* What newkey.sh comes before is no sequence of devices to look at.
LEMMA NewKeyIsNoLook ==
  ASSUME DoorConstants, NEW s \in LookSeq
  PROVE  NewKeyFirst(s) \notin LookSeq /\ NewKeyFirst(s) \in After
<1>. DEFINE t == NewKeyFirst(s)
<1>1. SUFFICES ASSUME t \in Seq(Looks) PROVE FALSE
  BY DEF LookSeq, After
<1>2. t # <<>> /\ t[1] = Plain("newkey")
  BY Lates
<1>. HIDE DEF t
<1>3. t[1] \in Looks
  BY <1>1, <1>2, Uncons
<1>4. PICK e \in Device : t[1] = Look(e)
  BY <1>3 DEF Looks
<1>5. Look(e).do = "dump" /\ Plain("newkey").do = "newkey"
  BY DEF Look, Command, Plain
<1>. QED
  BY <1>2, <1>4, <1>5

LEMMA LookSeqs ==
  ASSUME NEW d \in Device
  PROVE  <<Look(d)>> \in LookSeq /\ \A e \in Device : <<Look(d), Look(e)>> \in LookSeq
BY DEF LookSeq, Looks

LEMMA RequestIsJob ==
  ASSUME NEW action \in {"create-vault", "create-external", "create-both", "update"},
         NEW strategy \in Strategy, NEW slot \in Slot, NEW p \in Password, NEW current \in Current
  PROVE  /\ Request(action, strategy, slot, p, current) \in LuksJob
         /\ Request(action, strategy, slot, p, current) \notin AdminJob
         /\ Request(action, strategy, slot, p, current).action = action
BY DEF Request, LuksJob, AdminJob

LEMMA VaultBegins ==
  ASSUME DoorConstants, OneCaller, DoorInv, NEW c \in Caller, CreateVault(c), faults' = faults
  PROVE  DoorInv'
<1>1. PICK strategy \in Strategy, slot \in Slot, p \in Password, current \in Current, d \in Device :
        Begin(c, Request("create-vault", strategy, slot, p, current), <<Look(d)>>)
  BY DEF CreateVault
<1>. DEFINE r == Request("create-vault", strategy, slot, p, current)
            q == <<Look(d)>>
<1>2. r \in LuksJob /\ r \notin AdminJob /\ r.action = "create-vault"
  BY RequestIsJob
<1>3. q \in LookSeq /\ q \in Seq(Entry) /\ q \in After
  BY LookSeqs, Lates DEF After
<1>. HIDE DEF r, q
<1>4. Begin(c, r, q)
  BY <1>1 DEF r, q
<1>5. queue'[c] = q /\ job'[c] = r
  BY <1>4 DEF Begin, DoorInv, DoorType
<1>6. LuksInv(c)'
  BY <1>2, <1>3, <1>5 DEF LuksInv, Follow
<1>. QED
  BY <1>2, <1>3, <1>4, <1>6, BeginKeeps

LEMMA PlainEntries == Plain("newkey") \in Entry /\ Plain("export") \in Entry
BY DEF Entry, Account, Plain

LEMMA Pair ==
  ASSUME NEW T, NEW a \in T, NEW b \in T
  PROVE  <<a>> \in Seq(T) /\ <<a, b>> \in Seq(T) /\ <<a>> \o <<b>> = <<a, b>>
<1>. DEFINE w == <<b>>
            t == <<a>> \o w
            u == <<a, b>>
<1>1. w \in Seq(T)
  OBVIOUS
<1>2. Len(w) = 1 /\ w[1] = b
  OBVIOUS
<1>3. u \in Seq(T) /\ Len(u) = 2 /\ u[1] = a /\ u[2] = b
  OBVIOUS
<1>. HIDE DEF w, u
<1>4. /\ t \in Seq(T) /\ DOMAIN t = 1 .. Len(w) + 1 /\ t[1] = a
      /\ \A i \in 1 .. Len(w) : t[i + 1] = w[i]
  BY <1>1, Cons
<1>. HIDE DEF t
<1>5. Len(t) \in Nat /\ DOMAIN t = 1 .. Len(t)
  BY <1>4, LenProperties
<1>6. Len(t) = 2
  BY <1>2, <1>4, <1>5
<1>7. \A i \in 1 .. Len(t) : t[i] = u[i]
  BY <1>2, <1>3, <1>4, <1>6
<1>8. t = u
  BY <1>3, <1>4, <1>6, <1>7, SeqEqual
<1>9. <<a>> \in Seq(T)
  OBVIOUS
<1>. QED
  BY <1>3, <1>8, <1>9 DEF t, u, w

LEMMA Triple ==
  ASSUME NEW T, NEW a \in T, NEW b \in T, NEW x \in T
  PROVE  <<x>> \o <<a, b>> = <<x, a, b>>
<1>. DEFINE w == <<a, b>>
            t == <<x>> \o w
            u == <<x, a, b>>
<1>1. w \in Seq(T)
  OBVIOUS
<1>2. Len(w) = 2 /\ w[1] = a /\ w[2] = b
  OBVIOUS
<1>3. u \in Seq(T) /\ Len(u) = 3 /\ u[1] = x /\ u[2] = a /\ u[3] = b
  OBVIOUS
<1>. HIDE DEF w, u
<1>4. /\ t \in Seq(T) /\ DOMAIN t = 1 .. Len(w) + 1 /\ t[1] = x
      /\ \A i \in 1 .. Len(w) : t[i + 1] = w[i]
  BY <1>1, Cons
<1>. HIDE DEF t
<1>5. Len(t) \in Nat /\ DOMAIN t = 1 .. Len(t)
  BY <1>4, LenProperties
<1>6. Len(t) = 3
  BY <1>2, <1>4, <1>5
<1>7. \A i \in 1 .. Len(t) : t[i] = u[i]
  BY <1>2, <1>3, <1>4, <1>6
<1>8. t = u
  BY <1>3, <1>4, <1>6, <1>7, SeqEqual
<1>. QED
  BY <1>8 DEF t, u, w

LEMMA Twofold ==
  ASSUME NEW T, NEW a \in T, NEW b \in T, NEW s \in Seq(T)
  PROVE  <<a, b>> \o s = <<a>> \o (<<b>> \o s)
<1>1. <<a>> \in Seq(T) /\ <<b>> \in Seq(T)
  BY Pair
<1>. DEFINE u == <<a>>
            v == <<b>>
<1>2. u \in Seq(T) /\ v \in Seq(T)
  BY <1>1
<1>. HIDE DEF u, v
<1>3. (u \o v) \o s = u \o (v \o s)
  BY <1>2, ConcatAssociative
<1>4. u \o v = <<a, b>>
  BY Pair DEF u, v
<1>. QED
  BY <1>3, <1>4, Zenon DEF u, v

LEMMA ExternalBegins ==
  ASSUME DoorConstants, OneCaller, DoorInv, NEW c \in Caller, CreateExternal(c), faults' = faults
  PROVE  DoorInv'
<1>1. PICK strategy \in Strategy, slot \in Slot, p \in Password, current \in Current,
           d \in Device, e \in Device :
        \E looks \in {<<Look(d)>>, <<Look(d), Look(e)>>} :
          Begin(c, Request("create-external", strategy, slot, p, current),
                <<Plain("newkey"), Plain("export")>> \o looks)
  BY DEF CreateExternal
<1>2. PICK looks \in LookSeq :
        Begin(c, Request("create-external", strategy, slot, p, current),
              <<Plain("newkey"), Plain("export")>> \o looks)
  BY <1>1, LookSeqs
<1>. DEFINE r == Request("create-external", strategy, slot, p, current)
            q == NewKeyFirst(looks)
<1>3. r \in LuksJob /\ r \notin AdminJob
  BY RequestIsJob
<1>4. <<Plain("newkey"), Plain("export")>> \o looks = q
  <2>. DEFINE a == Plain("newkey")
              b == Plain("export")
  <2>1. a \in Entry /\ b \in Entry /\ looks \in Seq(Entry)
    BY Lates, PlainEntries
  <2>. HIDE DEF a, b
  <2>2. <<a, b>> \o looks = <<a>> \o (<<b>> \o looks)
    BY <2>1, Twofold
  <2>. QED
    BY <2>2 DEF a, b, NewKeyFirst
<1>5. q \notin LookSeq /\ q \in After /\ q \in Seq(Entry)
  BY NewKeyIsNoLook, Lates
<1>6. Begin(c, r, q)
  BY <1>2, <1>4
<1>. HIDE DEF r, q
<1>7. queue'[c] = q
  BY <1>6 DEF Begin, DoorInv, DoorType
<1>8. LuksInv(c)'
  BY <1>5, <1>7 DEF LuksInv, Follow
<1>. QED
  BY <1>3, <1>5, <1>6, <1>8, BeginKeeps

LEMMA BothBegins ==
  ASSUME DoorConstants, OneCaller, DoorInv, NEW c \in Caller, CreateBoth(c), faults' = faults
  PROVE  DoorInv'
<1>1. PICK strategy \in Strategy, slot \in Slot, p \in Password, current \in Current,
           d \in Device, e \in Device :
        Begin(c, Request("create-both", strategy, slot, p, current),
              <<Look(d), Plain("newkey"), Plain("export")>> \o
              IF e = d THEN <<>> ELSE <<Look(e)>>)
  BY DEF CreateBoth
<1>. DEFINE looks == IF e = d THEN <<>> ELSE <<Look(e)>>
            r == Request("create-both", strategy, slot, p, current)
            t == NewKeyFirst(looks)
            x == Look(d)
            q == <<x>> \o t
<1>2. looks \in LookSeq
  BY LookSeqs, AfterIsSeq
<1>3. r \in LuksJob /\ r \notin AdminJob
  BY RequestIsJob
<1>. HIDE DEF looks
<1>4. <<Look(d), Plain("newkey"), Plain("export")>> \o looks = q
  <2>. DEFINE a == Plain("newkey")
              b == Plain("export")
  <2>1. a \in Entry /\ b \in Entry /\ x \in Entry /\ looks \in Seq(Entry)
    BY <1>2, Lates, PlainEntries, Entries
  <2>. HIDE DEF a, b, x
  <2>. DEFINE u == <<x>>
              v == <<a, b>>
  <2>2. u \in Seq(Entry) /\ v \in Seq(Entry)
    BY <2>1, Pair
  <2>3. u \o v = <<x, a, b>>
    BY <2>1, Triple
  <2>4. v \o looks = <<a>> \o (<<b>> \o looks)
    BY <2>1, Twofold
  <2>. HIDE DEF u, v
  <2>5. (u \o v) \o looks = u \o (v \o looks)
    BY <2>1, <2>2, ConcatAssociative
  <2>. QED
    BY <2>3, <2>4, <2>5, Zenon DEF a, b, x, u, NewKeyFirst
<1>5. x \in Entry /\ t \in Seq(Entry)
  BY <1>2, Lates, Entries
<1>6. q \in Seq(Entry)
  <2>. HIDE DEF x, t
  <2>. QED
    BY <1>5, Cons
<1>7. Begin(c, r, q)
  BY <1>1, <1>4 DEF looks
<1>. HIDE DEF r, q
<1>8. queue'[c] = q
  BY <1>7 DEF Begin, DoorInv, DoorType
<1>9. LuksInv(c)'
  BY <1>2, <1>8 DEF LuksInv, q
<1>. QED
  BY <1>3, <1>6, <1>7, <1>9, BeginKeeps

LEMMA UpdateBegins ==
  ASSUME DoorConstants, OneCaller, DoorInv, NEW c \in Caller, Update(c), faults' = faults
  PROVE  DoorInv'
<1>1. PICK strategy \in Strategy, slot \in Slot, d \in Device, old \in Password :
        Begin(c, Request("update", strategy, slot, old, [e \in Device |-> old]),
              <<Command("verify", d, {}, "current"), Plain("export"), Look(d)>>)
  BY DEF Update
<1>. DEFINE r == Request("update", strategy, slot, old, [e \in Device |-> old])
            s == <<Look(d)>>
            x == Command("verify", d, {}, "current")
            p == Plain("export")
            q == <<x>> \o ExportFirst(s)
<1>2. [e \in Device |-> old] \in Current
  BY DEF Current
<1>3. r \in LuksJob /\ r \notin AdminJob
  BY <1>2, RequestIsJob
<1>4. s \in LookSeq /\ x \in Entry /\ p \in Entry /\ ExportFirst(s) \in Seq(Entry)
  BY LookSeqs, Entries, Lates
<1>5. <<x, p, Look(d)>> = q
  <2>. DEFINE l == Look(d)
  <2>. HIDE DEF l, x, p
  <2>1. x \in Entry /\ p \in Entry /\ l \in Entry
    BY <1>4, Entries DEF l
  <2>2. <<x>> \o <<p, l>> = <<x, p, l>> /\ <<p>> \o <<l>> = <<p, l>>
    BY <2>1, Pair, Triple
  <2>. QED
    BY <2>2 DEF l, ExportFirst, p
<1>6. q \in Seq(Entry)
  <2>. HIDE DEF x, s
  <2>. QED
    BY <1>4, Cons
<1>7. Begin(c, r, q)
  BY <1>1, <1>5
<1>. HIDE DEF r, q
<1>8. queue'[c] = q
  BY <1>7 DEF Begin, DoorInv, DoorType
<1>9. LuksInv(c)'
  BY <1>4, <1>8 DEF LuksInv, q
<1>. QED
  BY <1>3, <1>6, <1>7, <1>9, BeginKeeps

LEMMA AdminBegins ==
  ASSUME DoorConstants, OneCaller, DoorInv, NEW c \in Caller, AdminPassword(c), faults' = faults
  PROVE  DoorInv'
<1>1. PICK old \in Password, new \in Password :
        Begin(c, [action |-> "admin-password", old |-> old, new |-> new],
              <<Plain("exportsuite"), Plain("rotate"), Plain("owner"), Plain("samba")>>)
  BY DEF AdminPassword
<1>. DEFINE r == [action |-> "admin-password", old |-> old, new |-> new]
            q == <<Plain("exportsuite"), Plain("rotate"), Plain("owner"), Plain("samba")>>
<1>2. r \in AdminJob /\ r \notin LuksJob
  BY DEF AdminJob, LuksJob
<1>3. q \in Seq(Entry)
  BY DEF Entry, Account, Plain
<1>4. Begin(c, r, q)
  BY <1>1
<1>. HIDE DEF r
<1>5. queue'[c] = q /\ UNCHANGED <<luks, accounts, told>> /\ job[c] = Idle
  <2>. HIDE DEF q
  <2>. QED
    BY <1>4 DEF Begin, DoorInv, DoorType
<1>6. Agree'
  BY <1>5, IdleIsEmpty DEF DoorInv, Agree, accounts
<1>7. AdminInv(c)'
  BY <1>5, <1>6 DEF AdminInv, Agree
<1>. HIDE DEF q
<1>. QED
  BY <1>2, <1>3, <1>4, <1>7, BeginKeeps

-----------------------------------------------------------------------------
(* luksDump                                                                 *)

LEMMA Onto ==
  ASSUME NEW T, NEW X \in Seq(T), NEW y \in Seq(T), NEW z \in Seq(T)
  PROVE  (X \o y) \o z = X \o (y \o z) /\ X \o y \in Seq(T)
BY ConcatAssociative, ConcatProperties

LEMMA KillAlls ==
  ASSUME DoorConstants, NEW d \in Device, NEW E \in SUBSET Slot, NEW s \in Slot
  PROVE  /\ KillAll(d, E, "current") \in Seq(Entry) /\ KillAll(d, E, "new") \in Seq(Entry)
         /\ KillAll(d, {}, "current") = <<>>
         /\ Kill(d, s, "current") = <<KillOld(d, s)>>
         /\ Kill(d, 1, "new") = <<KillNew(d)>>
<1>1. Command("kill", d, E, "current") \in Entry /\ Command("kill", d, E, "new") \in Entry
  BY DEF Entry, Slotted, Command
<1>. DEFINE a == Command("kill", d, E, "current")
            b == Command("kill", d, E, "new")
<1>2. /\ KillAll(d, E, "current") = IF E = {} THEN <<>> ELSE <<a>>
      /\ KillAll(d, E, "new") = IF E = {} THEN <<>> ELSE <<b>>
  BY DEF KillAll
<1>3. a \in Entry /\ b \in Entry
  BY <1>1
<1>. HIDE DEF a, b
<1>4. <<>> \in Seq(Entry) /\ <<a>> \in Seq(Entry) /\ <<b>> \in Seq(Entry)
  BY <1>3, EmptySeq, Pair
<1>5. KillAll(d, E, "current") \in Seq(Entry) /\ KillAll(d, E, "new") \in Seq(Entry)
  BY <1>2, <1>4
<1>. QED
  BY <1>5 DEF KillAll, Kill, KillOld, KillNew

\* The commands for a device are a plan, from the slots that were read.
LEMMA PrimaryIsPlan ==
  ASSUME DoorConstants, DoorType, NEW c \in Caller, NEW d \in Device, NEW rest \in Seq(Entry),
         queue' = [queue EXCEPT ![c] = Primary(d, Enabled(d)) \o rest],
         UNCHANGED <<slots, job>>
  PROVE  Plan(c, d, rest)' /\ queue'[c] \in Seq(Entry)
<1>00. Enabled(d) \in SUBSET Slot
  BY DEF Enabled
<1>01. PICK E \in SUBSET Slot : E = Enabled(d)
  BY <1>00
<1>. DEFINE F == E \ {1}
            A == KillAll(d, E \cap {1}, "current")
            x == Add(d, 1, "current")
            a == <<x>>
            K == KillAll(d, F, "new")
            z == <<Add(d, 0, "new")>>
            W == <<KillNew(d)>>
            S == Settle(d, F, rest)
<1>0. E \in SUBSET Slot /\ F \in SUBSET Slot /\ 0 \in Slot /\ 1 \in Slot
  BY DEF DoorConstants
<1>1. Doomed(d, F)'
  BY <1>0, <1>01 DEF Doomed, Enabled
<1>2. x \in Entry /\ Add(d, 0, "new") \in Entry /\ KillNew(d) \in Entry
  BY <1>0, Entries
<1>3. a \in Seq(Entry) /\ z \in Seq(Entry) /\ W \in Seq(Entry)
  <2>. DEFINE y == Add(d, 0, "new")
              v == KillNew(d)
  <2>. HIDE DEF x, y, v
  <2>1. <<x>> \in Seq(Entry) /\ <<y>> \in Seq(Entry) /\ <<v>> \in Seq(Entry)
    BY <1>2, Pair DEF y, v
  <2>. QED
    BY <2>1 DEF y, v
<1>4. A \in Seq(Entry) /\ K \in Seq(Entry)
  BY <1>0, KillAlls
<1>5. S = K \o (z \o (W \o rest)) /\ S \in Seq(Entry)
  BY <1>0, Settles DEF Settle
<1>6. Primary(d, E) \o rest = A \o (a \o S)
  <2>1. Primary(d, E) = A \o a \o K \o z \o W
    BY <1>0, KillAlls DEF Primary
  <2>. HIDE DEF A, a, K, z, W, S
  <2>. DEFINE Xa == A \o a
              XK == Xa \o K
              Xz == XK \o z
              R == W \o rest
              Rz == z \o R
              RK == K \o Rz
  <2>2. Xa \in Seq(Entry)
    BY <1>3, <1>4, Onto
  <2>3. R \in Seq(Entry)
    BY <1>3, Onto
  <2>. HIDE DEF Xa, R
  <2>4. XK \in Seq(Entry)
    BY <1>4, <2>2, Onto
  <2>5. Rz \in Seq(Entry)
    BY <1>3, <2>3, Onto
  <2>. HIDE DEF XK, Rz
  <2>6. Xz \in Seq(Entry)
    BY <1>3, <2>4, Onto
  <2>7. RK \in Seq(Entry)
    BY <1>4, <2>5, Onto
  <2>. HIDE DEF Xz, RK
  <2>8. a \in Seq(Entry)
    BY <1>3
  <2>9. z \in Seq(Entry)
    BY <1>3
  <2>10. W \in Seq(Entry)
    BY <1>3
  <2>11. A \in Seq(Entry)
    BY <1>4
  <2>12. K \in Seq(Entry)
    BY <1>4
  <2>13. (Xz \o W) \o rest = Xz \o (W \o rest)
    BY <2>6, <2>10, ConcatAssociative
  <2>14. (XK \o z) \o R = XK \o (z \o R)
    BY <2>3, <2>4, <2>9, ConcatAssociative
  <2>15. (Xa \o K) \o Rz = Xa \o (K \o Rz)
    BY <2>2, <2>5, <2>12, ConcatAssociative
  <2>16. (A \o a) \o RK = A \o (a \o RK)
    BY <2>7, <2>8, <2>11, ConcatAssociative
  <2>17. (A \o a \o K \o z \o W) \o rest = A \o (a \o (K \o (z \o (W \o rest))))
    BY <2>13, <2>14, <2>15, <2>16, Zenon DEF Xa, XK, Xz, R, Rz, RK
  <2>18. S = K \o (z \o (W \o rest))
    BY <1>5
  <2>. QED
    BY <2>1, <2>17, <2>18, Zenon
<1>7. queue'[c] = A \o (a \o S)
  BY <1>01, <1>6 DEF DoorType
<1>8. a \o S \in Seq(Entry)
  <2>. HIDE DEF a, S
  <2>. QED
    BY <1>3, <1>5, Onto
<1>9. CASE 1 \in E
  <2>1. A = <<KillOld(d, 1)>>
    <3>1. E \cap {1} = {1}
      BY <1>9
    <3>. QED
      BY <3>1, KillAlls, <1>0 DEF Kill
  <2>2. queue'[c] = <<KillOld(d, 1)>> \o (<<Add(d, 1, "current")>> \o Settle(d, F, rest))
    BY <1>7, <2>1
  <2>3. Plan(c, d, rest)'
    <3>1. F \in SUBSET Slot
      BY <1>0
    <3>. HIDE DEF F
    <3>. QED
      BY <1>1, <2>2, <3>1, Zenon DEF Plan, Doomed
  <2>4. queue'[c] \in Seq(Entry)
    <3>. HIDE DEF A, a, S
    <3>. DEFINE t == a \o S
    <3>. HIDE DEF t
    <3>1. A \o t \in Seq(Entry)
      BY <1>4, <1>8, Onto DEF t
    <3>. QED
      BY <1>7, <3>1 DEF t
  <2>. QED
    BY <2>3, <2>4
<1>10. CASE 1 \notin E
  <2>1. A = <<>>
    <3>1. E \cap {1} = {}
      BY <1>10
    <3>. QED
      BY <3>1, KillAlls, <1>0
  <2>2. queue'[c] = a \o S
    <3>. HIDE DEF a, S
    <3>. DEFINE t == a \o S
    <3>. HIDE DEF t
    <3>1. <<>> \o t = t
      BY <1>8, ConcatEmptySeq DEF t
    <3>. QED
      BY <1>7, <2>1, <3>1 DEF t
  <2>3. Plan(c, d, rest)'
    <3>1. F \in SUBSET Slot
      BY <1>0
    <3>. HIDE DEF F
    <3>. QED
      BY <1>1, <2>2, <3>1, Zenon DEF Plan, Doomed
  <2>. QED
    BY <1>8, <2>2, <2>3
<1>. QED
  BY <1>9, <1>10

LEMMA OneSlotIsPlan ==
  ASSUME DoorConstants, DoorType, NEW c \in Caller, NEW d \in Device, NEW rest \in Seq(Entry),
         NEW s \in Slot \ {0}, NEW K,
         K = <<>> \/ K = <<KillOld(d, s)>>,
         queue' = [queue EXCEPT ![c] = (K \o <<Add(d, s, "current")>>) \o rest],
         UNCHANGED <<slots, job>>
  PROVE  Plan(c, d, rest)' /\ queue'[c] \in Seq(Entry)
<1>. DEFINE k == KillOld(d, s)
            x == Add(d, s, "current")
<1>1. k \in Entry /\ x \in Entry
  BY Entries
<1>2. K = <<>> \/ K = <<k>>
  OBVIOUS
<1>3. queue'[c] = (K \o <<x>>) \o rest
  BY DEF DoorType
<1>. HIDE DEF k, x
<1>4. <<x>> \in Seq(Entry) /\ <<k>> \in Seq(Entry) /\ <<>> \in Seq(Entry)
  BY <1>1, Pair, EmptySeq
<1>. DEFINE a == <<x>>
            b == <<k>>
            t == a \o rest
<1>5. a \in Seq(Entry) /\ b \in Seq(Entry) /\ K \in Seq(Entry)
  BY <1>2, <1>4
<1>. HIDE DEF a, b
<1>10. a \in Seq(Entry)
  BY <1>5
<1>11. K \in Seq(Entry)
  BY <1>5
<1>6. (K \o a) \o rest = K \o (a \o rest) /\ t \in Seq(Entry)
  BY <1>10, <1>11, Onto, SMTT(30)
<1>. HIDE DEF t
<1>7. queue'[c] = K \o t
  BY <1>3, <1>6 DEF t, a
<1>8. CASE K = <<>>
  <2>1. <<>> \o t = t
    BY <1>6, ConcatEmptySeq
  <2>2. queue'[c] = t
    BY <1>7, <1>8, <2>1
  <2>. QED
    BY <1>6, <2>2 DEF Plan, t, a, x
<1>9. CASE K = <<k>>
  <2>1. b \o t \in Seq(Entry)
    BY <1>5, <1>6, Onto
  <2>2. queue'[c] = b \o t
    BY <1>7, <1>9 DEF b
  <2>. QED
    BY <2>1, <2>2 DEF Plan, t, a, b, x, k
<1>. QED
  BY <1>2, <1>8, <1>9

LEMMA CommandsArePlans ==
  ASSUME DoorConstants, DoorType, NEW c \in Caller, NEW d \in Device, NEW rest \in Seq(Entry),
         job[c] \in LuksJob, NEW commands \in Commands(job[c], d, Enabled(d)),
         queue' = [queue EXCEPT ![c] = commands \o rest], UNCHANGED <<slots, job>>
  PROVE  Plan(c, d, rest)' /\ queue'[c] \in Seq(Entry)
<1>0. Enabled(d) \subseteq Slot /\ 1 \in Slot \ {0}
  BY DEF Enabled, DoorConstants
<1>1. CASE job[c].strategy = "replace_primary"
  <2>1. commands = Primary(d, Enabled(d))
    BY <1>1 DEF Commands
  <2>. QED
    BY <2>1, PrimaryIsPlan
<1>2. CASE job[c].strategy = "safe_rotation"
  <2>1. commands = Rotation(d, Enabled(d))
    BY <1>2 DEF Commands
  <2>. DEFINE K == KillAll(d, Enabled(d) \cap {1}, "current")
  <2>2. K = <<>> \/ K = <<KillOld(d, 1)>>
    <3>1. CASE 1 \in Enabled(d)
      <4>1. Enabled(d) \cap {1} = {1}
        BY <3>1
      <4>. QED
        BY <4>1, <1>0, KillAlls DEF Kill
    <3>2. CASE 1 \notin Enabled(d)
      <4>1. Enabled(d) \cap {1} = {}
        BY <3>2
      <4>. QED
        BY <4>1, <1>0, KillAlls
    <3>. QED
      BY <3>1, <3>2
  <2>3. commands = K \o <<Add(d, 1, "current")>>
    BY <2>1 DEF Rotation
  <2>. HIDE DEF K
  <2>. QED
    BY <1>0, <2>2, <2>3, OneSlotIsPlan
<1>3. CASE job[c].strategy \notin {"replace_primary", "safe_rotation"}
  <2>1. PICK s \in Targets(job[c], Enabled(d)) : commands = Flexible(d, s)
    BY <1>3 DEF Commands
  <2>2. s \in Slot \ {0}
    BY <1>0 DEF Targets, LuksJob
  <2>3. commands = <<KillOld(d, s)>> \o <<Add(d, s, "current")>>
    BY <2>1, <2>2, KillAlls DEF Flexible
  <2>. DEFINE K == <<KillOld(d, s)>>
  <2>4. K = <<KillOld(d, s)>>
    OBVIOUS
  <2>5. commands = K \o <<Add(d, s, "current")>>
    BY <2>3
  <2>. HIDE DEF K
  <2>. QED
    BY <2>2, <2>4, <2>5, OneSlotIsPlan
<1>. QED
  BY <1>1, <1>2, <1>3

LEMMA DumpKeeps ==
  ASSUME DoorConstants, OneCaller, DoorInv, NEW c \in Caller, Dump(c), faults' = faults
  PROVE  DoorInv'
<1>1. queue[c] # <<>> /\ Head(queue[c]).do = "dump" /\ DoorType
  BY DEF Dump, Running, DoorInv
<1>2. job[c] \in LuksJob /\ LuksInv(c) /\ Agree
  BY <1>1, LuksRuns DEF DoorInv, LuksDo
<1>3. PICK d \in Device, rest \in After : Looking(c, d, rest)
  BY <1>1, <1>2, LuksStep
<1>4. /\ Head(queue[c]) = Look(d) /\ Tail(queue[c]) = rest /\ rest \in Seq(Entry)
      /\ Head(queue[c]).dev = d
  BY <1>3, AfterIsSeq DEF Looking, Front, Look, Command
<1>5. \A e \in Device : ~Wiping(c, e)
  BY <1>1, NotWiping
<1>6. ASSUME Fails(c, "dump") PROVE DoorInv'
  BY <1>2, <1>6, FailsInv
<1>7. ASSUME Refuse(c, "device") /\ UNCHANGED <<luks, accounts>> PROVE DoorInv'
  BY <1>2, <1>5, <1>7, RefusedInv
<1>8. ASSUME NEW commands \in Commands(job[c], d, Enabled(d)), job[c].current[d] # Empty,
             queue' = [queue EXCEPT ![c] = commands \o rest],
             UNCHANGED <<luks, accounts, job, told>>
      PROVE  DoorInv'
  <2>1. Plan(c, d, rest)' /\ queue'[c] \in Seq(Entry)
    BY <1>1, <1>2, <1>4, <1>8, CommandsArePlans DEF luks
  <2>2. DoorType'
    <3>. DEFINE q == commands \o rest
    <3>1. q \in Seq(Entry)
      BY <1>1, <1>8, <2>1 DEF DoorType
    <3>. HIDE DEF q
    <3>. QED
      BY <1>1, <1>8, <3>1, TypeKept DEF q
  <2>3. Works(c, d, rest)'
    BY <2>1, <1>3, <1>8 DEF Works, Looking, Follow, luks
  <2>4. LuksInv(c)'
    BY <2>3 DEF LuksInv
  <2>5. RequestInv(c)'
    BY <1>2, <1>8, <2>4 DEF RequestInv, Agree, accounts
  <2>6. SlotZeroHeld'
    BY <1>5, <1>8, ZeroKept DEF DoorInv, luks
  <2>. QED
    BY <2>2, <2>5, <2>6, RequestKept
<1>9. \/ Fails(c, "dump")
      \/ Refuse(c, "device") /\ UNCHANGED <<luks, accounts>>
      \/ \E commands \in IF job[c].current[d] = Empty THEN {}
                         ELSE Commands(job[c], d, Enabled(d)) :
           /\ queue' = [queue EXCEPT ![c] = commands \o rest]
           /\ UNCHANGED <<luks, accounts, job, told>>
  BY <1>4 DEF Dump
<1>. QED
  BY <1>6, <1>7, <1>8, <1>9

-----------------------------------------------------------------------------
(* luksKillSlot                                                             *)

\* What luksKillSlot comes to where the loop over the slots of at begins.
Killing(c, d, at, key, rest) ==
  \E s \in at :
    /\ \A t \in at : s <= t
    /\ \/ /\ Killable(d, s, IF key = "current" THEN job[c].current[d] ELSE job[c].new[d])
          /\ slots' = [slots EXCEPT ![d][s] = Empty]
          /\ queue' = [queue EXCEPT ![c] = KillAll(d, at \ {s}, key) \o rest]
          /\ UNCHANGED <<nas, accounts, job, told>>
       \/ /\ ~Killable(d, s, IF key = "current" THEN job[c].current[d] ELSE job[c].new[d])
          /\ Refuse(c, "slot-remove") /\ UNCHANGED <<luks, accounts>>
       \/ Fails(c, "slot-remove")

LEMMA KillParts ==
  ASSUME NEW c \in Caller, KillSlot(c), NEW d, NEW at, NEW key, NEW rest,
         Front(c, Command("kill", d, at, key), rest)
  PROVE  Killing(c, d, at, key, rest)
<1>. DEFINE k == Head(queue[c])
<1>0. k = Command("kill", d, at, key) /\ Tail(queue[c]) = rest
  BY Zenon DEF Front
<1>. HIDE DEF k
<1>1. k.dev = d /\ k.slots = at /\ k.key = key /\ Tail(queue[c]) = rest
  BY <1>0 DEF Command
<1>2. Secret(c, k) = IF key = "current" THEN job[c].current[d] ELSE job[c].new[d]
  BY <1>1, SMTT(30) DEF Secret
<1>3. \E s \in k.slots :
          /\ \A t \in k.slots : s <= t
          /\ \/ /\ Killable(k.dev, s, Secret(c, k))
                /\ slots' = [slots EXCEPT ![k.dev][s] = Empty]
                /\ queue' = [queue EXCEPT
                     ![c] = KillAll(k.dev, k.slots \ {s}, k.key) \o Tail(@)]
                /\ UNCHANGED <<nas, accounts, job, told>>
             \/ /\ ~Killable(k.dev, s, Secret(c, k))
                /\ Refuse(c, "slot-remove") /\ UNCHANGED <<luks, accounts>>
             \/ Fails(c, "slot-remove")
  BY Zenon DEF KillSlot, k
<1>4. PICK s \in at :
          /\ \A t \in at : s <= t
          /\ \/ /\ Killable(d, s, Secret(c, k))
                /\ slots' = [slots EXCEPT ![d][s] = Empty]
                /\ queue' = [queue EXCEPT ![c] = KillAll(d, at \ {s}, key) \o Tail(queue[c])]
                /\ UNCHANGED <<nas, accounts, job, told>>
             \/ /\ ~Killable(d, s, Secret(c, k))
                /\ Refuse(c, "slot-remove") /\ UNCHANGED <<luks, accounts>>
             \/ Fails(c, "slot-remove")
  BY <1>1, <1>3, Zenon
<1>. QED
  BY <1>1, <1>2, <1>4, Zenon DEF Killing

\* After the last key went from a slot of its own.
LEMMA KillOneKeeps ==
  ASSUME DoorConstants, OneCaller, DoorInv, NEW c \in Caller, KillSlot(c), faults' = faults,
         job[c] \in LuksJob, Agree,
         NEW d \in Device, NEW s \in Slot \ {0}, NEW key \in {"current", "new"},
         NEW rest \in Seq(Entry),
         Front(c, Command("kill", d, {s}, key), rest), \A e \in Device : ~Wiping(c, e),
         /\ queue'[c] = rest /\ UNCHANGED <<nas, job>>
         /\ \A t \in Slot \ {s} : slots'[d][t] = slots[d][t]
         => LuksInv(c)'
  PROVE  DoorInv'
<1>1. ASSUME Fails(c, "slot-remove") PROVE DoorInv'
  BY <1>1, FailsInv
<1>2. ASSUME Refuse(c, "slot-remove") /\ UNCHANGED <<luks, accounts>> PROVE DoorInv'
  BY <1>2, RefusedInv
<1>3. ASSUME slots' = [slots EXCEPT ![d][s] = Empty],
             queue' = [queue EXCEPT ![c] = KillAll(d, {s} \ {s}, key) \o rest],
             UNCHANGED <<nas, accounts, job, told>>
      PROVE  DoorInv'
  <2>1. KillAll(d, {s} \ {s}, key) = <<>>
    BY DEF KillAll
  <2>2. <<>> \o rest = rest
    BY ConcatEmptySeq
  <2>3. queue' = [queue EXCEPT ![c] = rest]
    BY <1>3, <2>1, <2>2
  <2>4. DoorType
    BY DEF DoorInv
  <2>5. /\ DoorType' /\ queue'[c] = rest
        /\ \A e \in Device, t \in Slot : e # d \/ t # s => slots'[e][t] = slots[e][t]
        /\ Agree'
    <3>1. slots' = [slots EXCEPT ![d][s] = Empty] /\ UNCHANGED <<nas, accounts, job, told>>
      BY <1>3
    <3>. QED
      BY <3>1, <2>3, <2>4 DEF DoorType, Agree, accounts
  <2>6. LuksInv(c)'
    BY <1>3, <2>5
  <2>7. RequestInv(c)'
    BY <1>3, <2>5, <2>6 DEF RequestInv, Agree
  <2>8. \A e \in Device : slots'[e][0] = slots[e][0]
    BY <2>5 DEF DoorConstants
  <2>9. SlotZeroHeld'
    BY <2>8, ZeroKept DEF DoorInv
  <2>. QED
    BY <2>5, <2>7, <2>9, RequestKept
<1>4. PICK at : at = {s}
  OBVIOUS
<1>5. Front(c, Command("kill", d, at, key), rest)
  BY <1>4
<1>6. Killing(c, d, at, key, rest)
  BY <1>5, KillParts
<1>7. PICK t \in at :
         \/ /\ slots' = [slots EXCEPT ![d][t] = Empty]
            /\ queue' = [queue EXCEPT ![c] = KillAll(d, at \ {t}, key) \o rest]
            /\ UNCHANGED <<nas, accounts, job, told>>
         \/ Refuse(c, "slot-remove") /\ UNCHANGED <<luks, accounts>>
         \/ Fails(c, "slot-remove")
  BY <1>6, Zenon DEF Killing
<1>8. t = s
  BY <1>4
<1>. QED
  BY <1>1, <1>2, <1>3, <1>4, <1>7, <1>8, Zenon

\* One of several slots, with the new key that slot 1 holds.
LEMMA KillManyKeeps ==
  ASSUME DoorConstants, OneCaller, DoorInv, NEW c \in Caller, KillSlot(c), faults' = faults,
         job[c] \in LuksJob, Agree,
         NEW d \in Device, NEW rest \in After, Works(c, d, rest),
         NEW E \in (SUBSET Slot) \ {{}}, Doomed(d, E),
         Front(c, Command("kill", d, E, "new"), Settle(d, {}, rest)),
         slots[d][1] = job[c].new[d]
  PROVE  DoorInv'
<1>0. DoorType /\ rest \in Seq(Entry) /\ 0 \in Slot /\ 1 \in Slot
  BY AfterIsSeq DEF DoorInv, DoorConstants
<1>1. PICK s \in E :
           \/ /\ slots' = [slots EXCEPT ![d][s] = Empty]
              /\ queue' = [queue EXCEPT ![c] = KillAll(d, E \ {s}, "new") \o Settle(d, {}, rest)]
              /\ UNCHANGED <<nas, accounts, job, told>>
           \/ /\ ~Killable(d, s, job[c].new[d])
              /\ Refuse(c, "slot-remove") /\ UNCHANGED <<luks, accounts>>
           \/ Fails(c, "slot-remove")
  <2>1. Killing(c, d, E, "new", Settle(d, {}, rest))
    BY KillParts
  <2>2. "new" # "current"
    OBVIOUS
  <2>. QED
    BY <2>1, <2>2, Zenon DEF Killing
<1>2. s \in Slot /\ s # 1 /\ slots[d][s] # Empty
  BY DEF Doomed
<1>3. ASSUME Fails(c, "slot-remove") PROVE DoorInv'
  BY <1>3, FailsInv
<1>4. ASSUME ~Killable(d, s, job[c].new[d]) PROVE FALSE
  BY <1>0, <1>2, <1>4 DEF Killable
<1>5. ASSUME slots' = [slots EXCEPT ![d][s] = Empty],
             queue' = [queue EXCEPT ![c] = KillAll(d, E \ {s}, "new") \o Settle(d, {}, rest)],
             UNCHANGED <<nas, accounts, job, told>>
      PROVE  DoorInv'
  <2>. DEFINE F == E \ {s}
              q == Settle(d, F, rest)
              w == Settle(d, {}, rest)
  <2>1. F \in SUBSET Slot /\ {} \in SUBSET Slot
    OBVIOUS
  <2>2. q \in Seq(Entry) /\ q # <<>> /\ w \in Seq(Entry)
    BY <1>0, <2>1, Settles
  <2>3. KillAll(d, F, "new") \o w = q
    <3>. DEFINE t == <<Add(d, 0, "new")>> \o (<<KillNew(d)>> \o rest)
    <3>1. w = <<>> \o t
      BY DEF Settle, KillAll
    <3>2. t \in Seq(Entry)
      <4>. DEFINE a == Add(d, 0, "new")
                  k == KillNew(d)
      <4>1. a \in Entry /\ k \in Entry
        BY Entries
      <4>. HIDE DEF a, k
      <4>2. <<k>> \o rest \in Seq(Entry)
        BY <4>1, <1>0, Cons
      <4>. DEFINE v == <<k>> \o rest
      <4>. HIDE DEF v
      <4>3. <<a>> \o v \in Seq(Entry)
        BY <4>1, <4>2, Cons DEF v
      <4>. QED
        BY <4>3 DEF a, k, v
    <3>. HIDE DEF t, w
    <3>3. w = t
      BY <3>1, <3>2, ConcatEmptySeq
    <3>. QED
      BY <3>3 DEF t, Settle
  <2>4. queue' = [queue EXCEPT ![c] = q]
    BY <1>5, <2>3
  <2>. HIDE DEF q
  <2>5. /\ DoorType' /\ queue'[c] = q /\ slots'[d][s] = Empty
        /\ \A e \in Device, t \in Slot : e # d \/ t # s => slots'[e][t] = slots[e][t]
        /\ Agree'
    <3>1. slots' = [slots EXCEPT ![d][s] = Empty] /\ UNCHANGED <<nas, accounts, job, told>>
      BY <1>5
    <3>. QED
      BY <3>1, <1>0, <1>2, <2>2, <2>4 DEF DoorType, Agree, accounts
  <2>6. Doomed(d, F)'
    BY <1>2, <2>5 DEF Doomed
  <2>7. slots'[d][1] = job'[c].new[d]
    BY <1>0, <1>2, <1>5, <2>5
  <2>8. Plan(c, d, rest)'
    <3>. HIDE DEF F
    <3>. QED
      BY <2>1, <2>5, <2>6, <2>7 DEF Plan, q
  <2>9. Works(c, d, rest)'
    BY <1>5, <2>8 DEF Works, Follow
  <2>10. LuksInv(c)'
    BY <2>9 DEF LuksInv
  <2>11. RequestInv(c)'
    BY <1>5, <2>5, <2>10 DEF RequestInv, Agree
  <2>12. Wiping(c, d)'
    <3>. DEFINE h == Head(q)
    <3>1. h = Add(d, 0, "new") \/ (h = Command("kill", d, F, "new") /\ 1 \notin F)
      BY <1>0, <2>1, Settles DEF q, Doomed
    <3>. HIDE DEF h
    <3>2. h.do \in {"kill", "add"} /\ h.dev = d /\ h.key = "new" /\ 1 \notin h.slots
      <4>1. CASE h = Add(d, 0, "new")
        BY <4>1 DEF Add, Command
      <4>2. CASE h = Command("kill", d, F, "new") /\ 1 \notin F
        <5>. HIDE DEF F
        <5>. QED
          BY <4>2 DEF Command
      <4>. QED
        BY <3>1, <4>1, <4>2
    <3>3. queue'[c] # <<>> /\ Head(queue'[c]) = h
      BY <2>2, <2>5 DEF h
    <3>. QED
      BY <3>2, <3>3 DEF Wiping, Working
  <2>13. ASSUME NEW e \in Device, e # d PROVE ~Wiping(c, e)
    <3>1. Head(queue[c]) = Command("kill", d, E, "new")
      BY DEF Front
    <3>. QED
      BY <2>13, <3>1 DEF Wiping, Working, Command
  <2>14. SlotZeroHeld'
    BY <1>0, <2>5, <2>12, <2>13 DEF SlotZeroHeld, OneCaller, DoorInv
  <2>. QED
    BY <2>5, <2>11, <2>14, RequestKept
<1>. QED
  BY <1>1, <1>3, <1>4, <1>5

LEMMA AfterKeeps ==
  ASSUME NEW c \in Caller, NEW d \in Device, NEW rest \in After, Works(c, d, rest),
         queue'[c] = rest, UNCHANGED <<nas, job>>
  PROVE  LuksInv(c)'
BY DEF LuksInv, Works, Follow

LEMMA DoomedKeeps ==
  ASSUME DoorConstants, NEW d \in Device, NEW E \in SUBSET Slot, Doomed(d, E),
         \A t \in Slot \ {1} : slots'[d][t] = slots[d][t]
  PROVE  Doomed(d, E)'
BY DEF Doomed, DoorConstants

LEMMA KillKeeps ==
  ASSUME DoorConstants, OneCaller, DoorInv, NEW c \in Caller, KillSlot(c), faults' = faults
  PROVE  DoorInv'
<1>1. queue[c] # <<>> /\ Head(queue[c]).do = "kill" /\ DoorType
  BY DEF KillSlot, Running, DoorInv
<1>2. job[c] \in LuksJob /\ LuksInv(c) /\ Agree
  BY <1>1, LuksRuns DEF DoorInv, LuksDo
<1>3. PICK d \in Device, rest \in After : Works(c, d, rest)
  BY <1>1, <1>2, LuksStep
<1>4. Ahead(c, d, rest) /\ rest \in Seq(Entry) /\ 0 \in Slot /\ 1 \in Slot
  BY <1>3, WorksDo, AfterIsSeq DEF DoorConstants
<1>5. ASSUME Front(c, KillNew(d), rest) PROVE DoorInv'
  <2>1. Head(queue[c]) = KillNew(d)
    BY <1>5 DEF Front
  <2>2. \A e \in Device : ~Wiping(c, e)
    BY <2>1, NotWiping DEF KillNew, Command
  <2>3. Front(c, Command("kill", d, {1}, "new"), rest)
    BY <1>5 DEF KillNew
  <2>4. /\ queue'[c] = rest /\ UNCHANGED <<nas, job>>
        /\ \A t \in Slot \ {1} : slots'[d][t] = slots[d][t]
        => LuksInv(c)'
    BY <1>3, AfterKeeps
  <2>5. PICK s \in Slot \ {0}, key \in {"current", "new"} : s = 1 /\ key = "new"
    BY <1>4
  <2>6. Front(c, Command("kill", d, {s}, key), rest)
    BY <2>3, <2>5
  <2>7. /\ queue'[c] = rest /\ UNCHANGED <<nas, job>>
        /\ \A t \in Slot \ {s} : slots'[d][t] = slots[d][t]
        => LuksInv(c)'
    BY <2>4, <2>5
  <2>. QED
    BY <1>2, <1>4, <2>2, <2>6, <2>7, KillOneKeeps
<1>6. ASSUME NEW E \in (SUBSET Slot) \ {{}}, Doomed(d, E),
             Front(c, Command("kill", d, E, "new"), Settle(d, {}, rest)),
             slots[d][1] = job[c].new[d]
      PROVE  DoorInv'
  BY <1>2, <1>3, <1>6, KillManyKeeps
<1>7. ASSUME NEW E \in SUBSET Slot, Doomed(d, E),
             Front(c, KillOld(d, 1), <<Add(d, 1, "current")>> \o Settle(d, E, rest))
      PROVE  DoorInv'
  <2>1. Head(queue[c]) = KillOld(d, 1)
    BY <1>7 DEF Front
  <2>2. \A e \in Device : ~Wiping(c, e)
    BY <2>1, NotWiping DEF KillOld, Command
  <2>. DEFINE x == Add(d, 1, "current")
              w == Settle(d, E, rest)
              t == <<x>> \o w
  <2>3. x \in Entry /\ w \in Seq(Entry)
    BY <1>4, Entries, Settles
  <2>4. t \in Seq(Entry)
    <3>. HIDE DEF x, w
    <3>. QED
      BY <2>3, Cons
  <2>5. Front(c, Command("kill", d, {1}, "current"), t)
    BY <1>7 DEF KillOld
  <2>6. ASSUME queue'[c] = t, UNCHANGED <<nas, job>>,
               \A a \in Slot \ {1} : slots'[d][a] = slots[d][a]
        PROVE  LuksInv(c)'
    <3>1. Doomed(d, E)'
      BY <1>7, <2>6, DoomedKeeps
    <3>2. Plan(c, d, rest)'
      BY <2>6, <3>1 DEF Plan
    <3>3. Works(c, d, rest)'
      BY <1>3, <2>6, <3>2 DEF Works, Follow
    <3>. QED
      BY <3>3 DEF LuksInv
  <2>. HIDE DEF t
  <2>7. PICK s \in Slot \ {0}, key \in {"current", "new"} : s = 1 /\ key = "current"
    BY <1>4
  <2>8. Front(c, Command("kill", d, {s}, key), t)
    BY <2>5, <2>7
  <2>9. /\ queue'[c] = t /\ UNCHANGED <<nas, job>>
        /\ \A a \in Slot \ {s} : slots'[d][a] = slots[d][a]
        => LuksInv(c)'
    BY <2>6, <2>7
  <2>. QED
    BY <1>2, <2>2, <2>4, <2>8, <2>9, KillOneKeeps
<1>8. ASSUME NEW s \in Slot \ {0}, Front(c, KillOld(d, s), <<Add(d, s, "current")>> \o rest)
      PROVE  DoorInv'
  <2>1. Head(queue[c]) = KillOld(d, s)
    BY <1>8 DEF Front
  <2>2. \A e \in Device : ~Wiping(c, e)
    BY <2>1, NotWiping DEF KillOld, Command
  <2>. DEFINE x == Add(d, s, "current")
              t == <<x>> \o rest
  <2>3. x \in Entry
    BY <1>4, Entries
  <2>4. t \in Seq(Entry)
    <3>. HIDE DEF x
    <3>. QED
      BY <1>4, <2>3, Cons
  <2>5. Front(c, Command("kill", d, {s}, "current"), t)
    BY <1>8 DEF KillOld
  <2>6. ASSUME queue'[c] = t, UNCHANGED <<nas, job>> PROVE LuksInv(c)'
    <3>1. Plan(c, d, rest)'
      BY <2>6 DEF Plan
    <3>2. Works(c, d, rest)'
      BY <1>3, <2>6, <3>1 DEF Works, Follow
    <3>. QED
      BY <3>2 DEF LuksInv
  <2>. HIDE DEF t
  <2>7. PICK key \in {"current", "new"} : key = "current"
    OBVIOUS
  <2>8. Front(c, Command("kill", d, {s}, key), t)
    BY <2>5, <2>7
  <2>9. /\ queue'[c] = t /\ UNCHANGED <<nas, job>>
        /\ \A a \in Slot \ {s} : slots'[d][a] = slots[d][a]
        => LuksInv(c)'
    BY <2>6
  <2>. QED
    BY <1>2, <2>2, <2>4, <2>8, <2>9, KillOneKeeps
<1>9. \A s, key, t : ~Front(c, Add(d, s, key), t)
  <2>. DEFINE h == Head(queue[c])
  <2>1. \A x, t : Front(c, x, t) => h = x
    BY DEF Front
  <2>2. h.do = "kill"
    BY <1>1
  <2>. HIDE DEF h
  <2>3. \A s, key : h # Add(d, s, key)
    BY <2>2 DEF Add, Command
  <2>. QED
    BY <2>1, <2>3, Zenon
<1>. QED
  BY <1>4, <1>5, <1>6, <1>7, <1>8, <1>9, Zenon DEF Ahead

-----------------------------------------------------------------------------
(* luksAddKey                                                               *)

\* What luksAddKey comes to.
Filling(c, d, s, rest) ==
  /\ slots' = [slots EXCEPT ![d][s] = job[c].new[d]]
  /\ queue' = [queue EXCEPT ![c] = rest] /\ UNCHANGED <<nas, accounts, job, told>>

Adding(c, d, s, key, rest) ==
  \/ Filling(c, d, s, rest)
  \/ /\ ~(/\ slots[d][s] = Empty
          /\ Opens(d, IF key = "current" THEN job[c].current[d] ELSE job[c].new[d]))
     /\ Refuse(c, "slot-add") /\ UNCHANGED <<luks, accounts>>
  \/ Fails(c, "slot-add")

LEMMA AddParts ==
  ASSUME NEW c \in Caller, AddKey(c), NEW d, NEW s, NEW key, NEW rest,
         Front(c, Add(d, s, key), rest)
  PROVE  Adding(c, d, s, key, rest)
<1>. DEFINE k == Head(queue[c])
<1>0. k = Add(d, s, key) /\ Tail(queue[c]) = rest
  BY Zenon DEF Front
<1>. HIDE DEF k
<1>1. k.dev = d /\ k.slots = {s} /\ k.key = key /\ Tail(queue[c]) = rest
  BY <1>0, SMTT(30) DEF Command, Add
<1>2. Secret(c, k) = IF key = "current" THEN job[c].current[d] ELSE job[c].new[d]
  BY <1>1, SMTT(30) DEF Secret
<1>3. \E t \in k.slots :
          LET able == slots[k.dev][t] = Empty /\ Opens(k.dev, Secret(c, k))
          IN \/ /\ able
                /\ slots' = [slots EXCEPT ![k.dev][t] = job[c].new[k.dev]]
                /\ Proceed(c) /\ UNCHANGED <<nas, accounts>>
             \/ ~able /\ Refuse(c, "slot-add") /\ UNCHANGED <<luks, accounts>>
             \/ Fails(c, "slot-add")
  BY DEF AddKey, k
<1>4. PICK t \in {s} :
          LET able == slots[d][t] = Empty /\ Opens(d, Secret(c, k))
          IN \/ /\ able
                /\ slots' = [slots EXCEPT ![d][t] = job[c].new[d]]
                /\ Proceed(c) /\ UNCHANGED <<nas, accounts>>
             \/ ~able /\ Refuse(c, "slot-add") /\ UNCHANGED <<luks, accounts>>
             \/ Fails(c, "slot-add")
  BY <1>1, <1>3, Zenon
<1>5. t = s
  OBVIOUS
<1>6. Proceed(c) => queue' = [queue EXCEPT ![c] = rest] /\ UNCHANGED <<job, told>>
  BY <1>1 DEF Proceed
<1>7. \/ /\ slots' = [slots EXCEPT ![d][s] = job[c].new[d]]
         /\ Proceed(c) /\ UNCHANGED <<nas, accounts>>
      \/ ~(slots[d][s] = Empty /\ Opens(d, Secret(c, k)))
         /\ Refuse(c, "slot-add") /\ UNCHANGED <<luks, accounts>>
      \/ Fails(c, "slot-add")
  BY <1>4, <1>5, Zenon
<1>8. \/ /\ slots' = [slots EXCEPT ![d][s] = job[c].new[d]]
         /\ queue' = [queue EXCEPT ![c] = rest] /\ UNCHANGED <<nas, accounts, job, told>>
      \/ ~(slots[d][s] = Empty /\ Opens(d, Secret(c, k)))
         /\ Refuse(c, "slot-add") /\ UNCHANGED <<luks, accounts>>
      \/ Fails(c, "slot-add")
  BY <1>6, <1>7
<1>. QED
  BY <1>2, <1>8, Zenon DEF Adding, Filling

LEMMA NewIsPassword ==
  ASSUME NEW c \in Caller, job[c] \in LuksJob, NEW d \in Device
  PROVE  job[c].new[d] \in Password
BY DEF LuksJob

LEMMA SlotFilled ==
  ASSUME DoorType, NEW c \in Caller, NEW d \in Device, NEW s \in Slot, NEW rest \in Seq(Entry),
         job[c] \in LuksJob,
         Filling(c, d, s, rest)
  PROVE  /\ UNCHANGED <<nas, accounts, job, told>>
         /\ DoorType' /\ queue'[c] = rest /\ slots'[d][s] = job'[c].new[d]
         /\ \A e \in Device, t \in Slot : e # d \/ t # s => slots'[e][t] = slots[e][t]
         /\ Agree => Agree'
<1>1. job[c].new[d] \in Password
  BY NewIsPassword
<1>. DEFINE v == job[c].new[d]
<1>. HIDE DEF v
<1>2. v \in Password /\ slots' = [slots EXCEPT ![d][s] = v]
  BY <1>1 DEF v, Filling
<1>3. /\ DoorType' /\ queue'[c] = rest /\ slots'[d][s] = v
      /\ \A e \in Device, t \in Slot : e # d \/ t # s => slots'[e][t] = slots[e][t]
      /\ Agree => Agree'
  BY <1>2 DEF DoorType, Agree, accounts, Filling
<1>4. UNCHANGED <<nas, accounts, job, told>>
  BY DEF Filling
<1>. QED
  BY <1>3, <1>4 DEF v

\* A slot other than 0 gets the new key.
LEMMA AddOneKeeps ==
  ASSUME DoorConstants, OneCaller, DoorInv, NEW c \in Caller, faults' = faults,
         job[c] \in LuksJob, Agree,
         NEW d \in Device, NEW s \in Slot \ {0}, NEW rest \in Seq(Entry),
         Adding(c, d, s, "current", rest), \A e \in Device : ~Wiping(c, e),
         /\ queue'[c] = rest /\ UNCHANGED <<nas, job>> /\ slots'[d][s] = job'[c].new[d]
         /\ \A t \in Slot \ {s} : slots'[d][t] = slots[d][t]
         => LuksInv(c)'
  PROVE  DoorInv'
<1>0. DoorType /\ 0 \in Slot
  BY DEF DoorInv, DoorConstants
<1>1. ASSUME Fails(c, "slot-add") PROVE DoorInv'
  BY <1>1, FailsInv
<1>2. ASSUME Refuse(c, "slot-add") /\ UNCHANGED <<luks, accounts>> PROVE DoorInv'
  BY <1>2, RefusedInv
<1>3. ASSUME Filling(c, d, s, rest) PROVE DoorInv'
  <2>1. /\ UNCHANGED <<nas, accounts, job, told>>
        /\ DoorType' /\ queue'[c] = rest /\ slots'[d][s] = job'[c].new[d]
        /\ \A e \in Device, t \in Slot : e # d \/ t # s => slots'[e][t] = slots[e][t]
        /\ Agree'
    BY <1>0, <1>3, SlotFilled
  <2>2. LuksInv(c)'
    BY <2>1
  <2>3. RequestInv(c)'
    BY <2>1, <2>2 DEF RequestInv, Agree
  <2>4. SlotZeroHeld'
    BY <1>0, <2>1, ZeroKept DEF DoorInv
  <2>. QED
    BY <2>1, <2>3, <2>4, RequestKept
<1>. QED
  BY <1>1, <1>2, <1>3 DEF Adding

\* Slot 0 gets the new key that slot 1 holds.
LEMMA AddZeroKeeps ==
  ASSUME DoorConstants, OneCaller, DoorInv, NEW c \in Caller, faults' = faults,
         job[c] \in LuksJob, Agree,
         NEW d \in Device, NEW rest \in After, Works(c, d, rest), Doomed(d, {}),
         Adding(c, d, 0, "new", <<KillNew(d)>> \o rest),
         \A e \in Device \ {d} : ~Wiping(c, e), slots[d][1] = job[c].new[d]
  PROVE  DoorInv'
<1>0. DoorType /\ rest \in Seq(Entry) /\ 0 \in Slot /\ 1 \in Slot
  BY AfterIsSeq DEF DoorInv, DoorConstants
<1>1. ASSUME Fails(c, "slot-add") PROVE DoorInv'
  BY <1>1, FailsInv
<1>2. slots[d][0] = Empty /\ Opens(d, job[c].new[d])
  BY <1>0 DEF Doomed, Opens
<1>3. ASSUME Filling(c, d, 0, <<KillNew(d)>> \o rest) PROVE DoorInv'
  <2>. DEFINE q == <<KillNew(d)>> \o rest
  <2>0. q \in Seq(Entry)
    BY <1>0, Settles
  <2>. HIDE DEF q
  <2>8. Filling(c, d, 0, q)
    BY <1>3 DEF q
  <2>1. /\ UNCHANGED <<nas, accounts, job, told>>
        /\ DoorType' /\ queue'[c] = q /\ slots'[d][0] = job'[c].new[d]
        /\ \A e \in Device, t \in Slot : e # d \/ t # 0 => slots'[e][t] = slots[e][t]
        /\ Agree'
    BY <1>0, <2>0, <2>8, SlotFilled
  <2>2. Plan(c, d, rest)'
    BY <2>1 DEF Plan, q
  <2>3. Works(c, d, rest)'
    BY <2>1, <2>2 DEF Works, Follow
  <2>4. LuksInv(c)'
    BY <2>3 DEF LuksInv
  <2>5. RequestInv(c)'
    BY  <2>1, <2>4 DEF RequestInv, Agree
  <2>6. slots'[d][0] # Empty
    BY <2>1, NewIsPassword DEF DoorConstants
  <2>7. SlotZeroHeld'
    BY <1>0, <2>1, <2>6 DEF SlotZeroHeld, OneCaller, DoorInv
  <2>. QED
    BY <2>1, <2>5, <2>7, RequestKept
<1>4. "new" # "current"
  OBVIOUS
<1>. QED
  BY <1>1, <1>2, <1>3, <1>4, Zenon DEF Adding

LEMMA AddKeeps ==
  ASSUME DoorConstants, OneCaller, DoorInv, NEW c \in Caller, AddKey(c), faults' = faults
  PROVE  DoorInv'
<1>1. queue[c] # <<>> /\ Head(queue[c]).do = "add" /\ DoorType
  BY DEF AddKey, Running, DoorInv
<1>2. job[c] \in LuksJob /\ LuksInv(c) /\ Agree
  BY <1>1, LuksRuns DEF DoorInv, LuksDo
<1>3. PICK d \in Device, rest \in After : Works(c, d, rest)
  BY <1>1, <1>2, LuksStep
<1>4. Ahead(c, d, rest) /\ rest \in Seq(Entry) /\ 0 \in Slot /\ 1 \in Slot
  BY <1>3, WorksDo, AfterIsSeq DEF DoorConstants
<1>5. ASSUME Doomed(d, {}), Front(c, Add(d, 0, "new"), <<KillNew(d)>> \o rest),
             slots[d][1] = job[c].new[d]
      PROVE  DoorInv'
  <2>1. Adding(c, d, 0, "new", <<KillNew(d)>> \o rest)
    BY <1>5, AddParts
  <2>2. \A e \in Device \ {d} : ~Wiping(c, e)
    <3>1. Head(queue[c]) = Add(d, 0, "new")
      BY <1>5 DEF Front
    <3>. QED
      BY <3>1 DEF Wiping, Working, Add, Command
  <2>. QED
    BY <1>2, <1>3, <1>5, <2>1, <2>2, AddZeroKeeps
<1>6. ASSUME NEW s, NEW t, Front(c, Add(d, s, "current"), t)
      PROVE  Adding(c, d, s, "current", t) /\ \A e \in Device : ~Wiping(c, e)
  <2>1. Head(queue[c]).key = "current"
    BY <1>6 DEF Front, Add, Command
  <2>. QED
    BY <1>6, <2>1, AddParts, NotWiping
<1>7. ASSUME NEW E \in SUBSET Slot, Doomed(d, E), Front(c, Add(d, 1, "current"), Settle(d, E, rest))
      PROVE  DoorInv'
  <2>. DEFINE t == Settle(d, E, rest)
  <2>1. t \in Seq(Entry)
    BY <1>4, Settles
  <2>2. PICK s \in Slot \ {0} : s = 1
    BY <1>4
  <2>3. Adding(c, d, s, "current", t) /\ \A e \in Device : ~Wiping(c, e)
    BY <1>6, <1>7, <2>2
  <2>4. ASSUME queue'[c] = t, UNCHANGED <<nas, job>>, slots'[d][1] = job'[c].new[d],
               \A a \in Slot \ {1} : slots'[d][a] = slots[d][a]
        PROVE  LuksInv(c)'
    <3>1. Doomed(d, E)'
      BY <1>7, <2>4, DoomedKeeps
    <3>2. Plan(c, d, rest)'
      BY <2>4, <3>1 DEF Plan
    <3>3. Works(c, d, rest)'
      BY <1>3, <2>4, <3>2 DEF Works, Follow
    <3>. QED
      BY <3>3 DEF LuksInv
  <2>. HIDE DEF t
  <2>5. /\ queue'[c] = t /\ UNCHANGED <<nas, job>> /\ slots'[d][s] = job'[c].new[d]
        /\ \A a \in Slot \ {s} : slots'[d][a] = slots[d][a]
        => LuksInv(c)'
    BY <2>2, <2>4
  <2>. QED
    BY <1>2, <2>1, <2>3, <2>5, AddOneKeeps
<1>8. ASSUME NEW s \in Slot \ {0}, Front(c, Add(d, s, "current"), rest) PROVE DoorInv'
  <2>1. Adding(c, d, s, "current", rest) /\ \A e \in Device : ~Wiping(c, e)
    BY <1>6, <1>8
  <2>2. /\ queue'[c] = rest /\ UNCHANGED <<nas, job>> /\ slots'[d][s] = job'[c].new[d]
        /\ \A a \in Slot \ {s} : slots'[d][a] = slots[d][a]
        => LuksInv(c)'
    BY <1>3, AfterKeeps
  <2>. QED
    BY <1>2, <1>4, <2>1, <2>2, AddOneKeeps
<1>9. /\ \A t : ~Front(c, KillNew(d), t)
      /\ \A at, t : ~Front(c, Command("kill", d, at, "new"), t)
      /\ \A s, t : ~Front(c, KillOld(d, s), t)
  <2>. DEFINE h == Head(queue[c])
  <2>1. \A x, t : Front(c, x, t) => h = x
    BY DEF Front
  <2>2. h.do = "add"
    BY <1>1
  <2>. HIDE DEF h
  <2>3. h # KillNew(d) /\ (\A at : h # Command("kill", d, at, "new")) /\ \A s : h # KillOld(d, s)
    BY <2>2 DEF KillNew, KillOld, Command
  <2>. QED
    BY <2>1, <2>3, Zenon
<1>. QED
  BY <1>4, <1>5, <1>7, <1>8, <1>9, Zenon DEF Ahead

-----------------------------------------------------------------------------
(* cryptsetup open, newkey.sh, exportNAS.sh                                 *)

LEMMA VerifyKeeps ==
  ASSUME DoorConstants, OneCaller, DoorInv, NEW c \in Caller, Verify(c), faults' = faults
  PROVE  DoorInv'
<1>1. queue[c] # <<>> /\ Head(queue[c]).do = "verify" /\ DoorType
  BY DEF Verify, Running, DoorInv
<1>2. job[c] \in LuksJob /\ LuksInv(c) /\ Agree
  BY <1>1, LuksRuns DEF DoorInv, LuksDo
<1>3. PICK s \in LookSeq : Tail(queue[c]) = ExportFirst(s)
  BY <1>1, <1>2, LuksStep DEF Front
<1>4. \A e \in Device : ~Wiping(c, e)
  BY <1>1, NotWiping
<1>5. ASSUME Fails(c, "current") PROVE DoorInv'
  BY <1>2, <1>5, FailsInv
<1>6. ASSUME Refuse(c, "current") /\ UNCHANGED <<luks, accounts>> PROVE DoorInv'
  BY <1>2, <1>4, <1>6, RefusedInv
<1>7. ASSUME Proceed(c) /\ UNCHANGED <<luks, accounts>> PROVE DoorInv'
  <2>. DEFINE t == ExportFirst(s)
  <2>1. t \in Seq(Entry)
    BY Lates
  <2>. HIDE DEF t
  <2>2. queue' = [queue EXCEPT ![c] = t] /\ UNCHANGED <<luks, accounts, job, told>>
    BY <1>3, <1>7 DEF Proceed, t
  <2>3. DoorType' /\ queue'[c] = t
    BY <1>1, <2>1, <2>2, TypeKept
  <2>4. LuksInv(c)'
    BY <2>3 DEF LuksInv, t
  <2>5. RequestInv(c)'
    BY <1>2, <2>2, <2>4 DEF RequestInv, Agree, accounts
  <2>6. SlotZeroHeld'
    BY <1>4, <2>2, ZeroKept DEF DoorInv, luks
  <2>. QED
    BY <2>3, <2>5, <2>6, RequestKept
<1>. QED
  BY <1>5, <1>6, <1>7 DEF Verify

LEMMA NewKeyKeeps ==
  ASSUME DoorConstants, OneCaller, DoorInv, NEW c \in Caller, NewKey(c), faults' = faults
  PROVE  DoorInv'
<1>1. queue[c] # <<>> /\ Head(queue[c]).do = "newkey" /\ DoorType
  BY DEF NewKey, Running, DoorInv
<1>2. job[c] \in LuksJob /\ LuksInv(c) /\ Agree
  BY <1>1, LuksRuns DEF DoorInv, LuksDo
<1>3. PICK s \in LookSeq : Tail(queue[c]) = ExportFirst(s)
  BY <1>1, <1>2, LuksStep DEF Front
<1>4. \A e \in Device : ~Wiping(c, e)
  BY <1>1, NotWiping
<1>5. ASSUME Fails(c, "nas-create") PROVE DoorInv'
  BY <1>2, <1>5, FailsInv
<1>6. ASSUME nas' = job[c].password, Proceed(c), UNCHANGED <<slots, accounts>> PROVE DoorInv'
  <2>. DEFINE t == ExportFirst(s)
  <2>1. t \in Seq(Entry)
    BY Lates
  <2>. HIDE DEF t
  <2>2. queue' = [queue EXCEPT ![c] = t] /\ UNCHANGED <<slots, accounts, job, told>>
    BY <1>3, <1>6 DEF Proceed, t
  <2>3. nas' \in Password
    BY <1>2, <1>6 DEF LuksJob
  <2>4. DoorType' /\ queue'[c] = t
    BY <1>1, <2>1, <2>2, <2>3 DEF DoorType, accounts
  <2>5. LuksInv(c)'
    BY <2>4 DEF LuksInv, t
  <2>6. RequestInv(c)'
    BY <1>2, <2>2, <2>5 DEF RequestInv, Agree, accounts
  <2>7. SlotZeroHeld'
    BY <1>4, <2>2, ZeroKept DEF DoorInv
  <2>. QED
    BY <2>4, <2>6, <2>7, RequestKept
<1>. QED
  BY <1>5, <1>6 DEF NewKey

\* What exportNAS.sh comes to where the commands of rest are still to run.
Exporting(c, rest) ==
  /\ job' = [job EXCEPT ![c].new =
       [d \in Device |-> IF d \in {rest[i].dev : i \in DOMAIN rest} THEN nas ELSE @[d]]]
  /\ queue' = [queue EXCEPT ![c] = rest] /\ UNCHANGED <<luks, accounts, told>>

\* A device still to be looked at is to get the password that was printed.
LEMMA ExportKeeps ==
  ASSUME DoorConstants, OneCaller, DoorInv, NEW c \in Caller, ExportNas(c), faults' = faults
  PROVE  DoorInv'
<1>1. queue[c] # <<>> /\ Head(queue[c]).do = "export" /\ DoorType
  BY DEF ExportNas, Running, DoorInv
<1>2. job[c] \in LuksJob /\ LuksInv(c) /\ Agree
  BY <1>1, LuksRuns DEF DoorInv, LuksDo
<1>3. PICK s \in LookSeq : Tail(queue[c]) = s
  BY <1>1, <1>2, LuksStep DEF Front
<1>4. \A e \in Device : ~Wiping(c, e)
  BY <1>1, NotWiping
<1>5. ASSUME Fails(c, "nas-export") PROVE DoorInv'
  BY <1>2, <1>5, FailsInv
<1>. DEFINE coming == {s[i].dev : i \in DOMAIN s}
            new == [d \in Device |-> IF d \in coming THEN nas ELSE job[c].new[d]]
<1>6. ASSUME job' = [job EXCEPT ![c].new = new], queue' = [queue EXCEPT ![c] = s],
             UNCHANGED <<luks, accounts, told>>
      PROVE  DoorInv'
  <2>1. s \in Seq(Entry)
    BY Lates
  <2>2. nas \in Password /\ new \in [Device -> Password]
    BY <1>1, <1>2 DEF DoorType, LuksJob
  <2>3. \A d \in Device : d \in coming => new[d] = nas
    OBVIOUS
  <2>4. \A i \in DOMAIN s : s[i].dev \in coming /\ s[i].dev \in Device
    <3>1. \A i \in DOMAIN s : s[i] \in Looks
      BY DEF LookSeq
    <3>. QED
      BY <3>1 DEF Looks, Look, Command
  <2>. HIDE DEF coming, new
  <2>5. job'[c] = [job[c] EXCEPT !.new = new]
    BY <1>1, <1>6 DEF DoorType
  <2>6. job'[c] \in LuksJob /\ job'[c].new = new
    BY <1>2, <2>2, <2>5 DEF LuksJob
  <2>7. DoorType' /\ queue'[c] = s
    BY <1>1, <1>6, <2>1, <2>5, <2>6 DEF DoorType, luks, accounts
  <2>8. Follow(c, s)'
    BY <1>6, <2>3, <2>4, <2>6 DEF Follow, luks
  <2>9. LuksInv(c)'
    BY <2>7, <2>8 DEF LuksInv, After
  <2>10. RequestInv(c)'
    BY <1>2, <1>6, <2>6, <2>9 DEF RequestInv, Agree, accounts
  <2>11. SlotZeroHeld'
    BY <1>4, <1>6, ZeroKept DEF DoorInv, luks
  <2>. QED
    BY <2>7, <2>10, <2>11, RequestKept
<1>7. Exporting(c, s) \/ Fails(c, "nas-export")
  <2>1. Exporting(c, Tail(queue[c])) \/ Fails(c, "nas-export")
    BY Zenon DEF ExportNas, Exporting
  <2>. QED
    BY <1>3, <2>1, Zenon
<1>. QED
  BY <1>5, <1>6, <1>7, Zenon DEF Exporting

-----------------------------------------------------------------------------
(* admin-password                                                           *)

LEMMA ProceedTypes ==
  ASSUME DoorType, NEW c \in Caller, queue[c] # <<>>, Proceed(c), UNCHANGED luks,
         suite' \in Password, owner' \in Password, samba' \in Password
  PROVE  DoorType' /\ queue'[c] = Tail(queue[c]) /\ UNCHANGED <<job, told>>
<1>. DEFINE t == Tail(queue[c])
<1>1. t \in Seq(Entry)
  BY HeadTailProperties DEF DoorType
<1>2. queue' = [queue EXCEPT ![c] = t] /\ UNCHANGED <<job, told>>
  BY DEF Proceed
<1>. HIDE DEF t
<1>3. DoorType' /\ queue'[c] = t
  BY <1>1, <1>2 DEF DoorType, luks
<1>. QED
  BY <1>2, <1>3 DEF t

\* An account command that went through, or was refused.
LEMMA AccountKeeps ==
  ASSUME DoorConstants, OneCaller, DoorInv, NEW c \in Caller, job[c] \in AdminJob,
         queue[c] # <<>>, Head(queue[c]).do \notin {"kill", "add"},
         faults' = faults, UNCHANGED luks,
         suite' \in Password, owner' \in Password, samba' \in Password,
         \/ Proceed(c) /\ (queue'[c] = Tail(queue[c]) /\ UNCHANGED <<job, told>> => AdminInv(c)')
         \/ \E signal : Refuse(c, signal) /\ owner' = owner /\ samba' = samba /\ Agree'
  PROVE  DoorInv'
<1>1. \A e \in Device : ~Wiping(c, e)
  BY NotWiping
<1>2. SlotZeroHeld'
  BY <1>1, ZeroKept DEF DoorInv, luks
<1>3. ASSUME Proceed(c), queue'[c] = Tail(queue[c]) /\ UNCHANGED <<job, told>> => AdminInv(c)'
      PROVE  DoorInv'
  <2>1. DoorType' /\ queue'[c] = Tail(queue[c]) /\ UNCHANGED <<job, told>>
    BY <1>3, ProceedTypes DEF DoorInv
  <2>2. RequestInv(c)'
    BY <1>3, <2>1 DEF RequestInv
  <2>. QED
    BY <1>2, <2>1, <2>2, RequestKept
<1>4. ASSUME NEW signal, Refuse(c, signal), owner' = owner, samba' = samba, Agree'
      PROVE  DoorInv'
  <2>1. DoorType' /\ RequestInv(c)'
    BY <1>4, Refused DEF DoorInv, luks
  <2>. QED
    BY <1>2, <2>1, RequestKept
<1>. QED
  BY <1>3, <1>4

LEMMA AdminFacts ==
  ASSUME DoorConstants, DoorInv, NEW c \in Caller, queue[c] # <<>>,
         Head(queue[c]).do \in {"exportsuite", "rotate", "owner", "samba"}
  PROVE  /\ job[c] \in AdminJob /\ AdminInv(c) /\ DoorType
         /\ Head(queue[c]).do \notin {"kill", "add"}
         /\ job[c].old \in Password /\ job[c].new \in Password
         /\ suite \in Password /\ owner \in Password /\ samba \in Password
<1>1. job[c] \in AdminJob /\ AdminInv(c) /\ DoorType
  BY AdminOnly DEF DoorInv
<1>. QED
  BY <1>1 DEF AdminJob, DoorType

LEMMA SuiteExportKeeps ==
  ASSUME DoorConstants, OneCaller, DoorInv, NEW c \in Caller, ExportSuite(c), faults' = faults
  PROVE  DoorInv'
<1>1. queue[c] # <<>> /\ Head(queue[c]).do = "exportsuite"
  BY DEF ExportSuite, Running
<1>2. /\ job[c] \in AdminJob /\ AdminInv(c) /\ DoorType
      /\ Head(queue[c]).do \notin {"kill", "add"}
      /\ suite \in Password /\ owner \in Password /\ samba \in Password
  BY <1>1, AdminFacts
<1>3. Tail(queue[c]) = <<Plain("rotate"), Plain("owner"), Plain("samba")>> /\ Agree
  BY <1>1, <1>2, AdminRuns
<1>4. ASSUME Proceed(c), UNCHANGED <<luks, accounts>> PROVE DoorInv'
  <2>1. ASSUME queue'[c] = Tail(queue[c]), UNCHANGED <<job, told>> PROVE AdminInv(c)'
    BY <1>3, <1>4, <2>1, Zenon DEF AdminInv, Agree, accounts
  <2>. QED
    BY <1>1, <1>2, <1>4, <2>1, AccountKeeps DEF accounts
<1>5. ASSUME NEW signal, Refuse(c, signal), UNCHANGED <<luks, accounts>> PROVE DoorInv'
  <2>1. Agree'
    BY <1>3, <1>5 DEF Agree, Refuse, accounts
  <2>. QED
    BY <1>1, <1>2, <1>5, <2>1, AccountKeeps DEF accounts
<1>. QED
  BY <1>4, <1>5 DEF ExportSuite, Fails

LEMMA RotateKeeps ==
  ASSUME DoorConstants, OneCaller, DoorInv, NEW c \in Caller, RotateSuite(c), faults' = faults
  PROVE  DoorInv'
<1>1. queue[c] # <<>> /\ Head(queue[c]).do = "rotate"
  BY DEF RotateSuite, Running
<1>2. /\ job[c] \in AdminJob /\ AdminInv(c) /\ DoorType
      /\ Head(queue[c]).do \notin {"kill", "add"} /\ job[c].new \in Password
      /\ suite \in Password /\ owner \in Password /\ samba \in Password
  BY <1>1, AdminFacts
<1>3. Tail(queue[c]) = <<Plain("owner"), Plain("samba")>> /\ Agree
  BY <1>1, <1>2, AdminRuns
<1>4. ASSUME suite = job[c].old, suite' = job[c].new, Proceed(c), UNCHANGED <<luks, owner, samba>>
      PROVE  DoorInv'
  <2>1. ASSUME queue'[c] = Tail(queue[c]), UNCHANGED <<job, told>> PROVE AdminInv(c)'
    <3>1. told # {} \/ (owner = job[c].old /\ samba = job[c].old)
      BY <1>3, <1>4 DEF Agree
    <3>. QED
      BY <1>3, <1>4, <2>1, <3>1, Zenon DEF AdminInv
  <2>. QED
    BY <1>1, <1>2, <1>4, <2>1, AccountKeeps
<1>5. ASSUME NEW signal, Refuse(c, signal), UNCHANGED <<luks, accounts>> PROVE DoorInv'
  <2>1. Agree'
    BY <1>3, <1>5 DEF Agree, Refuse, accounts
  <2>. QED
    BY <1>1, <1>2, <1>5, <2>1, AccountKeeps DEF accounts
<1>. QED
  BY <1>4, <1>5 DEF RotateSuite, Fails

LEMMA OwnerKeeps ==
  ASSUME DoorConstants, OneCaller, DoorInv, NEW c \in Caller, OwnerPassword(c), faults' = faults
  PROVE  DoorInv'
<1>1. queue[c] # <<>> /\ Head(queue[c]).do = "owner"
  BY DEF OwnerPassword, Running
<1>2. /\ job[c] \in AdminJob /\ AdminInv(c) /\ DoorType
      /\ Head(queue[c]).do \notin {"kill", "add"}
      /\ job[c].old \in Password /\ job[c].new \in Password
      /\ suite \in Password /\ owner \in Password /\ samba \in Password
  BY <1>1, AdminFacts
<1>3. /\ Tail(queue[c]) = <<Plain("samba")>> /\ suite = job[c].new
      /\ told # {} \/ (owner = job[c].old /\ samba = job[c].old)
  BY <1>1, <1>2, AdminRuns
<1>4. ASSUME owner' = job[c].new, Proceed(c), UNCHANGED <<luks, suite, samba>>
      PROVE  DoorInv'
  <2>1. ASSUME queue'[c] = Tail(queue[c]), UNCHANGED <<job, told>> PROVE AdminInv(c)'
    BY <1>3, <1>4, <2>1, Zenon DEF AdminInv
  <2>. QED
    BY <1>1, <1>2, <1>4, <2>1, AccountKeeps
<1>5. ASSUME suite' = job[c].old, Refuse(c, "owner"), UNCHANGED <<luks, owner, samba>>
      PROVE  DoorInv'
  <2>1. Agree'
    BY <1>3, <1>5 DEF Agree, Refuse
  <2>. QED
    BY <1>1, <1>2, <1>5, <2>1, AccountKeeps
<1>6. ASSUME UNCHANGED suite, Refuse(c, "owner-and-rollback"), UNCHANGED <<luks, owner, samba>>
      PROVE  DoorInv'
  <2>1. Agree'
    BY <1>6 DEF Agree, Refuse, AccountSignal
  <2>. QED
    BY <1>1, <1>2, <1>6, <2>1, AccountKeeps
<1>. QED
  BY <1>4, <1>5, <1>6 DEF OwnerPassword, Rollback

LEMMA SambaKeeps ==
  ASSUME DoorConstants, OneCaller, DoorInv, NEW c \in Caller, SambaPassword(c), faults' = faults
  PROVE  DoorInv'
<1>1. queue[c] # <<>> /\ Head(queue[c]).do = "samba"
  BY DEF SambaPassword, Running
<1>2. /\ job[c] \in AdminJob /\ AdminInv(c) /\ DoorType
      /\ Head(queue[c]).do \notin {"kill", "add"} /\ job[c].new \in Password
      /\ suite \in Password /\ owner \in Password /\ samba \in Password
  BY <1>1, AdminFacts
<1>3. Tail(queue[c]) = <<>> /\ (told # {} \/ (suite = job[c].new /\ owner = job[c].new))
  BY <1>1, <1>2, AdminRuns
<1>4. ASSUME samba' = job[c].new, Proceed(c), UNCHANGED <<luks, suite, owner>>
      PROVE  DoorInv'
  <2>1. ASSUME queue'[c] = Tail(queue[c]), UNCHANGED <<job, told>> PROVE AdminInv(c)'
    <3>1. told # {} \/ (suite' = owner' /\ owner' = samba')
      BY <1>3, <1>4
    <3>. QED
      BY <1>3, <2>1, <3>1, Zenon DEF AdminInv
  <2>. QED
    BY <1>1, <1>2, <1>4, <2>1, AccountKeeps
<1>5. ASSUME Refuse(c, "samba"), UNCHANGED <<luks, accounts>> PROVE DoorInv'
  <2>1. Agree'
    BY <1>5 DEF Agree, Refuse, AccountSignal
  <2>. QED
    BY <1>1, <1>2, <1>5, <2>1, AccountKeeps DEF accounts
<1>. QED
  BY <1>4, <1>5 DEF SambaPassword, Fails

\* A request with nothing left to run leaves the three passwords equal.
LEMMA EndsAgree ==
  ASSUME DoorInv, NEW c \in Caller, queue[c] = <<>>, job[c] # Idle
  PROVE  Agree
<1>1. CASE job[c] \in AdminJob /\ AdminInv(c)
  <2>1. <<Plain("exportsuite"), Plain("rotate"), Plain("owner"), Plain("samba")>> # <<>>
    OBVIOUS
  <2>2. <<Plain("rotate"), Plain("owner"), Plain("samba")>> # <<>>
    OBVIOUS
  <2>3. <<Plain("owner"), Plain("samba")>> # <<>>
    OBVIOUS
  <2>4. <<Plain("samba")>> # <<>>
    OBVIOUS
  <2>. QED
    BY <1>1, <2>1, <2>2, <2>3, <2>4, Zenon DEF AdminInv, Agree
<1>. QED
  BY <1>1, Zenon DEF DoorInv, RequestInv, Agree

\* The door is free after a kill, whose damage is excused or none.
LEMMA KilledAgrees ==
  ASSUME OneCaller, DoorInv, NEW c \in Caller, faults, faults' = faults,
         queue' = [queue EXCEPT ![c] = <<>>], job' = [job EXCEPT ![c] = Idle],
         UNCHANGED <<luks, accounts>>, Agree'
  PROVE  DoorInv'
<1>1. <<>> \in Seq(Entry)
  BY EmptySeq
<1>2. DoorType'
  BY <1>1 DEF DoorInv, DoorType, luks, accounts
<1>3. queue'[c] = <<>> /\ job'[c] = Idle
  BY DEF DoorInv, DoorType
<1>4. RequestInv(c)'
  BY <1>3 DEF RequestInv, Agree
<1>. QED
  BY <1>2, <1>4, ZeroFaulty, RequestKept

LEMMA FinishKeeps ==
  ASSUME DoorConstants, OneCaller, DoorInv, NEW c \in Caller, Finish(c), faults' = faults
  PROVE  DoorInv'
<1>1. /\ queue[c] = <<>> /\ job[c] # Idle /\ job' = [job EXCEPT ![c] = Idle]
      /\ UNCHANGED <<luks, accounts, queue, told>>
  BY DEF Finish
<1>2. Agree
  BY <1>1, EndsAgree
<1>3. DoorType' /\ job'[c] = Idle /\ queue'[c] = <<>>
  BY <1>1 DEF DoorInv, DoorType, luks, accounts
<1>4. RequestInv(c)'
  BY <1>1, <1>2, <1>3 DEF RequestInv, Agree, accounts
<1>5. SlotZeroHeld'
  BY <1>1, NotWiping, ZeroKept DEF DoorInv, luks
<1>. QED
  BY <1>3, <1>4, <1>5, RequestKept

\* A killed request leaves the three passwords equal where it had not changed
\* the suite, or had changed Samba too.
LEMMA KilledKeeps ==
  ASSUME DoorConstants, OneCaller, DoorInv, NEW c \in Caller, Killed(c), faults' = faults
  PROVE  DoorInv'
<1>1. /\ faults /\ job[c] # Idle
      /\ queue' = [queue EXCEPT ![c] = <<>>] /\ job' = [job EXCEPT ![c] = Idle]
      /\ UNCHANGED <<luks, accounts>>
  BY DEF Killed
<1>2. CASE queue[c] = <<>>
  <2>1. Agree
    BY <1>1, <1>2, EndsAgree
  <2>2. told' = told
    BY <1>2 DEF Killed, Running
  <2>. QED
    BY <1>1, <2>1, <2>2, KilledAgrees DEF Agree, accounts
<1>3. CASE queue[c] # <<>> /\ Head(queue[c]).do \in {"owner", "samba"}
  <2>1. told' # {}
    BY <1>3 DEF Killed, Running
  <2>. QED
    BY <1>1, <2>1, KilledAgrees DEF Agree
<1>4. CASE queue[c] # <<>> /\ Head(queue[c]).do \notin {"owner", "samba"}
  <2>1. Agree
    <3>1. CASE job[c] \in AdminJob /\ AdminInv(c)
      BY <1>4, <3>1, AdminRuns
    <3>. QED
      BY <1>1, <3>1, Zenon DEF DoorInv, RequestInv, Agree
  <2>2. told \subseteq told'
    BY DEF Killed
  <2>. QED
    BY <1>1, <2>1, <2>2, KilledAgrees DEF Agree, accounts
<1>. QED
  BY <1>2, <1>3, <1>4

-----------------------------------------------------------------------------
(* The invariant                                                            *)

LEMMA DoorInit ==
  ASSUME DoorConstants, Init PROVE DoorInv
<1>1. PICK p \in Password :
        /\ slots \in [Device -> [Slot -> Password \cup {Empty}]]
        /\ \A d \in Device : slots[d][0] = p
        /\ nas = p /\ suite = p /\ owner = p /\ samba = p
  BY DEF Init
<1>2. /\ queue = [c \in Caller |-> <<>>] /\ job = [c \in Caller |-> Idle]
  BY DEF Init
<1>3. <<>> \in Seq(Entry)
  BY EmptySeq
<1>4. DoorType
  BY <1>1, <1>2, <1>3 DEF DoorType
<1>5. \A c \in Caller : RequestInv(c)
  BY <1>1, <1>2 DEF RequestInv
<1>6. SlotZeroHeld
  BY <1>1 DEF SlotZeroHeld, DoorConstants
<1>. QED
  BY <1>4, <1>5, <1>6 DEF DoorInv

LEMMA DoorStays ==
  ASSUME DoorInv, UNCHANGED vars PROVE DoorInv'
<1>1. /\ slots' = slots /\ nas' = nas /\ suite' = suite /\ owner' = owner /\ samba' = samba
      /\ queue' = queue /\ job' = job /\ told' = told /\ faults' = faults
  BY DEF vars, luks, accounts
<1>2. DoorType'
  BY <1>1 DEF DoorInv, DoorType
<1>3. \A c \in Caller : RequestInv(c)'
  <2>. SUFFICES ASSUME NEW c \in Caller PROVE RequestInv(c)'
    OBVIOUS
  <2>1. RequestInv(c)
    BY DEF DoorInv
  <2>2. AdminInv(c) => AdminInv(c)'
    BY <1>1, Zenon DEF AdminInv
  <2>3. ASSUME NEW s PROVE Follow(c, s) => Follow(c, s)'
    BY <1>1 DEF Follow
  <2>4. ASSUME NEW d \in Device, NEW rest \in After, Works(c, d, rest)
        PROVE  Works(c, d, rest)'
    <3>1. Plan(c, d, rest)'
      BY <1>1, <2>4, Zenon DEF Works, Plan, Doomed
    <3>. QED
      BY <1>1, <2>3, <2>4, <3>1 DEF Works
  <2>5. ASSUME LuksInv(c) PROVE LuksInv(c)'
    <3>1. CASE queue[c] \in After /\ Follow(c, queue[c])
      BY <1>1, <3>1 DEF LuksInv, Follow
    <3>2. CASE \E d \in Device, rest \in After : Works(c, d, rest)
      BY <2>4, <3>2 DEF LuksInv
    <3>3. CASE \E s \in LookSeq :
                 \/ queue[c] = ExportFirst(s)
                 \/ \E d \in Device :
                      \/ queue[c] = <<Command("verify", d, {}, "current")>> \o ExportFirst(s)
                      \/ queue[c] = <<Look(d)>> \o NewKeyFirst(s)
      BY <1>1, <3>3, Zenon DEF LuksInv
    <3>. QED
      BY <2>5, <3>1, <3>2, <3>3 DEF LuksInv
  <2>. QED
    BY <1>1, <2>1, <2>2, <2>5 DEF RequestInv
<1>4. SlotZeroHeld'
  BY <1>1 DEF DoorInv, SlotZeroHeld, Wiping, Working
<1>. QED
  BY <1>2, <1>3, <1>4 DEF DoorInv

LEMMA DoorNext ==
  ASSUME DoorConstants, OneCaller, DoorInv, [Next]_vars PROVE DoorInv'
<1>1. ASSUME Next PROVE DoorInv'
  <2>1. PICK c \in Caller : faults' = faults /\ (Ask(c) \/ Run(c) \/ Killed(c))
    BY <1>1 DEF Next
  <2>4. CASE Killed(c)
    BY <2>1, <2>4, KilledKeeps
  <2>2. CASE Ask(c)
    BY <2>1, <2>2, VaultBegins, ExternalBegins, BothBegins, UpdateBegins, AdminBegins DEF Ask
  <2>3. CASE Run(c)
    BY <2>1, <2>3, DumpKeeps, KillKeeps, AddKeeps, VerifyKeeps, NewKeyKeeps, ExportKeeps,
       SuiteExportKeeps, RotateKeeps, OwnerKeeps, SambaKeeps, FinishKeeps DEF Run
  <2>. QED
    BY <2>1, <2>2, <2>3, <2>4
<1>. QED
  BY <1>1, DoorStays

LEMMA DoorAlways ==
  ASSUME OneCaller PROVE Spec => []DoorInv
<1>1. Init => DoorInv
  BY DoorInit, DoorConstants
<1>2. DoorInv /\ [Next]_vars => DoorInv'
  BY DoorNext, DoorConstants
<1>. QED
  BY <1>1, <1>2, PTL DEF Spec

\* Where requests are served one at a time and no command fails, every device
\* can have its primary key replaced once more, whatever was asked of it.
THEOREM Replaces ==
  ASSUME OneCaller PROVE Spec => []StaysReplaceable
<1>1. DoorInv => StaysReplaceable
  <2>. SUFFICES ASSUME DoorInv, ~faults, \A c \in Caller : job[c] = Idle, NEW d \in Device
                PROVE  \E p \in Password : Replaceable(d, p)
    BY DEF StaysReplaceable, ReplaceableBetween
  <2>1. \A c \in Caller : queue[c] = <<>>
    BY IdleIsEmpty DEF DoorInv
  <2>2. slots[d][0] # Empty
    BY <2>1 DEF DoorInv, SlotZeroHeld, Wiping, Working
  <2>3. 0 \in Slot \ {1} /\ slots[d][0] \in Password
    BY <2>2, DoorConstants DEF DoorConstants, DoorInv, DoorType
  <2>. QED
    BY <2>3 DEF Replaceable
<1>. QED
  BY <1>1, DoorAlways, PTL

\* The suite, the owner and Samba have one password, or a refusal said not, or
\* the request was killed between the suite and Samba: the rollback of the
\* suite brings it back where chpasswd refused.
THEOREM Disagreements ==
  ASSUME OneCaller PROVE Spec => []DisagreementIsTold
<1>1. DoorInv => DisagreementIsTold
  <2>. SUFFICES ASSUME DoorInv PROVE DisagreementIsTold
    OBVIOUS
  <2>1. PICK c \in Caller : RequestInv(c)
    BY DEF DoorInv, OneCaller
  <2>2. CASE job[c] \in AdminJob
    BY <2>2 DEF DisagreementIsTold, AdminJob
  <2>3. CASE job[c] \notin AdminJob
    BY <2>1, <2>3, Zenon DEF RequestInv, DisagreementIsTold
  <2>. QED
    BY <2>2, <2>3
<1>. QED
  BY <1>1, DoorAlways, PTL

-----------------------------------------------------------------------------
(* The devices                                                              *)

OnDevice(c, d, rest) ==
  /\ rest \in After /\ Works(c, d, rest) /\ Ahead(c, d, rest)
  /\ job[c] \in LuksJob /\ DoorType /\ rest \in Seq(Entry)

\* The device that is worked on is the one the plan is for.
LEMMA WorkingOn ==
  ASSUME DoorConstants, DoorInv, NEW c \in Caller, NEW d \in Device, Working(c, d)
  PROVE  \E rest : OnDevice(c, d, rest)
<1>1. queue[c] # <<>> /\ Head(queue[c]).do \in {"kill", "add"} /\ Head(queue[c]).dev = d
  BY DEF Working
<1>2. job[c] \in LuksJob /\ LuksInv(c) /\ DoorType
  BY <1>1, LuksRuns DEF DoorInv, LuksDo
<1>3. PICK e \in Device, rest \in After : Works(c, e, rest)
  BY <1>1, <1>2, LuksStep
<1>4. Ahead(c, e, rest) /\ rest \in Seq(Entry)
  BY <1>3, WorksDo, AfterIsSeq
<1>5. e = d
  <2>. DEFINE h == Head(queue[c])
  <2>1. \A x, t : Front(c, x, t) => h = x
    BY DEF Front
  <2>2. h.dev = d
    BY <1>1
  <2>. HIDE DEF h
  <2>3. /\ h = KillNew(e) => e = d
        /\ \A at : h = Command("kill", e, at, "new") => e = d
        /\ \A s : h = KillOld(e, s) => e = d
        /\ \A s, key : h = Add(e, s, key) => e = d
    BY <2>2 DEF KillNew, Command, KillOld, Add
  <2>. QED
    BY <1>4, <2>1, <2>3, Zenon DEF Ahead
<1>. QED
  BY <1>2, <1>3, <1>4, <1>5 DEF OnDevice

LEMMA WorkSteps ==
  ASSUME NEW c \in Caller, NEW d \in Device, OneCaller, Working(c, d), [Next]_vars, DoorInv
  PROVE  \/ UNCHANGED vars
         \/ Killed(c)
         \/ /\ \/ Head(queue[c]).do = "kill" /\ KillSlot(c)
               \/ Head(queue[c]).do = "add" /\ AddKey(c)
            /\ faults' = faults
<1>1. CASE Next
  <2>1. PICK b \in Caller : faults' = faults /\ (Ask(b) \/ Run(b) \/ Killed(b))
    BY <1>1 DEF Next
  <2>2. b = c
    BY DEF OneCaller
  <2>3. queue[c] # <<>> /\ Head(queue[c]).do \in {"kill", "add"}
    BY DEF Working
  <2>4. ~Ask(c)
    <3>1. job[c] # Idle
      BY <2>3, IdleIsEmpty DEF DoorInv
    <3>. QED
      BY <3>1 DEF Ask, CreateVault, CreateExternal, CreateBoth, Update, AdminPassword, Begin
  <2>5. Run(c) \/ Killed(c)
    BY <2>1, <2>2, <2>4
  <2>6. Finish(c) => queue[c] = <<>>
    BY DEF Finish
  <2>7. /\ Dump(c) => Head(queue[c]).do = "dump"
        /\ KillSlot(c) => Head(queue[c]).do = "kill"
        /\ AddKey(c) => Head(queue[c]).do = "add"
        /\ Verify(c) => Head(queue[c]).do = "verify"
        /\ NewKey(c) => Head(queue[c]).do = "newkey"
        /\ ExportNas(c) => Head(queue[c]).do = "export"
        /\ ExportSuite(c) => Head(queue[c]).do = "exportsuite"
        /\ RotateSuite(c) => Head(queue[c]).do = "rotate"
        /\ OwnerPassword(c) => Head(queue[c]).do = "owner"
        /\ SambaPassword(c) => Head(queue[c]).do = "samba"
    BY DEF Dump, KillSlot, AddKey, Verify, NewKey, ExportNas, ExportSuite, RotateSuite,
           OwnerPassword, SambaPassword, Running
  <2>. QED
    BY <2>1, <2>3, <2>5, <2>6, <2>7 DEF Run
<1>. QED
  BY <1>1

\* What a command leaves of the device: the key that is removed is not the last
\* one that opens it, and the new key is there before the rest goes.
LEMMA WayKept ==
  ASSUME DoorConstants, OneCaller, DoorInv, NEW c \in Caller, NEW d \in Device,
         ~faults, Working(c, d), [Next]_vars,
         NEW p \in {job[c].current[d], job[c].new[d]}, Opens(d, p)
  PROVE  \E s \in Slot : slots'[d][s] \in {job[c].current[d], job[c].new[d]}
<1>. DEFINE secrets == {job[c].current[d], job[c].new[d]}
<1>0. 0 \in Slot /\ 1 \in Slot
  BY DEF DoorConstants
<1>1. slots' = slots => \E s \in Slot : slots'[d][s] \in secrets
  BY DEF Opens
<1>. HIDE DEF secrets
<1>2. job[c].current[d] \in secrets /\ job[c].new[d] \in secrets
  BY DEF secrets
<1>3. PICK rest : OnDevice(c, d, rest)
  BY WorkingOn
<1>4. DoorType /\ Ahead(c, d, rest) /\ \A a \in Caller : a = c
  BY <1>3 DEF OnDevice, OneCaller
<1>5. ASSUME NEW s \in Slot \ {0}, NEW key, NEW t, Front(c, Command("kill", d, {s}, key), t),
             KillSlot(c), slots[d][0] # Empty
      PROVE  \E a \in Slot : slots'[d][a] \in secrets
  <2>1. PICK at : at = {s}
    OBVIOUS
  <2>2. Killing(c, d, at, key, t)
    BY <1>5, <2>1, KillParts
  <2>. DEFINE secret == IF key = "current" THEN job[c].current[d] ELSE job[c].new[d]
  <2>3. secret \in secrets
    BY <1>2
  <2>. HIDE DEF secret
  <2>4. \/ Killable(d, s, secret) /\ slots' = [slots EXCEPT ![d][s] = Empty]
        \/ slots' = slots
    <3>1. PICK a \in at : \/ Killable(d, a, secret) /\ slots' = [slots EXCEPT ![d][a] = Empty]
                          \/ UNCHANGED <<luks, accounts>>
      BY <2>2, Zenon DEF Killing, Fails, secret
    <3>. QED
      BY <2>1, <3>1 DEF luks
  <2>5. ASSUME Killable(d, s, secret), slots' = [slots EXCEPT ![d][s] = Empty]
        PROVE  \E a \in Slot : slots'[d][a] \in secrets
    <3>1. Enabled(d) # {s}
      BY <1>0, <1>5 DEF Enabled
    <3>2. PICK other \in Slot \ {s} : slots[d][other] = secret
      BY <2>5, <3>1 DEF Killable
    <3>3. slots'[d][other] = secret
      BY <1>4, <2>5, <3>2 DEF DoorType
    <3>. QED
      BY <2>3, <3>3
  <2>. QED
    BY <1>1, <2>4, <2>5
<1>6. ASSUME NEW s \in Slot, NEW key, NEW t, Front(c, Add(d, s, key), t), AddKey(c)
      PROVE  \E a \in Slot : slots'[d][a] \in secrets
  <2>1. Adding(c, d, s, key, t)
    BY <1>6, AddParts
  <2>2. slots' = [slots EXCEPT ![d][s] = job[c].new[d]] \/ slots' = slots
    BY <2>1, Zenon DEF Adding, Filling, Fails, luks
  <2>3. slots' = [slots EXCEPT ![d][s] = job[c].new[d]] => slots'[d][s] = job[c].new[d]
    BY <1>4 DEF DoorType
  <2>. QED
    BY <1>1, <1>2, <2>2, <2>3
<1>7. ASSUME NEW E \in (SUBSET Slot) \ {{}}, Doomed(d, E),
             Front(c, Command("kill", d, E, "new"), Settle(d, {}, rest)),
             slots[d][1] = job[c].new[d], KillSlot(c)
      PROVE  \E a \in Slot : slots'[d][a] \in secrets
  <2>1. Killing(c, d, E, "new", Settle(d, {}, rest))
    BY <1>7, KillParts
  <2>2. PICK s \in E : slots' = [slots EXCEPT ![d][s] = Empty] \/ slots' = slots
    BY <2>1, Zenon DEF Killing, Fails, luks
  <2>3. s # 1 /\ s \in Slot
    BY <1>7 DEF Doomed
  <2>4. slots'[d][1] = job[c].new[d]
    BY <1>0, <1>4, <1>7, <2>2, <2>3 DEF DoorType
  <2>. QED
    BY <1>0, <1>2, <2>4
<1>8. ASSUME Head(queue[c]).key = "current" \/ 1 \in Head(queue[c]).slots
      PROVE  slots[d][0] # Empty
  <2>1. \A e \in Device : ~Wiping(c, e)
    BY <1>8, NotWiping
  <2>. QED
    BY <1>4, <2>1 DEF DoorInv, SlotZeroHeld
<1>9. ASSUME KillSlot(c), Head(queue[c]).do = "kill"
      PROVE  \E a \in Slot : slots'[d][a] \in secrets
  <2>. DEFINE h == Head(queue[c])
  <2>1. \A x, t : Front(c, x, t) => h = x
    BY DEF Front
  <2>2. h.do = "kill"
    BY <1>9
  <2>3. h.key = "current" \/ 1 \in h.slots => slots[d][0] # Empty
    BY <1>8
  <2>. HIDE DEF h
  <2>4. \A s, key : h # Add(d, s, key)
    BY <2>2 DEF Add, Command
  <2>5. (h = KillNew(d) => 1 \in h.slots) /\ \A s : h = KillOld(d, s) => h.key = "current"
    BY DEF KillNew, KillOld, Command
  <2>6. ASSUME NEW t, Front(c, KillNew(d), t) PROVE \E a \in Slot : slots'[d][a] \in secrets
    <3>1. slots[d][0] # Empty
      BY <2>1, <2>3, <2>5, <2>6
    <3>2. PICK s \in Slot \ {0} : s = 1
      BY <1>0
    <3>3. Front(c, Command("kill", d, {s}, "new"), t)
      BY <2>6, <3>2 DEF KillNew
    <3>. QED
      BY <1>5, <1>9, <3>1, <3>3
  <2>7. ASSUME NEW s \in Slot \ {0}, NEW t, Front(c, KillOld(d, s), t)
        PROVE  \E a \in Slot : slots'[d][a] \in secrets
    <3>1. slots[d][0] # Empty
      BY <2>1, <2>3, <2>5, <2>7
    <3>2. Front(c, Command("kill", d, {s}, "current"), t)
      BY <2>7 DEF KillOld
    <3>. QED
      BY <1>5, <1>9, <3>1, <3>2
  <2>8. 1 \in Slot \ {0}
    BY <1>0
  <2>9. \A s, key, t : ~Front(c, Add(d, s, key), t)
    BY <2>1, <2>4, Zenon
  <2>. QED
    BY <1>4, <1>7, <1>9, <2>6, <2>7, <2>8, <2>9, Zenon DEF Ahead
<1>10. ASSUME AddKey(c), Head(queue[c]).do = "add"
      PROVE  \E a \in Slot : slots'[d][a] \in secrets
  <2>. DEFINE h == Head(queue[c])
  <2>1. \A x, t : Front(c, x, t) => h = x
    BY DEF Front
  <2>2. h.do = "add"
    BY <1>10
  <2>. HIDE DEF h
  <2>3. h # KillNew(d) /\ (\A at : h # Command("kill", d, at, "new")) /\ \A s : h # KillOld(d, s)
    BY <2>2 DEF KillNew, KillOld, Command
  <2>4. /\ \A t : ~Front(c, KillNew(d), t)
        /\ \A at, t : ~Front(c, Command("kill", d, at, "new"), t)
        /\ \A s, t : ~Front(c, KillOld(d, s), t)
    BY <2>1, <2>3, Zenon
  <2>5. \E s \in Slot : \E key, t : Front(c, Add(d, s, key), t)
    BY <1>0, <1>4, <2>4, Zenon DEF Ahead
  <2>. QED
    BY <1>6, <1>10, <2>5
<1>11. ASSUME UNCHANGED vars
      PROVE  \E a \in Slot : slots'[d][a] \in secrets
  BY <1>1, <1>11 DEF vars, luks
<1>13. ~Killed(c)
  BY DEF Killed
<1>12. \E a \in Slot : slots'[d][a] \in secrets
  BY <1>9, <1>10, <1>11, <1>13, WorkSteps
<1>. QED
  BY <1>12 DEF secrets

\* Where no command fails, a device whose slots are being rewritten opens with
\* the password of before or with the one it is to get, at every moment.
THEOREM KeepsOpen ==
  ASSUME OneCaller PROVE Spec => KeepsAWayIn
<1>1. ASSUME DoorInv, [Next]_vars, NEW c \in Caller, NEW d \in Device, ~faults, Working(c, d),
             \E p \in {job[c].current[d], job[c].new[d]} : Opens(d, p)
      PROVE  \E s \in Slot : slots'[d][s] \in {job[c].current[d], job[c].new[d]}
  BY <1>1, WayKept, DoorConstants
<1>2. DoorInv /\ [Next]_vars =>
        [\A c \in Caller, d \in Device : ~faults /\ Working(c, d) =>
           LET secrets == {job[c].current[d], job[c].new[d]}
           IN (\E p \in secrets : Opens(d, p)) =>
                \E s \in Slot : slots'[d][s] \in secrets]_vars
  BY <1>1
<1>. QED
  BY <1>2, DoorAlways, PTL DEF Spec, KeepsAWayIn

\* Where no NAS key is still to be made, nothing but devices is to come.
LEMMA RestLooks ==
  ASSUME DoorConstants, NEW c \in Caller, DoorType, queue[c] # <<>>, Tail(queue[c]) \in After,
         \A i \in DOMAIN queue[c] : queue[c][i].do # "newkey"
  PROVE  Tail(queue[c]) \in LookSeq
<1>. DEFINE q == queue[c]
            x == Head(q)
            t == Tail(q)
<1>1. SUFFICES ASSUME NEW s \in LookSeq, t = NewKeyFirst(s) PROVE FALSE
  BY DEF After
<1>2. q \in Seq(Entry) /\ q # <<>> /\ \A i \in DOMAIN q : q[i].do # "newkey"
  BY DEF DoorType
<1>. HIDE DEF q
<1>3. x \in Entry /\ t \in Seq(Entry) /\ q = <<x>> \o t
  BY <1>2, Uncons
<1>. HIDE DEF x, t
<1>4. DOMAIN q = 1 .. Len(t) + 1 /\ \A i \in 1 .. Len(t) : q[i + 1] = t[i]
  BY <1>3, Cons
<1>5. t # <<>> /\ t[1] = Plain("newkey")
  BY <1>1, Lates
<1>6. Len(t) \in Nat /\ Len(t) # 0
  BY <1>3, <1>5, LenProperties, EmptySeq
<1>. DEFINE n == Len(t)
<1>. HIDE DEF n
<1>7. 2 \in DOMAIN q /\ q[1 + 1] = t[1]
  BY <1>4, <1>6 DEF n
<1>8. q[2].do = "newkey"
  BY <1>5, <1>7 DEF Plain
<1>. QED
  BY <1>2, <1>7, <1>8

LEMMA FollowKept ==
  ASSUME DoorConstants, OneCaller, DoorInv, NEW c \in Caller, NEW d \in Device,
         [Next]_vars, Settled(c, d), job[c].action # "create-vault",
         \A i \in DOMAIN queue[c] : queue[c][i].do # "newkey"
  PROVE  \E s \in Slot : slots'[d][s] = nas
<1>0. 0 \in Slot /\ 1 \in Slot
  BY DEF DoorConstants
<1>1. /\ Working(c, d) /\ queue[c] # <<>> /\ queue'[c] = Tail(queue[c]) /\ job'[c] # Idle
      /\ queue'[c] = <<>> \/ Head(queue'[c]).do \notin {"kill", "add"}
  BY DEF Settled, Working
<1>2. PICK rest : OnDevice(c, d, rest)
  BY <1>1, WorkingOn
<1>3. DoorType /\ Ahead(c, d, rest) /\ rest \in After /\ rest \in Seq(Entry) /\ job[c] \in LuksJob
  BY <1>2 DEF OnDevice
<1>4. rest \in LookSeq => job[c].new[d] = nas
  BY <1>2 DEF OnDevice, Works
<1>5. ASSUME NEW t, NEW x, Front(c, x, t) PROVE queue'[c] = t
  BY <1>1, <1>5 DEF Front
<1>6. Tail(queue[c]) = rest => job[c].new[d] = nas
  BY <1>1, <1>3, <1>4, RestLooks
<1>7. \A signal : ~Refuse(c, signal)
  BY <1>1, <1>3 DEF Refuse, DoorType
<1>8. ASSUME NEW x \in Entry, NEW u \in Seq(Entry), x.do \in {"kill", "add"}, queue'[c] = <<x>> \o u
      PROVE  FALSE
  <2>1. <<x>> \o u # <<>> /\ Head(<<x>> \o u) = x
    BY Cons
  <2>. QED
    BY <1>1, <1>8, <2>1
<1>9. ASSUME NEW E \in SUBSET Slot, queue'[c] = Settle(d, E, rest) PROVE FALSE
  <2>. DEFINE q == Settle(d, E, rest)
              h == Head(q)
  <2>1. q # <<>> /\ (h = Add(d, 0, "new") \/ h = Command("kill", d, E, "new"))
    BY <1>3, Settles
  <2>. HIDE DEF h
  <2>2. h.do \in {"kill", "add"}
    BY <2>1 DEF Add, Command
  <2>3. queue'[c] = q
    BY <1>9
  <2>. HIDE DEF q
  <2>. QED
    BY <1>1, <2>1, <2>2, <2>3 DEF h
<1>10. /\ \A s \in Slot : Add(d, s, "current") \in Entry /\ Add(d, s, "current").do = "add"
       /\ KillNew(d) \in Entry /\ KillNew(d).do = "kill"
  BY Entries DEF Add, KillNew, Command
<1>11. ASSUME Front(c, KillNew(d), rest), slots[d][0] = job[c].new[d], KillSlot(c)
       PROVE  \E s \in Slot : slots'[d][s] = nas
  <2>1. PICK at : at = {1}
    OBVIOUS
  <2>2. Front(c, Command("kill", d, at, "new"), rest)
    BY <1>11, <2>1 DEF KillNew
  <2>3. Killing(c, d, at, "new", rest)
    BY <1>11, <2>2, KillParts
  <2>4. PICK s \in at : slots' = [slots EXCEPT ![d][s] = Empty] \/ slots' = slots
    BY <2>3, Zenon DEF Killing, Fails, luks
  <2>5. slots'[d][0] = job[c].new[d]
    BY <1>0, <1>3, <1>11, <2>1, <2>4 DEF DoorType
  <2>6. Tail(queue[c]) = rest
    BY <1>11 DEF Front
  <2>. QED
    BY <1>0, <1>6, <2>5, <2>6
<1>12. ASSUME NEW s \in Slot \ {0}, Front(c, Add(d, s, "current"), rest), AddKey(c)
       PROVE  \E a \in Slot : slots'[d][a] = nas
  <2>1. Adding(c, d, s, "current", rest)
    BY <1>12, AddParts
  <2>2. slots' = [slots EXCEPT ![d][s] = job[c].new[d]]
    BY <1>7, <2>1, Zenon DEF Adding, Filling, Fails
  <2>3. slots'[d][s] = job[c].new[d]
    BY <1>3, <2>2 DEF DoorType
  <2>4. Tail(queue[c]) = rest
    BY <1>12 DEF Front
  <2>. QED
    BY <1>6, <2>3, <2>4
<1>13. ASSUME NEW E \in (SUBSET Slot) \ {{}},
              Front(c, Command("kill", d, E, "new"), Settle(d, {}, rest))
       PROVE  FALSE
  <2>1. queue'[c] = Settle(d, {}, rest)
    BY <1>5, <1>13
  <2>2. {} \in SUBSET Slot
    OBVIOUS
  <2>. QED
    BY <1>9, <2>1, <2>2
<1>14. ASSUME Front(c, Add(d, 0, "new"), <<KillNew(d)>> \o rest) PROVE FALSE
  <2>1. queue'[c] = <<KillNew(d)>> \o rest
    BY <1>5, <1>14
  <2>. QED
    BY <1>3, <1>8, <1>10, <2>1
<1>15. ASSUME NEW E \in SUBSET Slot, Front(c, Add(d, 1, "current"), Settle(d, E, rest)) PROVE FALSE
  <2>1. queue'[c] = Settle(d, E, rest)
    BY <1>5, <1>15
  <2>. QED
    BY <1>9, <2>1
<1>16. ASSUME NEW E \in SUBSET Slot,
              Front(c, KillOld(d, 1), <<Add(d, 1, "current")>> \o Settle(d, E, rest))
       PROVE  FALSE
  <2>1. queue'[c] = <<Add(d, 1, "current")>> \o Settle(d, E, rest)
    BY <1>5, <1>16
  <2>2. Settle(d, E, rest) \in Seq(Entry)
    BY <1>3, Settles
  <2>. QED
    BY <1>0, <1>8, <1>10, <2>1, <2>2
<1>17. ASSUME NEW s \in Slot \ {0}, Front(c, KillOld(d, s), <<Add(d, s, "current")>> \o rest)
       PROVE  FALSE
  <2>1. queue'[c] = <<Add(d, s, "current")>> \o rest
    BY <1>5, <1>17
  <2>. QED
    BY <1>3, <1>8, <1>10, <2>1
<1>18. \/ Front(c, KillNew(d), rest) /\ slots[d][0] = job[c].new[d]
       \/ \E s \in Slot \ {0} : Front(c, Add(d, s, "current"), rest)
  BY <1>3, <1>13, <1>14, <1>15, <1>16, <1>17, Zenon DEF Ahead
<1>19. ~UNCHANGED vars
  <2>1. queue[c] \in Seq(Entry)
    BY <1>3 DEF DoorType
  <2>2. queue[c] # Tail(queue[c])
    <3>. DEFINE q == queue[c]
    <3>1. q \in Seq(Entry) /\ q # <<>>
      BY <1>1, <2>1
    <3>. HIDE DEF q
    <3>2. Len(q) \in Nat /\ Len(Tail(q)) = Len(q) - 1
      BY <3>1, HeadTailProperties, LenProperties
    <3>3. Len(q) # Len(Tail(q))
      BY <3>2
    <3>. QED
      BY <3>3, Zenon DEF q
  <2>. QED
    BY <1>1, <2>2 DEF vars
<1>24. ~Killed(c)
  <2>1. job'[c] # Idle
    BY DEF Settled
  <2>. QED
    BY <1>3, <2>1 DEF Killed, DoorType
<1>20. \/ Head(queue[c]).do = "kill" /\ KillSlot(c)
       \/ Head(queue[c]).do = "add" /\ AddKey(c)
  BY <1>1, <1>19, <1>24, WorkSteps
<1>. DEFINE h == Head(queue[c])
<1>21. \A x, t : Front(c, x, t) => h = x
  BY DEF Front
<1>22. \/ h.do = "kill" /\ KillSlot(c)
       \/ h.do = "add" /\ AddKey(c)
  BY <1>20
<1>. HIDE DEF h
<1>23. (h = KillNew(d) => h.do # "add") /\ \A s : h = Add(d, s, "current") => h.do # "kill"
  BY DEF KillNew, Add, Command
<1>. QED
  BY <1>11, <1>12, <1>18, <1>21, <1>22, <1>23, Zenon

\* A device that is done after the export opens with the NAS password of now.
THEOREM FollowsNas ==
  ASSUME OneCaller PROVE Spec => DevicesFollowNas
<1>1. ASSUME DoorInv, [Next]_vars, NEW c \in Caller, NEW d \in Device, Settled(c, d),
             job[c].action # "create-vault",
             \A i \in DOMAIN queue[c] : queue[c][i].do # "newkey"
      PROVE  \E s \in Slot : slots'[d][s] = nas
  BY <1>1, FollowKept, DoorConstants
<1>2. DoorInv /\ [Next]_vars =>
        [\A c \in Caller, d \in Device :
           /\ Settled(c, d) /\ job[c].action # "create-vault"
           /\ \A i \in DOMAIN queue[c] : queue[c][i].do # "newkey"
           => \E s \in Slot : slots'[d][s] = nas]_vars
  BY <1>1
<1>. QED
  BY <1>2, DoorAlways, PTL DEF Spec, DevicesFollowNas
=============================================================================
