----------------------------- MODULE PolicyProofs -----------------------------
(***************************************************************************)
(* Theorems about ChildPolicy beside the editors of UnboundEdits, for any  *)
(* number of callers, editors, devices and requests.                       *)
(***************************************************************************)
EXTENDS UnboundEdits, TLAPS

\* What keeps a device filtered: the file of the rules has it too, and a change
\* under way was built on, and will write, nothing without it.
FilterInv ==
  /\ StillFiltered
  /\ filtered \subseteq DOMAIN file.nft
  /\ \A c \in Family : job[c].at # "idle" =>
       /\ holder = c
       /\ filtered \subseteq DOMAIN job[c].next
       /\ filtered \subseteq DOMAIN job[c].source.unbound.policies
       /\ filtered \subseteq DOMAIN job[c].source.nft
       /\ job[c].request.op = "put" => job[c].request.mac \in DOMAIN job[c].next
       /\ job[c].at \in {"apply", "reload", "prove"} => file.nft = Rules(job[c].next)

-----------------------------------------------------------------------------
(* The operators on policies.                                              *)

LEMMA EmptyType == Empty \in Policies /\ Empty \in Filters
<1>1. Empty \in [{} -> [ip : Ip, sites : Sites]] /\ Empty \in [{} -> Ip]
  BY DEF Empty
<1>2. {} \in SUBSET Mac
  OBVIOUS
<1>. QED
  BY <1>1, <1>2 DEF Policies, Filters

LEMMA RulesType ==
  ASSUME NEW p \in Policies
  PROVE  Rules(p) \in Filters /\ DOMAIN Rules(p) = DOMAIN p
<1>1. PICK S \in SUBSET Mac : p \in [S -> [ip : Ip, sites : Sites]]
  BY DEF Policies
<1>2. Rules(p) \in [S -> Ip]
  BY <1>1 DEF Rules
<1>. QED
  BY <1>2 DEF Filters, Rules

\* A request whose device has an address keeps policies policies.
LEMMA ChangedType ==
  ASSUME NEW p \in Policies, NEW r \in Request,
         r.op = "put" => kea[r.mac] \in Ip
  PROVE  /\ Changed(p, r) \in Policies
         /\ DOMAIN Changed(p, r) = IF r.op = "put" THEN DOMAIN p \cup {r.mac}
                                   ELSE DOMAIN p \ {r.mac}
<1>1. PICK S \in SUBSET Mac : p \in [S -> [ip : Ip, sites : Sites]]
  BY DEF Policies
<1>2. r.mac \in Mac /\ r.op \in {"put", "delete"} /\ (r.op = "put" => r.sites \in Sites)
  BY DEF Request
<1>. DEFINE T == IF r.op = "put" THEN S \cup {r.mac} ELSE S \ {r.mac}
<1>3. T \in SUBSET Mac
  BY <1>1, <1>2
<1>4. DOMAIN Changed(p, r) = T
  BY <1>1 DEF Changed
<1>5. Changed(p, r) \in [T -> [ip : Ip, sites : Sites]]
  BY <1>1, <1>2 DEF Changed
<1>. QED
  BY <1>1, <1>3, <1>4, <1>5 DEF Policies

LEMMA NotATable == \A f \in Filters : f # NoTable
BY PolicyConstants

\* A change that starts has an address for the device that it adds.
LEMMA AdmittedType ==
  ASSUME TypeOK, NEW c \in Family, NEW r \in Request, Admitted(c, r)
  PROVE  /\ Changed(file.unbound.policies, r) \in Policies
         /\ Changed(seen[c].policies, r) \in Policies
         /\ DOMAIN Changed(file.unbound.policies, r) =
              IF r.op = "put" THEN DOMAIN file.unbound.policies \cup {r.mac}
              ELSE DOMAIN file.unbound.policies \ {r.mac}
<1>1. file.unbound.policies \in Policies /\ seen[c].policies = file.unbound.policies
  BY DEF TypeOK, Files, Unbound, Admitted, Revision
<1>2. r.mac \in Mac
  BY DEF Request
<1>3. r.op = "put" => kea[r.mac] \in Ip
  BY <1>2 DEF TypeOK, Admitted
<1>. QED
  BY <1>1, <1>3, ChangedType

-----------------------------------------------------------------------------
(* Type correctness.                                                       *)

\* What a caller holds while a change is under way.
LEMMA JobType ==
  ASSUME TypeOK, NEW c \in Family, job[c].at # "idle"
  PROVE  /\ job[c] \in Job
         /\ job[c].source.unbound \in Unbound /\ job[c].source.nft \in Filters
         /\ Payload(c, "unbound") \in Unbound /\ Payload(c, "nft") \in Filters
<1>1. job[c] \in Job
  BY DEF TypeOK, Idle
<1>2. job[c].source \in Files /\ job[c].next \in Policies
  BY <1>1 DEF Job
<1>3. job[c].source.unbound \in Unbound /\ job[c].source.nft \in Filters
  BY <1>2 DEF Files
<1>4. [job[c].source.unbound EXCEPT !.policies = job[c].next] \in Unbound
  BY <1>2, <1>3 DEF Unbound
<1>. QED
  BY <1>1, <1>2, <1>3, <1>4, RulesType DEF Payload

LEMMA WriteType ==
  ASSUME TypeOK, NEW f \in {"unbound", "nft"}, NEW content, Write(f, content),
         f = "unbound" => content \in Unbound, f = "nft" => content \in Filters
  PROVE  file' \in Files /\ file'.nft = IF f = "nft" THEN content ELSE file.nft
BY DEF TypeOK, Files, Write

LEMMA FailType ==
  ASSUME TypeOK, NEW c \in Family, job[c].at # "idle", Fail(c)
  PROVE  job' \in [Family -> Job \cup {Idle}]
<1>1. job[c] \in Job
  BY JobType
<1>2. [job[c] EXCEPT !.at = "undo", !.clean = (job[c].undo # {})] \in Job
  BY <1>1 DEF Job
<1>. QED
  BY <1>2 DEF Fail, TypeOK

LEMMA GoType ==
  ASSUME TypeOK, NEW c \in Family, job[c].at # "idle",
         NEW a \in {"check", "replace", "apply", "reload", "prove", "undo", "restore",
                    "reload back"}, Go(c, a)
  PROVE  job' \in [Family -> Job \cup {Idle}]
<1>1. job[c] \in Job
  BY JobType
<1>2. [job[c] EXCEPT !.at = a] \in Job
  BY <1>1 DEF Job
<1>. QED
  BY <1>2 DEF Go, TypeOK

LEMMA ReleaseType ==
  ASSUME TypeOK, NEW c \in Family, NEW a \in {"ok", "restored", "failed"}, Release(c, a)
  PROVE  /\ holder' = Nobody /\ job' = [job EXCEPT ![c] = Idle]
         /\ job' \in [Family -> Job \cup {Idle}]
         /\ told' \in [Family -> {"none", "refused", "noop", "ok", "restored", "failed"}]
         /\ seen' \in [Family -> [policies : Policies, nft : Filters] \cup {NoRevision}]
         /\ harmed' \in BOOLEAN
<1>1. Revision \in [policies : Policies, nft : Filters]
  BY DEF TypeOK, Files, Unbound, Revision
<1>. QED
  BY <1>1 DEF Release, Answer, TypeOK

LEMMA UndoneType ==
  ASSUME TypeOK, NEW c \in Family, job[c].at # "idle", NEW f, NEW b \in BOOLEAN,
         Undone(c, f, b)
  PROVE  job' \in [Family -> Job \cup {Idle}]
<1>1. job[c] \in Job
  BY JobType
<1>2. job[c].undo \ {f} \in SUBSET {"unbound", "nft"} /\ (job[c].clean /\ b) \in BOOLEAN
  BY <1>1 DEF Job
<1>3. [job[c] EXCEPT !.at = "undo", !.undo = job[c].undo \ {f}, !.clean = job[c].clean /\ b] \in Job
  BY <1>1, <1>2 DEF Job
<1>. QED
  BY <1>3 DEF Undone, TypeOK

LEMMA TypeInit == Init => TypeOK
<1>. SUFFICES ASSUME Init PROVE TypeOK
  OBVIOUS
<1>1. file \in Files /\ running \in Unbound
  BY EmptyType, EditConstants DEF Init, Files, Unbound
<1>2. kea \in [Mac -> Ip \cup {NoIp}] /\ left \in [Client -> Nat]
  BY PolicyConstants, EditConstants DEF Init
<1>. QED
  BY <1>1, <1>2, EmptyType, EditConstants DEF Init, TypeOK, Client, Editor

LEMMA FamilyType ==
  ASSUME TypeOK, NEW c \in Family, FamilyStep(c), UNCHANGED edits
  PROVE  TypeOK'
<1>. USE DEF At
<1>1. CASE See(c)
  <2>1. Revision \in [policies : Policies, nft : Filters]
    BY DEF TypeOK, Files, Unbound, Revision
  <2>. QED
    BY <1>1, <2>1 DEF See, TypeOK, host, shared, ghosts, edits
<1>2. CASE Start(c)
  <2>1. left' \in [Client -> Nat]
    BY <1>2 DEF Start, TypeOK, Client
  <2>2. /\ told' \in [Family -> {"none", "refused", "noop", "ok", "restored", "failed"}]
        /\ harmed' \in BOOLEAN /\ filtered' \subseteq Mac
    BY <1>2 DEF Start, Answer, TypeOK, Request
  <2>3. holder' \in Client \cup {Nobody}
    BY <1>2 DEF Start, TypeOK, Client
  <2>4. job' \in [Family -> Job \cup {Idle}]
    <3>1. ASSUME NEW r \in Request, Admitted(c, r)
          PROVE  [at |-> "check", of |-> "unbound", request |-> r,
                  next |-> Changed(file.unbound.policies, r), source |-> file,
                  undo |-> {}, clean |-> TRUE,
                  expected |-> Changed(seen[c].policies, r)] \in Job
      BY <3>1, AdmittedType DEF Job, TypeOK
    <3>. QED
      BY <1>2, <3>1 DEF Start, TypeOK
  <2>. QED
    BY <1>2, <2>1, <2>2, <2>3, <2>4 DEF Start, TypeOK, host, edits
<1>3. CASE Check(c)
  BY <1>3, GoType, FailType DEF Check, TypeOK, host, shared, ghosts, edits
<1>4. CASE Replace(c)
  <2>1. job[c] \in Job /\ Payload(c, "unbound") \in Unbound /\ Payload(c, "nft") \in Filters
    BY <1>4, JobType DEF Replace
  <2>2. file' \in Files
    BY <1>4, <2>1, WriteType DEF Replace, TypeOK, Job
  <2>3. job' \in [Family -> Job \cup {Idle}]
    <3>1. [job[c] EXCEPT !.undo = job[c].undo \cup {job[c].of}, !.of = "nft",
             !.at = IF job[c].of = "unbound" THEN "check" ELSE "apply"] \in Job
      BY <2>1 DEF Job
    <3>. QED
      BY <1>4, <3>1, FailType DEF Replace, TypeOK
  <2>. QED
    BY <1>4, <2>2, <2>3 DEF Replace, TypeOK, shared, ghosts, edits
<1>5. CASE Apply(c)
  <2>1. Rules(job[c].next) \in Filters
    BY <1>5, JobType, RulesType DEF Apply, Job
  <2>. QED
    BY <1>5, <2>1, GoType, FailType DEF Apply, TypeOK, shared, ghosts, edits
<1>6. CASE Reload(c)
  BY <1>6, GoType, FailType DEF Reload, TypeOK, shared, ghosts, edits
<1>7. CASE Prove(c)
  <2>1. job[c] \in Job
    BY <1>7, JobType DEF Prove
  <2>2. CASE Proven(c) /\ Release(c, "ok") /\ UNCHANGED <<host, kea, left>>
             /\ accepted' = job[c].expected /\ filtered' \in {filtered, filtered \cup {job[c].request.mac}}
    <3>1. accepted' \in Policies /\ filtered' \subseteq Mac
      BY <2>1, <2>2 DEF Job, Request, TypeOK
    <3>. QED
      BY <2>2, <3>1, ReleaseType DEF TypeOK, host, edits
  <2>3. CASE Fail(c) /\ UNCHANGED <<host, shared, seen, told, ghosts>>
    BY <1>7, <2>3, FailType DEF Prove, TypeOK, host, shared, ghosts, edits
  <2>. QED
    BY <1>7, <2>2, <2>3 DEF Prove
<1>8. CASE CheckBack(c)
  BY <1>8, GoType, UndoneType DEF CheckBack, TypeOK, host, shared, ghosts, edits
<1>9. CASE PutBack(c)
  <2>1. LastInstalled(c) \in {"unbound", "nft"}
    BY DEF LastInstalled
  <2>2. file' \in Files
    BY <1>9, <2>1, JobType, WriteType DEF PutBack, TypeOK
  <2>3. job' \in [Family -> Job \cup {Idle}]
    BY <1>9, UndoneType DEF PutBack
  <2>. QED
    BY <1>9, <2>2, <2>3 DEF PutBack, TypeOK, shared, ghosts, edits
<1>10. CASE UndoTable(c)
  <2>1. job[c] \in Job /\ job[c].source.unbound.policies \in Policies
    BY <1>10, JobType DEF UndoTable, Unbound
  <2>2. TableBefore(c) \in Filters
    BY <2>1, RulesType DEF TableBefore
  <2>3. live' \in Filters \cup {NoTable}
    BY <1>10, <2>2 DEF UndoTable, TypeOK
  <2>4. \A b \in BOOLEAN : [job[c] EXCEPT !.at = "reload back", !.clean = b] \in Job
    BY <2>1 DEF Job
  <2>5. CASE Release(c, "failed") /\ UNCHANGED <<accepted, filtered>>
    BY <1>10, <2>3, <2>5, ReleaseType DEF UndoTable, TypeOK, edits
  <2>6. CASE /\ UNCHANGED <<seen, told, holder, ghosts>>
             /\ \E b \in BOOLEAN : job' = [job EXCEPT ![c].at = "reload back", ![c].clean = b]
    <3>1. job' \in [Family -> Job \cup {Idle}]
      BY <2>4, <2>6 DEF TypeOK
    <3>. QED
      BY <1>10, <2>3, <2>6, <3>1 DEF UndoTable, TypeOK, ghosts, edits
  <2>. QED
    BY <1>10, <2>1, <2>5, <2>6 DEF UndoTable, Job
<1>11. CASE ReloadBack(c)
  <2>1. \E a \in {"restored", "failed"} : Release(c, a)
    BY <1>11 DEF ReloadBack
  <2>. QED
    BY <1>11, <2>1, ReleaseType DEF ReloadBack, TypeOK, edits
<1>12. CASE Kill(c)
  BY <1>12 DEF Kill, TypeOK, host, edits
<1>. QED
  BY <1>1, <1>2, <1>3, <1>4, <1>5, <1>6, <1>7, <1>8, <1>9, <1>10, <1>11, <1>12 DEF FamilyStep

\* The steps of an editor move its record through its states, or end it.
LEMMA EditUpdate ==
  ASSUME TypeOK, NEW e \in Editor, edit[e].at # "idle"
  PROVE  /\ edit[e] \in Edit /\ edit[e].before \in Unbound /\ edit[e].after \in Unbound
         /\ \A a \in {"replace", "verify", "undo", "restore", "reload", "rollback", "reload back"} :
              Step(e, a) => edit' \in [Editor -> Edit \cup {NoEdit}]
<1>1. edit[e] \in Edit
  BY DEF TypeOK, NoEdit
<1>2. \A a \in {"replace", "verify", "undo", "restore", "reload", "rollback", "reload back"} :
        [edit[e] EXCEPT !.at = a] \in Edit
  BY <1>1 DEF Edit
<1>3. edit[e].before \in Unbound /\ edit[e].after \in Unbound
  BY <1>1 DEF Edit
<1>4. ASSUME NEW a \in {"replace", "verify", "undo", "restore", "reload", "rollback", "reload back"},
             Step(e, a)
      PROVE  edit' \in [Editor -> Edit \cup {NoEdit}]
  <2>1. edit' = [edit EXCEPT ![e] = [edit[e] EXCEPT !.at = a]]
    BY <1>4 DEF Step
  <2>2. edit \in [Editor -> Edit \cup {NoEdit}]
    BY DEF TypeOK
  <2>. QED
    BY <1>2, <2>1, <2>2
<1>. QED
  BY <1>1, <1>3, <1>4

LEMMA EndType ==
  ASSUME TypeOK, NEW e \in Editor,
         NEW a \in {"refused", "ok", "restored", "failed", "crashed"}, End(e, a)
  PROVE  /\ edit' \in [Editor -> Edit \cup {NoEdit}]
         /\ reply' \in [Editor -> {"none", "refused", "ok", "restored", "failed", "crashed"}]
BY DEF End, TypeOK

LEMMA BeginType ==
  ASSUME TypeOK, NEW e \in Editor, NEW b \in Unbound, NEW x \in Unbound,
         NEW a \in {"check", "install"}, Begin(e, b, x, a)
  PROVE  /\ edit' \in [Editor -> Edit \cup {NoEdit}]
         /\ reply' \in [Editor -> {"none", "refused", "ok", "restored", "failed", "crashed"}]
<1>1. [at |-> a, before |-> b, after |-> x] \in Edit
  BY DEF Edit
<1>. QED
  BY <1>1 DEF Begin, TypeOK

LEMMA UnlockType ==
  ASSUME TypeOK, NEW e, Unlock(e)
  PROVE  holder' \in Client \cup {Nobody}
BY DEF Unlock, TypeOK

LEMMA DirectType ==
  ASSUME TypeOK, NEW e \in Direct,
         \/ StartDirect(e) \/ CheckDirect(e) \/ ReplaceDirect(e) \/ VerifyDirect(e)
         \/ CheckBackDirect(e) \/ PutBackDirect(e) \/ KillEdit(e)
  PROVE  TypeOK'
<1>. USE DEF Editing
<1>0. e \in Editor /\ file.unbound \in Unbound
  BY DEF Editor, TypeOK, Files
<1>1. CASE StartDirect(e)
  <2>1. \A v \in Value : [file.unbound EXCEPT !.record = v] \in Unbound
    BY <1>0 DEF Unbound
  <2>2. left' \in [Client -> Nat] /\ holder' \in Client \cup {Nobody}
    BY <1>0, <1>1 DEF StartDirect, TypeOK, Client
  <2>3. /\ edit' \in [Editor -> Edit \cup {NoEdit}]
        /\ reply' \in [Editor -> {"none", "refused", "ok", "restored", "failed", "crashed"}]
    BY <1>0, <1>1, <2>1, EndType, BeginType DEF StartDirect
  <2>. QED
    BY <1>1, <2>2, <2>3 DEF StartDirect, TypeOK, host, family, callers
<1>2. CASE CheckDirect(e)
  BY <1>0, <1>2, EditUpdate, EndType, UnlockType DEF CheckDirect, TypeOK, host, family, callers
<1>3. CASE ReplaceDirect(e)
  <2>1. file' \in Files
    BY <1>0, <1>3, EditUpdate, WriteType DEF ReplaceDirect, TypeOK
  <2>. QED
    BY <1>0, <1>3, <2>1, EditUpdate, EndType, UnlockType
    DEF ReplaceDirect, TypeOK, callers, ghosts
<1>4. CASE VerifyDirect(e)
  <2>1. edit[e].after.record \in Value
    BY <1>0, <1>4, EditUpdate DEF VerifyDirect, Unbound
  <2>. QED
    BY <1>0, <1>4, <2>1, EditUpdate, EndType, UnlockType
    DEF VerifyDirect, TypeOK, host, family, callers
<1>5. CASE CheckBackDirect(e)
  BY <1>0, <1>5, EditUpdate, EndType, UnlockType
  DEF CheckBackDirect, TypeOK, host, family, callers
<1>6. CASE PutBackDirect(e)
  <2>1. file' \in Files
    BY <1>0, <1>6, EditUpdate, WriteType DEF PutBackDirect, TypeOK
  <2>. QED
    BY <1>0, <1>6, <2>1, EndType, UnlockType DEF PutBackDirect, TypeOK, callers
<1>7. CASE KillEdit(e)
  BY <1>0, <1>7, EndType, UnlockType DEF KillEdit, TypeOK, host, family, callers
<1>. QED
  BY <1>1, <1>2, <1>3, <1>4, <1>5, <1>6, <1>7

LEMMA ResolverType ==
  ASSUME TypeOK, NEW e \in Resolver,
         \/ StartResolver(e) \/ Install(e) \/ ReloadResolver(e) \/ Rollback(e)
         \/ ReloadBackResolver(e) \/ KillEdit(e)
  PROVE  TypeOK'
<1>. USE DEF Editing
<1>0. e \in Editor /\ file.unbound \in Unbound
  BY DEF Editor, TypeOK, Files
<1>1. CASE StartResolver(e)
  <2>1. \A v \in Value : [file.unbound EXCEPT !.upstream = v] \in Unbound
    BY <1>0 DEF Unbound
  <2>2. left' \in [Client -> Nat]
    BY <1>0, <1>1 DEF StartResolver, TypeOK, Client
  <2>3. /\ edit' \in [Editor -> Edit \cup {NoEdit}]
        /\ reply' \in [Editor -> {"none", "refused", "ok", "restored", "failed", "crashed"}]
    BY <1>0, <1>1, <2>1, EndType, BeginType DEF StartResolver
  <2>. QED
    BY <1>1, <2>2, <2>3 DEF StartResolver, TypeOK, host, family, callers
<1>2. CASE Install(e)
  <2>1. file' \in Files
    BY <1>0, <1>2, EditUpdate, WriteType DEF Install, TypeOK
  <2>. QED
    BY <1>0, <1>2, <2>1, EditUpdate, EndType DEF Install, TypeOK, shared, callers
<1>3. CASE ReloadResolver(e)
  <2>1. edit[e].after.upstream \in Value
    BY <1>0, <1>3, EditUpdate DEF ReloadResolver, Unbound
  <2>. QED
    BY <1>0, <1>3, <2>1, EditUpdate, EndType
    DEF ReloadResolver, TypeOK, shared, callers, ghosts
<1>4. CASE Rollback(e)
  <2>1. file' \in Files
    BY <1>0, <1>4, EditUpdate, WriteType DEF Rollback, TypeOK
  <2>. QED
    BY <1>0, <1>4, <2>1, EditUpdate, EndType DEF Rollback, TypeOK, shared, callers
<1>5. CASE ReloadBackResolver(e)
  BY <1>0, <1>5, EndType DEF ReloadBackResolver, TypeOK, shared, callers, ghosts
<1>6. CASE KillEdit(e)
  BY <1>0, <1>6, EndType, UnlockType DEF KillEdit, TypeOK, host, family, callers
<1>. QED
  BY <1>1, <1>2, <1>3, <1>4, <1>5, <1>6

\* Unbound and Kea.
LEMMA OutsideType ==
  ASSUME TypeOK, Load \/ Rebind, UNCHANGED edits
  PROVE  TypeOK'
<1>1. CASE Load
  BY <1>1 DEF Load, TypeOK, Files, shared, callers, ghosts, edits
<1>2. CASE Rebind
  BY <1>2, PolicyConstants DEF Rebind, TypeOK, Client, host, callers, ghosts, edits
<1>. QED
  BY <1>1, <1>2

LEMMA StutterType == ASSUME TypeOK, UNCHANGED vars PROVE TypeOK'
BY DEF TypeOK, vars, host, shared, callers, ghosts, edits

\* Every policy ever written, seen or answered gives an admitted device an
\* address that Kea reserved (network/firewall/index.py:441).
THEOREM PoliciesAreTyped == Spec => []TypeOK
<1>1. TypeOK /\ [Next]_vars => TypeOK'
  BY FamilyType, DirectType, ResolverType, OutsideType, StutterType DEF Next
<1>. QED
  BY TypeInit, <1>1, PTL DEF Spec

-----------------------------------------------------------------------------
(* A filtered device stays filtered.                                       *)

\* A change under way goes on: what it was built on and what it will write stay.
Moved(c) ==
  /\ job'[c].next = job[c].next /\ job'[c].source = job[c].source
  /\ job'[c].request = job[c].request
  /\ \A d \in Family \ {c} : job'[d] = job[d]

LEMMA Moves ==
  ASSUME TypeOK, NEW c \in Family, job[c].at # "idle"
  PROVE  /\ Fail(c) => Moved(c) /\ job'[c].at = "undo"
         /\ \A a \in {"replace", "reload", "prove", "restore", "reload back"} :
              Go(c, a) => Moved(c) /\ job'[c].at = a
         /\ \A f \in {"unbound", "nft"}, b \in BOOLEAN :
              Undone(c, f, b) => Moved(c) /\ job'[c].at = "undo"
<1>1. job[c] \in Job /\ job \in [Family -> Job \cup {Idle}]
  BY JobType DEF TypeOK
<1>2. ASSUME NEW j, job' = [job EXCEPT ![c] = j],
             j.next = job[c].next, j.source = job[c].source,
             j.request = job[c].request
      PROVE  Moved(c) /\ job'[c] = j
  BY SMTT(30), <1>1, <1>2 DEF Moved
<1>3. ASSUME Fail(c) PROVE Moved(c) /\ job'[c].at = "undo"
  <2>. DEFINE j == [job[c] EXCEPT !.at = "undo", !.clean = (job[c].undo # {})]
  <2>1. job' = [job EXCEPT ![c] = j]
    BY <1>3 DEF Fail
  <2>2. /\ j.next = job[c].next /\ j.source = job[c].source
        /\ j.request = job[c].request /\ j.at = "undo"
    BY <1>1 DEF Job
  <2>. QED
    BY <1>2, <2>1, <2>2
<1>4. ASSUME NEW a \in {"replace", "reload", "prove", "restore", "reload back"}, Go(c, a)
      PROVE  Moved(c) /\ job'[c].at = a
  <2>. DEFINE j == [job[c] EXCEPT !.at = a]
  <2>1. job' = [job EXCEPT ![c] = j]
    BY <1>4 DEF Go
  <2>2. /\ j.next = job[c].next /\ j.source = job[c].source
        /\ j.request = job[c].request /\ j.at = a
    BY <1>1 DEF Job
  <2>. QED
    BY <1>2, <2>1, <2>2
<1>5. ASSUME NEW f \in {"unbound", "nft"}, NEW b \in BOOLEAN, Undone(c, f, b)
      PROVE  Moved(c) /\ job'[c].at = "undo"
  <2>. DEFINE j == [job[c] EXCEPT !.at = "undo", !.undo = job[c].undo \ {f},
                                  !.clean = job[c].clean /\ b]
  <2>1. job' = [job EXCEPT ![c] = j]
    BY <1>5 DEF Undone
  <2>2. /\ j.next = job[c].next /\ j.source = job[c].source
        /\ j.request = job[c].request /\ j.at = "undo"
    BY <1>1 DEF Job
  <2>. QED
    BY <1>2, <2>1, <2>2
<1>. QED
  BY <1>3, <1>4, <1>5

\* The lock makes the change under way the only one.
LEMMA OnlyOne ==
  ASSUME FilterInv, NEW c \in Family, job[c].at # "idle" \/ holder = Nobody
  PROVE  \A d \in Family \ {c} : job[d].at = "idle"
BY PolicyConstants DEF FilterInv

\* A step of a change need only look after the rules and the table.
LEMMA MovedKeeps ==
  ASSUME FilterInv, NEW c \in Family, job[c].at # "idle", Moved(c),
         UNCHANGED <<holder, filtered>>, StillFiltered', filtered \subseteq DOMAIN file'.nft,
         job'[c].at \in {"apply", "reload", "prove"} => file'.nft = Rules(job[c].next)
  PROVE  FilterInv'
<1>1. \A d \in Family \ {c} : job'[d].at = "idle"
  BY OnlyOne DEF Moved
<1>2. \A d \in Family : Rules(job[d].next)' = Rules(job'[d].next)
  BY DEF Rules
<1>. QED
  BY <1>1, <1>2 DEF FilterInv, Moved

\* When it ends nobody has a change under way.
LEMMA EndKeeps ==
  ASSUME TypeOK, FilterInv, NEW c \in Family, job[c].at # "idle" \/ holder = Nobody,
         job' = [job EXCEPT ![c] = Idle], StillFiltered', filtered' \subseteq DOMAIN file'.nft
  PROVE  FilterInv'
<1>1. \A d \in Family : job'[d].at = "idle"
  BY OnlyOne DEF TypeOK, Idle
<1>. QED
  BY <1>1 DEF FilterInv

\* The policies on file when a request is admitted are what the kernel enforces.
LEMMA AdmittedFilters ==
  ASSUME TypeOK, FilterInv, Readable, ProvenLive(file.unbound.policies)
  PROVE  /\ filtered \subseteq DOMAIN file.unbound.policies
         /\ DOMAIN file.nft = DOMAIN file.unbound.policies
         /\ DOMAIN file.nft # {} => live = file.nft /\ live # NoTable
<1>1. file.unbound.policies \in Policies /\ file.nft \in Filters
  BY DEF TypeOK, Files, Unbound
<1>2. file.nft = Rules(file.unbound.policies) /\ DOMAIN file.nft = DOMAIN file.unbound.policies
  BY <1>1, RulesType DEF Readable
<1>. QED
  BY <1>1, <1>2, NotATable DEF FilterInv, ProvenLive

LEMMA StartFilters ==
  ASSUME TypeOK, FilterInv, NEW c \in Family, Start(c)
  PROVE  FilterInv'
<1>0. /\ job[c].at = "idle" /\ holder = Nobody /\ UNCHANGED <<file, live>>
      /\ \A d \in Family : job[d].at = "idle"
  BY OnlyOne DEF Start, At, host
<1>1. CASE UNCHANGED <<holder, job, filtered>>
  BY <1>0, <1>1 DEF FilterInv, StillFiltered
<1>2. ASSUME NEW r \in Request, Admitted(c, r), ProvenLive(file.unbound.policies),
             filtered' = filtered \cup {r.mac}, UNCHANGED <<holder, job>>,
             Changed(file.unbound.policies, r) = file.unbound.policies
      PROVE  FilterInv'
  <2>1. r.mac \in DOMAIN file.unbound.policies
    BY <1>2, AdmittedType DEF Request, Admitted
  <2>2. filtered' \subseteq DOMAIN file.nft /\ live = file.nft /\ live # NoTable
    BY <1>2, <2>1, AdmittedFilters DEF Admitted
  <2>. QED
    BY <1>0, <1>2, <2>2 DEF FilterInv, StillFiltered
<1>3. ASSUME NEW r \in Request, Admitted(c, r), ProvenLive(file.unbound.policies), holder' = c,
             filtered' = IF r.op = "delete" THEN filtered \ {r.mac} ELSE filtered,
             job' = [job EXCEPT ![c] =
               [at |-> "check", of |-> "unbound", request |-> r,
                next |-> Changed(file.unbound.policies, r),
                source |-> file, undo |-> {}, clean |-> TRUE,
                expected |-> Changed(seen[c].policies, r)]]
      PROVE  FilterInv'
  <2>1. /\ filtered \subseteq DOMAIN file.unbound.policies
        /\ filtered \subseteq DOMAIN file.nft /\ (live = NoTable => filtered = {})
    BY <1>3, AdmittedFilters DEF Admitted, FilterInv, StillFiltered
  <2>2. filtered' \subseteq DOMAIN Changed(file.unbound.policies, r)
    BY <1>3, <2>1, AdmittedType DEF Request
  <2>3. r.op = "put" => r.mac \in DOMAIN Changed(file.unbound.policies, r)
    BY <1>3, AdmittedType
  <2>4. filtered' \subseteq filtered
    BY <1>3
  <2>5. /\ job'[c].at = "check" /\ job'[c].source = file
        /\ job'[c].request = r /\ job'[c].next = Changed(file.unbound.policies, r)
        /\ \A d \in Family \ {c} : job'[d] = job[d]
    BY <1>3 DEF TypeOK
  <2>6. StillFiltered' /\ filtered' \subseteq DOMAIN file'.nft
    BY <1>0, <2>1, <2>4 DEF FilterInv, StillFiltered
  <2>. QED
    BY ZenonT(40), <1>0, <1>3, <2>1, <2>2, <2>3, <2>4, <2>5, <2>6 DEF FilterInv
<1>. QED
  BY <1>0, <1>1, <1>2, <1>3 DEF Start

\* What a proof that succeeds has read back: the device of a put is filtered.
LEMMA ProveFilters ==
  ASSUME TypeOK, FilterInv, NEW c \in Family, Prove(c)
  PROVE  FilterInv'
<1>0. job[c].at = "prove"
  BY DEF Prove, At
<1>1. CASE Fail(c) /\ UNCHANGED <<host, shared, seen, told, ghosts>>
  <2>1. UNCHANGED <<holder, filtered, file, live>>
    BY <1>1 DEF host, shared, ghosts
  <2>. QED
    BY <1>0, <1>1, <2>1, Moves, MovedKeeps DEF FilterInv, StillFiltered
<1>2. CASE /\ Proven(c) /\ Release(c, "ok") /\ UNCHANGED <<host, kea, left>>
           /\ filtered' = IF job[c].request.op = "put"
                          THEN filtered \cup {job[c].request.mac} ELSE filtered
  <2>1. job[c] \in Job /\ file.unbound.policies \in Policies /\ file.nft \in Filters
    BY <1>0, JobType DEF TypeOK, Files, Unbound
  <2>2. DOMAIN file.nft = DOMAIN job[c].next
    BY <1>0, <2>1, RulesType DEF FilterInv, Job
  <2>3. filtered' \subseteq DOMAIN file.nft
    BY <1>0, <1>2, <2>2 DEF FilterInv
  <2>4. DOMAIN file.nft # {} => live = file.nft
    BY <1>2, <2>1, RulesType DEF Proven, ProvenLive
  <2>5. StillFiltered' /\ filtered' \subseteq DOMAIN file'.nft
    BY <1>2, <2>1, <2>3, <2>4, NotATable DEF StillFiltered, host
  <2>. QED
    BY <1>0, <1>2, <2>5, ReleaseType, EndKeeps
<1>. QED
  BY <1>1, <1>2 DEF Prove

LEMMA ReplaceFilters ==
  ASSUME TypeOK, FilterInv, NEW c \in Family, Replace(c)
  PROVE  FilterInv'
<1>1. /\ job[c].at = "replace" /\ job[c] \in Job /\ UNCHANGED <<live, holder, filtered>>
      /\ job \in [Family -> Job \cup {Idle}]
  BY JobType DEF Replace, At, shared, ghosts, TypeOK
<1>2. /\ filtered \subseteq DOMAIN file.nft /\ filtered \subseteq DOMAIN job[c].next
      /\ DOMAIN Rules(job[c].next) = DOMAIN job[c].next /\ StillFiltered'
  BY <1>1, RulesType DEF FilterInv, StillFiltered, Job
<1>3. ASSUME Write(job[c].of, Payload(c, job[c].of))
      PROVE  file'.nft = IF job[c].of = "nft" THEN Rules(job[c].next) ELSE file.nft
  <2>1. job[c].of \in {"unbound", "nft"}
    BY <1>1 DEF Job
  <2>2. CASE job[c].of = "nft"
    BY <1>3, <2>2, <1>1, JobType DEF Write, Payload, TypeOK, Files
  <2>3. CASE job[c].of = "unbound"
    BY <1>3, <2>3 DEF Write, TypeOK, Files
  <2>. QED
    BY <2>1, <2>2, <2>3
<1>4. CASE Fail(c)
  <2>1. filtered \subseteq DOMAIN file'.nft
    BY <1>1, <1>2, <1>4, <1>3 DEF Replace
  <2>. QED
    BY <1>1, <1>2, <1>4, <2>1, Moves, MovedKeeps
<1>5. CASE /\ Write(job[c].of, Payload(c, job[c].of))
           /\ job' = [job EXCEPT ![c].undo = @ \cup {job[c].of}, ![c].of = "nft",
                        ![c].at = IF job[c].of = "unbound" THEN "check" ELSE "apply"]
  <2>1. /\ file'.nft = IF job[c].of = "nft" THEN Rules(job[c].next) ELSE file.nft
        /\ job[c].of \in {"unbound", "nft"}
    BY <1>1, <1>5, <1>3 DEF Job
  <2>2. Moved(c) /\ job'[c].at = IF job[c].of = "unbound" THEN "check" ELSE "apply"
    <3>. DEFINE j == [job[c] EXCEPT !.undo = job[c].undo \cup {job[c].of}, !.of = "nft",
                        !.at = IF job[c].of = "unbound" THEN "check" ELSE "apply"]
    <3>1. job' = [job EXCEPT ![c] = j]
      BY <1>5
    <3>2. /\ j.next = job[c].next /\ j.source = job[c].source
          /\ j.request = job[c].request
          /\ j.at = IF job[c].of = "unbound" THEN "check" ELSE "apply"
      BY <1>1 DEF Job
    <3>. QED
      BY <1>1, <3>1, <3>2 DEF Moved
  <2>. QED
    BY <1>1, <1>2, <2>1, <2>2, MovedKeeps
<1>. QED
  BY <1>4, <1>5 DEF Replace

LEMMA UndoTableFilters ==
  ASSUME TypeOK, FilterInv, NEW c \in Family, UndoTable(c)
  PROVE  FilterInv'
<1>1. job[c].at = "undo" /\ job[c] \in Job /\ file' = file /\ job \in [Family -> Job \cup {Idle}]
  BY JobType DEF UndoTable, At, TypeOK
<1>2. TableBefore(c) # NoTable /\ filtered \subseteq DOMAIN TableBefore(c)
  <2>1. job[c].source.unbound.policies \in Policies
    BY <1>1, JobType DEF Unbound
  <2>. QED
    BY <1>1, <2>1, RulesType, NotATable DEF TableBefore, FilterInv
<1>3. /\ live' \in {live, TableBefore(c)} /\ filtered' = filtered
      /\ StillFiltered' /\ filtered' \subseteq DOMAIN file'.nft
  BY <1>1, <1>2 DEF UndoTable, FilterInv, StillFiltered, ghosts
<1>4. CASE Release(c, "failed")
  BY <1>1, <1>3, <1>4, ReleaseType, EndKeeps
<1>5. CASE /\ holder' = holder
           /\ \E b \in BOOLEAN : job' = [job EXCEPT ![c].at = "reload back", ![c].clean = b]
  <2>1. PICK b \in BOOLEAN : job' = [job EXCEPT ![c].at = "reload back", ![c].clean = b]
    BY <1>5
  <2>. DEFINE j == [job[c] EXCEPT !.at = "reload back", !.clean = b]
  <2>2. job' = [job EXCEPT ![c] = j]
    BY <2>1
  <2>3. /\ j.next = job[c].next /\ j.source = job[c].source
        /\ j.request = job[c].request /\ j.at = "reload back"
    BY <1>1 DEF Job
  <2>4. Moved(c) /\ job'[c].at = "reload back"
    BY <1>1, <2>2, <2>3 DEF Moved
  <2>. QED
    BY <1>1, <1>3, <1>5, <2>4, MovedKeeps
<1>. QED
  BY <1>1, <1>4, <1>5 DEF UndoTable, Job

LEMMA FamilyFilters ==
  ASSUME TypeOK, FilterInv, NEW c \in Family, FamilyStep(c)
  PROVE  FilterInv'
<1>. USE DEF At
<1>1. CASE See(c)
  BY <1>1 DEF See, FilterInv, StillFiltered, host, shared, ghosts
<1>2. CASE Check(c) \/ Reload(c)
  <2>1. UNCHANGED <<file, live, holder, filtered>>
    BY <1>2 DEF Check, Reload, host, shared, ghosts
  <2>2. StillFiltered' /\ filtered \subseteq DOMAIN file'.nft
    BY <2>1 DEF FilterInv, StillFiltered
  <2>3. job[c].at # "idle" /\ Moved(c) /\ job'[c].at \in {"replace", "prove", "undo"}
    BY <1>2, Moves DEF Check, Reload
  <2>4. job'[c].at = "prove" => file'.nft = Rules(job[c].next)
    BY <1>2, <2>1, Moves DEF Check, Reload, FilterInv
  <2>. QED
    BY <2>1, <2>2, <2>3, <2>4, MovedKeeps
<1>3. CASE Apply(c)
  <2>1. /\ UNCHANGED <<file, holder, filtered>> /\ job[c].at = "apply"
        /\ file.nft = Rules(job[c].next) /\ filtered \subseteq DOMAIN file.nft
        /\ Rules(job[c].next) \in Filters
    BY <1>3, JobType, RulesType DEF Apply, shared, ghosts, FilterInv, Job
  <2>2. StillFiltered'
    BY <1>3, <2>1, NotATable DEF Apply, StillFiltered, FilterInv
  <2>3. Moved(c)
    BY <1>3, <2>1, Moves DEF Apply
  <2>. QED
    BY <2>1, <2>2, <2>3, MovedKeeps
<1>4. CASE CheckBack(c)
  <2>1. UNCHANGED <<file, live, holder, filtered>> /\ job[c].at = "undo"
    BY <1>4 DEF CheckBack, host, shared, ghosts
  <2>2. Moved(c) /\ job'[c].at \in {"restore", "undo"}
    BY <1>4, <2>1, Moves DEF CheckBack, LastInstalled
  <2>3. StillFiltered' /\ filtered \subseteq DOMAIN file'.nft
    BY <2>1 DEF FilterInv, StillFiltered
  <2>. QED
    BY <2>1, <2>2, <2>3, MovedKeeps
<1>5. CASE PutBack(c)
  <2>1. /\ UNCHANGED <<live, holder, filtered>> /\ job[c].at = "restore"
        /\ LastInstalled(c) \in {"unbound", "nft"}
    BY <1>5 DEF PutBack, shared, ghosts, LastInstalled
  <2>2. Moved(c) /\ job'[c].at = "undo"
    BY <1>5, <2>1, Moves DEF PutBack
  <2>3. filtered \subseteq DOMAIN file'.nft
    BY <1>5, <2>1, JobType, WriteType DEF PutBack, FilterInv
  <2>4. StillFiltered'
    BY <2>1 DEF FilterInv, StillFiltered
  <2>. QED
    BY <2>1, <2>2, <2>3, <2>4, MovedKeeps
<1>6. CASE ReloadBack(c)
  <2>1. UNCHANGED <<file, live, filtered>> /\ job[c].at = "reload back"
    BY <1>6 DEF ReloadBack
  <2>2. StillFiltered' /\ filtered' \subseteq DOMAIN file'.nft
    BY <2>1 DEF FilterInv, StillFiltered
  <2>3. job' = [job EXCEPT ![c] = Idle]
    BY <1>6 DEF ReloadBack, Release
  <2>. QED
    BY <2>1, <2>2, <2>3, EndKeeps
<1>7. CASE Kill(c)
  <2>1. StillFiltered' /\ filtered' \subseteq DOMAIN file'.nft
    BY <1>7 DEF Kill, host, FilterInv, StillFiltered
  <2>. QED
    BY <1>7, <2>1, EndKeeps DEF Kill
<1>. QED
  BY <1>1, <1>2, <1>3, <1>4, <1>5, <1>6, <1>7, StartFilters, ReplaceFilters, ProveFilters,
     UndoTableFilters DEF FamilyStep

\* The editors write unbound.conf only, and unlock nothing but what they locked.
LEMMA EditorsKeep ==
  ASSUME TypeOK, FilterInv, UNCHANGED <<live, job, filtered>>, file'.nft = file.nft,
         \/ holder' = holder \/ holder = Nobody
         \/ \E e \in Editor : holder' = IF holder = e THEN Nobody ELSE holder
  PROVE  FilterInv'
<1>1. StillFiltered'
  BY DEF FilterInv, StillFiltered
<1>2. \A d \in Family : job[d].at # "idle" => holder' = holder
  BY PolicyConstants, EditConstants DEF FilterInv
<1>3. \A d \in Family : Rules(job[d].next)' = Rules(job[d].next)
  BY DEF Rules
<1>. QED
  BY <1>1, <1>2, <1>3 DEF FilterInv

LEMMA DirectFilters ==
  ASSUME TypeOK, FilterInv, NEW e \in Direct,
         \/ StartDirect(e) \/ CheckDirect(e) \/ ReplaceDirect(e) \/ VerifyDirect(e)
         \/ CheckBackDirect(e) \/ PutBackDirect(e) \/ KillEdit(e)
  PROVE  FilterInv'
<1>. USE DEF host, family, callers, ghosts
<1>1. e \in Editor
  BY DEF Editor
<1>2. UNCHANGED <<live, job, filtered>>
  BY DEF StartDirect, CheckDirect, ReplaceDirect, VerifyDirect, CheckBackDirect, PutBackDirect,
         KillEdit
<1>3. file'.nft = file.nft
  BY DEF StartDirect, CheckDirect, ReplaceDirect, VerifyDirect, CheckBackDirect, PutBackDirect,
         KillEdit, Write, TypeOK, Files
<1>4. \/ holder' = holder \/ holder = Nobody
      \/ holder' = IF holder = e THEN Nobody ELSE holder
  BY DEF StartDirect, MayLock, CheckDirect, ReplaceDirect, VerifyDirect, CheckBackDirect,
         PutBackDirect, KillEdit, Unlock
<1>. QED
  BY <1>1, <1>2, <1>3, <1>4, EditorsKeep

LEMMA ResolverFilters ==
  ASSUME TypeOK, FilterInv, NEW e \in Resolver,
         \/ StartResolver(e) \/ Install(e) \/ ReloadResolver(e) \/ Rollback(e)
         \/ ReloadBackResolver(e) \/ KillEdit(e)
  PROVE  FilterInv'
<1>. USE DEF host, family, callers, ghosts, shared
<1>1. e \in Editor
  BY DEF Editor
<1>2. UNCHANGED <<live, job, filtered>>
  BY DEF StartResolver, Install, ReloadResolver, Rollback, ReloadBackResolver, KillEdit
<1>3. file'.nft = file.nft
  BY DEF StartResolver, Install, ReloadResolver, Rollback, ReloadBackResolver, KillEdit, Write,
         TypeOK, Files
<1>4. holder' = holder \/ holder' = IF holder = e THEN Nobody ELSE holder
  BY DEF StartResolver, Install, ReloadResolver, Rollback, ReloadBackResolver, KillEdit, Unlock
<1>. QED
  BY <1>1, <1>2, <1>3, <1>4, EditorsKeep

LEMMA OutsideFilters ==
  ASSUME TypeOK, FilterInv, Load \/ Rebind
  PROVE  FilterInv'
BY EditorsKeep DEF Load, Rebind, shared, callers, ghosts, host

LEMMA StutterFilters == ASSUME TypeOK, FilterInv, UNCHANGED vars PROVE FilterInv'
BY EditorsKeep DEF vars, host, shared, callers, ghosts

\* The kernel goes on filtering a device whose policy was answered until its
\* removal begins, through every failure, kill and overwrite
\* (network/firewall/index.py:281-311, 434-500).
THEOREM FilteredThroughAll == Spec => []StillFiltered
<1>1. Init => FilterInv
  BY DEF Init, FilterInv, StillFiltered, Idle
<1>2. TypeOK /\ FilterInv /\ [Next]_vars => FilterInv'
  BY FamilyFilters, DirectFilters, ResolverFilters, OutsideFilters, StutterFilters DEF Next
<1>3. FilterInv => StillFiltered
  BY DEF FilterInv
<1>. QED
  BY <1>1, <1>2, <1>3, PoliciesAreTyped, PTL DEF Spec

-----------------------------------------------------------------------------
(* Files, table and answers agree.                                         *)

\* What Unbound serves to a device under either list of policies.
SameView(p, q, m) ==
  /\ m \in DOMAIN p <=> m \in DOMAIN q
  /\ m \in DOMAIN p => p[m].sites = q[m].sites

\* The views of at most one device differ.
Near(p, q) == \A m, n \in Mac : ~SameView(p, q, m) /\ ~SameView(p, q, n) => m = n

\* An empty table and no table are the same to the firewall.
TableAgrees(rules, table) ==
  IF DOMAIN rules = {} THEN table \in {NoTable, Empty} ELSE table = rules

\* The table is as the change under way found it.
Untouched(c) ==
  /\ TableAgrees(job[c].source.nft, live)
  /\ live # NoTable

Agreed ==
  /\ file.nft = Rules(file.unbound.policies)
  /\ TableAgrees(file.nft, live)
  /\ file.unbound.policies = accepted
  /\ Near(running.policies, file.unbound.policies)

\* What a change was built on.
BasisInv(c) ==
  LET j == job[c]
      old == j.source.unbound.policies
  IN /\ j.source.nft = Rules(old)
     /\ j.expected = j.next /\ accepted = old
     /\ \A m \in Mac : SameView(j.next, old, m) <=> m # j.request.mac
     /\ Near(running.policies, old)
     /\ file.unbound \in {j.source.unbound, Payload(c, "unbound")}

\* What it has installed so far, by its place; what the list of installed files
\* holds while it is undone, and what is true once everything on it was put back.
InstallInv(c) ==
  LET j == job[c]
      rules == Rules(j.next)
  IN /\ j.at \in {"check", "replace"} =>
          /\ j.undo = {"unbound"} \ {j.of}
          /\ file.unbound = IF j.of = "unbound" THEN j.source.unbound ELSE Payload(c, "unbound")
          /\ file.nft = j.source.nft /\ Untouched(c)
     /\ j.at \in {"apply", "reload", "prove"} =>
          /\ j.undo = {"unbound", "nft"}
          /\ file.unbound = Payload(c, "unbound") /\ file.nft = rules
          /\ IF j.at = "apply" THEN Untouched(c) ELSE live = rules
     /\ j.at \in {"undo", "restore"} =>
          /\ "unbound" \in j.undo => file.unbound = Payload(c, "unbound")
          /\ "nft" \in j.undo => "unbound" \in j.undo /\ file.nft = rules
          /\ j.clean /\ "unbound" \notin j.undo => file.unbound = j.source.unbound
          /\ j.clean /\ "nft" \notin j.undo /\ live = rules => file.nft = j.source.nft
     /\ j.at = "restore" => j.undo # {}
     /\ j.at = "reload back" /\ j.clean =>
          /\ file = j.source
          /\ live = file.nft /\ live # Empty

\* dispatch holds the lock from its reading of the file to its answer.
DirectInv(e) ==
  LET x == edit[e]
  IN x.at # "idle" =>
       /\ x.at \in {"check", "replace", "verify", "undo", "restore"}
       /\ holder = e
       /\ x.after.policies = x.before.policies /\ x.after.upstream = x.before.upstream
       /\ ~harmed =>
            /\ file.unbound = IF x.at \in {"check", "replace"} THEN x.before ELSE x.after
            /\ x.before.record = record

\* ResolverControl changes its own part of what it read.
ResolverInv(e) ==
  LET x == edit[e]
  IN x.at # "idle" =>
       /\ x.at \in {"install", "reload", "rollback", "reload back"}
       /\ x.after.policies = x.before.policies /\ x.after.record = x.before.record

AgreeInv ==
  /\ \A c \in Family : job[c].at # "idle" =>
       /\ holder = c /\ told[c] = "none"
       /\ ~harmed => BasisInv(c) /\ InstallInv(c)
  /\ \A e \in Direct : DirectInv(e)
  /\ \A e \in Resolver : ResolverInv(e)
  /\ Still /\ ~harmed => Agreed
  /\ ~harmed /\ (\A e \in Direct : edit[e].at = "idle") => file.unbound.record = record

\* The upstream servers on file, with one caller of ResolverControl.
UpstreamInv ==
  ~harmed =>
    /\ (\A e \in Resolver : edit[e].at \in {"idle", "install", "reload back"}) =>
         file.unbound.upstream = upstream
    /\ \A e \in Resolver : edit[e].at \in {"reload", "rollback"} =>
         /\ file.unbound.upstream = edit[e].after.upstream
         /\ edit[e].before.upstream = upstream

-----------------------------------------------------------------------------

\* What the steps of a change do to its record.
Kept(c) == Moved(c) /\ job'[c].expected = job[c].expected

Updated(c, a, u, b) ==
  /\ Kept(c) /\ job'[c].of = job[c].of
  /\ job'[c].at = a /\ job'[c].undo = u /\ job'[c].clean = b

LEMMA Updates ==
  ASSUME TypeOK, NEW c \in Family, job[c].at # "idle"
  PROVE  /\ Fail(c) => Updated(c, "undo", job[c].undo, job[c].undo # {})
         /\ \A a \in {"replace", "reload", "prove", "restore", "reload back"} :
              Go(c, a) => Updated(c, a, job[c].undo, job[c].clean)
         /\ \A f \in {"unbound", "nft"}, b \in BOOLEAN :
              Undone(c, f, b) => Updated(c, "undo", job[c].undo \ {f}, job[c].clean /\ b)
<1>1. job[c] \in Job /\ job \in [Family -> Job \cup {Idle}]
  BY JobType DEF TypeOK
<1>2. ASSUME NEW j, job' = [job EXCEPT ![c] = j],
             j.next = job[c].next, j.source = job[c].source,
             j.request = job[c].request, j.expected = job[c].expected, j.of = job[c].of
      PROVE  Kept(c) /\ job'[c] = j /\ job'[c].of = job[c].of
  BY <1>1, <1>2 DEF Kept, Moved
<1>3. ASSUME Fail(c) PROVE Updated(c, "undo", job[c].undo, job[c].undo # {})
  <2>. DEFINE j == [job[c] EXCEPT !.at = "undo", !.clean = (job[c].undo # {})]
  <2>1. job' = [job EXCEPT ![c] = j]
    BY <1>3 DEF Fail
  <2>2. /\ j.next = job[c].next /\ j.source = job[c].source
        /\ j.request = job[c].request /\ j.expected = job[c].expected /\ j.of = job[c].of
        /\ j.at = "undo" /\ j.undo = job[c].undo /\ j.clean = (job[c].undo # {})
    BY <1>1 DEF Job
  <2>. HIDE DEF j
  <2>. QED
    BY <1>2, <2>1, <2>2 DEF Updated
<1>4. ASSUME NEW a \in {"replace", "reload", "prove", "restore", "reload back"}, Go(c, a)
      PROVE  Updated(c, a, job[c].undo, job[c].clean)
  <2>. DEFINE j == [job[c] EXCEPT !.at = a]
  <2>1. job' = [job EXCEPT ![c] = j]
    BY <1>4 DEF Go
  <2>2. /\ j.next = job[c].next /\ j.source = job[c].source
        /\ j.request = job[c].request /\ j.expected = job[c].expected /\ j.of = job[c].of
        /\ j.at = a /\ j.undo = job[c].undo /\ j.clean = job[c].clean
    BY <1>1 DEF Job
  <2>. HIDE DEF j
  <2>. QED
    BY <1>2, <2>1, <2>2 DEF Updated
<1>5. ASSUME NEW f \in {"unbound", "nft"}, NEW b \in BOOLEAN, Undone(c, f, b)
      PROVE  Updated(c, "undo", job[c].undo \ {f}, job[c].clean /\ b)
  <2>. DEFINE j == [job[c] EXCEPT !.at = "undo", !.undo = job[c].undo \ {f},
                                  !.clean = job[c].clean /\ b]
  <2>1. job' = [job EXCEPT ![c] = j]
    BY <1>5 DEF Undone
  <2>2. /\ j.next = job[c].next /\ j.source = job[c].source
        /\ j.request = job[c].request /\ j.expected = job[c].expected /\ j.of = job[c].of
        /\ j.at = "undo" /\ j.undo = job[c].undo \ {f} /\ j.clean = (job[c].clean /\ b)
    BY <1>1 DEF Job
  <2>. HIDE DEF j
  <2>. QED
    BY <1>2, <2>1, <2>2 DEF Updated
<1>. QED
  BY <1>3, <1>4, <1>5

LEMMA WriteFacts ==
  ASSUME TypeOK, NEW content
  PROVE  /\ Write("unbound", content) => file'.unbound = content /\ file'.nft = file.nft
         /\ Write("nft", content) => file'.nft = content /\ file'.unbound = file.unbound
BY DEF TypeOK, Files, Write

LEMMA PayloadFacts ==
  ASSUME TypeOK, NEW c \in Family, job[c].at # "idle"
  PROVE  /\ Payload(c, "unbound").policies = job[c].next
         /\ Payload(c, "unbound").record = job[c].source.unbound.record
         /\ Payload(c, "unbound").upstream = job[c].source.unbound.upstream
         /\ Payload(c, "nft") = Rules(job[c].next)
BY JobType DEF Payload, Unbound

LEMMA KeptPayload ==
  ASSUME NEW c \in Family, Moved(c)
  PROVE  /\ Payload(c, "unbound")' = Payload(c, "unbound")
         /\ Rules(job[c].next)' = Rules(job[c].next)
BY DEF Moved, Payload, Rules

\* A file is what a change read when both of its parts are.
LEMMA FileIs ==
  ASSUME TypeOK, NEW s \in Files, file.unbound = s.unbound, file.nft = s.nft
  PROVE  file = s
BY DEF TypeOK, Files

LEMMA OnlyChange ==
  ASSUME AgreeInv, NEW c \in Family, job[c].at # "idle"
  PROVE  /\ \A d \in Family \ {c} : job[d].at = "idle"
         /\ \A e \in Direct : edit[e].at = "idle"
BY EditConstants DEF AgreeInv, DirectInv, Editor

\* A change goes on.
LEMMA ChangeGoesOn ==
  ASSUME TypeOK, AgreeInv, NEW c \in Family, job[c].at # "idle",
         Kept(c), job'[c].at # "idle",
         UNCHANGED <<running, holder, told, accepted, harmed, edit, record>>,
         ~harmed => /\ file'.unbound \in {job[c].source.unbound, Payload(c, "unbound")}
                    /\ InstallInv(c)'
  PROVE  AgreeInv'
<1>1. /\ \A d \in Family \ {c} : job'[d].at = "idle"
      /\ \A e \in Direct : edit[e].at = "idle"
  BY OnlyChange DEF Kept, Moved
<1>2. ~harmed => BasisInv(c)'
  BY KeptPayload DEF AgreeInv, BasisInv, Kept, Moved
<1>3. ~harmed => file'.unbound.record = file.unbound.record
  BY PayloadFacts DEF AgreeInv, BasisInv
<1>4. /\ \A e \in Direct : DirectInv(e)'
      /\ \A e \in Resolver : ResolverInv(e)'
  BY <1>1 DEF AgreeInv, DirectInv, ResolverInv
<1>5. ~Still'
  BY DEF Still, At
<1>. QED
  BY <1>1, <1>2, <1>3, <1>4, <1>5 DEF AgreeInv

\* A change ends, or is cut off.
LEMMA ChangeEnds ==
  ASSUME TypeOK, AgreeInv, NEW c \in Family, job[c].at # "idle",
         job' = [job EXCEPT ![c] = Idle], harmed => harmed', ~harmed' => Agreed',
         UNCHANGED <<file, edit, record>>
  PROVE  AgreeInv'
<1>1. /\ \A d \in Family : job'[d].at = "idle"
      /\ \A e \in Direct : edit[e].at = "idle"
  BY OnlyChange DEF Idle, TypeOK
<1>2. /\ \A e \in Direct : DirectInv(e)'
      /\ \A e \in Resolver : ResolverInv(e)'
  BY <1>1 DEF AgreeInv, DirectInv, ResolverInv
<1>. QED
  BY <1>1, <1>2 DEF AgreeInv

\* Two that differ from a third in one device each, and not in the same one ...
LEMMA ViewsType ==
  /\ \A p, m : SameView(p, p, m)
  /\ \A p, q, m : SameView(p, q, m) <=> SameView(q, p, m)
  /\ \A p, q, r, m : SameView(p, q, m) /\ SameView(q, r, m) => SameView(p, r, m)
BY DEF SameView

\* A request that changes anything changes what its device is served.
LEMMA ChangesView ==
  ASSUME TypeOK, NEW c \in Family, NEW r \in Request, Admitted(c, r),
         Changed(file.unbound.policies, r) # file.unbound.policies
  PROVE  \A m \in Mac :
           SameView(Changed(file.unbound.policies, r), file.unbound.policies, m) <=> m # r.mac
<1>. DEFINE p == file.unbound.policies
            q == Changed(p, r)
<1>0. p \in Policies
  BY DEF TypeOK, Files, Unbound
<1>1. PICK S \in SUBSET Mac : p \in [S -> [ip : Ip, sites : Sites]]
  BY <1>0 DEF Policies
<1>2. r.mac \in Mac /\ r.op \in {"put", "delete"} /\ (r.op = "put" => r.sites \in Sites)
  BY DEF Request
<1>3. \A m \in DOMAIN p : kea[m] = p[m].ip
  BY DEF Admitted, Readable
<1>. HIDE DEF p
<1>4. ASSUME NEW m \in Mac, m # r.mac PROVE SameView(q, p, m)
  BY <1>1, <1>4 DEF SameView, Changed
<1>5. ASSUME SameView(q, p, r.mac) PROVE q = p
  <2>1. CASE r.op = "delete"
    <3>1. r.mac \notin DOMAIN q
      BY <2>1 DEF Changed
    <3>2. r.mac \in DOMAIN p
      BY <2>1 DEF Admitted, p
    <3>. QED
      BY <1>5, <3>1, <3>2 DEF SameView
  <2>2. CASE r.op = "put"
    <3>1. /\ DOMAIN q = DOMAIN p \cup {r.mac}
          /\ q[r.mac] = [ip |-> kea[r.mac], sites |-> r.sites]
          /\ \A m \in DOMAIN p : m # r.mac => q[m] = p[m]
      BY <2>2 DEF Changed
    <3>2. r.mac \in DOMAIN p /\ p[r.mac].sites = r.sites
      BY <1>5, <3>1 DEF SameView
    <3>3. p[r.mac] = [ip |-> kea[r.mac], sites |-> r.sites]
      BY <1>1, <1>3, <3>2
    <3>4. DOMAIN q = DOMAIN p /\ \A m \in DOMAIN p : q[m] = p[m]
      BY <3>1, <3>2, <3>3
    <3>5. q = [m \in DOMAIN q |-> q[m]]
      BY DEF Changed
    <3>. QED
      BY <1>1, <3>4, <3>5
  <2>. QED
    BY <1>2, <2>1, <2>2
<1>. QED
  BY <1>2, <1>4, <1>5 DEF p

LEMMA EmptyRules == \A f \in Filters : DOMAIN f = {} => f = Empty
<1>. SUFFICES ASSUME NEW f \in Filters, DOMAIN f = {} PROVE f = Empty
  OBVIOUS
<1>1. PICK S \in SUBSET Mac : f \in [S -> Ip]
  BY DEF Filters
<1>. QED
  BY <1>1 DEF Empty

\* A table that a change has not touched and that is what it would write is
\* what its rules say already.
LEMMA UntouchedRules ==
  ASSUME TypeOK, NEW c \in Family, job[c].at # "idle", Untouched(c),
         live = Rules(job[c].next)
  PROVE  job[c].source.nft = Rules(job[c].next)
<1>1. Rules(job[c].next) \in Filters /\ job[c].source.nft \in Filters
  BY JobType, RulesType DEF Job
<1>. QED
  BY <1>1, EmptyRules, NotATable, EmptyType DEF Untouched, TableAgrees

\* The steps before the proof.
LEMMA CheckAgrees ==
  ASSUME TypeOK, AgreeInv, NEW c \in Family, Check(c), UNCHANGED edits
  PROVE  AgreeInv'
<1>1. /\ job[c].at = "check"
      /\ UNCHANGED <<file, live, running, holder, told, accepted, harmed, edit, record>>
  BY DEF Check, At, host, shared, ghosts, edits
<1>2. \/ Updated(c, "replace", job[c].undo, job[c].clean)
      \/ Updated(c, "undo", job[c].undo, job[c].undo # {})
  BY <1>1, Updates DEF Check
<1>a. ~harmed => InstallInv(c)
  BY <1>1 DEF AgreeInv
<1>b. Untouched(c) => Untouched(c)'
  BY <1>1, <1>2 DEF Untouched, TableAgrees, Updated, Kept, Moved
<1>3. ~harmed => InstallInv(c)'
  <2>1. CASE Updated(c, "replace", job[c].undo, job[c].clean)
    BY <1>1, <1>a, <1>b, <2>1, KeptPayload DEF InstallInv, Updated, Kept, Moved
  <2>2. CASE Updated(c, "undo", job[c].undo, job[c].undo # {})
    BY <1>1, <1>a, <2>2, KeptPayload DEF InstallInv, Updated, Kept, Moved
  <2>. QED
    BY <1>2, <2>1, <2>2
<1>. QED
  BY <1>1, <1>2, <1>3, ChangeGoesOn DEF Updated, AgreeInv, BasisInv

LEMMA ReplaceAgrees ==
  ASSUME TypeOK, AgreeInv, NEW c \in Family, Replace(c), UNCHANGED edits
  PROVE  AgreeInv'
<1>1. /\ job[c].at = "replace" /\ job[c] \in Job /\ job[c].of \in {"unbound", "nft"}
      /\ UNCHANGED <<live, running, holder, told, accepted, harmed, edit, record>>
      /\ job \in [Family -> Job \cup {Idle}]
  BY JobType DEF Replace, At, shared, ghosts, edits, TypeOK, Job
<1>2. \/ /\ job[c].of = "unbound" /\ file'.unbound = Payload(c, "unbound")
         /\ file'.nft = file.nft
      \/ /\ job[c].of = "nft" /\ file'.nft = Rules(job[c].next)
         /\ file'.unbound = file.unbound
      \/ file' = file
  BY <1>1, WriteFacts, PayloadFacts DEF Replace
<1>3. ~harmed => BasisInv(c) /\ InstallInv(c)
  BY <1>1 DEF AgreeInv
<1>4. ~harmed => file'.unbound \in {job[c].source.unbound, Payload(c, "unbound")}
  BY <1>2, <1>3 DEF BasisInv
<1>5. CASE Fail(c)
  <2>1. Updated(c, "undo", job[c].undo, job[c].undo # {})
    BY <1>1, <1>5, Updates
  <2>2. ~harmed => InstallInv(c)'
    BY ZenonT(60), <1>1, <1>2, <1>3, <2>1, KeptPayload, UntouchedRules
    DEF InstallInv, Updated, Kept, Moved
  <2>. QED
    BY <1>1, <1>4, <2>1, <2>2, ChangeGoesOn DEF Updated
<1>6. CASE /\ Write(job[c].of, Payload(c, job[c].of))
           /\ job' = [job EXCEPT ![c].undo = @ \cup {job[c].of}, ![c].of = "nft",
                        ![c].at = IF job[c].of = "unbound" THEN "check" ELSE "apply"]
  <2>1. /\ Kept(c) /\ job'[c].of = "nft" /\ job'[c].undo = job[c].undo \cup {job[c].of}
        /\ job'[c].at = IF job[c].of = "unbound" THEN "check" ELSE "apply"
    <3>. DEFINE j == [job[c] EXCEPT !.undo = job[c].undo \cup {job[c].of}, !.of = "nft",
                        !.at = IF job[c].of = "unbound" THEN "check" ELSE "apply"]
    <3>1. job' = [job EXCEPT ![c] = j]
      BY <1>6
    <3>2. /\ j.next = job[c].next /\ j.source = job[c].source
          /\ j.request = job[c].request /\ j.expected = job[c].expected /\ j.of = "nft"
          /\ j.undo = job[c].undo \cup {job[c].of}
          /\ j.at = IF job[c].of = "unbound" THEN "check" ELSE "apply"
      BY <1>1 DEF Job
    <3>. HIDE DEF j
    <3>. QED
      BY <1>1, <3>1, <3>2 DEF Kept, Moved
  <2>2. \/ /\ job[c].of = "unbound" /\ file'.unbound = Payload(c, "unbound")
           /\ file'.nft = file.nft
        \/ /\ job[c].of = "nft" /\ file'.nft = Rules(job[c].next)
           /\ file'.unbound = file.unbound
    BY <1>1, <1>6, WriteFacts, PayloadFacts
  <2>3. ~harmed => InstallInv(c)'
    BY <1>1, <1>3, <2>1, <2>2, KeptPayload DEF InstallInv, Kept, Moved, Untouched
  <2>4. job'[c].at # "idle"
    BY <2>1
  <2>. QED
    BY <1>1, <1>4, <2>1, <2>3, <2>4, ChangeGoesOn
<1>. QED
  BY <1>5, <1>6 DEF Replace

LEMMA ApplyAgrees ==
  ASSUME TypeOK, AgreeInv, NEW c \in Family, Apply(c), UNCHANGED edits
  PROVE  AgreeInv'
<1>1. /\ job[c].at = "apply"
      /\ UNCHANGED <<file, running, holder, told, accepted, harmed, edit, record>>
  BY DEF Apply, At, shared, ghosts, edits
<1>2. \/ Updated(c, "reload", job[c].undo, job[c].clean) /\ live' = Rules(job[c].next)
      \/ Updated(c, "undo", job[c].undo, job[c].undo # {})
  BY <1>1, Updates DEF Apply
<1>a. ~harmed => InstallInv(c)
  BY <1>1 DEF AgreeInv
<1>3. ~harmed => InstallInv(c)'
  BY <1>1, <1>2, <1>a, KeptPayload DEF InstallInv, Updated, Kept, Moved
<1>. QED
  BY <1>1, <1>2, <1>3, ChangeGoesOn DEF Updated, AgreeInv, BasisInv

LEMMA ReloadAgrees ==
  ASSUME TypeOK, AgreeInv, NEW c \in Family, Reload(c), UNCHANGED edits
  PROVE  AgreeInv'
<1>1. /\ job[c].at = "reload"
      /\ UNCHANGED <<file, live, running, holder, told, accepted, harmed, edit, record>>
  BY DEF Reload, At, shared, ghosts, edits
<1>2. \/ Updated(c, "prove", job[c].undo, job[c].clean)
      \/ Updated(c, "undo", job[c].undo, job[c].undo # {})
  BY <1>1, Updates DEF Reload
<1>a. ~harmed => InstallInv(c)
  BY <1>1 DEF AgreeInv
<1>3. ~harmed => InstallInv(c)'
  BY <1>1, <1>2, <1>a, KeptPayload DEF InstallInv, Updated, Kept, Moved
<1>. QED
  BY <1>1, <1>2, <1>3, ChangeGoesOn DEF Updated, AgreeInv, BasisInv

\* What the proof has read: the view of one device.  The others were served
\* the same before and are the same after.
LEMMA ProvenAgrees ==
  ASSUME TypeOK, AgreeInv, ~harmed, NEW c \in Family, job[c].at = "prove", Proven(c)
  PROVE  /\ file.unbound.policies = job[c].expected
         /\ file.nft = Rules(file.unbound.policies) /\ live = file.nft
         /\ \A m \in Mac : SameView(running.policies, file.unbound.policies, m)
<1>a. BasisInv(c) /\ InstallInv(c)
  BY DEF AgreeInv
<1>1. /\ BasisInv(c) /\ InstallInv(c) /\ file.unbound.policies = job[c].next
      /\ job[c].request.mac \in Mac
  BY ZenonT(60), <1>a, PayloadFacts, JobType DEF InstallInv, Job, Request
<1>2. SameView(running.policies, job[c].next, job[c].request.mac)
  BY <1>1 DEF Proven, ProvenServed, SameView
<1>3. \A m \in Mac :
        SameView(running.policies, job[c].source.unbound.policies, m) <=> m # job[c].request.mac
  BY <1>1, <1>2, ViewsType DEF BasisInv, Near
<1>4. \A m \in Mac : SameView(running.policies, job[c].next, m)
  BY <1>1, <1>2, <1>3, ViewsType DEF BasisInv
<1>. QED
  BY <1>1, <1>4 DEF BasisInv, InstallInv

LEMMA ProveAgrees ==
  ASSUME TypeOK, AgreeInv, NEW c \in Family, Prove(c), UNCHANGED edits
  PROVE  AgreeInv'
<1>0. job[c].at = "prove" /\ UNCHANGED <<edit, record>>
  BY DEF Prove, At, edits
<1>1. CASE Fail(c) /\ UNCHANGED <<host, shared, seen, told, ghosts>>
  <2>1. UNCHANGED <<file, live, running, holder, told, accepted, harmed>>
    BY <1>1 DEF host, shared, ghosts
  <2>2. Updated(c, "undo", job[c].undo, job[c].undo # {})
    BY <1>0, <1>1, Updates
  <2>a. ~harmed => InstallInv(c)
    BY <1>0 DEF AgreeInv
  <2>3. ~harmed => InstallInv(c)'
    BY <1>0, <2>a, <2>1, <2>2, KeptPayload DEF InstallInv, Updated, Kept, Moved
  <2>. QED
    BY <1>0, <2>1, <2>2, <2>3, ChangeGoesOn DEF Updated, AgreeInv, BasisInv
<1>2. CASE /\ Proven(c) /\ Release(c, "ok") /\ UNCHANGED <<host, kea, left>>
           /\ accepted' = job[c].expected
  <2>1. /\ UNCHANGED <<file, live, running>> /\ harmed' = harmed
        /\ job' = [job EXCEPT ![c] = Idle]
    BY <1>2 DEF Release, Answer, host, TypeOK
  <2>2. ~harmed => Agreed'
    <3>1. file.nft \in Filters
      BY DEF TypeOK, Files
    <3>. QED
      BY <1>0, <1>2, <2>1, <3>1, ProvenAgrees, EmptyRules
      DEF Agreed, TableAgrees, Near, Rules
  <2>. QED
    BY <1>0, <2>1, <2>2, ChangeEnds
<1>. QED
  BY <1>1, <1>2 DEF Prove

LEMMA CheckBackAgrees ==
  ASSUME TypeOK, AgreeInv, NEW c \in Family, CheckBack(c), UNCHANGED edits
  PROVE  AgreeInv'
<1>1. /\ job[c].at = "undo" /\ job[c].undo # {} /\ LastInstalled(c) \in {"unbound", "nft"}
      /\ UNCHANGED <<file, live, running, holder, told, accepted, harmed, edit, record>>
  BY DEF CheckBack, At, LastInstalled, host, shared, ghosts, edits
<1>2. \/ Updated(c, "restore", job[c].undo, job[c].clean)
      \/ Updated(c, "undo", job[c].undo \ {LastInstalled(c)}, FALSE)
  BY <1>1, Updates DEF CheckBack
<1>a. ~harmed => InstallInv(c)
  BY <1>1 DEF AgreeInv
<1>3. ~harmed => InstallInv(c)'
  <2>1. CASE Updated(c, "restore", job[c].undo, job[c].clean)
    BY <1>1, <1>a, <2>1, KeptPayload DEF InstallInv, Updated, Kept, Moved
  <2>2. CASE Updated(c, "undo", job[c].undo \ {LastInstalled(c)}, FALSE)
    BY <1>1, <1>a, <2>2, KeptPayload DEF InstallInv, Updated, Kept, Moved, LastInstalled
  <2>. QED
    BY <1>2, <2>1, <2>2
<1>. QED
  BY <1>1, <1>2, <1>3, ChangeGoesOn DEF Updated, AgreeInv, BasisInv

LEMMA PutBackAgrees ==
  ASSUME TypeOK, AgreeInv, NEW c \in Family, PutBack(c), UNCHANGED edits
  PROVE  AgreeInv'
<1>1. /\ job[c].at = "restore" /\ LastInstalled(c) \in {"unbound", "nft"}
      /\ job[c] \in Job
      /\ UNCHANGED <<live, running, holder, told, accepted, harmed, edit, record>>
  BY JobType DEF PutBack, At, LastInstalled, shared, ghosts, edits
<1>2. PICK b \in BOOLEAN :
        /\ Updated(c, "undo", job[c].undo \ {LastInstalled(c)}, job[c].clean /\ b)
        /\ \/ Write(LastInstalled(c), job[c].source[LastInstalled(c)])
           \/ file' = file /\ ~b
  <2>1. CASE UNCHANGED file /\ Undone(c, LastInstalled(c), FALSE)
    BY <1>1, <2>1, Updates
  <2>2. CASE /\ Write(LastInstalled(c), job[c].source[LastInstalled(c)])
             /\ \E valid \in BOOLEAN : Undone(c, LastInstalled(c), valid)
    BY <1>1, <2>2, Updates
  <2>. QED
    BY <2>1, <2>2 DEF PutBack
<1>3. \/ /\ LastInstalled(c) = "nft" /\ file'.nft = job[c].source.nft
         /\ file'.unbound = file.unbound
      \/ /\ LastInstalled(c) = "unbound" /\ file'.unbound = job[c].source.unbound
         /\ file'.nft = file.nft
      \/ file' = file /\ ~b
  <2>1. CASE Write(LastInstalled(c), job[c].source[LastInstalled(c)])
    BY <1>1, <2>1, WriteFacts
  <2>. QED
    BY <1>2, <2>1
<1>a. ~harmed => InstallInv(c) /\ BasisInv(c)
  BY <1>1 DEF AgreeInv
<1>4. ~harmed => InstallInv(c)'
  <2>1. CASE LastInstalled(c) = "nft"
    BY <1>1, <1>a, <1>2, <1>3, <2>1, KeptPayload
    DEF InstallInv, Updated, Kept, Moved, LastInstalled
  <2>2. CASE LastInstalled(c) = "unbound"
    <3>1. job[c].undo \subseteq {"unbound"}
      BY <1>1, <2>2 DEF LastInstalled, Job
    <3>. QED
      BY <1>1, <1>a, <1>2, <1>3, <2>2, <3>1, KeptPayload
      DEF InstallInv, Updated, Kept, Moved
  <2>. QED
    BY <1>1, <2>1, <2>2
<1>5. ~harmed => file'.unbound \in {job[c].source.unbound, Payload(c, "unbound")}
  BY <1>3, <1>a DEF BasisInv
<1>6. job'[c].at # "idle" /\ Kept(c)
  BY <1>2 DEF Updated
<1>. QED
  BY <1>1, <1>4, <1>5, <1>6, ChangeGoesOn

LEMMA UndoTableAgrees ==
  ASSUME TypeOK, AgreeInv, NEW c \in Family, UndoTable(c), UNCHANGED edits
  PROVE  AgreeInv'
<1>1. /\ job[c].at = "undo" /\ job[c].undo = {} /\ job[c] \in Job
      /\ job \in [Family -> Job \cup {Idle}]
      /\ UNCHANGED <<file, running, edit, record>>
  BY JobType DEF UndoTable, At, edits, TypeOK
<1>2. CASE Release(c, "failed")
  <2>1. harmed' /\ job' = [job EXCEPT ![c] = Idle]
    BY <1>2 DEF Release, Answer
  <2>. QED
    BY <1>1, <2>1, ChangeEnds
<1>3. ASSUME NEW b \in BOOLEAN,
             job' = [job EXCEPT ![c].at = "reload back", ![c].clean = b],
             UNCHANGED <<seen, told, holder, ghosts>>,
             b => /\ job[c].clean /\ live = Rules(job[c].next) /\ live' = TableBefore(c)
                  /\ live' # Empty
      PROVE  AgreeInv'
  <2>1. UNCHANGED <<told, holder, accepted, harmed>>
    BY <1>3 DEF ghosts
  <2>2. Updated(c, "reload back", {}, b)
    <3>. DEFINE j == [job[c] EXCEPT !.at = "reload back", !.clean = b]
    <3>1. job' = [job EXCEPT ![c] = j]
      BY <1>3
    <3>2. /\ j.next = job[c].next /\ j.source = job[c].source
          /\ j.request = job[c].request /\ j.expected = job[c].expected /\ j.of = job[c].of
          /\ j.at = "reload back" /\ j.undo = {} /\ j.clean = b
      BY <1>1 DEF Job
    <3>. HIDE DEF j
    <3>. QED
      BY <1>1, <3>1, <3>2 DEF Updated, Kept, Moved
  <2>a. ~harmed => InstallInv(c) /\ BasisInv(c)
    BY <1>1 DEF AgreeInv
  <2>3. ~harmed /\ b => file' = job[c].source /\ file'.nft = Rules(job[c].source.unbound.policies)
    <3>1. ~harmed /\ b => file.unbound = job[c].source.unbound /\ file.nft = job[c].source.nft
      BY <1>1, <1>3, <2>a DEF InstallInv
    <3>. QED
      BY <1>1, <3>1, <2>a, FileIs DEF BasisInv, Job
  <2>4. ~harmed => InstallInv(c)'
    BY <1>3, <2>2, <2>3 DEF InstallInv, Updated, Kept, Moved, TableBefore
  <2>. QED
    BY <1>1, <2>1, <2>2, <2>4, <2>a, ChangeGoesOn DEF Updated, BasisInv
<1>5. CASE /\ DOMAIN job[c].next # {} /\ live = Rules(job[c].next)
           /\ live' = TableBefore(c)
           /\ job' = [job EXCEPT ![c].at = "reload back",
                ![c].clean = @ /\ live' # Empty]
           /\ UNCHANGED <<seen, told, holder, ghosts>>
  <2>. DEFINE b == job[c].clean /\ live' # Empty
  <2>1. b \in BOOLEAN /\ job' = [job EXCEPT ![c].at = "reload back", ![c].clean = b]
    BY <1>1, <1>5 DEF Job
  <2>2. b => job[c].clean /\ live' # Empty
    OBVIOUS
  <2>. HIDE DEF b
  <2>. QED
    BY <1>3, <1>5, <2>1, <2>2
<1>6. CASE /\ job' = [job EXCEPT ![c].at = "reload back", ![c].clean = FALSE]
           /\ UNCHANGED <<seen, told, holder, ghosts>>
  BY <1>3, <1>6
<1>. QED
  BY <1>2, <1>5, <1>6 DEF UndoTable, StillOurs

LEMMA ReloadBackAgrees ==
  ASSUME TypeOK, AgreeInv, NEW c \in Family, ReloadBack(c), UNCHANGED edits
  PROVE  AgreeInv'
<1>1. /\ job[c].at = "reload back" /\ job[c] \in Job
      /\ UNCHANGED <<file, live, running, accepted, edit, record>>
  BY JobType DEF ReloadBack, At, edits
<1>2. /\ job' = [job EXCEPT ![c] = Idle]
      /\ harmed => harmed'
      /\ ~harmed' => job[c].clean /\ ~harmed
  BY DEF ReloadBack, Release, Answer, TypeOK
<1>3. ~harmed' => BasisInv(c) /\ InstallInv(c)
  BY <1>1, <1>2 DEF AgreeInv
<1>4. ~harmed' => Agreed'
  <2>1. DOMAIN file.nft = DOMAIN file.unbound.policies \/ file.nft # Rules(file.unbound.policies)
    BY RulesType DEF TypeOK, Files, Unbound
  <2>2. file.nft \in Filters
    BY DEF TypeOK, Files
  <2>. QED
    BY <1>1, <1>2, <1>3, <2>1, <2>2, EmptyRules
    DEF BasisInv, InstallInv, Agreed, TableAgrees, Near, Rules
<1>. QED
  BY <1>1, <1>2, <1>4, ChangeEnds

LEMMA KillAgrees ==
  ASSUME TypeOK, AgreeInv, NEW c \in Family, Kill(c), UNCHANGED edits
  PROVE  AgreeInv'
<1>1. /\ job[c].at # "idle" /\ job' = [job EXCEPT ![c] = Idle] /\ harmed' = TRUE
      /\ UNCHANGED <<file, edit, record>>
  BY DEF Kill, At, host, edits
<1>2. (harmed => harmed') /\ (~harmed' => Agreed')
  BY <1>1
<1>. QED
  BY <1>1, <1>2, ChangeEnds

LEMMA SeeAgrees ==
  ASSUME TypeOK, AgreeInv, NEW c \in Family, See(c), UNCHANGED edits
  PROVE  AgreeInv'
<1>1. UNCHANGED <<file, live, running, holder, job, told, accepted, harmed, edit, record>>
  BY DEF See, host, shared, ghosts, edits
<1>2. \A d \in Family : (BasisInv(d) => BasisInv(d)') /\ (InstallInv(d) => InstallInv(d)')
  <2>. SUFFICES ASSUME NEW d \in Family
                PROVE  (BasisInv(d) => BasisInv(d)') /\ (InstallInv(d) => InstallInv(d)')
    OBVIOUS
  <2>1. /\ Payload(d, "unbound")' = Payload(d, "unbound")
        /\ Rules(job[d].next)' = Rules(job[d].next)
        /\ Rules(job[d].source.unbound.policies)' = Rules(job[d].source.unbound.policies)
        /\ Near(running.policies, job[d].source.unbound.policies)' =
             Near(running.policies, job[d].source.unbound.policies)
        /\ Untouched(d)' = Untouched(d)
    BY <1>1 DEF Payload, Rules, Near, Untouched, TableAgrees
  <2>2. BasisInv(d) => BasisInv(d)'
    BY <1>1, <2>1 DEF BasisInv
  <2>3. InstallInv(d) => InstallInv(d)'
    BY <1>1, <2>1 DEF InstallInv
  <2>. QED
    BY <2>2, <2>3
<1>3. /\ \A e \in Direct : DirectInv(e) => DirectInv(e)'
      /\ \A e \in Resolver : ResolverInv(e) => ResolverInv(e)'
      /\ Agreed => Agreed'
      /\ Still' => Still
  BY <1>1 DEF DirectInv, ResolverInv, Agreed, TableAgrees, Near, Rules, Still, At
<1>. QED
  BY <1>1, <1>2, <1>3 DEF AgreeInv

\* The checks before the first write find everything agreed.
LEMMA StartAgrees ==
  ASSUME TypeOK, AgreeInv, NEW c \in Family, Start(c), UNCHANGED edits
  PROVE  AgreeInv'
<1>0. /\ job[c].at = "idle" /\ holder = Nobody
      /\ UNCHANGED <<file, live, running, accepted, edit, record>>
      /\ \A d \in Family : job[d].at = "idle"
      /\ \A e \in Direct : edit[e].at = "idle"
  BY PolicyConstants, EditConstants
  DEF Start, At, host, edits, AgreeInv, DirectInv, Client, Editor
<1>1. ~harmed => Agreed
  BY <1>0 DEF AgreeInv, Still, At
<1>2. /\ ~harmed => Agreed' /\ file'.unbound.record = record'
      /\ \A e \in Direct : DirectInv(e)'
      /\ \A e \in Resolver : ResolverInv(e)'
  BY <1>0, <1>1 DEF AgreeInv, DirectInv, ResolverInv, Agreed, TableAgrees, Near, Rules
<1>3. CASE job' = job /\ (harmed => harmed')
  <2>1. /\ \A d \in Family : job'[d].at = "idle"
        /\ ~harmed' => Agreed' /\ file'.unbound.record = record'
    BY <1>0, <1>2, <1>3
  <2>. QED
    BY <1>2, <2>1 DEF AgreeInv
<1>4. ASSUME NEW r \in Request, Admitted(c, r), live # NoTable, holder' = c,
             Changed(file.unbound.policies, r) # file.unbound.policies,
             job' = [job EXCEPT ![c] =
               [at |-> "check", of |-> "unbound", request |-> r,
                next |-> Changed(file.unbound.policies, r),
                source |-> file, undo |-> {}, clean |-> TRUE,
                expected |-> Changed(seen[c].policies, r)]],
             told' = [told EXCEPT ![c] = "none"], UNCHANGED harmed
      PROVE  AgreeInv'
  <2>. DEFINE next == Changed(file.unbound.policies, r)
              old == file.unbound.policies
  <2>1. /\ job'[c].at = "check" /\ job'[c].of = "unbound" /\ job'[c].source = file
        /\ job'[c].undo = {}
        /\ job'[c].request = r /\ job'[c].next = next
        /\ job'[c].expected = Changed(seen[c].policies, r)
        /\ \A d \in Family \ {c} : job'[d] = job[d]
        /\ told'[c] = "none"
    BY <1>4 DEF TypeOK
  <2>2. seen[c].policies = old
    BY <1>4 DEF Admitted, Revision
  <2>3. \A m \in Mac : SameView(next, old, m) <=> m # r.mac
    BY <1>4, ChangesView
  <2>4. old \in Policies /\ DOMAIN Rules(old) = DOMAIN old /\ Rules(old) \in Filters
    BY RulesType DEF TypeOK, Files, Unbound
  <2>. HIDE DEF next, old
  <2>5. ~harmed => BasisInv(c)'
    <3>1. ~harmed => Near(running.policies, old) /\ file.nft = Rules(old) /\ accepted = old
      BY <1>1 DEF Agreed, old
    <3>2. Near(running.policies, old)' = Near(running.policies, old)
      BY <1>0 DEF Near, old
    <3>3. Rules(old)' = Rules(old)
      BY <1>0 DEF Rules, old
    <3>. QED
      BY <1>0, <2>1, <2>2, <2>3, <3>1, <3>2, <3>3 DEF BasisInv, old, next
  <2>6. ~harmed => InstallInv(c)'
    <3>1. ~harmed => TableAgrees(file.nft, live)
      BY <1>1 DEF Agreed
    <3>2. ~harmed => Untouched(c)'
      BY <1>0, <1>4, <2>1, <3>1 DEF Untouched, TableAgrees
    <3>3. file'.unbound = job'[c].source.unbound /\ file'.nft = job'[c].source.nft
      BY <1>0, <2>1
    <3>. QED
      BY <2>1, <3>2, <3>3 DEF InstallInv
  <2>7. ~Still' /\ \A d \in Family \ {c} : job'[d].at = "idle"
    BY <1>0, <2>1 DEF Still, At
  <2>. QED
    BY <1>0, <1>2, <1>4, <2>1, <2>5, <2>6, <2>7 DEF AgreeInv
<1>5. CASE Answer(c, "refused") /\ UNCHANGED <<holder, job, filtered>>
  BY <1>3, <1>5 DEF Answer
<1>6. ASSUME NEW r \in Request, Answer(c, "noop"), UNCHANGED <<holder, job>>
      PROVE  AgreeInv'
  BY <1>3, <1>6 DEF Answer
<1>. QED
  BY <1>0, <1>4, <1>5, <1>6 DEF Start, TableReads

LEMMA FamilyAgrees ==
  ASSUME TypeOK, AgreeInv, NEW c \in Family, FamilyStep(c), UNCHANGED edits
  PROVE  AgreeInv'
BY SeeAgrees, StartAgrees, CheckAgrees, ReplaceAgrees, ApplyAgrees, ReloadAgrees, ProveAgrees,
   CheckBackAgrees, PutBackAgrees, UndoTableAgrees, ReloadBackAgrees, KillAgrees DEF FamilyStep

\* The other clients: what they write is either over another's change, or
\* leaves the policies as they are while no change is under way.
LEMMA OutsideAgrees ==
  ASSUME TypeOK, AgreeInv, UNCHANGED <<live, job, told, accepted>>, file'.nft = file.nft,
         harmed => harmed', running' \in {running, file.unbound},
         \A c \in Family : job[c].at # "idle" => holder' = holder,
         \/ file' = file \/ harmed'
         \/ Still /\ file'.unbound.policies = file.unbound.policies
  PROVE  /\ \A c \in Family : job'[c].at # "idle" =>
              /\ holder' = c /\ told'[c] = "none"
              /\ ~harmed' => BasisInv(c)' /\ InstallInv(c)'
         /\ Still' /\ ~harmed' => Agreed'
<1>1. ASSUME NEW c \in Family, job[c].at # "idle", ~harmed'
      PROVE  BasisInv(c)' /\ InstallInv(c)'
  <2>1. file' = file /\ ~harmed
    BY <1>1 DEF Still, At
  <2>2. BasisInv(c) /\ InstallInv(c)
    BY <1>1, <2>1 DEF AgreeInv
  <2>3. /\ Payload(c, "unbound")' = Payload(c, "unbound")
        /\ Rules(job[c].next)' = Rules(job[c].next)
        /\ Rules(job[c].source.unbound.policies)' = Rules(job[c].source.unbound.policies)
        /\ Untouched(c)' = Untouched(c)
    BY <2>1 DEF Payload, Rules, Untouched, TableAgrees
  <2>4. Near(running'.policies, job[c].source.unbound.policies)
    <3>1. job[c].request.mac \in Mac /\ Payload(c, "unbound").policies = job[c].next
      BY <1>1, JobType, PayloadFacts DEF Job, Request
    <3>2. CASE running' = running
      BY <2>2, <3>2 DEF BasisInv
    <3>3. CASE running' = file.unbound
      BY <2>2, <3>1, <3>3, ViewsType DEF BasisInv, Near
    <3>. QED
      BY <3>2, <3>3
  <2>5. BasisInv(c)'
    BY <2>1, <2>2, <2>3, <2>4 DEF BasisInv, Near
  <2>6. InstallInv(c)'
    BY <2>1, <2>2, <2>3 DEF InstallInv
  <2>. QED
    BY <2>5, <2>6
<1>2. ASSUME Still, ~harmed' PROVE Agreed'
  <2>1. Agreed /\ file'.unbound.policies = file.unbound.policies
    BY <1>2 DEF AgreeInv
  <2>2. Near(running'.policies, file.unbound.policies)
    BY <2>1, ViewsType DEF Agreed, Near
  <2>. QED
    BY <2>1, <2>2 DEF Agreed, TableAgrees, Near, Rules
<1>3. Still' => Still
  BY DEF Still, At
<1>4. \A c \in Family : job[c].at # "idle" => holder' = c /\ told'[c] = "none"
  BY DEF AgreeInv
<1>. QED
  BY <1>1, <1>2, <1>3, <1>4 DEF AgreeInv

\* What the steps of an editor do to its record.
LEMMA EditType ==
  ASSUME TypeOK, NEW e \in Editor, edit[e].at # "idle"
  PROVE  edit[e] \in Edit
BY DEF TypeOK, NoEdit

LEMMA EditSteps ==
  ASSUME TypeOK, NEW e \in Editor
  PROVE  /\ \A a : edit[e].at # "idle" /\ Step(e, a) =>
              /\ edit'[e].at = a /\ edit'[e].before = edit[e].before
              /\ edit'[e].after = edit[e].after
              /\ \A x \in Editor \ {e} : edit'[x] = edit[x]
         /\ \A a : End(e, a) => /\ edit'[e].at = "idle"
                                /\ \A x \in Editor \ {e} : edit'[x] = edit[x]
         /\ \A b, x, a : Begin(e, b, x, a) =>
              /\ edit'[e].at = a /\ edit'[e].before = b /\ edit'[e].after = x
              /\ \A y \in Editor \ {e} : edit'[y] = edit[y]
<1>1. ASSUME NEW a, edit[e].at # "idle", Step(e, a)
      PROVE  /\ edit'[e].at = a /\ edit'[e].before = edit[e].before
             /\ edit'[e].after = edit[e].after
             /\ \A x \in Editor \ {e} : edit'[x] = edit[x]
  <2>. DEFINE j == [edit[e] EXCEPT !.at = a]
  <2>1. edit' = [edit EXCEPT ![e] = j]
    BY <1>1 DEF Step
  <2>2. j.at = a /\ j.before = edit[e].before /\ j.after = edit[e].after
    BY <1>1, EditType DEF Edit
  <2>. HIDE DEF j
  <2>. QED
    BY <2>1, <2>2 DEF TypeOK
<1>2. ASSUME NEW a, End(e, a)
      PROVE  edit'[e].at = "idle" /\ \A x \in Editor \ {e} : edit'[x] = edit[x]
  BY <1>2 DEF End, NoEdit, TypeOK
<1>3. ASSUME NEW b, NEW x, NEW a, Begin(e, b, x, a)
      PROVE  /\ edit'[e].at = a /\ edit'[e].before = b /\ edit'[e].after = x
             /\ \A y \in Editor \ {e} : edit'[y] = edit[y]
  <2>. DEFINE j == [at |-> a, before |-> b, after |-> x]
  <2>1. edit' = [edit EXCEPT ![e] = j]
    BY <1>3 DEF Begin
  <2>2. j.at = a /\ j.before = b /\ j.after = x
    OBVIOUS
  <2>. HIDE DEF j
  <2>. QED
    BY <2>1, <2>2 DEF TypeOK
<1>. QED
  BY <1>1, <1>2, <1>3

\* Whoever holds the lock, or takes it, is alone with unbound.conf.
LEMMA AloneWithTheLock ==
  ASSUME AgreeInv, NEW e \in Direct, edit[e].at # "idle" \/ holder = Nobody
  PROVE  /\ \A x \in Direct \ {e} : edit[x].at = "idle"
         /\ \A c \in Family : job[c].at = "idle"
<1>1. edit[e].at # "idle" => holder = e
  BY DEF AgreeInv, DirectInv
<1>2. e \notin Family /\ \A x \in Direct : x # Nobody /\ x \notin Family
  BY EditConstants DEF Client, Editor
<1>. QED
  BY <1>1, <1>2, PolicyConstants DEF AgreeInv, DirectInv

\* A step of dispatch need only look after its own edit.
LEMMA DirectKeeps ==
  ASSUME TypeOK, AgreeInv, NEW e \in Direct, edit[e].at # "idle" \/ holder = Nobody,
         \A x \in Editor \ {e} : edit'[x] = edit[x],
         UNCHANGED <<live, running, job, told, accepted>>, harmed => harmed',
         file'.nft = file.nft, file' = file \/ harmed' \/
                               file'.unbound.policies = file.unbound.policies,
         DirectInv(e)',
         ~harmed' /\ edit'[e].at = "idle" => file'.unbound.record = record'
  PROVE  AgreeInv'
<1>1. /\ \A x \in Direct \ {e} : edit[x].at = "idle"
      /\ \A c \in Family : job[c].at = "idle"
  BY AloneWithTheLock
<1>2. Still /\ \A c \in Family : job[c].at # "idle" => holder' = holder
  BY <1>1 DEF Still, At
<1>3. ~harmed' => Agreed'
  BY <1>2, OutsideAgrees DEF Still, At
<1>4. \A x \in Direct : DirectInv(x)'
  BY <1>1 DEF DirectInv, Editor
<1>5. \A x \in Resolver : edit'[x] = edit[x]
  BY EditConstants DEF Editor
<1>6. \A x \in Resolver : ResolverInv(x)'
  BY <1>5 DEF AgreeInv, ResolverInv
<1>7. ~harmed' /\ (\A x \in Direct : edit'[x].at = "idle") => file'.unbound.record = record'
  OBVIOUS
<1>. QED
  BY <1>1, <1>3, <1>4, <1>6, <1>7 DEF AgreeInv

\* What dispatch writes differs from what it read in the record alone.
LEMMA DirectAgrees ==
  ASSUME TypeOK, AgreeInv, NEW e \in Direct,
         \/ StartDirect(e) \/ CheckDirect(e) \/ ReplaceDirect(e) \/ VerifyDirect(e)
         \/ CheckBackDirect(e) \/ PutBackDirect(e) \/ KillEdit(e)
  PROVE  AgreeInv'
<1>. USE DEF host, family, callers, ghosts, Editing
<1>0. e \in Editor /\ DirectInv(e)
  BY DEF Editor, AgreeInv
<1>s. /\ Still <=> \A c \in Family : job[c].at = "idle"
      /\ edit[e].at # "idle" \/ holder = Nobody =>
           \A x \in Direct \ {e} : edit[x].at = "idle"
  BY AloneWithTheLock DEF Still, At
<1>1. CASE StartDirect(e)
  <2>1. /\ holder = Nobody /\ edit[e].at = "idle"
        /\ UNCHANGED <<file, live, running, job, told, accepted, harmed, record>>
    BY <1>1 DEF StartDirect, MayLock
  <2>2. file.unbound \in Unbound /\ (~harmed => file.unbound.record = record)
    BY <1>s, <2>1 DEF TypeOK, Files, AgreeInv
  <2>3. PICK v \in Value :
          LET after == [file.unbound EXCEPT !.record = v]
          IN \/ \E a : End(e, a)
             \/ Begin(e, file.unbound, after, "check") /\ holder' = e
    BY <1>1 DEF StartDirect
  <2>. DEFINE after == [file.unbound EXCEPT !.record = v]
  <2>4. after.policies = file.unbound.policies /\ after.upstream = file.unbound.upstream
    BY <2>2 DEF Unbound
  <2>. HIDE DEF after
  <2>5. CASE \E a : End(e, a)
    <3>1. edit'[e].at = "idle" /\ \A x \in Editor \ {e} : edit'[x] = edit[x]
      BY <1>0, <2>5, EditSteps
    <3>2. DirectInv(e)'
      BY <3>1 DEF DirectInv
    <3>. QED
      BY <2>1, <2>2, <3>1, <3>2, DirectKeeps
  <2>6. CASE Begin(e, file.unbound, after, "check") /\ holder' = e
    <3>1. /\ edit'[e].at = "check" /\ edit'[e].before = file.unbound /\ edit'[e].after = after
          /\ \A x \in Editor \ {e} : edit'[x] = edit[x]
      BY <1>0, <2>6, EditSteps
    <3>2. DirectInv(e)'
      BY <2>1, <2>2, <2>4, <2>6, <3>1 DEF DirectInv
    <3>. QED
      BY <2>1, <3>1, <3>2, DirectKeeps
  <2>. QED
    BY <2>3, <2>5, <2>6 DEF after
<1>2. CASE CheckDirect(e)
  <2>1. /\ edit[e].at = "check" /\ harmed' = harmed
        /\ UNCHANGED <<file, live, running, job, told, accepted, record>>
    BY <1>2 DEF CheckDirect
  <2>2. CASE Step(e, "replace") /\ holder' = holder
    <3>1. /\ edit'[e].at = "replace" /\ edit'[e].before = edit[e].before
          /\ edit'[e].after = edit[e].after
          /\ \A x \in Editor \ {e} : edit'[x] = edit[x]
      BY <1>0, <2>1, <2>2, EditSteps
    <3>2. DirectInv(e)'
      BY <1>0, <2>1, <2>2, <3>1 DEF DirectInv
    <3>. QED
      BY <2>1, <3>1, <3>2, DirectKeeps
  <2>3. CASE End(e, "refused")
    <3>1. edit'[e].at = "idle" /\ \A x \in Editor \ {e} : edit'[x] = edit[x]
      BY <1>0, <2>3, EditSteps
    <3>2. DirectInv(e)' /\ (~harmed => file.unbound.record = record)
      BY <1>0, <2>1, <3>1 DEF DirectInv
    <3>. QED
      BY <2>1, <3>1, <3>2, DirectKeeps
  <2>. QED
    BY <1>2, <2>2, <2>3 DEF CheckDirect
<1>3. CASE ReplaceDirect(e)
  <2>1. /\ edit[e].at = "replace" /\ harmed' = harmed
        /\ UNCHANGED <<live, running, job, told, accepted, record>>
    BY <1>3 DEF ReplaceDirect
  <2>2. CASE /\ Write("unbound", edit[e].after) /\ holder' = holder
             /\ \E label \in {"verify", "undo"} : Step(e, label)
    <3>1. PICK label \in {"verify", "undo"} : Step(e, label)
      BY <2>2
    <3>2. /\ edit'[e].at = label /\ edit'[e].before = edit[e].before
          /\ edit'[e].after = edit[e].after
          /\ \A x \in Editor \ {e} : edit'[x] = edit[x]
      BY <1>0, <2>1, <3>1, EditSteps
    <3>3. file'.unbound = edit[e].after /\ file'.nft = file.nft
      BY <2>2, WriteFacts
    <3>4. DirectInv(e)'
      BY <1>0, <2>1, <2>2, <3>2, <3>3 DEF DirectInv
    <3>5. harmed' \/ file'.unbound.policies = file.unbound.policies
      BY <1>0, <2>1, <3>3 DEF DirectInv
    <3>. QED
      BY <2>1, <3>2, <3>3, <3>4, <3>5, DirectKeeps
  <2>3. CASE UNCHANGED file /\ End(e, "refused")
    <3>1. edit'[e].at = "idle" /\ \A x \in Editor \ {e} : edit'[x] = edit[x]
      BY <1>0, <2>3, EditSteps
    <3>2. DirectInv(e)' /\ (~harmed => file.unbound.record = record)
      BY <1>0, <2>1, <3>1 DEF DirectInv
    <3>. QED
      BY <2>1, <2>3, <3>1, <3>2, DirectKeeps
  <2>. QED
    BY <1>3, <2>2, <2>3 DEF ReplaceDirect
<1>4. CASE VerifyDirect(e)
  <2>1. /\ edit[e].at = "verify" /\ harmed' = harmed
        /\ UNCHANGED <<file, live, running, job, told, accepted>>
    BY <1>4 DEF VerifyDirect
  <2>2. CASE End(e, "ok") /\ record' = edit[e].after.record
    <3>1. edit'[e].at = "idle" /\ \A x \in Editor \ {e} : edit'[x] = edit[x]
      BY <1>0, <2>2, EditSteps
    <3>2. DirectInv(e)' /\ (~harmed => file.unbound.record = record')
      BY <1>0, <2>1, <2>2, <3>1 DEF DirectInv
    <3>. QED
      BY <2>1, <3>1, <3>2, DirectKeeps
  <2>3. CASE Step(e, "undo") /\ UNCHANGED <<holder, record>>
    <3>1. /\ edit'[e].at = "undo" /\ edit'[e].before = edit[e].before
          /\ edit'[e].after = edit[e].after
          /\ \A x \in Editor \ {e} : edit'[x] = edit[x]
      BY <1>0, <2>1, <2>3, EditSteps
    <3>2. DirectInv(e)'
      BY <1>0, <2>1, <2>3, <3>1 DEF DirectInv
    <3>. QED
      BY <2>1, <3>1, <3>2, DirectKeeps
  <2>. QED
    BY <1>4, <2>2, <2>3 DEF VerifyDirect
<1>5. CASE CheckBackDirect(e)
  <2>1. /\ edit[e].at = "undo"
        /\ UNCHANGED <<file, live, running, job, told, accepted, record>>
    BY <1>5 DEF CheckBackDirect
  <2>2. CASE Step(e, "restore") /\ UNCHANGED <<holder, harmed>>
    <3>1. /\ edit'[e].at = "restore" /\ edit'[e].before = edit[e].before
          /\ edit'[e].after = edit[e].after
          /\ \A x \in Editor \ {e} : edit'[x] = edit[x]
      BY <1>0, <2>1, <2>2, EditSteps
    <3>2. DirectInv(e)'
      BY <1>0, <2>1, <2>2, <3>1 DEF DirectInv
    <3>. QED
      BY <2>1, <2>2, <3>1, <3>2, DirectKeeps
  <2>3. CASE End(e, "failed") /\ harmed' = TRUE
    <3>1. edit'[e].at = "idle" /\ \A x \in Editor \ {e} : edit'[x] = edit[x]
      BY <1>0, <2>3, EditSteps
    <3>2. DirectInv(e)'
      BY <3>1 DEF DirectInv
    <3>. QED
      BY <2>1, <2>3, <3>1, <3>2, DirectKeeps
  <2>. QED
    BY <1>5, <2>2, <2>3 DEF CheckBackDirect
<1>6. CASE PutBackDirect(e)
  <2>1. /\ edit[e].at = "restore"
        /\ UNCHANGED <<live, running, job, told, accepted, record>>
    BY <1>6 DEF PutBackDirect
  <2>2. \E a : End(e, a)
    BY <1>6 DEF PutBackDirect
  <2>3. edit'[e].at = "idle" /\ \A x \in Editor \ {e} : edit'[x] = edit[x]
    BY <1>0, <2>2, EditSteps
  <2>4. DirectInv(e)'
    BY <2>3 DEF DirectInv
  <2>5. CASE Write("unbound", edit[e].before) /\ \E b \in BOOLEAN : harmed' = (harmed \/ b)
    <3>1. file'.unbound = edit[e].before /\ file'.nft = file.nft
      BY <2>5, WriteFacts
    <3>2. /\ harmed => harmed'
          /\ harmed' \/ /\ file'.unbound.policies = file.unbound.policies
                        /\ file'.unbound.record = record
      BY <1>0, <2>1, <2>5, <3>1 DEF DirectInv, TypeOK
    <3>. QED
      BY <2>1, <2>3, <2>4, <3>1, <3>2, DirectKeeps
  <2>6. CASE UNCHANGED file /\ harmed' = TRUE
    BY <2>1, <2>3, <2>4, <2>6, DirectKeeps
  <2>. QED
    BY <1>6, <2>5, <2>6 DEF PutBackDirect
<1>7. CASE KillEdit(e)
  <2>1. /\ edit[e].at # "idle" /\ harmed'
        /\ UNCHANGED <<file, live, running, job, told, accepted, record>>
    BY <1>7 DEF KillEdit
  <2>2. edit'[e].at = "idle" /\ \A x \in Editor \ {e} : edit'[x] = edit[x]
    BY <1>0, <1>7, EditSteps DEF KillEdit
  <2>3. DirectInv(e)'
    BY <2>2 DEF DirectInv
  <2>. QED
    BY <2>1, <2>2, <2>3, DirectKeeps
<1>. QED
  BY <1>1, <1>2, <1>3, <1>4, <1>5, <1>6, <1>7

-----------------------------------------------------------------------------
\* A step of ResolverControl need only look after its own edit.
LEMMA ResolverKeeps ==
  ASSUME TypeOK, AgreeInv, NEW e \in Resolver,
         \A x \in Editor \ {e} : edit'[x] = edit[x],
         UNCHANGED <<live, running, job, told, accepted, record>>, harmed => harmed',
         holder' = holder \/ holder = e, file'.nft = file.nft,
         \/ file' = file \/ harmed'
         \/ /\ holder = Nobody /\ file'.unbound.policies = file.unbound.policies
            /\ file'.unbound.record = file.unbound.record,
         ResolverInv(e)'
  PROVE  AgreeInv'
<1>1. /\ \A c \in Family : c # e /\ c # Nobody
      /\ \A x \in Direct : x \in Editor \ {e} /\ x # Nobody
  BY EditConstants DEF Editor, Client
<1>2. \A c \in Family : job[c].at # "idle" => holder' = holder
  BY <1>1 DEF AgreeInv
<1>3. holder = Nobody => Still /\ \A x \in Direct : edit[x].at = "idle"
  BY <1>1 DEF AgreeInv, DirectInv, Still, At
<1>4. /\ \A c \in Family : job'[c].at # "idle" =>
           /\ holder' = c /\ told'[c] = "none"
           /\ ~harmed' => BasisInv(c)' /\ InstallInv(c)'
      /\ Still' /\ ~harmed' => Agreed'
  BY <1>2, <1>3, OutsideAgrees
<1>5. \A x \in Direct : DirectInv(x)'
  <2>. SUFFICES ASSUME NEW x \in Direct, edit[x].at # "idle" PROVE DirectInv(x)'
    BY <1>1 DEF DirectInv
  <2>1. /\ edit'[x] = edit[x] /\ holder = x /\ holder' = holder /\ holder # Nobody
        /\ DirectInv(x)
    BY <1>1 DEF AgreeInv, DirectInv
  <2>2. ~harmed' => file' = file
    BY <2>1
  <2>. QED
    BY <2>1, <2>2 DEF DirectInv
<1>6. \A x \in Resolver : ResolverInv(x)'
  BY DEF AgreeInv, ResolverInv, Editor
<1>7. ~harmed' /\ (\A x \in Direct : edit'[x].at = "idle") => file'.unbound.record = record'
  BY <1>1 DEF AgreeInv
<1>. QED
  BY <1>4, <1>5, <1>6, <1>7 DEF AgreeInv

LEMMA ResolverAgrees ==
  ASSUME TypeOK, AgreeInv, NEW e \in Resolver,
         \/ StartResolver(e) \/ Install(e) \/ ReloadResolver(e) \/ Rollback(e)
         \/ ReloadBackResolver(e) \/ KillEdit(e)
  PROVE  AgreeInv'
<1>. USE DEF host, family, callers, ghosts, shared, Editing
<1>0. e \in Editor /\ ResolverInv(e)
  BY DEF Editor, AgreeInv
<1>1. CASE StartResolver(e)
  <2>1. UNCHANGED <<file, live, running, holder, job, told, accepted, harmed, record>>
    BY <1>1 DEF StartResolver
  <2>2. PICK v \in Value :
          LET after == [file.unbound EXCEPT !.upstream = v]
          IN (\E a : End(e, a)) \/ Begin(e, file.unbound, after, "install")
    BY <1>1 DEF StartResolver
  <2>. DEFINE after == [file.unbound EXCEPT !.upstream = v]
  <2>3. after.policies = file.unbound.policies /\ after.record = file.unbound.record
    BY DEF Unbound, TypeOK, Files
  <2>. HIDE DEF after
  <2>4. CASE \E a : End(e, a)
    <3>1. edit'[e].at = "idle" /\ \A x \in Editor \ {e} : edit'[x] = edit[x]
      BY <1>0, <2>4, EditSteps
    <3>2. ResolverInv(e)'
      BY <3>1 DEF ResolverInv
    <3>. QED
      BY <2>1, <3>1, <3>2, ResolverKeeps
  <2>5. CASE Begin(e, file.unbound, after, "install")
    <3>1. /\ edit'[e].at = "install" /\ edit'[e].before = file.unbound
          /\ edit'[e].after = after /\ \A x \in Editor \ {e} : edit'[x] = edit[x]
      BY <1>0, <2>5, EditSteps
    <3>2. ResolverInv(e)'
      BY <2>3, <3>1 DEF ResolverInv
    <3>. QED
      BY <2>1, <3>1, <3>2, ResolverKeeps
  <2>. QED
    BY <2>2, <2>4, <2>5 DEF after
<1>2. CASE KillEdit(e) \/ ReloadBackResolver(e)
  <2>1. /\ harmed => harmed'
        /\ holder' = holder \/ holder = e
        /\ UNCHANGED <<file, live, running, job, told, accepted, record>>
    <3>1. CASE KillEdit(e)
      BY <3>1 DEF KillEdit, Unlock
    <3>2. CASE ReloadBackResolver(e)
      BY <3>2 DEF ReloadBackResolver
    <3>. QED
      BY <1>2, <3>1, <3>2
  <2>2. \E a : End(e, a)
    BY <1>2 DEF KillEdit, ReloadBackResolver
  <2>3. edit'[e].at = "idle" /\ \A x \in Editor \ {e} : edit'[x] = edit[x]
    BY <1>0, <2>2, EditSteps
  <2>4. ResolverInv(e)'
    BY <2>3 DEF ResolverInv
  <2>. QED
    BY <2>1, <2>3, <2>4, ResolverKeeps
<1>3. CASE ReloadResolver(e)
  <2>1. /\ edit[e].at = "reload"
        /\ UNCHANGED <<file, live, running, holder, job, told, accepted, harmed, record>>
    BY <1>3 DEF ReloadResolver
  <2>2. (\E a : End(e, a)) \/ Step(e, "rollback")
    BY <1>3 DEF ReloadResolver
  <2>3. /\ \/ edit'[e].at = "idle"
           \/ /\ edit'[e].at = "rollback" /\ edit'[e].before = edit[e].before
              /\ edit'[e].after = edit[e].after
        /\ \A x \in Editor \ {e} : edit'[x] = edit[x]
    BY <1>0, <2>1, <2>2, EditSteps
  <2>4. ResolverInv(e)'
    BY <1>0, <2>1, <2>3 DEF ResolverInv
  <2>. QED
    BY <2>1, <2>3, <2>4, ResolverKeeps
<1>4. CASE Install(e)
  <2>1. /\ edit[e].at = "install"
        /\ UNCHANGED <<live, running, holder, job, told, accepted, record>>
    BY <1>4 DEF Install
  <2>2. CASE /\ Write("unbound", edit[e].after) /\ Step(e, "reload")
             /\ harmed' = (harmed \/ Overwrites(e, edit[e].before))
    <3>1. /\ edit'[e].at = "reload" /\ edit'[e].before = edit[e].before
          /\ edit'[e].after = edit[e].after
          /\ \A x \in Editor \ {e} : edit'[x] = edit[x]
      BY <1>0, <2>1, <2>2, EditSteps
    <3>2. ResolverInv(e)'
      BY <1>0, <2>1, <3>1 DEF ResolverInv
    <3>3. file'.unbound = edit[e].after /\ file'.nft = file.nft
      BY <2>2, WriteFacts
    <3>4. /\ harmed => harmed'
          /\ harmed' \/ /\ holder = Nobody /\ file'.unbound.policies = file.unbound.policies
                        /\ file'.unbound.record = file.unbound.record
      BY <1>0, <2>1, <2>2, <3>3 DEF ResolverInv, Overwrites, TypeOK
    <3>. QED
      BY <2>1, <3>1, <3>2, <3>3, <3>4, ResolverKeeps
  <2>3. CASE End(e, "refused") /\ UNCHANGED <<file, harmed>>
    <3>1. edit'[e].at = "idle" /\ \A x \in Editor \ {e} : edit'[x] = edit[x]
      BY <1>0, <2>3, EditSteps
    <3>2. ResolverInv(e)'
      BY <3>1 DEF ResolverInv
    <3>. QED
      BY <2>1, <2>3, <3>1, <3>2, ResolverKeeps
  <2>. QED
    BY <1>4, <2>2, <2>3 DEF Install
<1>5. CASE Rollback(e)
  <2>1. /\ edit[e].at = "rollback"
        /\ UNCHANGED <<live, running, holder, job, told, accepted, record>>
    BY <1>5 DEF Rollback
  <2>2. CASE /\ Write("unbound", edit[e].before) /\ Step(e, "reload back")
             /\ harmed' = (harmed \/ Overwrites(e, edit[e].after))
    <3>1. /\ edit'[e].at = "reload back" /\ edit'[e].before = edit[e].before
          /\ edit'[e].after = edit[e].after
          /\ \A x \in Editor \ {e} : edit'[x] = edit[x]
      BY <1>0, <2>1, <2>2, EditSteps
    <3>2. ResolverInv(e)'
      BY <1>0, <2>1, <3>1 DEF ResolverInv
    <3>3. file'.unbound = edit[e].before /\ file'.nft = file.nft
      BY <2>2, WriteFacts
    <3>4. /\ harmed => harmed'
          /\ harmed' \/ /\ holder = Nobody /\ file'.unbound.policies = file.unbound.policies
                        /\ file'.unbound.record = file.unbound.record
      BY <1>0, <2>1, <2>2, <3>3 DEF ResolverInv, Overwrites, TypeOK
    <3>. QED
      BY <2>1, <3>1, <3>2, <3>3, <3>4, ResolverKeeps
  <2>3. CASE End(e, "crashed") /\ harmed' = TRUE /\ UNCHANGED file
    <3>1. edit'[e].at = "idle" /\ \A x \in Editor \ {e} : edit'[x] = edit[x]
      BY <1>0, <2>3, EditSteps
    <3>2. ResolverInv(e)'
      BY <3>1 DEF ResolverInv
    <3>. QED
      BY <2>1, <2>3, <3>1, <3>2, ResolverKeeps
  <2>. QED
    BY <1>5, <2>2, <2>3 DEF Rollback
<1>. QED
  BY <1>1, <1>2, <1>3, <1>4, <1>5

LEMMA OthersAgree ==
  ASSUME TypeOK, AgreeInv,
         \/ (Load \/ Rebind) /\ UNCHANGED edits
         \/ UNCHANGED vars
  PROVE  AgreeInv'
<1>1. /\ UNCHANGED <<file, live, holder, job, told, accepted, harmed, edit, record>>
      /\ running' \in {running, file.unbound}
  BY DEF Load, Rebind, vars, host, shared, callers, ghosts, edits
<1>2. /\ \A c \in Family : job'[c].at # "idle" =>
           /\ holder' = c /\ told'[c] = "none"
           /\ ~harmed' => BasisInv(c)' /\ InstallInv(c)'
      /\ Still' /\ ~harmed' => Agreed'
  BY <1>1, OutsideAgrees DEF AgreeInv
<1>3. /\ \A e \in Direct : DirectInv(e)'
      /\ \A e \in Resolver : ResolverInv(e)'
  BY <1>1 DEF AgreeInv, DirectInv, ResolverInv
<1>4. ~harmed' /\ (\A e \in Direct : edit'[e].at = "idle") => file'.unbound.record = record'
  BY <1>1 DEF AgreeInv
<1>. QED
  BY <1>2, <1>3, <1>4 DEF AgreeInv

LEMMA AgreeKept == TypeOK /\ AgreeInv /\ [Next]_vars => AgreeInv'
BY FamilyAgrees, DirectAgrees, ResolverAgrees, OthersAgree DEF Next

LEMMA AgreeBegins == Init => AgreeInv
<1>. SUFFICES ASSUME Init PROVE AgreeInv
  OBVIOUS
<1>1. /\ \A c \in Family : job[c].at = "idle"
      /\ \A e \in Editor : edit[e].at = "idle"
  BY DEF Init, Idle, NoEdit
<1>2. /\ file.unbound.policies = Empty /\ file.nft = Empty /\ live \in {NoTable, Empty}
      /\ running = file.unbound /\ accepted = Empty
      /\ file.unbound.record = record
  BY DEF Init
<1>3. Rules(Empty) = Empty
  BY DEF Rules, Empty
<1>4. DOMAIN Empty = {}
  BY DEF Empty
<1>5. Agreed
  BY <1>2, <1>3, <1>4, ViewsType DEF Agreed, TableAgrees, Near
<1>6. /\ \A e \in Direct : DirectInv(e)
      /\ \A e \in Resolver : ResolverInv(e)
  BY <1>1 DEF DirectInv, ResolverInv, Editor
<1>. QED
  BY <1>1, <1>2, <1>5, <1>6 DEF AgreeInv

LEMMA AlwaysAgree == Spec => []AgreeInv
BY AgreeBegins, AgreeKept, PoliciesAreTyped, PTL DEF Spec

\* Between changes the two files and the kernel hold the same policies, unless
\* a change was cut off or its caller was told that the undoing failed
\* (network/firewall/index.py:345-391, 457-506).
THEOREM PoliciesAgree == Spec => []FilesAgree
<1>1. TypeOK /\ AgreeInv => FilesAgree
  BY DEF AgreeInv, Agreed, TableAgrees, FilesAgree
<1>. QED
  BY <1>1, AlwaysAgree, PoliciesAreTyped, PTL

\* The policies on file follow from what each answered caller had seen and asked
\* for: none is lost to another caller or to dispatch, which take the lock.  Not
\* said of the states after a change was cut off, was answered "failed", or was
\* written over by ResolverControl, which takes no lock (harmed)
\* (network/firewall/index.py:425-483, network/dns/index.py:345-391).
THEOREM NoChangeIsLost == Spec => []NothingLost
<1>1. AgreeInv => NothingLost
  BY DEF AgreeInv, Agreed, NothingLost
<1>. QED
  BY <1>1, AlwaysAgree, PTL

\* Two lists of policies serve every device the same.
LEMMA ViewsSame ==
  ASSUME NEW p \in Policies, NEW q \in Policies, \A m \in Mac : SameView(p, q, m)
  PROVE  Views(p) = Views(q)
<1>1. DOMAIN p \subseteq Mac /\ DOMAIN q \subseteq Mac
  BY DEF Policies
<1>2. DOMAIN p = DOMAIN q /\ \A m \in DOMAIN p : p[m].sites = q[m].sites
  BY <1>1 DEF SameView
<1>. QED
  BY <1>2 DEF Views

\* Which steps give an answer to a change.
LEMMA Answering ==
  ASSUME TypeOK, AgreeInv, [Next]_vars, NEW c \in Family, ~At(c, "idle"),
         told'[c] \in {"ok", "restored"}
  PROVE  \/ Prove(c) /\ Release(c, "ok") /\ told'[c] = "ok"
         \/ ReloadBack(c) /\ job[c].clean /\ hup' /\ Release(c, "restored") /\ told'[c] = "restored"
<1>0. told[c] = "none" /\ told \in [Family -> {"none", "refused", "noop", "ok", "restored", "failed"}]
  BY DEF AgreeInv, At, TypeOK
<1>1. \A d \in Family : \A a : Release(d, a) => told' = [told EXCEPT ![d] = a]
  BY DEF Release, Answer
<1>2. told' # told
  BY <1>0
<1>3. PICK d \in Family : FamilyStep(d)
  BY <1>2 DEF Next, vars, Load, Rebind, host, shared, callers, ghosts, family, StartDirect,
     CheckDirect, ReplaceDirect, VerifyDirect, CheckBackDirect, PutBackDirect, KillEdit,
     StartResolver, Install, ReloadResolver, Rollback, ReloadBackResolver
<1>4. \/ Start(d)
      \/ Prove(d) /\ Release(d, "ok")
      \/ ReloadBack(d) /\ job[d].clean /\ hup' /\ Release(d, "restored")
      \/ Release(d, "failed")
  <2>1. ~See(d) /\ ~Check(d) /\ ~Reload(d) /\ ~Replace(d) /\ ~Apply(d)
    BY <1>2 DEF See, Check, Reload, Replace, Apply, host, shared, ghosts
  <2>2. ~CheckBack(d) /\ ~PutBack(d) /\ ~Kill(d)
    BY <1>2 DEF CheckBack, PutBack, Kill, host, shared, ghosts
  <2>3. Prove(d) => Release(d, "ok")
    BY <1>2 DEF Prove, ghosts
  <2>4. UndoTable(d) => Release(d, "failed")
    BY <1>2 DEF UndoTable, ghosts
  <2>5. ReloadBack(d) => \/ Release(d, "failed")
                         \/ job[d].clean /\ hup' /\ Release(d, "restored")
    BY DEF ReloadBack
  <2>. QED
    BY <1>3, <2>1, <2>2, <2>3, <2>4, <2>5 DEF FamilyStep
<1>5. d = c
  <2>1. CASE Start(d)
    <3>. QED
      BY <1>0, <2>1 DEF Start, At, AgreeInv, Answer
  <2>2. CASE \E a : Release(d, a)
    BY <1>0, <1>1, <2>2
  <2>. QED
    BY <1>4, <2>1, <2>2
<1>6. ~Start(c)
  BY DEF Start
<1>7. \A a : Release(c, a) => told'[c] = a
  BY <1>0, <1>1
<1>. QED
  BY <1>4, <1>5, <1>6, <1>7

\* "restored" is true: files and table are what they were before the change,
\* and Unbound has been told to load them (network/firewall/index.py:484-506).
THEOREM RestoredIsTold == Spec => RestoredIsTrue
<1>1. ASSUME TypeOK, AgreeInv, [Next]_vars, NEW c \in Family,
             ~At(c, "idle"), told'[c] = "restored", ~harmed
      PROVE  /\ file' = job[c].source
             /\ hup' \/ running' = file'.unbound
             /\ live' = file'.nft
  <2>1. ReloadBack(c) /\ job[c].clean /\ hup'
    BY <1>1, Answering
  <2>2. InstallInv(c)
    BY <1>1 DEF AgreeInv, At
  <2>. QED
    BY <2>1, <2>2 DEF ReloadBack, InstallInv, At
<1>2. TypeOK /\ AgreeInv /\ [Next]_vars =>
        [\A c \in Family : ~At(c, "idle") /\ told'[c] = "restored" /\ ~harmed =>
           /\ file' = job[c].source
           /\ hup' \/ running' = file'.unbound
           /\ live' = file'.nft]_<<host, told, job>>
  BY <1>1
<1>. QED
  BY <1>2, AlwaysAgree, PoliciesAreTyped, PTL DEF Spec, RestoredIsTrue

\* A change is answered only when Unbound serves the views of every device, not
\* only the one read back, and the kernel has every rule
\* (network/firewall/index.py:313-337, 467-483).
THEOREM AnsweredIsTrue == Spec => AnsweredIsServed
<1>1. ASSUME TypeOK, AgreeInv, [Next]_vars, NEW c \in Family,
             ~At(c, "idle"), told'[c] = "ok", ~harmed
      PROVE  /\ Views(running'.policies) = Views(file'.unbound.policies)
             /\ live' = file'.nft
  <2>1. Prove(c) /\ Release(c, "ok")
    BY <1>1, Answering
  <2>2. told[c] = "none" /\ told' # told
    BY <1>1 DEF AgreeInv, At
  <2>3. /\ job[c].at = "prove" /\ Proven(c) /\ UNCHANGED <<file, live, running>>
    BY <2>1, <2>2 DEF Prove, At, host, ghosts
  <2>4. /\ file.unbound.policies \in Policies /\ running.policies \in Policies
    BY <1>1 DEF TypeOK, Files, Unbound
  <2>. QED
    BY <1>1, <2>3, <2>4, ProvenAgrees, ViewsSame
<1>2. TypeOK /\ AgreeInv /\ [Next]_vars =>
        [\A c \in Family : ~At(c, "idle") /\ told'[c] = "ok" /\ ~harmed =>
           /\ Views(running'.policies) = Views(file'.unbound.policies)
           /\ live' = file'.nft]_<<host, told, job>>
  BY <1>1
<1>. QED
  BY <1>2, AlwaysAgree, PoliciesAreTyped, PTL DEF Spec, AnsweredIsServed

-----------------------------------------------------------------------------
(* The upstream servers, with one caller of ResolverControl.  Two of them  *)
(* may be answered in the other order than they wrote in.                  *)

LEMMA UpstreamKept ==
  ASSUME UpstreamInv, UNCHANGED upstream, \A e \in Resolver : edit'[e] = edit[e],
         ~harmed' => ~harmed /\ file'.unbound.upstream = file.unbound.upstream
  PROVE  UpstreamInv'
BY DEF UpstreamInv

LEMMA FamilyUpstream ==
  ASSUME TypeOK, AgreeInv, UpstreamInv, NEW c \in Family, FamilyStep(c), UNCHANGED edits
  PROVE  UpstreamInv'
<1>1. UNCHANGED <<edit, upstream>>
  BY DEF edits
<1>2. harmed => harmed'
  <2>1. \A a : Answer(c, a) => (harmed => harmed')
    BY DEF Answer
  <2>2. \A a : Release(c, a) => (harmed => harmed')
    BY <2>1 DEF Release
  <2>3. See(c) \/ Check(c) \/ Replace(c) => harmed' = harmed
    BY DEF See, Check, Replace, ghosts
  <2>4. Apply(c) \/ Reload(c) \/ CheckBack(c) \/ PutBack(c) => harmed' = harmed
    BY DEF Apply, Reload, CheckBack, PutBack, ghosts
  <2>5. Start(c) => (harmed => harmed')
    BY <2>1 DEF Start
  <2>6. Prove(c) => (harmed => harmed')
    BY <2>2 DEF Prove, ghosts
  <2>7. UndoTable(c) => (harmed => harmed')
    BY <2>2 DEF UndoTable, ghosts
  <2>8. ReloadBack(c) \/ Kill(c) => (harmed => harmed')
    BY <2>2 DEF ReloadBack, Kill
  <2>. QED
    BY <2>3, <2>4, <2>5, <2>6, <2>7, <2>8 DEF FamilyStep
<1>3. ASSUME ~harmed PROVE file'.unbound.upstream = file.unbound.upstream
  <2>1. ASSUME job[c].at # "idle"
        PROVE  /\ file.unbound.upstream = job[c].source.unbound.upstream
               /\ Payload(c, "unbound").upstream = job[c].source.unbound.upstream
    BY <1>3, <2>1, PayloadFacts DEF AgreeInv, BasisInv
  <2>2. CASE Replace(c)
    <3>1. job[c].at = "replace" /\ job[c].of \in {"unbound", "nft"}
      BY <2>2, JobType DEF Replace, At, Job
    <3>2. file' = file \/ Write(job[c].of, Payload(c, job[c].of))
      BY <2>2 DEF Replace
    <3>. QED
      BY <2>1, <3>1, <3>2, WriteFacts
  <2>3. CASE PutBack(c)
    <3>1. job[c].at = "restore" /\ LastInstalled(c) \in {"unbound", "nft"}
      BY <2>3 DEF PutBack, At, LastInstalled
    <3>2. file' = file \/ Write(LastInstalled(c), job[c].source[LastInstalled(c)])
      BY <2>3 DEF PutBack
    <3>3. job[c].source["unbound"] = job[c].source.unbound
      OBVIOUS
    <3>. QED
      BY <2>1, <3>1, <3>2, <3>3, WriteFacts
  <2>4. CASE See(c) \/ Start(c) \/ Check(c) \/ Apply(c) \/ Reload(c)
    BY <2>4 DEF See, Start, Check, Apply, Reload, host
  <2>5. CASE Prove(c) \/ CheckBack(c) \/ UndoTable(c) \/ ReloadBack(c) \/ Kill(c)
    BY <2>5 DEF Prove, CheckBack, UndoTable, ReloadBack, Kill, host
  <2>. QED
    BY <2>2, <2>3, <2>4, <2>5 DEF FamilyStep
<1>. QED
  BY <1>1, <1>2, <1>3, UpstreamKept

LEMMA DirectUpstream ==
  ASSUME TypeOK, AgreeInv, UpstreamInv, NEW e \in Direct,
         \/ StartDirect(e) \/ CheckDirect(e) \/ ReplaceDirect(e) \/ VerifyDirect(e)
         \/ CheckBackDirect(e) \/ PutBackDirect(e) \/ KillEdit(e)
  PROVE  UpstreamInv'
<1>. USE DEF host, family, callers, ghosts, Editing
<1>0. e \in Editor /\ DirectInv(e) /\ \A x \in Resolver : x \in Editor \ {e}
  BY EditConstants DEF Editor, AgreeInv
<1>1. UNCHANGED upstream /\ (harmed => harmed')
  <2>1. CASE StartDirect(e) \/ CheckDirect(e) \/ ReplaceDirect(e) \/ VerifyDirect(e)
    BY <2>1 DEF StartDirect, CheckDirect, ReplaceDirect, VerifyDirect
  <2>2. CASE CheckBackDirect(e)
    BY <2>2 DEF CheckBackDirect
  <2>3. CASE PutBackDirect(e)
    BY <2>3 DEF PutBackDirect
  <2>4. CASE KillEdit(e)
    BY <2>4 DEF KillEdit
  <2>. QED
    BY <2>1, <2>2, <2>3, <2>4
<1>2. \/ \E a : End(e, a)
      \/ \E a : edit[e].at # "idle" /\ Step(e, a)
      \/ \E b, x, a : Begin(e, b, x, a)
  BY DEF StartDirect, CheckDirect, ReplaceDirect, VerifyDirect, CheckBackDirect, PutBackDirect,
     KillEdit
<1>3. \A x \in Resolver : edit'[x] = edit[x]
  BY <1>0, <1>2, EditSteps
<1>4. ASSUME ~harmed PROVE file'.unbound.upstream = file.unbound.upstream
  <2>1. CASE ReplaceDirect(e)
    <3>1. edit[e].at = "replace" /\ (file' = file \/ Write("unbound", edit[e].after))
      BY <2>1 DEF ReplaceDirect
    <3>. QED
      BY <1>0, <1>4, <3>1, WriteFacts DEF DirectInv
  <2>2. CASE PutBackDirect(e)
    <3>1. edit[e].at = "restore" /\ (file' = file \/ Write("unbound", edit[e].before))
      BY <2>2 DEF PutBackDirect
    <3>. QED
      BY <1>0, <1>4, <3>1, WriteFacts DEF DirectInv
  <2>3. CASE ~ReplaceDirect(e) /\ ~PutBackDirect(e)
    BY <2>3 DEF StartDirect, CheckDirect, VerifyDirect, CheckBackDirect, KillEdit
  <2>. QED
    BY <2>1, <2>2, <2>3
<1>. QED
  BY <1>1, <1>3, <1>4, UpstreamKept

LEMMA ResolverUpstream ==
  ASSUME TypeOK, UpstreamInv, \A a, b \in Resolver : a = b, NEW e \in Resolver,
         \/ StartResolver(e) \/ Install(e) \/ ReloadResolver(e) \/ Rollback(e)
         \/ ReloadBackResolver(e) \/ KillEdit(e)
  PROVE  UpstreamInv'
<1>. USE DEF host, family, callers, ghosts, shared, Editing
<1>0. e \in Editor /\ \A x \in Resolver : x = e
  BY DEF Editor
<1>1. CASE StartResolver(e)
  <2>1. edit[e].at = "idle" /\ UNCHANGED <<file, harmed, upstream>>
    BY <1>1 DEF StartResolver
  <2>2. (\E a : End(e, a)) \/ \E b, x : Begin(e, b, x, "install") /\ b = file.unbound
    BY <1>1 DEF StartResolver
  <2>3. edit'[e].at \in {"idle", "install"}
    BY <1>0, <2>2, EditSteps
  <2>4. ~harmed => file.unbound.upstream = upstream
    BY <1>0, <2>1 DEF UpstreamInv
  <2>. QED
    BY <1>0, <2>1, <2>3, <2>4 DEF UpstreamInv
<1>2. CASE KillEdit(e)
  BY <1>2 DEF KillEdit, UpstreamInv
<1>3. CASE ReloadBackResolver(e)
  <2>1. edit[e].at = "reload back" /\ UNCHANGED <<file, harmed, upstream>>
    BY <1>3 DEF ReloadBackResolver
  <2>2. edit'[e].at = "idle"
    BY <1>0, <1>3, EditSteps DEF ReloadBackResolver
  <2>3. ~harmed => file.unbound.upstream = upstream
    BY <1>0, <2>1 DEF UpstreamInv
  <2>. QED
    BY <1>0, <2>1, <2>2, <2>3 DEF UpstreamInv
<1>4. CASE ReloadResolver(e)
  <2>1. edit[e].at = "reload" /\ UNCHANGED <<file, harmed>>
    BY <1>4 DEF ReloadResolver
  <2>2. ~harmed => /\ file.unbound.upstream = edit[e].after.upstream
                   /\ edit[e].before.upstream = upstream
    BY <2>1 DEF UpstreamInv
  <2>3. CASE End(e, "ok") /\ upstream' = edit[e].after.upstream
    <3>1. edit'[e].at = "idle"
      BY <1>0, <2>3, EditSteps
    <3>. QED
      BY <1>0, <2>1, <2>2, <2>3, <3>1 DEF UpstreamInv
  <2>4. CASE Step(e, "rollback") /\ UNCHANGED upstream
    <3>1. /\ edit'[e].at = "rollback" /\ edit'[e].before = edit[e].before
          /\ edit'[e].after = edit[e].after
      BY <1>0, <2>1, <2>4, EditSteps
    <3>. QED
      BY <1>0, <2>1, <2>2, <2>4, <3>1 DEF UpstreamInv
  <2>. QED
    BY <1>4, <2>3, <2>4 DEF ReloadResolver
<1>5. CASE Install(e)
  <2>1. edit[e].at = "install" /\ UNCHANGED upstream
    BY <1>5 DEF Install
  <2>2. ~harmed => file.unbound.upstream = upstream
    BY <1>0, <2>1 DEF UpstreamInv
  <2>3. CASE /\ Write("unbound", edit[e].after) /\ Step(e, "reload")
             /\ harmed' = (harmed \/ Overwrites(e, edit[e].before))
    <3>1. /\ edit'[e].at = "reload" /\ edit'[e].before = edit[e].before
          /\ edit'[e].after = edit[e].after
      BY <1>0, <2>1, <2>3, EditSteps
    <3>2. file'.unbound = edit[e].after /\ (~harmed' => ~harmed /\ file.unbound = edit[e].before)
      BY <2>3, WriteFacts DEF Overwrites, TypeOK
    <3>. QED
      BY <1>0, <2>1, <2>2, <3>1, <3>2 DEF UpstreamInv
  <2>4. CASE End(e, "refused") /\ UNCHANGED <<file, harmed>>
    <3>1. edit'[e].at = "idle"
      BY <1>0, <2>4, EditSteps
    <3>. QED
      BY <1>0, <2>1, <2>2, <2>4, <3>1 DEF UpstreamInv
  <2>. QED
    BY <1>5, <2>3, <2>4 DEF Install
<1>6. CASE Rollback(e)
  <2>1. edit[e].at = "rollback" /\ UNCHANGED upstream
    BY <1>6 DEF Rollback
  <2>2. ~harmed => edit[e].before.upstream = upstream
    BY <2>1 DEF UpstreamInv
  <2>3. CASE /\ Write("unbound", edit[e].before) /\ Step(e, "reload back")
             /\ harmed' = (harmed \/ Overwrites(e, edit[e].after))
    <3>1. edit'[e].at = "reload back"
      BY <1>0, <2>1, <2>3, EditSteps
    <3>2. file'.unbound = edit[e].before /\ (~harmed' => ~harmed)
      BY <2>3, WriteFacts DEF TypeOK
    <3>. QED
      BY <1>0, <2>1, <2>2, <3>1, <3>2 DEF UpstreamInv
  <2>4. CASE End(e, "crashed") /\ harmed' = TRUE
    BY <2>4 DEF UpstreamInv
  <2>. QED
    BY <1>6, <2>3, <2>4 DEF Rollback
<1>. QED
  BY <1>1, <1>2, <1>3, <1>4, <1>5, <1>6

\* Each editor rewrites the whole file and changes its own part of it: no
\* answered record, list of policies or list of servers is lost, with the same
\* exceptions.  Two ResolverControls would lose one another's servers
\* (network/dns/index.py:246-445, 1022-1053, network/firewall/index.py:175-248).
THEOREM EachPartIsKept ==
  ASSUME \A a, b \in Resolver : a = b
  PROVE  Spec => []EachKeepsItsPart
<1>1. Init => UpstreamInv
  <2>1. Init => /\ \A e \in Resolver : edit[e].at = "idle"
                /\ file.unbound.upstream = NoValue /\ upstream = NoValue
    BY DEF Init, NoEdit, Editor
  <2>. QED
    BY <2>1 DEF UpstreamInv
<1>2. TypeOK /\ AgreeInv /\ UpstreamInv /\ [Next]_vars => UpstreamInv'
  <2>1. TypeOK /\ AgreeInv /\ UpstreamInv /\
          (((Load \/ Rebind) /\ UNCHANGED edits) \/ UNCHANGED vars) => UpstreamInv'
    <3>1. ((Load \/ Rebind) /\ UNCHANGED edits) \/ UNCHANGED vars =>
            UNCHANGED <<file, harmed, edit, upstream>>
      BY DEF Load, Rebind, vars, host, shared, callers, ghosts, edits
    <3>. QED
      BY <3>1, UpstreamKept
  <2>. QED
    BY <2>1, FamilyUpstream, DirectUpstream, ResolverUpstream DEF Next
<1>3. AgreeInv /\ UpstreamInv => EachKeepsItsPart
  BY DEF AgreeInv, Agreed, UpstreamInv, EachKeepsItsPart, NothingLost, Editing
<1>. QED
  BY <1>1, <1>2, <1>3, AlwaysAgree, PoliciesAreTyped, PTL DEF Spec

===============================================================================
