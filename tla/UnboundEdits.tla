---------------------------- MODULE UnboundEdits ----------------------------
(***************************************************************************)
(* The other two editors of unbound.conf, both in network/dns/index.py,    *)
(* beside the firewall of ChildPolicy: dispatch, which keeps address       *)
(* records under the lock of the directory, and ResolverControl, which     *)
(* sets the upstream servers and takes no lock.                            *)
(***************************************************************************)
EXTENDS ChildPolicy

CONSTANTS
  Direct,               \* callers of dispatch
  Resolver,             \* callers of ResolverControl
  NoValue,              \* neither a record nor upstream servers are set
  Budgets               \* bound: how many requests each client makes

VARIABLES
  edit,                 \* the edit that each of them has under way
  reply,                \* the last answer to each
  record, upstream      \* what the answered edits add up to

edits == <<edit, reply, record, upstream>>
family == <<live, kea, callers, accepted, filtered>>
vars == <<host, shared, callers, ghosts, edits>>

NoEdit == [at |-> "idle"]
Editor == Direct \cup Resolver
Client == Family \cup Editor \cup {Dhcp}

ASSUME EditConstants ==
  /\ NoValue \in Value
  /\ Budgets \subseteq [Client -> Nat]
  /\ Nobody \notin Client
  /\ Family \cap Editor = {} /\ Direct \cap Resolver = {} /\ Dhcp \notin Family \cup Editor

Edit ==
  [at : {"check", "replace", "verify", "undo", "restore",
         "install", "reload", "rollback", "reload back"},
   before : Unbound, after : Unbound]

TypeOK ==
  /\ file \in Files /\ live \in Filters \cup {NoTable}
  /\ running \in Unbound /\ hup \in BOOLEAN
  /\ kea \in [Mac -> Ip \cup {NoIp}]
  /\ holder \in Client \cup {Nobody}
  /\ left \in [Client -> Nat]
  /\ job \in [Family -> Job \cup {Idle}]
  /\ seen \in [Family -> [policies : Policies, nft : Filters] \cup {NoRevision}]
  /\ told \in [Family -> {"none", "refused", "noop", "ok", "restored", "failed"}]
  /\ accepted \in Policies /\ filtered \subseteq Mac /\ harmed \in BOOLEAN
  /\ edit \in [Editor -> Edit \cup {NoEdit}]
  /\ reply \in [Editor -> {"none", "refused", "ok", "restored", "failed", "crashed"}]
  /\ record \in Value /\ upstream \in Value

\* The kernel has no table, or the one without rules that nftables loaded from
\* the file when the machine started.
Init ==
  /\ file = [unbound |-> [policies |-> Empty, record |-> NoValue, upstream |-> NoValue], nft |-> Empty]
  /\ live \in {NoTable, Empty} /\ running = file.unbound /\ hup = FALSE
  /\ kea \in Bindings /\ holder = Nobody
  /\ left \in Budgets
  /\ job = [c \in Family |-> Idle]
  /\ seen = [c \in Family |-> NoRevision]
  /\ told = [c \in Family |-> "none"]
  /\ accepted = Empty /\ filtered = {} /\ harmed = FALSE
  /\ edit = [e \in Editor |-> NoEdit]
  /\ reply = [e \in Editor |-> "none"]
  /\ record = NoValue /\ upstream = NoValue

Editing(e, label) == edit[e].at = label
Step(e, label) == edit' = [edit EXCEPT ![e].at = label]
End(e, answer) ==
  /\ edit' = [edit EXCEPT ![e] = NoEdit]
  /\ reply' = [reply EXCEPT ![e] = answer]

Begin(e, before, after, label) ==
  /\ edit' = [edit EXCEPT ![e] = [at |-> label, before |-> before, after |-> after]]
  /\ reply' = [reply EXCEPT ![e] = "none"]

-----------------------------------------------------------------------------
(* dispatch: ensure-local-data and remove.                                 *)

\* Mutant: the directory is not locked.
MayLockAnyway == TRUE

MayLock == holder = Nobody

StartDirect(e) ==
  /\ Editing(e, "idle") /\ left[e] > 0 /\ MayLock
  /\ left' = [left EXCEPT ![e] = @ - 1]
  /\ \E v \in Value :
       LET before == file.unbound
           after == [before EXCEPT !.record = v]
       IN \/ End(e, "refused") /\ UNCHANGED holder
          \/ before = after /\ End(e, "ok") /\ UNCHANGED holder
          \/ before # after /\ Begin(e, before, after, "check") /\ holder' = e
  /\ UNCHANGED <<host, family, harmed, record, upstream>>

Unlock(e) == holder' = IF holder = e THEN Nobody ELSE holder

CheckDirect(e) ==
  /\ e \in Direct /\ Editing(e, "check")
  /\ \/ file.unbound = edit[e].before /\ Step(e, "replace") /\ UNCHANGED <<reply, holder>>
     \/ End(e, "refused") /\ Unlock(e)
  /\ UNCHANGED <<host, family, left, harmed, record, upstream>>

\* A failure before os.replace refuses; one after it (InstalledFailure) rolls back.
ReplaceDirect(e) ==
  /\ e \in Direct /\ Editing(e, "replace")
  /\ \/ /\ Write("unbound", edit[e].after)
        /\ \E label \in {"verify", "undo"} : Step(e, label)
        /\ UNCHANGED <<reply, holder>>
     \/ UNCHANGED file /\ End(e, "refused") /\ Unlock(e)
  /\ UNCHANGED <<live, running, hup, kea, left, callers, ghosts, record, upstream>>

VerifyDirect(e) ==
  /\ Editing(e, "verify")
  /\ \/ End(e, "ok") /\ Unlock(e) /\ record' = edit[e].after.record
     \/ Step(e, "undo") /\ UNCHANGED <<reply, holder, record>>
  /\ UNCHANGED <<host, family, left, harmed, upstream>>

CheckBackDirect(e) ==
  /\ e \in Direct /\ Editing(e, "undo")
  /\ \/ /\ file.unbound = edit[e].after /\ Step(e, "restore")
        /\ UNCHANGED <<reply, holder, harmed>>
     \/ End(e, "failed") /\ Unlock(e) /\ harmed' = TRUE
  /\ UNCHANGED <<host, family, left, record, upstream>>

PutBackDirect(e) ==
  /\ Editing(e, "restore")
  /\ Unlock(e)
  /\ \/ /\ Write("unbound", edit[e].before)
        /\ \E answer \in {"restored", "failed"} :
             End(e, answer) /\ harmed' = (harmed \/ answer = "failed")
     \/ UNCHANGED file /\ End(e, "failed") /\ harmed' = TRUE
  /\ UNCHANGED <<live, running, hup, kea, left, callers, accepted, filtered, record, upstream>>

-----------------------------------------------------------------------------
(* ResolverControl: adblock and upstream.                                  *)

\* An edit that changes nothing is checked and answered, without a reload.
StartResolver(e) ==
  /\ Editing(e, "idle") /\ left[e] > 0
  /\ left' = [left EXCEPT ![e] = @ - 1]
  /\ \E v \in Value :
       LET before == file.unbound
           after == [before EXCEPT !.upstream = v]
       IN \/ End(e, "refused")
          \/ before = after /\ End(e, "ok")
          \/ before # after /\ Begin(e, before, after, "install")
  /\ UNCHANGED <<host, family, holder, harmed, record, upstream>>

\* What it writes goes over another's change when the file is no longer what
\* it read, and into another's change while the lock is held.
Overwrites(e, content) == file.unbound # content \/ holder # Nobody

Install(e) ==
  /\ Editing(e, "install")
  /\ \/ /\ Write("unbound", edit[e].after)
        /\ harmed' = (harmed \/ Overwrites(e, edit[e].before))
        /\ Step(e, "reload") /\ UNCHANGED reply
     \/ End(e, "refused") /\ UNCHANGED <<file, harmed>>
  /\ UNCHANGED <<live, running, hup, shared, callers, accepted, filtered, record, upstream>>

ReloadResolver(e) ==
  /\ Editing(e, "reload")
  /\ \/ hup' = TRUE /\ End(e, "ok") /\ upstream' = edit[e].after.upstream
     \/ hup' \in {hup, TRUE} /\ Step(e, "rollback") /\ UNCHANGED <<reply, upstream>>
  /\ UNCHANGED <<file, live, running, shared, callers, ghosts, record>>

\* The write of the rollback may fail, and the exception ends the process.
Rollback(e) ==
  /\ Editing(e, "rollback")
  /\ \/ /\ Write("unbound", edit[e].before)
        /\ harmed' = (harmed \/ Overwrites(e, edit[e].after))
        /\ Step(e, "reload back") /\ UNCHANGED reply
     \/ End(e, "crashed") /\ harmed' = TRUE /\ UNCHANGED file
  /\ UNCHANGED <<live, running, hup, shared, callers, accepted, filtered, record, upstream>>

ReloadBackResolver(e) ==
  /\ Editing(e, "reload back")
  /\ hup' \in {hup, TRUE} /\ End(e, "refused")
  /\ UNCHANGED <<file, live, running, shared, callers, ghosts, record, upstream>>

\* The process of an edit dies.
KillEdit(e) ==
  /\ ~Editing(e, "idle")
  /\ End(e, "crashed") /\ Unlock(e) /\ harmed' = TRUE
  /\ UNCHANGED <<host, family, left, record, upstream>>

Next ==
  \/ \E c \in Family : FamilyStep(c) /\ UNCHANGED edits
  \/ (Load \/ Rebind) /\ UNCHANGED edits
  \/ \E e \in Direct : \/ StartDirect(e) \/ CheckDirect(e) \/ ReplaceDirect(e) \/ VerifyDirect(e)
                       \/ CheckBackDirect(e) \/ PutBackDirect(e) \/ KillEdit(e)
  \/ \E e \in Resolver : \/ StartResolver(e) \/ Install(e) \/ ReloadResolver(e) \/ Rollback(e)
                         \/ ReloadBackResolver(e) \/ KillEdit(e)

Spec == Init /\ [][Next]_vars

-----------------------------------------------------------------------------
\* Each editor rewrites the whole file and changes its own part: between edits
\* the file holds the policies, the record and the upstream servers that follow
\* from what every caller was answered, unless an edit was cut off or went over
\* another's.
EachKeepsItsPart ==
  /\ NothingLost
  /\ ~harmed =>
       /\ (\A e \in Direct : Editing(e, "idle")) => file.unbound.record = record
       /\ (\A e \in Resolver : Editing(e, "idle")) => file.unbound.upstream = upstream
=============================================================================
