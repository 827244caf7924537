----------------------------- MODULE ChildPolicy -----------------------------
(***************************************************************************)
(* network/firewall/index.py: the policy of a child's device, a list of    *)
(* sites it may resolve.  One change writes two files (a marked region of  *)
(* unbound.conf, and the table of nftables.d), applies the table, reloads  *)
(* Unbound, and proves the result by reading it back; any failure undoes   *)
(* what was done.  A change is made under the lock of both directories     *)
(* and names the revision that its caller saw.  While the kernel has no    *)
(* table at all every change is refused, the first one too: a read of a    *)
(* table that does not exist is a refused command like any other.          *)
(* The other editors of unbound.conf are in UnboundEdits.                  *)
(***************************************************************************)
EXTENDS Naturals, FiniteSets

CONSTANTS
  Family,               \* callers of the firewall
  Dhcp,                 \* whoever changes the reservations of Kea
  Mac,                  \* devices
  Sites,                \* lists of sites
  Bindings,             \* what Kea may reserve: functions from Mac to Ip or NoIp
  Ip, NoIp,
  NoTable,              \* the kernel has no table caduceus_child_filter
  Value,                \* of an address record and of the upstream servers
  Nobody, NoRevision

VARIABLES
  file,                 \* unbound: [policies, record, upstream]; nft: its rules
  live,                 \* the table that the kernel enforces
  running, hup,         \* what Unbound has loaded; whether it was told to reload
  kea,                  \* the address that Kea reserves for each device
  holder,               \* who holds flock on the directory of unbound.conf
  job,                  \* the change that each caller has under way
  seen,                 \* the revision that each caller was given
  told,                 \* the last answer to each caller
  left,                 \* bound: requests that each client still makes
  accepted,             \* the policies that the answered changes add up to
  filtered,             \* devices with an answered policy, whose removal never began
  harmed                \* a change was cut off, said that its undoing failed, or met
                        \* with an editor that takes no lock

host == <<file, live, running, hup>>
shared == <<kea, holder, left>>
callers == <<job, seen, told>>
ghosts == <<accepted, filtered, harmed>>

Empty == [m \in {} |-> NoIp]
Policies == UNION {[S -> [ip : Ip, sites : Sites]] : S \in SUBSET Mac}
Filters == UNION {[S -> Ip] : S \in SUBSET Mac}
Rules(policies) == [m \in DOMAIN policies |-> policies[m].ip]

\* The editors of the other parts of unbound.conf matter here by the place of
\* what they write.
Unbound == [policies : Policies, record : Value, upstream : Value]
Files == [unbound : Unbound, nft : Filters]

ASSUME PolicyConstants ==
  /\ NoIp \notin Ip /\ Bindings \subseteq [Mac -> Ip \cup {NoIp}]
  /\ NoTable \notin Filters
  /\ Nobody \notin Family

\* A revision is a digest of what the firewall owns in the two files.
Revision == [policies |-> file.unbound.policies, nft |-> file.nft]

Request == [op : {"put"}, mac : Mac, sites : Sites] \cup [op : {"delete"}, mac : Mac]

Changed(policies, r) ==
  [m \in IF r.op = "put" THEN DOMAIN policies \cup {r.mac} ELSE DOMAIN policies \ {r.mac} |->
    IF r.op = "put" /\ m = r.mac THEN [ip |-> kea[m], sites |-> r.sites] ELSE policies[m]]

\* Mutant: the two files may disagree.
ReadableAnyway ==
  \A m \in DOMAIN file.unbound.policies : kea[m] = file.unbound.policies[m].ip

\* Both files parse, agree with one another and with Kea.
Readable ==
  /\ \A m \in DOMAIN file.unbound.policies : kea[m] = file.unbound.policies[m].ip
  /\ file.nft = Rules(file.unbound.policies)

\* Mutant: a device without a reservation gets a policy.
AdmittedUnbound(c, r) ==
  /\ Readable
  /\ seen[c] = Revision
  /\ r.op = "delete" => r.mac \in DOMAIN file.unbound.policies

Admitted(c, r) ==
  /\ Readable
  /\ seen[c] = Revision
  /\ IF r.op = "put" THEN kea[r.mac] # NoIp ELSE r.mac \in DOMAIN file.unbound.policies

\* nft list table answers.  The command runner of the program reports a missing
\* table as a refusal, never as the absence that _live_table looks for.
TableReads == live # NoTable

\* The kernel enforces the policies; nothing is asked of it when there is none.
ProvenLive(policies) == DOMAIN policies # {} => live = Rules(policies)

\* Unbound serves the view of the device as the policies say.
ProvenServed(policies, m) ==
  IF m \in DOMAIN policies
  THEN m \in DOMAIN running.policies /\ running.policies[m].sites = policies[m].sites
  ELSE m \notin DOMAIN running.policies

-----------------------------------------------------------------------------
Idle == [at |-> "idle"]
Job ==
  [at : {"check", "replace", "apply", "reload", "prove", "undo", "restore", "reload back"},
   of : {"unbound", "nft"},           \* the file at hand
   request : Request, next : Policies,
   expected : Policies,               \* what follows from the revision the caller saw
   source : Files,
   undo : SUBSET {"unbound", "nft"},  \* the list installed
   clean : BOOLEAN]                   \* everything undone so far was restored
At(c, label) == job[c].at = label
Go(c, label) == job' = [job EXCEPT ![c].at = label]

Answer(c, answer) ==
  /\ told' = [told EXCEPT ![c] = answer]
  /\ harmed' = (harmed \/ answer = "failed")

\* The end of a change: the locks go, the caller learns the new revision.
Release(c, answer) ==
  /\ Answer(c, answer)
  /\ holder' = Nobody
  /\ job' = [job EXCEPT ![c] = Idle]
  /\ seen' = IF answer = "ok" THEN [seen EXCEPT ![c] = Revision] ELSE seen

\* list, get and status, which write nothing.
See(c) ==
  /\ At(c, "idle") /\ holder = Nobody /\ Readable /\ left[c] > 0
  /\ seen[c] # Revision
  /\ seen' = [seen EXCEPT ![c] = Revision]
  /\ UNCHANGED <<host, shared, job, told, ghosts>>

\* The locks, the two snapshots, Kea, the candidate and every check before the
\* first write.  Any of the commands may refuse.
Start(c) ==
  /\ At(c, "idle") /\ holder = Nobody /\ left[c] > 0
  /\ left' = [left EXCEPT ![c] = @ - 1]
  /\ UNCHANGED <<host, kea, seen, accepted>>
  /\ \/ Answer(c, "refused") /\ UNCHANGED <<holder, job, filtered>>
     \/ \E r \in Request :
          LET policies == file.unbound.policies
              next == Changed(policies, r)
          IN /\ Admitted(c, r)
             /\ ProvenLive(policies)
             /\ \/ /\ next = policies
                   /\ ProvenServed(policies, r.mac)
                   /\ Answer(c, "noop")
                   /\ filtered' = filtered \cup {r.mac}
                   /\ UNCHANGED <<holder, job>>
                \/ /\ next # policies /\ TableReads
                   /\ holder' = c
                   /\ job' = [job EXCEPT ![c] =
                        [at |-> "check", of |-> "unbound", request |-> r, next |-> next,
                         source |-> file, undo |-> {}, clean |-> TRUE,
                         expected |-> Changed(seen[c].policies, r)]]
                   /\ told' = [told EXCEPT ![c] = "none"]
                   /\ filtered' = IF r.op = "delete" THEN filtered \ {r.mac} ELSE filtered
                   /\ UNCHANGED harmed

Payload(c, f) ==
  IF f = "nft" THEN Rules(job[c].next)
  ELSE [job[c].source.unbound EXCEPT !.policies = job[c].next]
Write(f, content) == file' = [file EXCEPT ![f] = content]

\* Something failed after the first write was tried; what is undone is what
\* the list of installed files holds.
Fail(c) == job' = [job EXCEPT ![c].at = "undo", ![c].clean = (job[c].undo # {})]

\* dns._install compares the file with the snapshot a last time ...
Check(c) ==
  /\ At(c, "check")
  /\ \/ file[job[c].of] = job[c].source[job[c].of] /\ Go(c, "replace")
     \/ Fail(c)
  /\ UNCHANGED <<host, shared, seen, told, ghosts>>

\* Mutant: the firewall forgets that unbound.conf was written.
ReplaceUnlisted(c) ==
  /\ At(c, "replace") /\ Write(job[c].of, Payload(c, job[c].of))
  /\ job' = [job EXCEPT ![c].undo = {"nft"} \cap {job[c].of}, ![c].of = "nft",
                        ![c].at = IF job[c].of = "unbound" THEN "check" ELSE "apply"]
  /\ UNCHANGED <<live, running, hup, shared, seen, told, ghosts>>

\* ... and replaces it.  A failure after that (InstalledFailure) leaves the file
\* off the list of what is to be undone.
Replace(c) ==
  /\ At(c, "replace")
  /\ \/ /\ Write(job[c].of, Payload(c, job[c].of))
        /\ \/ job' = [job EXCEPT ![c].undo = @ \cup {job[c].of}, ![c].of = "nft",
                        ![c].at = IF job[c].of = "unbound" THEN "check" ELSE "apply"]
           \/ Fail(c)
     \/ UNCHANGED file /\ Fail(c)
  /\ UNCHANGED <<live, running, hup, shared, seen, told, ghosts>>

\* nft -f replaces the table as one transaction; a timeout may come after it.
Apply(c) ==
  /\ At(c, "apply")
  /\ \/ live' = Rules(job[c].next) /\ Go(c, "reload")
     \/ live' \in {live, Rules(job[c].next)} /\ Fail(c)
  /\ UNCHANGED <<file, running, hup, shared, seen, told, ghosts>>

\* systemctl reload sends a signal; Unbound reads the file some time later.
Reload(c) ==
  /\ At(c, "reload")
  /\ \/ hup' = TRUE /\ Go(c, "prove")
     \/ hup' \in {hup, TRUE} /\ Fail(c)
  /\ UNCHANGED <<file, live, running, shared, seen, told, ghosts>>

\* Mutant: the answer of Unbound is not read back.
ProvenUnserved(c) ==
  LET policies == file.unbound.policies IN
  /\ \A m \in DOMAIN policies : kea[m] # NoIp
  /\ file.nft = Rules(policies)
  /\ ProvenLive(policies)

\* Files, table and the view of the device are read back.  The addresses of
\* Kea are not compared again, but every device must still have one.
Proven(c) ==
  LET policies == file.unbound.policies IN
  /\ \A m \in DOMAIN policies : kea[m] # NoIp
  /\ file.nft = Rules(policies)
  /\ ProvenLive(policies)
  /\ ProvenServed(policies, job[c].request.mac)

Prove(c) ==
  /\ At(c, "prove")
  /\ \/ /\ Proven(c)
        /\ Release(c, "ok")
        /\ accepted' = job[c].expected
        /\ filtered' = IF job[c].request.op = "put" THEN filtered \cup {job[c].request.mac}
                       ELSE filtered
        /\ UNCHANGED <<host, kea, left>>
     \/ /\ Fail(c)
        /\ UNCHANGED <<host, shared, seen, told, ghosts>>

-----------------------------------------------------------------------------
(* Undoing: the files in reverse order, the table, the reload.             *)

LastInstalled(c) == IF "nft" \in job[c].undo THEN "nft" ELSE "unbound"

Undone(c, f, clean) ==
  job' = [job EXCEPT ![c].at = "undo", ![c].undo = @ \ {f}, ![c].clean = @ /\ clean]

\* dns._restore puts the original back only over what this change installed.
CheckBack(c) ==
  /\ At(c, "undo") /\ job[c].undo # {}
  /\ LET f == LastInstalled(c) IN
     \/ file[f] = Payload(c, f) /\ Go(c, "restore")
     \/ Undone(c, f, FALSE)
  /\ UNCHANGED <<host, shared, seen, told, ghosts>>

\* The validator may object to what is restored, or the write itself fail.
PutBack(c) ==
  /\ At(c, "restore")
  /\ LET f == LastInstalled(c) IN
     \/ Write(f, job[c].source[f]) /\ \E valid \in BOOLEAN : Undone(c, f, valid)
     \/ UNCHANGED file /\ Undone(c, f, FALSE)
  /\ UNCHANGED <<live, running, hup, shared, seen, told, ghosts>>

\* What the table was: the proof before the first write said so.
TableBefore(c) == Rules(job[c].source.unbound.policies)

\* Mutant: the table is left as the failed change made it.
UndoTableSkipped(c) ==
  /\ At(c, "undo") /\ job[c].undo = {}
  /\ Go(c, "reload back")
  /\ UNCHANGED <<host, shared, seen, told, ghosts>>

\* The table is still exactly what this change applied.  A change that leaves
\* no policy never counts as such.
StillOurs(c) == DOMAIN job[c].next # {} /\ live = Rules(job[c].next)

\* The table is put back only while it is this change's; a former table without
\* rules is put back and reported as not restored.  When a read or a proof
\* fails, before the batch or after it, the change ends here without a reload.
UndoTable(c) ==
  /\ At(c, "undo") /\ job[c].undo = {}
  /\ \/ /\ StillOurs(c)
        /\ \/ /\ live' = TableBefore(c)
              /\ job' = [job EXCEPT ![c].at = "reload back", ![c].clean = @ /\ live' # Empty]
           \/ /\ live' \in {live, TableBefore(c)}
              /\ job' = [job EXCEPT ![c].at = "reload back", ![c].clean = FALSE]
        /\ UNCHANGED <<seen, told, holder, ghosts>>
     \/ /\ DOMAIN job[c].next = {} /\ TableReads
        /\ job' = [job EXCEPT ![c].at = "reload back", ![c].clean = FALSE]
        /\ UNCHANGED <<live, seen, told, holder, ghosts>>
     \/ /\ Release(c, "failed")
        /\ UNCHANGED live \/ (StillOurs(c) /\ live' = TableBefore(c))
        /\ UNCHANGED <<accepted, filtered>>
  /\ UNCHANGED <<file, running, hup, kea, left>>

ReloadBack(c) ==
  /\ At(c, "reload back")
  /\ \/ hup' = TRUE /\ Release(c, IF job[c].clean THEN "restored" ELSE "failed")
     \/ hup' \in {hup, TRUE} /\ Release(c, "failed")
  /\ UNCHANGED <<file, live, running, kea, left, accepted, filtered>>

\* The process dies; the kernel releases its lock.
Kill(c) ==
  /\ ~At(c, "idle")
  /\ job' = [job EXCEPT ![c] = Idle]
  /\ holder' = Nobody
  /\ harmed' = TRUE
  /\ UNCHANGED <<host, kea, left, seen, told, accepted, filtered>>

FamilyStep(c) ==
  \/ See(c) \/ Start(c) \/ Check(c) \/ Replace(c) \/ Apply(c) \/ Reload(c) \/ Prove(c)
  \/ CheckBack(c) \/ PutBack(c) \/ UndoTable(c) \/ ReloadBack(c) \/ Kill(c)

\* Unbound acts on the signal.
Load ==
  /\ hup /\ hup' = FALSE
  /\ running' = file.unbound
  /\ UNCHANGED <<file, live, shared, callers, ghosts>>

\* A DHCP command changes a reservation; the firewall takes no part in that.
Rebind ==
  /\ left[Dhcp] > 0 /\ left' = [left EXCEPT ![Dhcp] = @ - 1]
  /\ kea' \in Bindings
  /\ UNCHANGED <<host, holder, callers, ghosts>>

-----------------------------------------------------------------------------
Still == \A c \in Family : At(c, "idle")

\* Between changes the two files and the kernel hold the same policies, unless
\* a change was cut off or its caller was told that the undoing failed.
FilesAgree ==
  Still /\ ~harmed =>
    /\ file.nft = Rules(file.unbound.policies)
    /\ IF DOMAIN file.nft = {} THEN live \in {NoTable, Empty} ELSE live = file.nft

\* Two callers do not overwrite one another: between changes the policies are
\* those that follow from what each answered caller had seen and asked for.
NothingLost == Still /\ ~harmed => file.unbound.policies = accepted

\* "restored" is true: files and table are what they were before the change,
\* and Unbound has them or has been told to load them.
RestoredIsTrue ==
  [][\A c \in Family : ~At(c, "idle") /\ told'[c] = "restored" /\ ~harmed =>
       /\ file' = job[c].source
       /\ hup' \/ running' = file'.unbound
       /\ live' = file'.nft]_<<host, told, job>>

Views(policies) == [m \in DOMAIN policies |-> policies[m].sites]

\* When a change is answered Unbound serves the views of every device, not only
\* the one that was read back, and the kernel has every rule.
AnsweredIsServed ==
  [][\A c \in Family : ~At(c, "idle") /\ told'[c] = "ok" /\ ~harmed =>
       /\ Views(running'.policies) = Views(file'.unbound.policies)
       /\ live' = file'.nft]_<<host, told, job>>

\* Whatever fails, dies or edits the file beside it: the kernel goes on
\* filtering a device whose policy was answered until its removal begins.
StillFiltered == filtered # {} => live # NoTable /\ filtered \subseteq DOMAIN live
=============================================================================
