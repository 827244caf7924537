------------------------------ MODULE OwnedNames ------------------------------
(***************************************************************************)
(* DnsManager of network/dns/index.py, its managed lineage: the device     *)
(* names and aliases that Caduceus owns in one include file of Unbound.    *)
(* A command reads the owned lines, edits its copy, and _candidate_apply   *)
(* checks, replaces, reloads, queries, and on a DnsError puts back what it *)
(* found.  No lock is taken.  A reload is a signal that Unbound acts on    *)
(* later.  The A and the PTR record of a device are always written         *)
(* together and are one record here.                                       *)
(***************************************************************************)
EXTENDS FiniteSets

CONSTANTS
  Client,               \* processes that run a command
  Name, Address,        \* owner names under home.arpa, addresses
  Ops,                  \* the commands of a run, of "create" and "remove"
  Wanted,               \* records that clients ask for, of Device and Alias
  Legacy,               \* names that other fragments of the configuration own
  Overlap,              \* whether two commands may be under way at once
  Faults                \* whether a command of Unbound, or a write, may fail

Device == [address : Address, name : Name]
Alias == [alias : Name, name : Name]

VARIABLES
  include,              \* the owned records of the include file
  resolver,             \* those that Unbound has loaded
  hup,                  \* whether Unbound has been signalled to load the file
  at, job,              \* of each client: where it is, what it was asked
  lines, previous,      \* the records it will install; the file it found
  outcome,              \* how its last command ended
  owed                  \* records some client was told are installed

unbound == <<resolver, hup>>
namesVars == <<include, unbound, at, job, lines, previous, outcome, owed>>

Devices(recs) == {r \in recs : "address" \in DOMAIN r}
Aliases(recs) == recs \ Devices(recs)
Owner(r) == IF "address" \in DOMAIN r THEN r.name ELSE r.alias

Job == [op : Ops, record : Wanted]
NoJob == [op |-> "none"]

\* _validate_candidate: a name is not both an alias and a device, and a new
\* name is not owned by another fragment.
MayInstall(recs, r, old) ==
  /\ \A a \in Aliases(recs), d \in Devices(recs) : Owner(a) # Owner(d)
  /\ Owner(r) \in Legacy => \E s \in old : Owner(s) = Owner(r)

NamesInit ==
  /\ include = {} /\ resolver = include /\ hup = FALSE
  /\ at = [p \in Client |-> "idle"]
  /\ job = [p \in Client |-> NoJob]
  /\ lines = [p \in Client |-> {}]
  /\ previous = [p \in Client |-> {}]
  /\ outcome = [p \in Client |-> "noop"]
  /\ owed = {}

------------------------------------------------------------------------------

Stop(p, o) ==
  /\ at' = [at EXCEPT ![p] = "idle"]
  /\ outcome' = [outcome EXCEPT ![p] = o]
  /\ job' = [job EXCEPT ![p] = NoJob]
  /\ lines' = [lines EXCEPT ![p] = {}]
  /\ previous' = [previous EXCEPT ![p] = {}]

To(p, label) ==
  at' = [at EXCEPT ![p] = label] /\ UNCHANGED <<job, outcome, owed>>

Ask(p, j) ==
  /\ at[p] = "idle"
  /\ at' = [at EXCEPT ![p] = "lines"]
  /\ job' = [job EXCEPT ![p] = j]
  /\ UNCHANGED <<include, unbound, lines, previous, outcome, owed>>

StartJob(p) ==
  /\ Overlap \/ \A q \in Client : at[q] = "idle"
  /\ \E j \in Job : Ask(p, j)

\* _owned_records, and the edit of the copy.
ReadLines(p) ==
  /\ at[p] = "lines"
  /\ LET r == job[p].record
         create == job[p].op = "create"
     IN \/ /\ create /\ r \notin include
           /\ MayInstall(include \cup {r}, r, include)
           /\ lines' = [lines EXCEPT ![p] = include \cup {r}]
           /\ To(p, "render") /\ UNCHANGED previous
        \/ /\ create /\ r \notin include
           /\ ~MayInstall(include \cup {r}, r, include)
           /\ Stop(p, "refused") /\ UNCHANGED owed
        \/ /\ ~create /\ r \in include
           /\ lines' = [lines EXCEPT ![p] = include \ {r}]
           /\ To(p, "render") /\ UNCHANGED previous
        \/ /\ create <=> r \in include
           /\ Stop(p, "noop")
           /\ owed' = IF create THEN owed \cup {r} ELSE owed \ {r}
  /\ UNCHANGED <<include, unbound>>

\* _candidate_apply reads the file again: this is what it would put back.
Render(p) ==
  /\ at[p] = "render"
  /\ previous' = [previous EXCEPT ![p] = include]
  /\ To(p, "check")
  /\ UNCHANGED <<include, unbound, lines>>

\* unbound-checkconf on a staged copy; its refusal too is answered by a restore.
Check(p) ==
  /\ at[p] = "check"
  /\ To(p, "replace") \/ (Faults /\ To(p, "restore"))
  /\ UNCHANGED <<include, unbound, lines, previous>>

\* An OSError is no DnsError: it ends the command where it stands.
Crash(p) == Stop(p, "crashed") /\ owed' = owed \ {job[p].record}

Replace(p) ==
  /\ at[p] = "replace"
  /\ \/ include' = lines[p] /\ To(p, "reload") /\ UNCHANGED <<lines, previous>>
     \/ Faults /\ Crash(p) /\ UNCHANGED include
  /\ UNCHANGED unbound

\* systemctl reload, which may fail with the signal sent or not.  It does not
\* wait for Unbound.
Reload(p) ==
  /\ at[p] = "reload"
  /\ \/ hup' = TRUE /\ To(p, "query")
     \/ Faults /\ hup' \in {hup, TRUE} /\ To(p, "restore")
  /\ UNCHANGED <<include, resolver, lines, previous>>

\* Unbound acts on the signal, whenever that is.
Load ==
  /\ hup /\ hup' = FALSE
  /\ resolver' = include
  /\ UNCHANGED <<include, at, job, lines, previous, outcome, owed>>

\* unbound-host for every owner concerned: its status says that a query was
\* answered, its output, which would tell the old from the new, is not read.
Query(p) ==
  /\ at[p] = "query"
  /\ \/ /\ Stop(p, "applied")
        /\ owed' = IF job[p].op = "create" THEN owed \cup {job[p].record}
                   ELSE owed \ {job[p].record}
     \/ Faults /\ To(p, "restore") /\ UNCHANGED <<lines, previous>>
  /\ UNCHANGED <<include, unbound>>

Restore(p) ==
  /\ at[p] = "restore"
  /\ \/ include' = previous[p] /\ To(p, "reloadback") /\ UNCHANGED <<lines, previous>>
     \/ Faults /\ Crash(p) /\ UNCHANGED include
  /\ UNCHANGED unbound

\* Mutant: Unbound is not told that the old records are back.
ReloadBackSkipped(p) ==
  /\ at[p] = "reloadback"
  /\ Stop(p, "restored") /\ UNCHANGED <<include, unbound, owed>>

ReloadBack(p) ==
  /\ at[p] = "reloadback"
  /\ \/ hup' = TRUE /\ Stop(p, "restored")
     \/ Faults /\ hup' \in {hup, TRUE} /\ Stop(p, "unrestored")
  /\ UNCHANGED <<include, resolver, owed>>

Work(p) ==
  \/ ReadLines(p) \/ Render(p) \/ Check(p) \/ Replace(p) \/ Reload(p)
  \/ Query(p) \/ Restore(p) \/ ReloadBack(p)

NamesNext == Load \/ \E p \in Client : StartJob(p) \/ Work(p)

NamesSpec == NamesInit /\ [][NamesNext]_namesVars

------------------------------------------------------------------------------
(* Properties *)

\* After a command that says it applied its change, or restored what it found,
\* Unbound serves what the file says or has still to act on a signal to load it,
\* and no name is lost that a client was told is installed: a failed command
\* puts back just what it found, and tells Unbound.
ServedAsWritten ==
  \A p \in Client :
    at[p] = "idle" /\ outcome[p] \in {"applied", "restored"} =>
      (resolver = include \/ hup) /\ owed \subseteq include
==============================================================================
