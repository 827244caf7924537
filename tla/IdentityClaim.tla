----------------------------- MODULE IdentityClaim -----------------------------
(***************************************************************************)
(* network/identity/index.py: a claim gives a device a reservation and a   *)
(* name.  Under one flock it reads both stores afresh, keeps their         *)
(* preimages, runs add_reservation (DhcpReservations) and then             *)
(* create_device_name (OwnedNames), and on a failure after the first puts  *)
(* both preimages back.  The flock is of claims only: the commands of the  *)
(* two stores, which operators run here, do not take it.                   *)
(*                                                                         *)
(* The journal file is written before the first change and read by no code *)
(* of the repository; it is left out.                                      *)
(***************************************************************************)
EXTENDS Integers, FiniteSets

CONSTANTS
  Claimer,              \* processes that claim
  Operator,             \* processes that run commands of the two stores
  Mac, Limit, DefaultBoundary, Broadcast, Actions,      \* of DhcpReservations
  Name, Wanted, Legacy,                 \* of OwnedNames
  Faults,               \* whether Kea, Unbound or a write may fail
  Nobody

Client == Claimer \cup Operator
Gateway == 1            \* RESOLVER_GATEWAY_ADDRESS and the router

ASSUME ClaimConstants ==
  /\ Claimer \cap Operator = {} /\ Nobody \notin Client
  /\ Limit \in Nat /\ Broadcast \in Nat /\ Limit + 1 < Broadcast
  /\ DefaultBoundary \in 0 .. Limit
  /\ Mac \cap Int = {}
  /\ Faults \in BOOLEAN

VARIABLES
  config, pc, request, draft, existing, answer, held,           \* of DHCP
  include, resolver, hup, at, job, lines, previous, outcome, owed,  \* of DNS
  lock,                 \* who holds network-identity-claim.lock
  stage, want,          \* of each claimer: where it is, what it claims
  pre,                  \* the preimages of both stores
  claimed               \* claims that were told "applied"

dhcpVars == <<config, pc, request, draft, existing, answer, held>>
dnsVars == <<include, resolver, hup, at, job, lines, previous, outcome, owed>>
claimVars == <<lock, stage, want, pre, claimed>>
vars == <<dhcpVars, dnsVars, claimVars>>

Dhcp == INSTANCE DhcpReservations WITH Overlap <- TRUE, stage <- pc
Dns == INSTANCE OwnedNames WITH
         Address <- 0 .. Broadcast, Overlap <- TRUE, Ops <- {"create", "remove"}

NoClaim == [mac |-> Nobody, ip |-> 0]
NoPreimage == [dhcp |-> Dhcp!NothingRead, dns |-> {}]
Record(c) == [address |-> c.ip, name |-> c.name]
Reserves(c) == [mac |-> c.mac, ip |-> c.ip]

Init ==
  /\ Dhcp!DhcpInit /\ Dns!NamesInit
  /\ lock = Nobody
  /\ stage = [p \in Claimer |-> "idle"]
  /\ want = [p \in Claimer |-> NoClaim]
  /\ pre = [p \in Claimer |-> NoPreimage]
  /\ claimed = {}

------------------------------------------------------------------------------

Move(p, label) == stage' = [stage EXCEPT ![p] = label]

\* The claim ends in any way: its lock goes with its file descriptor.
Leave(p) ==
  /\ Move(p, "idle") /\ lock' = Nobody
  /\ want' = [want EXCEPT ![p] = NoClaim]
  /\ pre' = [pre EXCEPT ![p] = NoPreimage]

\* Mutant: an address that only a name still refers to counts as free.
AddressesReleased ==
  IF config.pool \in {Dhcp!NoPool, Dhcp!Unreadable} THEN {}
  ELSE (1 .. config.pool - 1) \ (Dhcp!Used(config) \cup {Gateway})

\* _fresh_state, _resolve_ip and _validate_candidates.  The boundary here starts
\* one below the reserved range; the first free address depends on leases.
\* A claim that is refused, or in place already, changes nothing.
Addresses ==
  IF config.pool \in {Dhcp!NoPool, Dhcp!Unreadable} THEN {}
  ELSE (1 .. config.pool - 1)
         \ (Dhcp!Used(config) \cup {Gateway} \cup {r.address : r \in Dns!Devices(include)})

Lock(p) ==
  /\ stage[p] = "idle" /\ lock = Nobody
  /\ lock' = p
  /\ \E mac \in Mac, name \in Name, ip \in Addresses :
       /\ \A r \in config.res : r.mac # mac
       /\ LET c == [mac |-> mac, ip |-> ip, name |-> name] IN
            /\ Dns!MayInstall(include \cup {Record(c)}, Record(c), include)
            /\ want' = [want EXCEPT ![p] = c]
  /\ Move(p, "resolved")
  /\ UNCHANGED <<dhcpVars, dnsVars, pre, claimed>>

\* The preimages, the journal, and the call of add_reservation.
Preimages(p) ==
  /\ stage[p] = "resolved"
  /\ pre' = [pre EXCEPT ![p] = [dhcp |-> config, dns |-> include]]
  /\ Move(p, "adding")
  /\ pc' = [pc EXCEPT ![p] = "config"]
  /\ request' = [request EXCEPT ![p] =
       [mac |-> want[p].mac, ip |-> want[p].ip, op |-> "add", dashed |-> FALSE]]
  /\ UNCHANGED <<config, draft, existing, answer, held, dnsVars, lock, want, claimed>>

DhcpWork(p) ==
  \/ Dhcp!CheckRange(p) \/ Dhcp!ReadConfig(p) \/ Dhcp!ReadExisting(p)
  \/ Dhcp!RefuseExisting(p) \/ Dhcp!Choose(p) \/ Dhcp!RefuseChosen(p)
  \/ (Dhcp!Update(p) /\ (Faults \/ answer'[p] = "ok"))

\* A DhcpError of add_reservation: nothing was marked as mutated yet.
Blocked(p) ==
  /\ stage[p] = "adding" /\ pc[p] = "idle" /\ answer[p] = "error"
  /\ Leave(p)
  /\ UNCHANGED <<dhcpVars, dnsVars, claimed>>

\* The reservation is read back before the name is created.
Verify(p) ==
  /\ stage[p] = "adding" /\ pc[p] = "idle" /\ answer[p] = "ok"
  /\ \/ /\ Reserves(want[p]) \in config.res /\ Move(p, "naming")
        /\ Dns!Ask(p, [op |-> "create", record |-> Record(want[p])])
     \/ /\ Reserves(want[p]) \notin config.res /\ Move(p, "unwinding")
        /\ UNCHANGED dnsVars
  /\ UNCHANGED <<dhcpVars, lock, want, pre, claimed>>

\* Mutant: a DnsError of the second store goes unnoticed.
AppliedAnyway(p) ==
  /\ stage[p] = "naming" /\ at[p] = "idle" /\ outcome[p] # "crashed"
  /\ claimed' = claimed \cup {want[p]}
  /\ Leave(p)
  /\ UNCHANGED <<dhcpVars, dnsVars>>

Applied(p) ==
  /\ stage[p] = "naming" /\ at[p] = "idle"
  /\ outcome[p] \in {"applied", "noop"}
  /\ claimed' = claimed \cup {want[p]}
  /\ Leave(p)
  /\ UNCHANGED <<dhcpVars, dnsVars>>

\* A DnsError is answered by the rollback; an OSError leaves the claim at once.
NameFailed(p) ==
  /\ stage[p] = "naming" /\ at[p] = "idle"
  /\ \/ outcome[p] \in {"refused", "restored", "unrestored"}
          /\ Move(p, "unwinding") /\ UNCHANGED <<lock, want, pre>>
     \/ outcome[p] = "crashed" /\ Leave(p)
  /\ UNCHANGED <<dhcpVars, dnsVars, claimed>>

\* Mutant: the DNS preimage is put back, the DHCP one is not.
UnwindNamesOnly(p) ==
  /\ stage[p] = "unwinding"
  /\ Move(p, "unnaming")
  /\ UNCHANGED <<dhcpVars, dnsVars, lock, want, pre, claimed>>

\* _rollback: update_config with the preimage, whose failure ends the rollback.
Unwind(p) ==
  /\ stage[p] = "unwinding"
  /\ \/ config' = pre[p].dhcp /\ Move(p, "unnaming") /\ UNCHANGED <<lock, want, pre>>
     \/ Faults /\ config' \in {config, pre[p].dhcp} /\ Leave(p)
  /\ held' = held \ {Reserves(want[p])}
  /\ UNCHANGED <<pc, request, draft, existing, answer, dnsVars, claimed>>

\* restore_owned_preimage: replace, check, reload, of which any may fail.
Unname(p) ==
  /\ stage[p] = "unnaming"
  /\ \/ include' = pre[p].dns /\ hup' = TRUE /\ Move(p, "unwound")
          /\ UNCHANGED <<lock, want, pre>>
     \/ Faults /\ include' = pre[p].dns /\ hup' \in {hup, TRUE} /\ Leave(p)
     \/ Faults /\ UNCHANGED <<include, hup>> /\ Leave(p)
  /\ UNCHANGED <<resolver, at, job, lines, previous, outcome, owed, dhcpVars, claimed>>

RolledBack(p) ==
  /\ stage[p] = "unwound" /\ Leave(p)
  /\ UNCHANGED <<dhcpVars, dnsVars, claimed>>

\* SIGKILL of the claim.  The script it runs meets a broken pipe at its next
\* line of output: it ends where it is, having moved its file or not.
Kill(p) ==
  /\ stage[p] # "idle" /\ Leave(p)
  /\ Dhcp!End(p, "error") /\ Dns!Stop(p, "crashed")
  /\ config' \in {config} \cup {c \in {draft[p]} : pc[p] = "update"}
                        \cup {c \in {pre[p].dhcp} : stage[p] = "unwinding"}
  /\ UNCHANGED <<held, include, resolver, hup, owed, claimed>>

\* The commands of dhcp/index.py and of dns/index.py, each a process of its own.
Reserve(p) == (Dhcp!Start(p) \/ DhcpWork(p)) /\ UNCHANGED <<dnsVars, claimVars>>
Rename(p) == (Dns!StartJob(p) \/ Dns!Work(p)) /\ UNCHANGED <<dhcpVars, claimVars>>

\* Unbound loads the file when it acts on a signal.
Load == Dns!Load /\ UNCHANGED <<dhcpVars, claimVars>>

Claim(p) ==
  \/ Lock(p) \/ Preimages(p) \/ Blocked(p) \/ Verify(p) \/ Applied(p)
  \/ NameFailed(p) \/ Unwind(p) \/ Unname(p) \/ RolledBack(p)
  \/ stage[p] = "adding" /\ DhcpWork(p) /\ UNCHANGED <<dnsVars, claimVars>>
  \/ stage[p] = "naming" /\ Dns!Work(p) /\ UNCHANGED <<dhcpVars, claimVars>>

Next ==
  \/ Load
  \/ \E p \in Claimer : Claim(p) \/ Kill(p)
  \/ \E p \in Operator : Reserve(p) \/ Rename(p)

Spec == Init /\ [][Next]_vars

------------------------------------------------------------------------------
(* Properties *)

\* A claim that was told "applied" keeps its reservation and its name, whatever
\* later claims do, fail at and roll back.
ClaimsStand ==
  \A c \in claimed : Reserves(c) \in config.res /\ Record(c) \in include

\* One address never has two claimed names, although a command beside the
\* claims may release its reservation and hand the address out again.
AddressNamedOnce ==
  \A c, d \in claimed : c.ip = d.ip => c.name = d.name /\ c.mac = d.mac

\* "Compensating": a claim that was rolled back leaves neither half behind, and
\* Unbound serves the names that are left, or has still to act on a signal.
RolledBackWhole ==
  \A p \in Claimer :
    stage[p] = "unwound" =>
      /\ Reserves(want[p]) \notin config.res
      /\ Record(want[p]) \notin include
      /\ resolver = include \/ hup

\* "Compensating": a claim that is blocked, and says that nothing was changed,
\* leaves no reservation behind.
BlockedLeavesNothing ==
  [][\A p \in Claimer :
       stage[p] = "adding" /\ Blocked(p) => Reserves(want[p]) \notin config.res]_vars
==============================================================================
