------------------------------ MODULE MCIdentity ------------------------------
(***************************************************************************)
(* IdentityClaim with four casts, one of which acts in a behaviour:        *)
(*   "claims"    claimers, any of which may be killed;                     *)
(*   "releases"  a claimer beside a command that releases reservations;    *)
(*   "edits"     a claimer beside a command that edits the aliases;        *)
(*   "names"     commands on the owned names, one after the other.         *)
(* Unbound acts on its signals where a property looks at what it serves.   *)
(* Claimers alone find a pool that leaves two addresses to claim, so that  *)
(* claims follow upon each other and upon halves of claims; beside         *)
(* commands it leaves one at most, which can be released and named again.  *)
(* Claimers, devices and names are interchangeable.                        *)
(***************************************************************************)
EXTENDS IdentityClaim, TLC

CONSTANT ZoneAddress    \* addresses that the owned names are edited with

VARIABLE cast

DeviceSymmetry == Permutations(Claimer) \cup Permutations(Mac) \cup Permutations(Name)

Zone == [address : ZoneAddress, name : Name] \cup
        {r \in [alias : Name, name : Name] : r.alias # r.name}

CastInit ==
  /\ Init
  /\ cast \in {"claims", "releases", "edits", "names"}
  /\ cast = "claims" => config.pool \in {Dhcp!PoolEnd, Dhcp!Unreadable}
  /\ cast = "releases" => config.pool < Dhcp!PoolEnd
  /\ cast \in {"edits", "names"} => config = [pool |-> Dhcp!PoolEnd - 1, res |-> {}]

\* Beside commands one claimer is enough: the lock admits one at a time.
Alone(p) == \A q \in Claimer \ {p} : answer[q] = "ok" /\ outcome[q] = "noop"

\* The edits are of one alias, created and removed again, by commands that do
\* not fail; the claim's own DNS steps may.
OneAlias(r) == r \notin Dns!Device /\ Dns!Aliases(include \cup owed) \subseteq {r}

CastNext ==
  /\ UNCHANGED cast
  /\ \/ cast \in {"claims", "names"} /\ Load
     \/ \E p \in Claimer :
          \/ cast = "claims" /\ (Claim(p) \/ Kill(p))
          \/ cast \in {"releases", "edits"} /\ Alone(p) /\ Claim(p)
               /\ (cast = "edits" => answer'[p] = "ok")
     \/ \E p \in Operator :
          \/ cast = "releases" /\ Reserve(p)
          \/ cast = "names" /\ Rename(p)
          \/ cast = "edits" /\ Rename(p)
               /\ (job'[p] = Dns!NoJob \/ OneAlias(job'[p].record))
               /\ at'[p] # "restore" /\ outcome'[p] # "crashed"

CastSpec == CastInit /\ [][CastNext]_<<vars, cast>>

\* With claims alone, what a claim was told stands.
ClaimsStandAlone == cast = "claims" => ClaimsStand

\* With claims alone, a claim that was rolled back leaves neither half behind.
RolledBackAlone == cast = "claims" => RolledBackWhole

\* With DNS commands one after the other, answers, file and resolver agree.
ServedAsWritten == cast = "names" => Dns!ServedAsWritten
===============================================================================
