---------------------------- MODULE MCKeymanDoor -----------------------------
(***************************************************************************)
(* Instances of KeymanDoor, one per kind of request: the strategies on one *)
(* device of three slots, the requests that hand the NAS password to       *)
(* several devices of two, and the change of the administrator's password, *)
(* which touches no device.  Commands fail and doors are killed in all but *)
(* the first.  A behaviour has one theme from its beginning.               *)
(* Devices and passwords are compared and nothing else, so any permutation *)
(* of either maps behaviours to behaviours.                                *)
(***************************************************************************)
EXTENDS KeymanDoor, TLC

VARIABLE theme

HouseholdSymmetry == Permutations(Device) \cup Permutations(Password)

Plain0(d) == \A s \in Slot \ {0} : slots[d][s] = Empty

ThemedInit ==
  /\ Init
  /\ theme \in {"strategies", "devices", "accounts"}
  /\ faults = (theme # "strategies")
  /\ theme = "strategies" => \E d \in Device : \A e \in Device \ {d} : Plain0(e)
  /\ theme = "devices" => \A d \in Device : slots[d][2] = Empty
  /\ theme = "accounts" => \A d \in Device : Plain0(d)

\* The device asked about is the one that has been worked on.
OneDevice(c) == \A e \in Device \ {Head(queue'[c]).dev} : Plain0(e)

ThemedNext ==
  /\ UNCHANGED <<theme, faults>>
  /\ \E c \in Caller :
       \/ theme = "strategies" /\ (CreateVault(c) \/ Update(c)) /\ OneDevice(c)
       \/ theme = "devices" /\ (CreateExternal(c) \/ CreateBoth(c) \/ Update(c))
            /\ job'[c].slot # 2
       \/ theme = "accounts" /\ AdminPassword(c)
       \/ Run(c) \/ Killed(c)

ThemedSpec == ThemedInit /\ [][ThemedNext]_<<vars, theme>>
==============================================================================
