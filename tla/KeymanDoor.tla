------------------------------ MODULE KeymanDoor -----------------------------
(***************************************************************************)
(* The Keyman door (storage/vault/keyman/index.py): one process per        *)
(* request, which changes LUKS key slots, the NAS password and the         *)
(* administrator's passwords by running one external command after the     *)
(* other.  Every command may fail, and the first failure ends the request  *)
(* with a refusal; the process may be killed between two of them, and then *)
(* there is no receipt at all.                                             *)
(*                                                                         *)
(* A request is a queue of commands.  The door reads the enabled slots     *)
(* once (luksDump), and only then knows the commands for that device.      *)
(* A dry run lists the commands and runs none; it is not modelled.         *)
(***************************************************************************)
EXTENDS Naturals, Sequences

CONSTANTS
  Caller,               \* requests served at once
  Device,               \* LUKS devices
  Slot,                 \* key slots, 0 and 1 among them
  Password, Empty,      \* Empty: a slot that is not enabled
  LastSlotYields,       \* whether luksKillSlot removes the last key slot
  Actions               \* what callers ask for

Strategy == {"replace_primary", "safe_rotation", "flexible_addition"}

ASSUME DoorConstants ==
  /\ {0, 1} \subseteq Slot /\ Slot \subseteq Nat
  /\ Empty \notin Password
  /\ LastSlotYields \in BOOLEAN

VARIABLES
  slots,                \* the key that opens each slot of each device
  nas,                  \* the NAS password that exportNAS.sh prints
  suite, owner, samba,  \* service suite, Unix and Samba password of the owner
  queue,                \* the commands each caller has yet to run
  job,                  \* the request of each caller
  told,                 \* which account signals a refusal has carried so far,
                        \* and whether a change of password was cut off
  faults                \* whether commands may fail with no reason given here
                        \* and the door may be killed; it never changes

luks == <<slots, nas>>
accounts == <<suite, owner, samba>>
vars == <<luks, accounts, queue, job, told, faults>>

Enabled(d) == {s \in Slot : slots[d][s] # Empty}
Opens(d, p) == \E s \in Slot : slots[d][s] = p

Command(do, d, at, key) == [do |-> do, key |-> key, dev |-> d, slots |-> at]

\* Commands that concern no slot of a device.
Plain(do) == [do |-> do]

Idle == [action |-> "none"]

\* A primary key in slot 0; the household may have enabled other slots.
Init ==
  /\ \E p \in Password :
       /\ slots \in [Device -> [Slot -> Password \cup {Empty}]]
       /\ \A d \in Device : slots[d][0] = p
       /\ nas = p /\ suite = p /\ owner = p /\ samba = p
  /\ queue = [c \in Caller |-> <<>>]
  /\ job = [c \in Caller |-> Idle]
  /\ told = {}
  /\ faults \in BOOLEAN

------------------------------------------------------------------------------
(* The commands of one device, from the slots that luksDump showed *)

Add(d, s, key) == Command("add", d, {s}, key)

\* A loop over slots is one entry of the queue, which KillSlot takes apart.
KillAll(d, doomed, key) ==
  IF doomed = {} THEN <<>> ELSE <<Command("kill", d, doomed, key)>>

Kill(d, s, key) == KillAll(d, {s}, key)

\* Mutants: the old key goes before the new one is there; slot 0 is not set.
PrimaryUnstaged(d, enabled) ==
  KillAll(d, enabled \cap {1}, "current") \o Kill(d, 0, "current") \o
  <<Add(d, 1, "current"), Add(d, 0, "new")>> \o Kill(d, 1, "new")
PrimaryUnsettled(d, enabled) ==
  KillAll(d, enabled \cap {1}, "current") \o <<Add(d, 1, "current")>> \o
  KillAll(d, enabled \ {1}, "new")

\* Slot 1 is staged, every other slot removed, then slot 0 settled.
Primary(d, enabled) ==
  KillAll(d, enabled \cap {1}, "current") \o <<Add(d, 1, "current")>> \o
  KillAll(d, enabled \ {1}, "new") \o <<Add(d, 0, "new")>> \o Kill(d, 1, "new")

Rotation(d, enabled) ==
  KillAll(d, enabled \cap {1}, "current") \o <<Add(d, 1, "current")>>

\* Manual takes the slot of the request; random is the first enabled one > 0.
Flexible(d, s) == Kill(d, s, "current") \o <<Add(d, s, "current")>>

Targets(r, enabled) ==
  IF r.slot # 0 THEN {r.slot}
  ELSE {s \in enabled \ {0} : \A t \in enabled \ {0} : s <= t}

\* None where no slot is available.
Commands(r, d, enabled) ==
  CASE r.strategy = "replace_primary" -> {Primary(d, enabled)}
    [] r.strategy = "safe_rotation" -> {Rotation(d, enabled)}
    [] OTHER -> {Flexible(d, s) : s \in Targets(r, enabled)}

------------------------------------------------------------------------------
(* Requests.  slot is the key slot of flexible_addition, 0 for "random";   *)
(* current has no password for a device that the request forgot.           *)

\* new is what a device is to be opened with, until exportNAS.sh says else.
Request(action, strategy, slot, password, current) ==
  [slot |-> slot, action |-> action, strategy |-> strategy,
   password |-> password, current |-> current,
   new |-> [d \in Device |-> password]]

Begin(c, r, commands) ==
  /\ job[c] = Idle /\ r.action \in Actions
  /\ job' = [job EXCEPT ![c] = r]
  /\ queue' = [queue EXCEPT ![c] = commands]
  /\ UNCHANGED <<luks, accounts, told>>

Current == [Device -> Password \cup {Empty}]

\* luksDump, from which the commands of the device follow.
Look(d) == Command("dump", d, {}, "current")

\* Of the devices only the first is used.
CreateVault(c) ==
  \E strategy \in Strategy, slot \in Slot, p \in Password, current \in Current,
     d \in Device :
    /\ current[d] # Empty
    /\ Begin(c, Request("create-vault", strategy, slot, p, current), <<Look(d)>>)

CreateExternal(c) ==
  \E strategy \in Strategy, slot \in Slot, p \in Password, current \in Current,
     d \in Device, e \in Device :
    \E looks \in {<<Look(d)>>, <<Look(d), Look(e)>>} :
      Begin(c, Request("create-external", strategy, slot, p, current),
            <<Plain("newkey"), Plain("export")>> \o looks)

\* "both": the first device takes the password, the others the NAS one; the
\* first is skipped where it comes again.
CreateBoth(c) ==
  \E strategy \in Strategy, slot \in Slot, p \in Password, current \in Current,
     d \in Device, e \in Device :
    /\ current[d] # Empty
    /\ Begin(c, Request("create-both", strategy, slot, p, current),
             <<Look(d), Plain("newkey"), Plain("export")>> \o
             IF e = d THEN <<>> ELSE <<Look(e)>>)

Update(c) ==
  \E strategy \in Strategy, slot \in Slot, d \in Device, old \in Password :
    Begin(c, Request("update", strategy, slot, old, [e \in Device |-> old]),
          <<Command("verify", d, {}, "current"), Plain("export"), Look(d)>>)

AdminPassword(c) ==
  \E old, new \in Password :
    Begin(c, [action |-> "admin-password", old |-> old, new |-> new],
          <<Plain("exportsuite"), Plain("rotate"), Plain("owner"),
            Plain("samba")>>)

------------------------------------------------------------------------------
(* One command *)

Running(c, do) == queue[c] # <<>> /\ Head(queue[c]).do = do

Proceed(c) == queue' = [queue EXCEPT ![c] = Tail(@)] /\ UNCHANGED <<job, told>>

\* Refusal: the receipt names the signal and lists no command.  Only those
\* that say an account was left behind are remembered.
AccountSignal == {"owner-and-rollback", "samba"}

Refuse(c, signal) ==
  /\ queue' = [queue EXCEPT ![c] = <<>>]
  /\ job' = [job EXCEPT ![c] = Idle]
  /\ told' = told \cup ({signal} \cap AccountSignal)

Fails(c, signal) == faults /\ Refuse(c, signal) /\ UNCHANGED <<luks, accounts>>

Dump(c) ==
  /\ Running(c, "dump")
  /\ LET d == Head(queue[c]).dev
         possible == IF job[c].current[d] = Empty THEN {}
                     ELSE Commands(job[c], d, Enabled(d))
     IN \/ Fails(c, "dump")
        \/ possible = {} /\ Refuse(c, "device") /\ UNCHANGED <<luks, accounts>>
        \/ \E commands \in possible :
             /\ queue' = [queue EXCEPT ![c] = commands \o Tail(@)]
             /\ UNCHANGED <<luks, accounts, job, told>>

Secret(c, command) ==
  IF command.key = "current" THEN job[c].current[command.dev]
                             ELSE job[c].new[command.dev]

\* luksKillSlot asks for a passphrase that remains, or for the only one.
Killable(d, s, p) ==
  /\ slots[d][s] # Empty
  /\ \/ \E other \in Slot \ {s} : slots[d][other] = p
     \/ LastSlotYields /\ Enabled(d) = {s} /\ slots[d][s] = p

\* The lowest slot of the loop.
KillSlot(c) ==
  /\ Running(c, "kill")
  /\ LET k == Head(queue[c])
     IN \E s \in k.slots :
          /\ \A t \in k.slots : s <= t
          /\ \/ /\ Killable(k.dev, s, Secret(c, k))
                /\ slots' = [slots EXCEPT ![k.dev][s] = Empty]
                /\ queue' = [queue EXCEPT
                     ![c] = KillAll(k.dev, k.slots \ {s}, k.key) \o Tail(@)]
                /\ UNCHANGED <<nas, accounts, job, told>>
             \/ /\ ~Killable(k.dev, s, Secret(c, k))
                /\ Refuse(c, "slot-remove") /\ UNCHANGED <<luks, accounts>>
             \/ Fails(c, "slot-remove")

AddKey(c) ==
  /\ Running(c, "add")
  /\ LET k == Head(queue[c])
     IN \E s \in k.slots :
          LET able == slots[k.dev][s] = Empty /\ Opens(k.dev, Secret(c, k))
          IN \/ /\ able
                /\ slots' = [slots EXCEPT ![k.dev][s] = job[c].new[k.dev]]
                /\ Proceed(c) /\ UNCHANGED <<nas, accounts>>
             \/ ~able /\ Refuse(c, "slot-add") /\ UNCHANGED <<luks, accounts>>
             \/ Fails(c, "slot-add")

\* cryptsetup open --test-passphrase
Verify(c) ==
  /\ Running(c, "verify")
  /\ LET k == Head(queue[c])
     IN \/ /\ Opens(k.dev, Secret(c, k))
           /\ Proceed(c) /\ UNCHANGED <<luks, accounts>>
        \/ /\ ~Opens(k.dev, Secret(c, k))
           /\ Refuse(c, "current") /\ UNCHANGED <<luks, accounts>>
        \/ Fails(c, "current")

\* newkey.sh nas admin <password>
NewKey(c) ==
  /\ Running(c, "newkey")
  /\ \/ /\ nas' = job[c].password
        /\ Proceed(c) /\ UNCHANGED <<slots, accounts>>
     \/ Fails(c, "nas-create")

\* Mutant: the devices are given the password of the request.
ExportIgnored(c) ==
  /\ Running(c, "export")
  /\ queue' = [queue EXCEPT ![c] = Tail(@)] /\ UNCHANGED <<luks, accounts, job, told>>

\* Devices still to come get the password that exportNAS.sh prints.
ExportNas(c) ==
  /\ Running(c, "export")
  /\ LET rest == Tail(queue[c])
         coming == {rest[i].dev : i \in DOMAIN rest}
     IN \/ /\ job' = [job EXCEPT ![c].new =
                [d \in Device |-> IF d \in coming THEN nas ELSE @[d]]]
           /\ queue' = [queue EXCEPT ![c] = rest]
           /\ UNCHANGED <<luks, accounts, told>>
        \/ Fails(c, "nas-export")

------------------------------------------------------------------------------
(* admin-password *)

ExportSuite(c) ==
  /\ Running(c, "exportsuite")
  /\ \/ suite = job[c].old /\ Proceed(c) /\ UNCHANGED <<luks, accounts>>
     \/ suite # job[c].old /\ Refuse(c, "current")
          /\ UNCHANGED <<luks, accounts>>
     \/ Fails(c, "suite-export")

\* change_service_suite_key.sh takes the old password and refuses another.
RotateSuite(c) ==
  /\ Running(c, "rotate")
  /\ \/ /\ suite = job[c].old /\ suite' = job[c].new
        /\ Proceed(c) /\ UNCHANGED <<luks, owner, samba>>
     \/ suite # job[c].old /\ Refuse(c, "suite-rotate")
          /\ UNCHANGED <<luks, accounts>>
     \/ Fails(c, "suite-rotate")

\* Mutant: the suite keeps the new password.
RollbackForgotten(c) ==
  Refuse(c, "owner") /\ UNCHANGED suite

\* chpasswd was refused: the suite is rotated back, or the receipt says not.
Rollback(c) ==
  \/ suite = job[c].new /\ suite' = job[c].old /\ Refuse(c, "owner")
  \/ (faults \/ suite # job[c].new) /\ UNCHANGED suite
       /\ Refuse(c, "owner-and-rollback")

OwnerPassword(c) ==
  /\ Running(c, "owner")
  /\ \/ /\ owner' = job[c].new /\ Proceed(c)
        /\ UNCHANGED <<luks, suite, samba>>
     \/ faults /\ Rollback(c) /\ UNCHANGED <<luks, owner, samba>>

SambaPassword(c) ==
  /\ Running(c, "samba")
  /\ \/ samba' = job[c].new /\ Proceed(c) /\ UNCHANGED <<luks, suite, owner>>
     \/ Fails(c, "samba")

\* The door dies between two commands: its caller gets no receipt, and sees
\* that a change of the three passwords was cut off.
Killed(c) ==
  /\ faults /\ job[c] # Idle
  /\ queue' = [queue EXCEPT ![c] = <<>>]
  /\ job' = [job EXCEPT ![c] = Idle]
  /\ told' = told \cup IF Running(c, "owner") \/ Running(c, "samba")
                       THEN {"killed"} ELSE {}
  /\ UNCHANGED <<luks, accounts>>

\* Nothing is left to run: the receipt says ok.
Finish(c) ==
  /\ job[c] # Idle /\ queue[c] = <<>>
  /\ job' = [job EXCEPT ![c] = Idle]
  /\ UNCHANGED <<luks, accounts, queue, told>>

Ask(c) == CreateVault(c) \/ CreateExternal(c) \/ CreateBoth(c) \/ Update(c)
            \/ AdminPassword(c)

Run(c) ==
  \/ Dump(c) \/ KillSlot(c) \/ AddKey(c) \/ Verify(c) \/ NewKey(c)
  \/ ExportNas(c) \/ ExportSuite(c) \/ RotateSuite(c) \/ OwnerPassword(c)
  \/ SambaPassword(c) \/ Finish(c)

Next == UNCHANGED faults /\ \E c \in Caller : Ask(c) \/ Run(c) \/ Killed(c)

Spec == Init /\ [][Next]_vars

------------------------------------------------------------------------------
(* Properties *)

\* The command at the head of a caller's queue concerns a slot of device d.
Working(c, d) ==
  /\ queue[c] # <<>> /\ Head(queue[c]).do \in {"kill", "add"}
  /\ Head(queue[c]).dev = d

\* While the slots of a device are rewritten, and no command fails, the password
\* that opened it or the one it is to get goes on opening it: the new key is
\* staged before the old ones go, whichever strategy, whatever slots it had.
KeepsAWayIn ==
  [][\A c \in Caller, d \in Device : ~faults /\ Working(c, d) =>
       LET secrets == {job[c].current[d], job[c].new[d]}
       IN (\E p \in secrets : Opens(d, p)) =>
            \E s \in Slot : slots'[d][s] \in secrets]_vars

\* The commands of device d came to an end in this step.
Settled(c, d) ==
  /\ Working(c, d)
  /\ queue'[c] = Tail(queue[c]) /\ job'[c] # Idle
  /\ queue'[c] = <<>> \/ Head(queue'[c]).do \notin {"kill", "add"}

\* A device handled after the export opens with the password that is now the
\* NAS one, for every strategy and whatever the request's own password is.
DevicesFollowNas ==
  [][\A c \in Caller, d \in Device :
       /\ Settled(c, d) /\ job[c].action # "create-vault"
       /\ \A i \in DOMAIN queue[c] : queue[c][i].do # "newkey"
       => \E s \in Slot : slots'[d][s] = nas]_vars

\* Whether replace_primary could go through with password p if no command
\* failed: slot 1 can be freed and something else then opens the device.
Replaceable(d, p) == \E s \in Slot \ {1} : slots[d][s] = p

\* "OG's safe primary replacement stages slot 1, then settles slot 0": between
\* requests every device can have its primary key replaced.
ReplaceableBetween ==
  (\A c \in Caller : job[c] = Idle) =>
    \A d \in Device : \E p \in Password : Replaceable(d, p)

\* It can, whatever was asked before, as long as no command fails.
StaysReplaceable == ~faults => ReplaceableBetween

\* The suite, the owner's login and Samba have one password, unless a refusal
\* has said that one of them was left behind, or a request was killed when it
\* had changed the suite and not yet Samba: no other failure parts them, and
\* the refusal of chpasswd only where its rollback is refused too.
DisagreementIsTold ==
  \/ suite = owner /\ owner = samba
  \/ \E c \in Caller : job[c].action = "admin-password"
  \/ told # {}
==============================================================================
