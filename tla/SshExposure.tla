------------------------------ MODULE SshExposure ------------------------------
(***************************************************************************)
(* The two programs that turn sshd on and off: the exposure switch          *)
(* (settings/ssh/index.py), which writes both directives of sshd_config and *)
(* takes a refused change back, and the service door                        *)
(* (portals/service-control/index.py), which edits one directive and starts *)
(* or stops units.  Neither takes a lock; either may be killed.  ssh.service *)
(* and sshd.service are two names of one unit.                              *)
(***************************************************************************)
EXTENDS Naturals

CONSTANT MaxAsk         \* bound on the commands and the events from outside

VARIABLES directives,   \* the directives of sshd_config
          unit,         \* whether the unit is enabled, and active
          loaded,       \* the directives that the daemon runs with
          hup,          \* whether it was told to read its file and has not yet
          ssh, svc,     \* the two programs
          clean,        \* the programs that nobody disturbed since they began
          asked

host == <<directives, unit, loaded, hup>>
sshVars == <<directives, unit, loaded, hup, ssh, svc, clean, asked>>

\* A directive is there once, not at all, or twice.
Blank == [pw |-> "absent", pk |-> "absent"]
Directives == [pw : {"yes", "no", "twice"}, pk : {"yes", "no"}] \cup {Blank}
Desired(on) == [pw |-> "no", pk |-> IF on THEN "yes" ELSE "no"]

SshInit ==
    /\ directives \in Directives
    /\ unit \in [enabled : BOOLEAN, active : BOOLEAN] /\ loaded = directives /\ hup = FALSE
    /\ ssh = [pc |-> "none", on |-> FALSE, original |-> Blank, before |-> unit,
              open |-> FALSE, written |-> FALSE, torn |-> FALSE]
    /\ svc = [pc |-> "none", op |-> "none", on |-> FALSE]
    /\ clean = {}
    /\ asked = 0

Asks == asked < MaxAsk /\ asked' = asked + 1
Alone(p) == clean' = clean \cap {p}

\* systemctl, and sshd under it.  A daemon reads its file when it starts, and some
\* time after the signal that a reload sends to it.
Enable(on) == unit' = [unit EXCEPT !.enabled = on] /\ UNCHANGED <<loaded, hup>>
Activate(on) ==
    /\ unit' = [unit EXCEPT !.active = on]
    /\ loaded' = IF on /\ ~unit.active THEN directives ELSE loaded
    /\ hup' = (hup /\ on /\ unit.active)
RestartUnit == unit' = [unit EXCEPT !.active = TRUE] /\ loaded' = directives /\ hup' = FALSE
Reread ==
    /\ hup /\ loaded' = directives /\ hup' = FALSE
    /\ UNCHANGED <<directives, unit, ssh, svc, clean, asked>>
-----------------------------------------------------------------------------
(* The exposure switch.                                                     *)

Ended == {"none", "ok", "refused", "restore refused"}
At(pc) == ssh.pc = pc
Goto(pc) == ssh' = [ssh EXCEPT !.pc = pc]

\* The handler of Refusal: what was written is taken back.
RefuseOnly == Goto("refused")
RaiseRefusal == Goto(IF ssh.written THEN "restore" ELSE "refused")
Quiet == UNCHANGED <<host, svc, clean, asked>>

Toggle(on) ==
    /\ ssh.pc \in Ended /\ Asks
    /\ ssh' = [pc |-> "read", on |-> on, original |-> directives, before |-> unit,
               open |-> FALSE, written |-> FALSE, torn |-> FALSE]
    /\ clean' = clean \cup {"ssh"}
    /\ UNCHANGED <<host, svc>>

ReadSshdConfig ==
    /\ At("read") /\ Quiet
    /\ \/ RaiseRefusal
       \/ directives.pw # "twice" /\ ssh' = [ssh EXCEPT !.pc = "validate", !.original = directives]

ValidateConfig ==
    /\ At("validate") /\ Quiet
    /\ \/ RaiseRefusal
       \/ Goto(IF Desired(ssh.on) = ssh.original THEN "service" ELSE "write")

\* tee empties the file before it fills it.  A tee that fails has written
\* nothing as far as config_written knows.
Fails == Goto(CASE At("write") -> "refused" [] At("undo") -> "restore"
                [] At("restore") -> "restore refused")
Writing == ssh.pc \in {"write", "undo", "restore"}

TeeOpen ==
    /\ Writing /\ ~ssh.open
    /\ \/ Fails /\ UNCHANGED <<directives, clean>>
       \/ directives' = Blank /\ ssh' = [ssh EXCEPT !.open = TRUE] /\ Alone("ssh")
    /\ UNCHANGED <<unit, loaded, hup, svc, asked>>

TeeWrite ==
    /\ Writing /\ ssh.open /\ Alone("ssh")
    /\ \/ /\ directives' = IF At("write") THEN Desired(ssh.on) ELSE ssh.original
          /\ ssh' = [ssh EXCEPT !.open = FALSE, !.written = TRUE,
                        !.pc = CASE At("write") -> "validate again" [] At("undo") -> "restore"
                                 [] At("restore") -> "restored"]
       \/ /\ ssh' = [ssh EXCEPT !.open = FALSE, !.torn = TRUE,
                        !.pc = CASE At("write") -> "refused" [] At("undo") -> "restore"
                                 [] At("restore") -> "restore refused"]
          /\ UNCHANGED directives
    /\ UNCHANGED <<unit, loaded, hup, svc, asked>>

\* The file is put back once here, and again by the handler.
ValidateAgain == At("validate again") /\ Quiet /\ (Goto("service") \/ Goto("undo"))
Restored == At("restored") /\ Quiet /\ (Goto("refused") \/ Goto("restore refused"))
ServiceUnit == At("service") /\ Quiet /\ (Goto("enable") \/ RaiseRefusal)

EnableOrDisable ==
    /\ At("enable")
    /\ \/ Enable(ssh.on) /\ Goto("start") /\ Alone("ssh")
       \/ RaiseRefusal /\ UNCHANGED <<unit, loaded, hup, clean>>
    /\ UNCHANGED <<directives, svc, asked>>

\* systemctl start answers 0 although a condition of the unit keeps it down.
StartOrStop ==
    /\ At("start")
    /\ \/ Activate(ssh.on) /\ Goto("check") /\ Alone("ssh")
       \/ ssh.on /\ Goto("check") /\ UNCHANGED <<unit, loaded, hup, clean>>
       \/ RaiseRefusal /\ UNCHANGED <<unit, loaded, hup, clean>>
    /\ UNCHANGED <<directives, svc, asked>>

Check ==
    /\ At("check") /\ Quiet
    /\ \/ RaiseRefusal
       \/ /\ directives = Desired(ssh.on) /\ unit = [enabled |-> ssh.on, active |-> ssh.on]
          /\ Goto("ok")

Exposure ==
    \/ \E on \in BOOLEAN : Toggle(on)
    \/ ReadSshdConfig \/ ValidateConfig \/ TeeOpen \/ TeeWrite \/ ValidateAgain \/ Restored
    \/ ServiceUnit \/ EnableOrDisable \/ StartOrStop \/ Check
-----------------------------------------------------------------------------
(* The service door.                                                        *)

DoorAt(pc) == svc.pc = pc
DoorGoto(pc) == svc' = [svc EXCEPT !.pc = pc]
Door(op, on) ==
    /\ svc.pc \in Ended /\ Asks
    /\ svc' = [pc |-> IF op = "password" THEN "count" ELSE op, op |-> op, on |-> on]
    /\ clean' = clean \cup {"svc"}
    /\ UNCHANGED <<host, ssh>>

YesNo(on) == IF on THEN "yes" ELSE "no"

\* ssh_password_authentication_toggle: one line or a refusal, sed, sshd -t, and
\* the reload; a refusal takes nothing back.
Count ==
    /\ DoorAt("count")
    /\ \/ DoorGoto("refused")
       \/ directives.pw \in {"yes", "no"} /\ DoorGoto("sed")
    /\ UNCHANGED <<host, clean>>

Sed ==
    /\ DoorAt("sed")
    /\ \/ DoorGoto("refused") /\ UNCHANGED <<directives, clean>>
       \/ /\ directives' = [directives EXCEPT !.pw = IF @ \in {"yes", "no"} THEN YesNo(svc.on) ELSE @]
          /\ DoorGoto("sshd -t") /\ Alone("svc")
    /\ UNCHANGED <<unit, loaded, hup>>

Test == DoorAt("sshd -t") /\ (DoorGoto("refused") \/ DoorGoto("reload")) /\ UNCHANGED <<host, clean>>

\* A reload that is refused is let pass.
ReloadSshdAnyhow ==
    /\ DoorAt("reload") /\ DoorGoto("ok")
    /\ hup' \in {hup, unit.active}
    /\ UNCHANGED <<directives, unit, loaded, clean>>
ReloadSshd ==
    /\ DoorAt("reload")
    /\ \/ unit.active /\ hup' = TRUE /\ DoorGoto("ok")
       \/ UNCHANGED hup /\ DoorGoto("refused")
    /\ UNCHANGED <<directives, unit, loaded, clean>>

\* service_toggle: enable --now and disable --now, which may do half of it and
\* refuse; portal_service: one verb, and a look at whether the unit is active.
Units ==
    /\ DoorAt("units")
    /\ \/ unit' = [enabled |-> svc.on, active |-> svc.on]
          /\ loaded' = (IF svc.on /\ ~unit.active THEN directives ELSE loaded)
          /\ hup' = (hup /\ svc.on /\ unit.active)
          /\ DoorGoto("ok") /\ Alone("svc")
       \/ Enable(svc.on) /\ DoorGoto("refused") /\ Alone("svc")
       \/ DoorGoto("refused") /\ UNCHANGED <<unit, loaded, hup, clean>>
    /\ UNCHANGED directives

PortalService ==
    /\ svc.pc \in {"enable", "start", "restart"}
    /\ \/ /\ CASE DoorAt("enable") -> Enable(svc.on)
               [] DoorAt("start") -> Activate(svc.on)
               [] DoorAt("restart") -> RestartUnit
          /\ Alone("svc")
          /\ DoorGoto(IF DoorAt("enable") THEN "ok" ELSE "look")
       \/ DoorGoto("refused") /\ UNCHANGED <<unit, loaded, hup, clean>>
    /\ UNCHANGED directives

Look ==
    /\ DoorAt("look")
    /\ DoorGoto(IF unit.active = (svc.on \/ svc.op = "restart") THEN "ok" ELSE "refused")
    /\ UNCHANGED <<host, clean>>

Service ==
    \/ \E op \in {"password", "units", "enable", "start", "restart"}, on \in BOOLEAN : Door(op, on)
    \/ (Count \/ Sed \/ Test \/ ReloadSshd \/ Units \/ PortalService \/ Look) /\ UNCHANGED <<ssh, asked>>
-----------------------------------------------------------------------------
(* What comes from outside.                                                 *)

EditConfig(text) ==
    /\ Asks /\ directives' = text /\ clean' = {}
    /\ UNCHANGED <<unit, loaded, hup, ssh, svc>>

\* The daemon exits.
Die ==
    /\ Asks /\ unit.active /\ unit' = [unit EXCEPT !.active = FALSE] /\ hup' = FALSE /\ clean' = {}
    /\ UNCHANGED <<directives, loaded, ssh, svc>>

ProgramKilled ==
    /\ \/ ssh.pc \notin Ended /\ ssh' = [ssh EXCEPT !.pc = "none"] /\ UNCHANGED svc
       \/ svc.pc \notin Ended /\ svc' = [svc EXCEPT !.pc = "none"] /\ UNCHANGED ssh
    /\ UNCHANGED <<host, clean, asked>>

SshNext == Exposure \/ Service \/ Reread \/ Die \/ ProgramKilled \/ \E text \in Directives : EditConfig(text)
SshSpec == SshInit /\ [][SshNext]_sshVars
-----------------------------------------------------------------------------
\* The switch takes its change of sshd_config back whenever it refuses, at
\* whatever step, unless its own tee failed or somebody else came between.
RefusedRestoresFile ==
    At("refused") /\ "ssh" \in clean /\ ~ssh.torn => directives = ssh.original

\* An answered change of PasswordAuthentication, of a door that nobody disturbed,
\* is in the file, and the running daemon applies it or has been told to read the
\* file again; the door refuses when it cannot tell it.
PasswordIsServed ==
    DoorAt("ok") /\ svc.op = "password" /\ "svc" \in clean =>
        /\ directives.pw = YesNo(svc.on)
        /\ unit.active /\ (hup \/ loaded.pw = directives.pw)

\* Refusal (settings/ssh/index.py) is "A bounded refusal signal for an unchanged
\* or restored host": a refused switch leaves the file and the unit as they were.
RefusedLeavesHost ==
    At("refused") /\ "ssh" \in clean => directives = ssh.original /\ unit = ssh.before
=============================================================================
