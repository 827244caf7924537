------------------------------ MODULE KeaUpdate ------------------------------
(***************************************************************************)
(* network/dhcp/update-kea-dhcp.sh, the one way in which a Kea DHCP        *)
(* configuration is replaced: copy, validate, back up, move, validate      *)
(* again, restart.  Any command may fail; the run may be killed between    *)
(* two of them (DhcpManager waits 30 s and then sends SIGKILL), or be      *)
(* interrupted, which runs its trap.  The shell's unique file names make   *)
(* the temporary file and the backup private to a run.                     *)
(***************************************************************************)
EXTENDS Naturals

CONSTANTS
  Writer,               \* runs of the script at once
  Config,               \* configurations
  Valid,                \* those that kea-dhcp4 -t accepts
  Torn, Absent,         \* a file that cp is writing; no file
  Stopped,              \* the service is down
  Signals               \* those that may reach a run: "KILL", "TERM"

ASSUME KeaConstants ==
  /\ Valid \subseteq Config
  /\ Torn \notin Config /\ Absent \notin Config /\ Stopped \notin Config
  /\ Torn # Absent
  /\ Signals \subseteq {"KILL", "TERM"}

VARIABLES
  file,                 \* /etc/kea/kea-dhcp4.conf
  running,              \* the configuration that the service has loaded
  pc, input, backup,    \* of each run
  kept,                 \* backups that ended runs left beside the file
  status                \* what each caller was last told: an exit status

vars == <<file, running, pc, input, backup, kept, status>>

Content == Config \cup {Torn, Absent}
Label == {"idle", "copied", "validated", "saved", "applied", "restoring",
          "accepted", "restarted"}

Init ==
  /\ file \in Valid \cup {Absent}
  /\ running = IF file = Absent THEN Stopped ELSE file
  /\ pc = [w \in Writer |-> "idle"]
  /\ input \in [Writer -> Config]
  /\ backup = [w \in Writer |-> Absent]
  /\ kept = {}
  /\ status = [w \in Writer |-> 1]

Go(w, label) == pc' = [pc EXCEPT ![w] = label]

\* Mutant: the trap clears up the backup whatever the exit status.
CleanupAlways(w, code) ==
  /\ Go(w, "idle")
  /\ backup' = [backup EXCEPT ![w] = Absent]
  /\ kept' = kept
  /\ status' = [status EXCEPT ![w] = code]

\* The trap on EXIT: the temporary file goes, the backup only with status 0.
Cleanup(w, code) ==
  /\ Go(w, "idle")
  /\ backup' = [backup EXCEPT ![w] = Absent]
  /\ kept' = IF code = 0 \/ backup[w] = Absent THEN kept
             ELSE kept \cup {backup[w]}
  /\ status' = [status EXCEPT ![w] = code]

Exit(w, code) == Cleanup(w, code) /\ UNCHANGED input

------------------------------------------------------------------------------

\* update_config starts the script; cp, chown and chmod of the private copy.
Copy(w) ==
  /\ pc[w] = "idle"
  /\ \E c \in Config :
       /\ input' = [input EXCEPT ![w] = c]
       /\ \/ Go(w, "copied") /\ UNCHANGED <<backup, kept, status>>
          \/ Cleanup(w, 1)
  /\ UNCHANGED <<file, running>>

\* Mutant: the answer of kea-dhcp4 -t is not looked at.
Unvalidated(w) ==
  /\ pc[w] = "copied"
  /\ Go(w, "validated") /\ UNCHANGED <<input, backup, kept, status>>
  /\ UNCHANGED <<file, running>>

Validate(w) ==
  /\ pc[w] = "copied"
  /\ \/ input[w] \in Valid /\ Go(w, "validated")
          /\ UNCHANGED <<input, backup, kept, status>>
     \/ Exit(w, 1)
  /\ UNCHANGED <<file, running>>

\* A missing file is no error: the run goes on without a backup.
Save(w) ==
  /\ pc[w] = "validated"
  /\ \/ backup' = [backup EXCEPT ![w] = file] /\ Go(w, "saved")
          /\ UNCHANGED <<input, kept, status>>
     \/ file # Absent /\ Exit(w, 1)
  /\ UNCHANGED <<file, running>>

\* A failed move is answered by copying the backup over the file.
Apply(w) ==
  /\ pc[w] = "saved"
  /\ \/ file' = input[w] /\ Go(w, "applied")
          /\ UNCHANGED <<input, backup, kept, status>>
     \/ file' = (IF backup[w] = Absent THEN file ELSE Torn)
          /\ Go(w, "restoring") /\ UNCHANGED <<input, backup, kept, status>>
  /\ UNCHANGED running

\* kea-dhcp4 -t on the file itself, which another run may have replaced.
Recheck(w) ==
  /\ pc[w] = "applied"
  /\ \/ file \in Valid /\ Go(w, "accepted") /\ UNCHANGED file
     \/ file' = (IF backup[w] = Absent THEN file ELSE Torn)
          /\ Go(w, "restoring")
  /\ UNCHANGED <<running, input, backup, kept, status>>

\* cp of the backup ends; when it fails the file is what cp left of it.
Restore(w) ==
  /\ pc[w] = "restoring"
  /\ \/ backup[w] # Absent /\ file' = backup[w]
     \/ UNCHANGED file
  /\ Exit(w, 1)
  /\ UNCHANGED running

\* Mutant: the service is left on what it had loaded.
RestartSkipped(w) ==
  /\ pc[w] = "accepted" /\ Go(w, "restarted")
  /\ UNCHANGED <<file, running, input, backup, kept, status>>

Restart(w) ==
  /\ pc[w] = "accepted"
  /\ \/ running' = file /\ file \in Valid /\ Go(w, "restarted")
          /\ UNCHANGED <<input, backup, kept, status>>
     \/ running' \in {running, Stopped} /\ Exit(w, 1)
  /\ UNCHANGED file

\* One second later: is-active, or the service has died meanwhile.
Settle(w) ==
  /\ pc[w] = "restarted"
  /\ \/ running # Stopped /\ Exit(w, 0) /\ UNCHANGED running
     \/ running' = Stopped /\ Exit(w, 1)
  /\ UNCHANGED file

\* SIGKILL: no trap, so the private files stay; the child may still finish.
Kill(w) ==
  /\ "KILL" \in Signals /\ pc[w] # "idle"
  /\ Cleanup(w, 1) /\ UNCHANGED input
  /\ \/ UNCHANGED <<file, running>>
     \/ pc[w] = "restoring" /\ backup[w] # Absent
          /\ file' = backup[w] /\ UNCHANGED running
     \/ pc[w] = "accepted" /\ file \in Valid
          /\ running' = file /\ UNCHANGED file

\* INT or TERM: the trap runs when the command under way has ended, and exits
\* with the status of that command, which is 0 when nothing was wrong with it.
Interrupt(w) ==
  /\ "TERM" \in Signals /\ pc[w] # "idle"
  /\ \/ UNCHANGED file
     \/ pc[w] = "restoring" /\ backup[w] # Absent /\ file' = backup[w]
  /\ \E code \in {0, 1} : Exit(w, code)
  /\ UNCHANGED running

Step(w) ==
  \/ Copy(w) \/ Validate(w) \/ Save(w) \/ Apply(w) \/ Recheck(w)
  \/ Restore(w) \/ Restart(w) \/ Settle(w) \/ Kill(w)

Next == \E w \in Writer : Step(w) \/ Interrupt(w)

Spec == Init /\ [][Next]_vars

------------------------------------------------------------------------------
(* Properties *)

\* A configuration that Kea never accepted is not the live one, and not a
\* backup that a later run or an operator could put back, however the runs
\* interleave and wherever they die.
NeverUnvalidated ==
  \A c \in Config \ Valid :
    /\ c # file /\ c # running /\ c \notin kept
    /\ \A w \in Writer : c # backup[w]

\* When no run is under way the configuration the service has loaded is the
\* one on disk, or there is a backup to put it back from.
RunningRecoverable ==
  (\A w \in Writer : pc[w] = "idle") => running \in {file, Stopped} \cup kept
==============================================================================
