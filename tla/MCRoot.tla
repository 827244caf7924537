--------------------------------- MODULE MCRoot ---------------------------------
(***************************************************************************)
(* The commands that root runs, one program at work in each behaviour: the   *)
(* settings, the certificates, sshd, the credential launcher, the updater of *)
(* Kea's file and the reservations.  In the serial setting runs of the       *)
(* updater come one after the other and only SIGKILL strikes, which is what  *)
(* DhcpManager sends after its 30 seconds; in the other anything may happen. *)
(***************************************************************************)
EXTENDS SettingsActuator, HouseCa, SshExposure, CredentialLauncher, KeaUpdate, DhcpReservations

VARIABLE program

keaVars == vars
roots == <<program, settingsVars, caVars, sshVars, credVars, keaVars, dhcpVars>>

\* A program that is not at work starts where it has least to say.
RootInit ==
  /\ program \in {"settings", "ca", "ssh", "credential", "kea", "serial kea", "dhcp"}
  /\ SettingsInit /\ (program # "settings" => \A k \in Key : stored[k] = CHOOSE v \in Value : TRUE)
  /\ CaInit
  /\ SshInit /\ (program # "ssh" => directives = Blank /\ unit = [enabled |-> FALSE, active |-> FALSE])
  /\ CredInit /\ (program # "credential" =>
       record = NoKey /\ default = "none" /\ skeleton = CHOOSE s \in Skeleton : TRUE)
  /\ Init /\ (program \notin {"kea", "serial kea"} =>
       file = Absent /\ \A w \in Writer : input[w] = CHOOSE c \in Config : TRUE)
  /\ DhcpInit /\ (program # "dhcp" => config = [pool |-> 0, res |-> {}])

RootNext ==
  /\ UNCHANGED program
  /\ \/ program = "settings" /\ SettingsNext /\ UNCHANGED <<caVars, sshVars, credVars, keaVars, dhcpVars>>
     \/ program = "ca" /\ CaNext /\ UNCHANGED <<settingsVars, sshVars, credVars, keaVars, dhcpVars>>
     \/ program = "ssh" /\ SshNext /\ UNCHANGED <<settingsVars, caVars, credVars, keaVars, dhcpVars>>
     \/ program = "credential" /\ CredNext /\ UNCHANGED <<settingsVars, caVars, sshVars, keaVars, dhcpVars>>
     \/ program = "dhcp" /\ DhcpNext /\ UNCHANGED <<settingsVars, caVars, sshVars, credVars, keaVars>>
     \/ /\ UNCHANGED <<settingsVars, caVars, sshVars, credVars, dhcpVars>>
        /\ \E w \in Writer :
             \/ /\ program \in {"kea", "serial kea"} /\ Step(w)
                /\ program = "serial kea" => \A v \in Writer \ {w} : pc[v] = "idle"
             \/ program = "kea" /\ Interrupt(w)

RootSpec == RootInit /\ [][RootNext]_roots

\* A run that dies anywhere leaves what Kea runs on disk or in a backup, as long
\* as runs come one after the other.
SerialRecoverable == program = "serial kea" => RunningRecoverable

\* Status 0 means that the new configuration is live, as long as runs come one
\* after the other.
SerialSuccess ==
  [][program = "serial kea" => \A w \in Writer :
       pc[w] # "idle" /\ pc'[w] = "idle" /\ status'[w] = 0 =>
         file' = input[w] /\ running' = input[w]]_keaVars
================================================================================
