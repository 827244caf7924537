---------------------------- MODULE ForgejoMigrate ----------------------------
(***************************************************************************)
(* Export and restore of the Forgejo instance                              *)
(* (storage/backup/homeserver-forgejo-migrate.py).  The instance is a       *)
(* database and a tree of files; a push adds to both.  A moment is the set  *)
(* of pushes that one of them holds.  One command runs at a time, each      *)
(* external program it runs may fail, and portal-service may start and stop *)
(* the unit beside it.                                                      *)
(***************************************************************************)
EXTENDS Naturals, FiniteSets

CONSTANTS MaxPush,      \* bound on the pushes
          MaxCommand    \* bound on the commands run

VARIABLES service,      \* the forgejo unit: "up" or "down"
          db, tree,     \* the pushes the database knows, and the files have
          out,          \* the two artefacts of the output directory
          shelf,        \* the exported pairs that were kept elsewhere
          job,          \* the command that runs
          pushes, commands

forgejoVars == <<service, db, tree, out, shelf, job, pushes, commands>>

None == {0}                          \* no artefact: no push has number 0
\* agreed records that rows and files agreed when the service was stopped, and
\* that portal-service has not touched it since.
Idle == [verb |-> "none", pc |-> "idle", sql |-> {}, zip |-> {}, rc |-> 0, agreed |-> FALSE]

ForgejoInit ==
    /\ service = "up" /\ db = {} /\ tree = {}
    /\ out = [sql |-> None, zip |-> None]
    /\ shelf = {}
    /\ job = Idle
    /\ pushes = 0 /\ commands = 0

At(pc) == job.pc = pc
Goto(pc) == job' = [job EXCEPT !.pc = pc]
Fail(pc) == job' = [job EXCEPT !.pc = pc, !.rc = 1]
Instance_ == <<service, db, tree>>
Bounds == <<pushes, commands>>

\* Someone pushes while the service runs.
Push ==
    /\ service = "up" /\ pushes < MaxPush
    /\ pushes' = pushes + 1
    /\ db' = db \cup {pushes'} /\ tree' = tree \cup {pushes'}
    /\ UNCHANGED <<service, out, shelf, job, commands>>

\* The pair an export left is kept: copied, or encrypted and uploaded.
Keep ==
    /\ At("idle") /\ job.verb = "export" /\ job.rc = 0
    /\ shelf' = shelf \cup {out}
    /\ UNCHANGED <<service, db, tree, out, job, pushes, commands>>

\* portal-service starts or stops the unit, whatever runs.
Portal ==
    /\ service' \in {"up", "down"} \ {service}
    /\ job' = IF At("idle") THEN job ELSE [job EXCEPT !.agreed = FALSE]
    /\ UNCHANGED <<db, tree, out, shelf, Bounds>>

Run(command) == At("idle") /\ commands < MaxCommand
                /\ commands' = commands + 1 /\ job' = command
                /\ UNCHANGED <<service, db, tree, out, shelf, pushes>>

\* export: the previous artefacts are removed before the service is stopped.
BeginExport == Run([Idle EXCEPT !.verb = "export", !.pc = "tidy"])

\* restore: a pair of local files, and --yes.
BeginRestore(pair) ==
    Run([Idle EXCEPT !.verb = "restore", !.pc = "stop", !.sql = pair.sql, !.zip = pair.zip])

\* restore-from-encrypted and restore-from-b2: the copy is first decrypted into
\* a temporary directory.
BeginEncrypted(pair) ==
    Run([Idle EXCEPT !.verb = "encrypted", !.pc = "decrypt", !.sql = pair.sql, !.zip = pair.zip])

Tidy ==
    /\ At("tidy") /\ Goto("stop")
    /\ \E gone \in SUBSET {"sql", "zip"} :      \* a removal that fails only warns
         out' = [a \in {"sql", "zip"} |-> IF a \in gone THEN None ELSE out[a]]
    /\ UNCHANGED <<Instance_, shelf, Bounds>>

\* A download, the key or a truncated chunk may be what fails.
Decrypt ==
    /\ At("decrypt")
    /\ Goto("stop") \/ Fail("idle")
    /\ UNCHANGED <<Instance_, out, shelf, Bounds>>

\* A stop that fails ends the command outside its try: nothing starts it again.
StopService ==
    /\ At("stop")
    /\ \/ /\ service' = "down"
          /\ job' = [job EXCEPT !.pc = IF job.verb = "export" THEN "pg_dump" ELSE "drop",
                                !.agreed = (db = tree)]
       \/ /\ Fail("idle") /\ service' \in {service, "down"}
    /\ UNCHANGED <<db, tree, out, shelf, Bounds>>

-----------------------------------------------------------------------------
(* do_export between the stop and the start.                                *)

\* The service started again between the two dumps.
PgDumpAndStart ==
    /\ At("pg_dump") /\ Goto("dump") /\ out' = [out EXCEPT !.sql = db]
    /\ service' = "up" /\ UNCHANGED <<db, tree, shelf, Bounds>>

PgDump ==
    /\ At("pg_dump")
    /\ \/ Goto("dump") /\ out' = [out EXCEPT !.sql = db]
       \/ Fail("finally") /\ UNCHANGED out
    /\ UNCHANGED <<Instance_, shelf, Bounds>>

ForgejoDump ==
    /\ At("dump")
    /\ \/ Goto("finally") /\ out' = [out EXCEPT !.zip = tree]
       \/ Fail("finally") /\ UNCHANGED out
    /\ UNCHANGED <<Instance_, shelf, Bounds>>

-----------------------------------------------------------------------------
(* do_restore between the stop and the start.                               *)

Drop ==
    /\ At("drop")
    /\ \/ Goto("load") /\ db' = {}
       \/ Fail("finally") /\ db' \in {db, {}}      \* CREATE may be what fails
    /\ UNCHANGED <<service, tree, out, shelf, Bounds>>

\* ON_ERROR_STOP left out: an error is passed over.
LoadLeniently ==
    /\ At("load") /\ Goto("extract")
    /\ \E rows \in SUBSET job.sql : db' = db \cup rows
    /\ UNCHANGED <<service, tree, out, shelf, Bounds>>

\* psql runs as postgres and stops at the first error it meets.  It cannot read
\* the temporary directory that root made for a decrypted copy: by then the
\* database is dropped, and nothing is loaded.
Load ==
    /\ At("load")
    /\ \/ job.verb = "restore" /\ Goto("extract") /\ db' = db \cup job.sql
       \/ job.verb = "restore" /\ Fail("finally") /\ \E rows \in SUBSET job.sql : db' = db \cup rows
       \/ job.verb = "encrypted" /\ Fail("finally") /\ UNCHANGED db
    /\ UNCHANGED <<service, tree, out, shelf, Bounds>>

\* Members are written over what is there.
Extract ==
    /\ At("extract")
    /\ \/ Goto("chown") /\ tree' = tree \cup job.zip
       \/ Fail("finally") /\ \E files \in SUBSET job.zip : tree' = tree \cup files
    /\ UNCHANGED <<service, db, out, shelf, Bounds>>

Chown ==
    /\ At("chown")
    /\ Goto("start") \/ Fail("finally")
    /\ UNCHANGED <<Instance_, out, shelf, Bounds>>

\* The doctor that follows is only logged.
StartService ==
    /\ At("start")
    /\ \/ Goto("finally") /\ service' = "up"
       \/ Fail("finally") /\ UNCHANGED service
    /\ UNCHANGED <<db, tree, out, shelf, Bounds>>

-----------------------------------------------------------------------------
\* The finally of both: a start that fails here exits with 1.
Finally ==
    /\ At("finally")
    /\ \/ Goto("idle") /\ service' = "up"
       \/ Fail("idle") /\ UNCHANGED service
    /\ UNCHANGED <<db, tree, out, shelf, Bounds>>

ForgejoNext ==
    \/ Push \/ Keep \/ Portal \/ BeginExport
    \/ \E pair \in shelf : BeginRestore(pair) \/ BeginEncrypted(pair)
    \/ Tidy \/ Decrypt \/ StopService \/ PgDump \/ ForgejoDump
    \/ Drop \/ Load \/ Extract \/ Chown \/ StartService
    \/ Finally

ForgejoSpec == ForgejoInit /\ [][ForgejoNext]_forgejoVars

-----------------------------------------------------------------------------
Ended == At("idle") /\ job.verb # "none"

\* An export that answers 0 leaves two artefacts of one moment: of an instance
\* whose rows and files agreed, and whose unit portal-service left alone
\* meanwhile, no push is in the one and not in the other, whatever failed or was
\* left over before.
ExportIsOneMoment ==
    Ended /\ job.verb = "export" /\ job.rc = 0 =>
        None \notin {out.sql, out.zip} /\ (job.agreed => out.sql = out.zip)

\* When a restore answers 0 every row and every file of the backup is back,
\* whoever started the unit or pushed meanwhile.
RestoredTogether ==
    [][Finally /\ job.verb # "export" /\ job'.rc = 0
          => job.zip \subseteq tree' /\ job.sql \subseteq db']_forgejoVars
=============================================================================
