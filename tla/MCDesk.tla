--------------------------------- MODULE MCDesk ---------------------------------
(***************************************************************************)
(* The programs of the desk and of the library, one of them at work in each *)
(* behaviour: the update window, the splices of its command and of reseed,  *)
(* the feeder of the books, the migration of Forgejo.                       *)
(***************************************************************************)
EXTENDS UpdateDesk, JsonSplice, CalibreFeeder, ForgejoMigrate

CONSTANTS b1, b2, b3

\* The second and the third book bear one name, and it is found in that of the
\* first.
MCNameOf == [b \in Book |-> IF b = b1 THEN b1 ELSE b2]
MCFound == {p \in Book \X Book : p[1] = p[2] \/ p[2] = b1}

VARIABLE program

programs == <<program, deskVars, spliceVars, calibreVars, forgejoVars>>

\* The file of a behaviour in which nothing is spliced.
NoSplice == target = "profile" /\ doc = <<>> /\ text = TextOf(doc, Compact)

ProgramInit ==
  /\ program \in {"desk", "splice", "calibre", "forgejo"}
  /\ IF program = "splice" THEN SpliceInit ELSE NoSplice
  /\ DeskInit /\ CalibreInit /\ ForgejoInit

DeskOnly == program = "desk" /\ UNCHANGED <<program, spliceVars, calibreVars, forgejoVars>>

ProgramNext ==
  \/ DeskNext /\ DeskOnly
  \/ /\ program = "splice" /\ SpliceNext
     /\ UNCHANGED <<program, deskVars, calibreVars, forgejoVars>>
  \/ /\ program = "calibre" /\ CalibreNext
     /\ UNCHANGED <<program, deskVars, spliceVars, forgejoVars>>
  \/ /\ program = "forgejo" /\ ForgejoNext
     /\ UNCHANGED <<program, deskVars, spliceVars, calibreVars>>

ProgramSpec ==
  /\ ProgramInit /\ [][ProgramNext]_programs
  /\ \A t \in Thread_ : /\ WF_programs(Command(t) /\ DeskOnly)
                        /\ WF_programs((Finish(t) \/ Raise(t) \/ Dismiss(t)) /\ DeskOnly)
  /\ WF_programs(RunIdle /\ DeskOnly)
================================================================================
