---------------------------- MODULE SettingsActuator ----------------------------
(***************************************************************************)
(* The actuator of the desktop settings (settings/_shared.py).  A setting   *)
(* is a key of a file of the owner, a value that the session holds, or      *)
(* both; a command sets a list of fields of one kind, each by the route of  *)
(* its kind.  One field stands for those with its route.  One command runs  *)
(* at a time and may be killed; the owner edits the files between commands. *)
(***************************************************************************)
EXTENDS Naturals, Sequences

CONSTANTS Value,        \* the values of a setting
          MaxFields     \* bound on the fields of one command

VARIABLES stored,       \* [Key -> Value]: the files
          shown,        \* [Shown -> Value]: what the session runs with
          set,          \* the command: what is left, its step, its receipt
          doubt         \* whether the input's file was replaced by a command that stopped
                        \* short of its reload, and none came since

settingsVars == <<stored, shown, set, doubt>>

Key == {"scale", "layout", "http", "https", "mailto"}
Shown == {"scale", "layout", "volume"}

\* monitors.conf (settings.ini is handled like it), input.conf and mimeapps.list.
Path == {{"scale"}, {"layout"}, {"http", "https", "mailto"}}
PathOf(k) == CHOOSE p \in Path : k \in p

\* The kinds of which a command sets fields: those that only ask a tool (sound,
\* brightness, notifications, time) share one name with the display.
Kinds == {{"scale", "volume"}, {"layout"}, {"browser", "mail"}, {"wallpaper"}}

KeysOf(field) == CASE field = "browser" -> {"http", "https"}
                   [] field = "mail"    -> {"mailto"}
                   [] field \in Key     -> {field}
                   [] OTHER             -> {}

\* The steps of a field.
Route(field) ==
    CASE field = "wallpaper" -> <<"unsupported">>
      [] field = "volume" -> <<"ask">>
      [] field = "scale"  -> <<"ask", "back up", "replace">>
      [] field = "layout"  -> <<"back up", "replace", "reload">>
      [] field = "browser" -> <<"http", "https", "back up", "replace">>
      [] field = "mail"    -> <<"back up", "replace">>

\* The receipt has the backups that were copied whole and, apart from them, the
\* path of the one that was cut off, if one was.
NoCommand == [todo |-> <<>>, steps |-> <<>>, backups |-> <<>>, torn |-> {}, found |-> <<>>,
              before |-> <<>>, fields |-> <<>>, answer |-> "none"]

SettingsInit ==
    /\ \E v \in Value : stored = [k \in Key |-> v] /\ shown = [s \in Shown |-> v]
    /\ set = NoCommand
    /\ doubt = FALSE

Busy == set.answer = "running"
Pick == Head(set.todo)[1]
Wanted == Head(set.todo)[2]

\* set --field .. --value-json ..: a fresh receipt, and the fields in order.
Lists == UNION {UNION {[1 .. n -> kind \X Value] : n \in 1 .. MaxFields} : kind \in Kinds}

BeginSet(fields) ==
    /\ ~Busy
    /\ set' = [NoCommand EXCEPT !.todo = fields, !.fields = fields, !.found = stored,
                  !.before = stored, !.steps = Route(fields[1][1]), !.answer = "running"]
    /\ UNCHANGED <<stored, shown, doubt>>

StepIs(name) == Busy /\ set.steps # <<>> /\ Head(set.steps) = name
Advance == [set EXCEPT !.steps = Tail(@)]
Refused == [set EXCEPT !.steps = <<>>, !.todo = <<>>, !.answer = "refused"]

Unsupported == StepIs("unsupported") /\ set' = Refused /\ UNCHANGED <<stored, shown, doubt>>

\* The status of the tool not looked at.
AskToolLeniently ==
    /\ StepIs("ask") /\ set' = Advance
    /\ shown' \in {shown, [shown EXCEPT ![Pick] = Wanted]}
    /\ UNCHANGED <<stored, doubt>>

\* A tool of the session answers 0, fails, or is given up after 8 s although it
\* does its work: the answer is then the same as that of a failure.
AskTool ==
    /\ StepIs("ask")
    /\ LET new == [shown EXCEPT ![Pick] = Wanted] IN
       \/ shown' = new /\ set' = Advance
       \/ set' = Refused /\ shown' \in {shown, new}
    /\ UNCHANGED <<stored, doubt>>

\* xdg-settings writes the handler of one scheme into mimeapps.list itself.
Scheme(key) ==
    /\ StepIs(key)
    /\ \/ stored' = [stored EXCEPT ![key] = Wanted] /\ set' = Advance
       \/ set' = Refused /\ stored' \in {stored, [stored EXCEPT ![key] = Wanted]}
    /\ UNCHANGED <<shown, doubt>>

Same == \A k \in KeysOf(Pick) : stored[k] = Wanted

\* The path that the field is in, and its file as it is on disk.
PathNow == PathOf(CHOOSE k \in KeysOf(Pick) : TRUE)
Copied(files) == [Advance EXCEPT !.backups = Append(@, [k \in PathNow |-> files[k]])]
Put == [k \in Key |-> IF k \in KeysOf(Pick) THEN Wanted ELSE stored[k]]

\* The file put in place before it is copied to the run directory.
BackUpLate ==
    /\ StepIs("back up")
    /\ IF Same THEN set' = [set EXCEPT !.steps = <<>>] /\ UNCHANGED stored
       ELSE stored' = Put /\ set' = Copied(stored')
    /\ UNCHANGED <<shown, doubt>>

\* The same bytes are not written: neither a backup nor, for the input, a reload.
\* The copy is a plain write, which may fail with nothing or a part of it written.
BackUp ==
    /\ StepIs("back up")
    /\ IF Same THEN set' = [set EXCEPT !.steps = <<>>]
       ELSE \/ set' = Copied(stored)
            \/ \E cut \in {{}, PathNow} : set' = [Refused EXCEPT !.torn = cut]
    /\ UNCHANGED <<stored, shown, doubt>>

\* A temporary file and a rename, then a sync of the directory: an error leaves the
\* file as it was, or the new one in place.
Replace ==
    /\ StepIs("replace")
    /\ \/ stored' = Put /\ set' = Advance /\ UNCHANGED doubt
       \/ set' = Refused /\ UNCHANGED <<stored, doubt>>
       \/ stored' = Put /\ set' = Refused /\ doubt' = (doubt \/ Pick = "layout")
    /\ UNCHANGED shown

\* hyprctl reload reads both files of the compositor again.
Reloaded == [s \in Shown |-> IF s \in {"scale", "layout"} THEN stored[s] ELSE shown[s]]
RolledBack == [stored EXCEPT !["layout"] = set.before["layout"]]

\* A reload that fails, or is given up although it works, puts the file back unless
\* that fails too; the old file is not loaded again.
Reload ==
    /\ StepIs("reload")
    /\ \/ shown' = Reloaded /\ set' = Advance /\ doubt' = FALSE /\ UNCHANGED stored
       \/ stored' = RolledBack /\ set' = Refused /\ UNCHANGED <<shown, doubt>>
       \/ /\ stored' \in {stored, RolledBack} /\ shown' \in {shown, Reloaded}
          /\ set' = Refused /\ doubt' = TRUE

\* The answer of a run whose run.json cannot be written is a refusal.
NextField ==
    /\ Busy /\ set.steps = <<>>
    /\ IF Len(set.todo) = 1 THEN set' \in {[set EXCEPT !.todo = <<>>, !.answer = "ok"], Refused}
       ELSE set' = [set EXCEPT !.todo = Tail(@), !.before = stored,
                               !.steps = Route(set.todo[2][1])]
    /\ UNCHANGED <<stored, shown, doubt>>

Killed ==
    /\ Busy
    /\ \E cut \in {{}} \cup (IF StepIs("back up") /\ ~Same THEN {PathNow} ELSE {}) :
          set' = [set EXCEPT !.todo = <<>>, !.steps = <<>>, !.torn = cut, !.answer = "killed"]
    /\ doubt' = (doubt \/ StepIs("reload"))
    /\ UNCHANGED <<stored, shown>>

\* The compositor starts with its files; nothing it holds is then in doubt.
Login ==
    /\ ~Busy
    /\ shown' = Reloaded
    /\ doubt' = FALSE
    /\ set' = NoCommand /\ UNCHANGED stored

\* The owner edits a file, and has the session read it.
Edit(k, v) ==
    /\ ~Busy
    /\ stored' = [stored EXCEPT ![k] = v]
    /\ shown' = IF k \in Shown THEN [shown EXCEPT ![k] = v] ELSE shown
    /\ doubt' = (doubt /\ k # "layout")
    /\ set' = NoCommand

SettingsNext ==
    \/ \E fields \in Lists : BeginSet(fields)
    \/ Unsupported \/ AskTool \/ Scheme("http") \/ Scheme("https")
    \/ BackUp \/ Replace \/ Reload \/ NextField \/ Killed \/ Login
    \/ \E k \in Key : \E v \in Value : Edit(k, v)

SettingsSpec == SettingsInit /\ [][SettingsNext]_settingsVars

-----------------------------------------------------------------------------
\* The backups put back, the last one first: the first one that holds a key has
\* the last word on it, and the files have it where none does.
Undoes(backups, files, k, value) ==
    \/ files[k] = value /\ \A i \in DOMAIN backups : k \notin DOMAIN backups[i]
    \/ \E i \in DOMAIN backups :
          /\ k \in DOMAIN backups[i] /\ backups[i][k] = value
          /\ \A j \in 1 .. i - 1 : k \notin DOMAIN backups[j]

\* The whole backups of a run directory undo the run: put back from the last to the
\* first they give the files the command found, wherever it was refused or killed;
\* a copy that was cut off is of no run that answered ok, and of a file that the
\* run has not replaced since.  (What xdg-settings wrote before the first backup is
\* not among them; and run.json, which lists them, is missing after a kill.)
BackupsUndo ==
    set.answer \in {"ok", "refused", "killed"} =>
        /\ \A k \in Key \ {"http", "https"} : Undoes(set.backups, stored, k, set.found[k])
        /\ set.torn # {} => set.answer # "ok"
        /\ \A k \in set.torn \ {"http", "https"} : stored[k] = set.before[k]

\* What "get" says of a field, and where it has it from: the session's number or
\* description where it is asked and answers, else the text of the file.
Reported(field, answers) ==
    CASE field = "scale"   -> IF answers THEN <<"number", shown["scale"]>>
                              ELSE <<"text", stored["scale"]>>
      [] field = "layout"  -> IF answers THEN <<"description", shown["layout"]>>
                              ELSE <<"text", stored["layout"]>>
      [] field = "browser" -> <<"text", stored["http"]>>
      [] field = "mail"    -> <<"text", stored["mailto"]>>
      [] field = "volume"  -> <<"number", shown["volume"]>>

LastOf(i) == \A j \in i + 1 .. Len(set.fields) : set.fields[j][1] # set.fields[i][1]

\* What is reported of a field that was answered ok comes from the value that was
\* set, in whatever form the session or the file has it, and whether the session
\* answers or not.  Of the input this needs that no command stopped between the
\* replacement of its file and a reload that worked, killed or refused: the same
\* bytes are taken for work that is done, and the next command answers ok.
AcknowledgedIsReported ==
    set.answer = "ok" =>
        \A i \in DOMAIN set.fields : \A answers \in BOOLEAN :
            LET field == set.fields[i][1] IN
            (field = "layout" => ~doubt) /\ LastOf(i)
                => Reported(field, answers)[2] = set.fields[i][2]
=============================================================================
