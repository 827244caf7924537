------------------------------- MODULE UpdateDesk -------------------------------
(***************************************************************************)
(* The update window (gui/update-modal/index.py) and the command that keeps *)
(* the list of disabled modules in /etc/appliance/config.json              *)
(* (update/module-toggle/index.py).  A click starts a thread that runs one  *)
(* command; what the thread shows afterwards waits in the idle queue of     *)
(* GLib.  Nothing locks the file.                                           *)
(***************************************************************************)
EXTENDS Naturals, Sequences, FiniteSets

CONSTANTS Module_,      \* the modules of the profile
          Thread_,      \* bound on the commands that run at once
          MaxLaunch,    \* bound on the commands and edits
          Idents        \* the interactables of the engine

VARIABLES disabled,     \* the disabled_modules of config.json
          murky,        \* two commands overlapped, one was refused after its file was
                        \* in place, or the window was opened without the list or
                        \* while a command was under way
          thread,       \* [Thread_ -> the command it runs, and how far it is]
          window,       \* the switches, what they stand for, the update button, the
                        \* interactables, those hidden, the file that keeps them, and
                        \* the controls whose thread died
          idle,         \* the callbacks that GLib has yet to run
          launched

deskVars == <<disabled, murky, thread, window, idle, launched>>

Splices(verb) == verb \in {"on", "off"}

Asleep == [verb |-> "none", module |-> "none", pc |-> "idle", read |-> {},
           before |-> TRUE, ok |-> FALSE, shown |-> FALSE]

DeskInit ==
    /\ disabled = {}
    /\ murky = FALSE
    /\ thread = [t \in Thread_ |-> Asleep]
    /\ window = [active |-> [m \in Module_ |-> TRUE], sensitive |-> Module_,
                 believed |-> [m \in Module_ |-> TRUE], button |-> TRUE, listed |-> Idents,
                 hidden |-> {}, stored |-> {}, forsaken |-> {}]
    /\ idle = <<>>
    /\ launched = 0

Free(t) == thread[t].pc = "idle"

\* A command starts; two that toggle overlap from then on.  The threads have no
\* names: the first free one of the model is taken.
Launch(t, verb, m) ==
    /\ Free(t) /\ \A u \in Thread_ : Free(u) => t <= u
    /\ thread' = [thread EXCEPT ![t] = [Asleep EXCEPT !.verb = verb, !.module = m,
                     !.pc = IF Splices(verb) THEN "read" ELSE "engine", !.shown = TRUE,
                     !.before = IF m \in Module_ THEN window.believed[m] ELSE TRUE]]
    /\ murky' = (murky \/ (Splices(verb) /\ \E u \in Thread_ : Splices(thread[u].verb)))

-----------------------------------------------------------------------------
(* The command.                                                             *)

End(t, ok) == thread' = [thread EXCEPT ![t].pc = "answered", ![t].ok = ok, ![t].read = {}]
Fails(t) == End(t, FALSE) /\ UNCHANGED disabled

\* The list with the module put in or taken out.
Spliced(w, old) == IF w.verb = "off" THEN old \cup {w.module} ELSE old \ {w.module}

\* The file as it is read, and what to do with it: a file that does not parse
\* refuses; one that is right already stays.
Read(t) ==
    /\ thread[t].pc = "read"
    /\ \/ End(t, FALSE)
       \/ Spliced(thread[t], disabled) = disabled /\ End(t, TRUE)
       \/ /\ Spliced(thread[t], disabled) # disabled
          /\ thread' = [thread EXCEPT ![t].read = disabled, ![t].pc = "backup"]
    /\ UNCHANGED <<disabled, murky>>

Backup(t) ==
    /\ thread[t].pc = "backup"
    /\ \/ thread' = [thread EXCEPT ![t].pc = "write"] /\ UNCHANGED disabled
       \/ Fails(t)
    /\ UNCHANGED murky

\* The new file moved over the old one; the directory is flushed when the file is
\* in place, and an error of that is a refusal too.
Write(t) ==
    /\ thread[t].pc = "write"
    /\ \/ Fails(t) /\ UNCHANGED murky
       \/ \E ok \in BOOLEAN :
             /\ disabled' = Spliced(thread[t], thread[t].read)
             /\ End(t, ok)
             /\ murky' = (murky \/ ~ok)

Engine(t) ==
    /\ thread[t].pc = "engine"
    /\ \E ok \in BOOLEAN : End(t, ok)
    /\ UNCHANGED <<disabled, murky>>

Command(t) ==
    /\ Read(t) \/ Backup(t) \/ Write(t) \/ Engine(t)
    /\ UNCHANGED <<window, idle, launched>>

Ask == launched < MaxLaunch /\ launched' = launched + 1

-----------------------------------------------------------------------------
(* The window.                                                              *)

Verb(on) == IF on THEN "on" ELSE "off"

\* The handler of state-set: GTK emits it when the position of a switch
\* changes, by a click or by set_active.
StateSet(t, m, on) ==
    /\ Launch(t, Verb(on), m)
    /\ window' = [window EXCEPT !.active[m] = on, !.sensitive = @ \ {m}]
    /\ UNCHANGED disabled

Click(t, m) ==
    /\ Ask /\ m \in window.sensitive
    /\ StateSet(t, m, ~window.active[m])
    /\ UNCHANGED idle

\* The update is behind the button; agree is a button of each row.
Update(t) ==
    /\ Ask /\ window.button
    /\ Launch(t, "update", "none")
    /\ window' = [window EXCEPT !.button = FALSE]
    /\ UNCHANGED <<disabled, idle>>

Agree(t, i) ==
    /\ Ask /\ i \in window.listed \ window.hidden
    /\ Launch(t, "agree", i)
    /\ window' = [window EXCEPT !.button = FALSE]
    /\ UNCHANGED <<disabled, idle>>

\* Hide and un-hide stand in the window even when their file is not written.
Hide(i) ==
    /\ Ask /\ i \in window.listed \cup window.hidden
    /\ LET hidden == IF i \in window.hidden THEN window.hidden \ {i} ELSE window.hidden \cup {i} IN
       \E stored \in {hidden, window.stored} :
           window' = [window EXCEPT !.hidden = hidden, !.stored = stored]
    /\ UNCHANGED <<disabled, murky, thread, idle>>

\* The window is closed and opened.  Its threads and callbacks end with it, the
\* commands go on.  A list of the modules that is refused shows them all as on,
\* and the engine may list nothing.
Reopen ==
    /\ Ask
    /\ \E told \in BOOLEAN, listed \in {Idents, {}} :
          LET on == [m \in Module_ |-> ~told \/ m \notin disabled] IN
          /\ window' = [window EXCEPT !.active = on, !.believed = on, !.sensitive = Module_,
                           !.button = TRUE, !.listed = listed, !.hidden = window.stored,
                           !.forsaken = {}]
          /\ murky' = (murky \/ ~told \/ \E t \in Thread_ : Splices(thread[t].verb))
    /\ thread' = [t \in Thread_ |-> [thread[t] EXCEPT !.shown = FALSE]]
    /\ idle' = <<>>
    /\ UNCHANGED disabled

\* A refusal that leaves the switch as it was: nothing is queued.
FinishSilently(t) ==
    LET w == thread[t]
        toggled == Splices(w.verb) IN
    /\ w.pc = "answered" /\ w.shown
    /\ window' = IF toggled /\ w.ok THEN [window EXCEPT !.believed[w.module] = w.verb = "on"]
                 ELSE window
    /\ idle' = idle \o (IF toggled /\ w.ok THEN <<<<"sensitive", w.module>>>> ELSE <<>>) \o <<<<"button">>>>
    /\ thread' = [thread EXCEPT ![t] = Asleep]
    /\ UNCHANGED <<disabled, murky, launched>>

\* What a thread of the window does after its command, and what it leaves to
\* the idle queue.  Whatever it ran, the update button comes back.
Finish(t) ==
    LET w == thread[t]
        toggled == Splices(w.verb)
        now == IF w.ok THEN w.verb = "on" ELSE w.before IN
    /\ w.pc = "answered" /\ w.shown
    /\ window' = CASE toggled -> [window EXCEPT !.believed[w.module] = now]
                   [] w.verb = "agree" /\ w.ok -> [window EXCEPT !.listed = @ \ {w.module}]
                   [] OTHER -> window
    /\ idle' = idle \o (IF toggled THEN <<<<"set active", w.module, now>>, <<"sensitive", w.module>>>>
                        ELSE <<>>) \o <<<<"button">>>>
    /\ thread' = [thread EXCEPT ![t] = Asleep]
    /\ UNCHANGED <<disabled, murky, launched>>

\* Its work raises: the output of the command is not UTF-8, or a receipt is gone
\* before it is looked at.  Nothing is queued, and nobody hears of it.
Raise(t) ==
    LET w == thread[t] IN
    /\ w.pc = "answered" /\ w.shown
    /\ window' = [window EXCEPT !.forsaken =
                     @ \cup {IF Splices(w.verb) THEN w.module ELSE "button"}]
    /\ thread' = [thread EXCEPT ![t] = Asleep]
    /\ UNCHANGED <<disabled, murky, idle, launched>>

Dismiss(t) ==
    /\ thread[t].pc = "answered" /\ ~thread[t].shown
    /\ thread' = [thread EXCEPT ![t] = Asleep]
    /\ UNCHANGED <<disabled, murky, window, idle, launched>>

\* A callback of the idle queue.  A switch that moves back asks the command
\* again, for the state it moves back to.
RunIdle ==
    /\ idle # <<>> /\ idle' = Tail(idle)
    /\ LET c == Head(idle) IN
       \/ /\ c[1] = "button"
          /\ window' = [window EXCEPT !.button = TRUE]
          /\ UNCHANGED <<disabled, murky, thread, launched>>
       \/ /\ c[1] = "sensitive"
          /\ window' = [window EXCEPT !.sensitive = @ \cup {c[2]}]
          /\ UNCHANGED <<disabled, murky, thread, launched>>
       \/ /\ c[1] = "set active" /\ window.active[c[2]] = c[3]
          /\ UNCHANGED <<disabled, murky, thread, window, launched>>
       \/ /\ c[1] = "set active" /\ window.active[c[2]] # c[3]
          /\ \E t \in Thread_ : StateSet(t, c[2], c[3])
          /\ UNCHANGED launched

DeskNext ==
    \/ \E t \in Thread_ :
          \/ Command(t) \/ Finish(t) \/ Raise(t) \/ Dismiss(t) \/ Update(t)
          \/ \E m \in Module_ : Click(t, m)
          \/ \E i \in Idents : Agree(t, i)
    \/ RunIdle \/ Reopen
    \/ \E i \in Idents : Hide(i)

DeskSpec == DeskInit /\ [][DeskNext]_deskVars
-----------------------------------------------------------------------------
Quiet(m) == /\ \A t \in Thread_ : thread[t].module # m
            /\ \A i \in DOMAIN idle : idle[i][1] = "button" \/ idle[i][2] # m

\* When nothing of a switch is under way it shows what config.json says of its
\* module, however many of its commands were refused, and although a refusal
\* runs another command.  Excepted are a switch whose thread died, and all of
\* them once two commands overlapped, a command was refused after its file was in
\* place, or the window was opened without the list or beside a command.
SwitchTellsConfig ==
    ~murky =>
        \A m \in Module_ \ window.forsaken : Quiet(m) =>
            window.active[m] = (m \notin disabled)

\* A switch or a button that was made insensitive comes back, whatever its
\* commands answer, unless the thread of one died.
ControlsComeBack ==
    /\ \A m \in Module_ : m \notin window.sensitive ~> m \in window.sensitive \cup window.forsaken
    /\ ~window.button ~> window.button \/ "button" \in window.forsaken

\* The head of module-toggle calls it the "Atomic Caduceus ownership of the
\* Harmonia module disable list" (:1): whatever commands are under way, the list
\* changes by the modules that a command is about.
TogglesOneModule ==
    [][\A m \in Module_ : (m \in disabled)' # (m \in disabled) =>
          \E t \in Thread_ : thread[t].pc = "write" /\ thread'[t].pc = "answered"
                              /\ thread[t].module = m]_deskVars
=============================================================================
