----------------------------- MODULE CalibreFeeder -----------------------------
(***************************************************************************)
(* The book feeder of the Calibre portal                                   *)
(* (portals/calibre/calibreHelperDaemon.sh): a crawl that moves new books   *)
(* to a backup tree and links them into the upload directory, and the       *)
(* watcher unit that adds what is in the upload directory to the library.   *)
(* All four trees lie below one directory, and the crawl and the watcher    *)
(* share no lock.  A book is its content; books that bear the same name have *)
(* one path in each tree but the library, where every book has its own.     *)
(***************************************************************************)
EXTENDS Naturals, Sequences, FiniteSets

CONSTANTS Book,        \* the files people hand over
          Pdf,         \* those whose name ends in .pdf
          Readable,    \* those whose extension the crawl admits
          NameOf,      \* [Book -> its path below a tree]
          Found        \* the pairs <<b, c>> such that the name of b, read as a regular
                       \* expression, matches in the listing of c

VARIABLES where,       \* [Book -> SUBSET Place]: the trees that hold the book
          given,       \* the books handed over so far
          tracked,     \* the hashes of processed_files.txt
          crawl,       \* the crawl: the entries it has met, the one in hand
          watch,       \* the watcher: the book in hand, and what it does next
          units        \* the units of systemd that are installed and active

calibreVars == <<where, given, tracked, crawl, watch, units>>

Place == {"books", "upload", "library", "backup"}
Nobody == <<>>

CalibreInit ==
    /\ where = [b \in Book |-> {}]
    /\ given = {}
    /\ tracked = {}
    /\ crawl = [on |-> FALSE, met |-> {}, at |-> Nobody, output |-> <<>>]
    /\ watch = [book |-> Nobody, next |-> "scan"]
    /\ units = [watcher |-> "absent", timer |-> "absent"]

\* The books at the path of b: in the library the others have their own.
There(b, place) ==
    {c \in Book : /\ NameOf[c] = NameOf[b] /\ place \in where[c]
                  /\ place = "library" => c = b}

\* A person copies a book below the books directory, or into the upload one, and
\* over no other.
Give(b, place) ==
    /\ b \notin given /\ There(b, place) = {}
    /\ given' = given \cup {b}
    /\ where' = [where EXCEPT ![b] = {place}]
    /\ UNCHANGED <<tracked, crawl, watch, units>>

-----------------------------------------------------------------------------
(* The crawl: find streams the entries below the books directory while the  *)
(* loop handles them, so that it meets an entry that is there at the time.  *)

StartCrawl ==
    /\ ~crawl.on
    /\ crawl' = [crawl EXCEPT !.on = TRUE, !.met = {}]
    /\ UNCHANGED <<where, given, tracked, watch, units>>

\* An entry of the backup tree, one whose hash is tracked and one with an
\* extension that is not admitted are passed over.
Passed(b, place) == place = "backup" \/ b \in tracked \/ b \notin Readable

Meet(b, place) ==
    /\ crawl.on /\ crawl.at = Nobody
    /\ place \in where[b] /\ <<b, place>> \notin crawl.met
    /\ crawl' = [crawl EXCEPT !.met = @ \cup {<<b, place>>},
                    !.at = IF Passed(b, place) THEN Nobody ELSE <<b, place>>]
    /\ UNCHANGED <<where, given, tracked, watch, units>>

\* What $(move_to_backup) captures: the line of log_success and the path, both
\* written to standard output; only the line of log_error goes elsewhere.
Captured(b) == <<"[SUCCESS] Moved to backup", b>>

\* A path that ln is given names a file when it is one path and nothing else.
NamesFile(output, b) == output = <<b>>

\* Whatever is at the path by now is moved, over a backup that came from the same
\* path before: over none, or over some of those of the same name.
MoveFrom(path, place) ==
    \E c \in There(path, place) :
       \E over \in SUBSET {d \in Book \ {c} : NameOf[d] = NameOf[c]} :
          /\ where' = [d \in Book |->
                 IF d = c THEN (where[d] \ {place}) \cup {"backup"}
                 ELSE IF d \in over THEN where[d] \ {"backup"} ELSE where[d]]
          /\ crawl' = [crawl EXCEPT !.at = <<c, place>>, !.output = Captured(c)]

MoveToBackup ==
    /\ crawl.on /\ crawl.at # Nobody /\ crawl.output = <<>>
    /\ \/ MoveFrom(crawl.at[1], crawl.at[2])
       \/ crawl' = [crawl EXCEPT !.at = Nobody] /\ UNCHANGED where     \* mv refuses
    /\ UNCHANGED <<given, tracked, watch, units>>

\* mark_file_processed hashes the path the book was moved from: it tracks
\* nothing unless a file is there again.
LinkAndMark ==
    /\ crawl.output # <<>>
    /\ LET b == crawl.at[1]  place == crawl.at[2]
           linked == NamesFile(crawl.output, b) /\ There(b, "upload") = {} IN
       /\ where' = [where EXCEPT ![b] = @ \cup (IF linked THEN {"upload"} ELSE {})]
       /\ tracked' = tracked \cup (IF linked THEN There(b, place)' ELSE {})
    /\ crawl' = [crawl EXCEPT !.at = Nobody, !.output = <<>>]
    /\ UNCHANGED <<given, watch, units>>

EndCrawl ==
    /\ crawl.on /\ crawl.at = Nobody
    /\ crawl' = [crawl EXCEPT !.on = FALSE]
    /\ UNCHANGED <<where, given, tracked, watch, units>>

-----------------------------------------------------------------------------
(* The watcher: for each file of the upload directory it looks for the name *)
(* in the library's listing, adds the book and removes the file.            *)

\* grep -q "$filename" finds the name anywhere in the listing of the library's
\* files.
Listed(b) == \E c \in Book : "library" \in where[c] /\ <<b, c>> \in Found

\* A listing that fails shows nothing.
Scan(b) ==
    /\ units.watcher = "active" /\ watch.next = "scan" /\ "upload" \in where[b]
    /\ \E listing \in BOOLEAN :
          watch' = [book |-> b, next |->
                       IF b \in Pdf /\ ~(listing /\ Listed(b)) THEN "add" ELSE "remove"]
    /\ UNCHANGED <<where, given, tracked, crawl, units>>

\* The && of the unit's loop left out: the file goes whatever calibredb says.
AddBookAnyhow ==
    /\ watch.next = "add"
    /\ \E added \in BOOLEAN :
          where' = [c \in Book |-> where[c] \cup (IF added /\ c \in There(watch.book, "upload")
                                                 THEN {"library"} ELSE {})]
    /\ watch' = [watch EXCEPT !.next = "remove"]
    /\ UNCHANGED <<given, tracked, crawl, units>>

\* calibredb adds the file that is at the path, or fails; the file is removed
\* after an addition only.
AddBook ==
    /\ watch.next = "add"
    /\ \/ \E c \in There(watch.book, "upload") :
             /\ where' = [where EXCEPT ![c] = @ \cup {"library"}]
             /\ watch' = [watch EXCEPT !.next = "remove"]
       \/ /\ watch' = [book |-> Nobody, next |-> "scan"]
          /\ UNCHANGED where
    /\ UNCHANGED <<given, tracked, crawl, units>>

RemoveUpload ==
    /\ watch.next = "remove"
    /\ where' = [c \in Book |-> where[c] \ (IF c \in There(watch.book, "upload")
                                            THEN {"upload"} ELSE {})]
    /\ watch' = [book |-> Nobody, next |-> "scan"]
    /\ UNCHANGED <<given, tracked, crawl, units>>

-----------------------------------------------------------------------------
(* The units.  A stop or a removal of the watcher kills it where it is.     *)

\* Installing enables the timer without starting it, and starts the watcher
\* unless a check of calibredb, the upload directory or the library exits.
Install(checked) ==
    /\ units' = [timer   |-> IF units.timer = "absent" THEN "installed" ELSE units.timer,
                 watcher |-> IF checked THEN "active" ELSE units.watcher]
    /\ UNCHANGED <<where, given, tracked, crawl, watch>>

\* A watcher that does not start ends the command; a timer only warns.
Start(timed) ==
    /\ units.watcher # "absent"
    /\ units' = [units EXCEPT !.watcher = "active",
                    !.timer = IF @ # "absent" /\ timed THEN "active" ELSE @]
    /\ UNCHANGED <<where, given, tracked, crawl, watch>>

Halt(to) ==
    /\ units' = [u \in {"watcher", "timer"} |->
                    IF units[u] = "absent" THEN "absent" ELSE to]
    /\ watch' = [book |-> Nobody, next |-> "scan"]
    /\ UNCHANGED <<where, given, tracked, crawl>>

Stop == Halt("installed")
Uninstall == Halt("absent")

CalibreNext ==
    \/ \E b \in Book : \E place \in {"books", "upload"} : Give(b, place)
    \/ StartCrawl \/ EndCrawl \/ MoveToBackup \/ LinkAndMark
    \/ \E b \in Book : \E place \in Place : Meet(b, place)
    \/ \E b \in Book : Scan(b)
    \/ AddBook \/ RemoveUpload
    \/ \E ok \in BOOLEAN : Install(ok) \/ Start(ok)
    \/ Stop \/ Uninstall

CalibreSpec == CalibreInit /\ [][CalibreNext]_calibreVars

-----------------------------------------------------------------------------
\* A name that no other book bears, and that is found in the listing of no other.
Unmistakable(b) == \A c \in Book \ {b} : NameOf[c] # NameOf[b] /\ <<b, c>> \notin Found

\* No interleaving of the crawl, the watcher and its stop loses a pdf that was
\* handed over under an unmistakable name: while one of them removes it from a
\* tree, another tree holds it.  (Of other formats the watcher removes what it
\* finds, and a pdf of another name may be taken for a duplicate.)
PdfsSurvive == \A b \in given \cap Pdf : Unmistakable(b) => where[b] # {}
=============================================================================
