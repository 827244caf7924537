-------------------------------- MODULE DeskProofs --------------------------------
(***************************************************************************)
(* Theorems about the programs of the desk and of the library: the feeder  *)
(* of the books, the migration of Forgejo, the update window with the       *)
(* command of its switches.  Each is about its own specification, for any  *)
(* number of books, pushes, modules and commands.                          *)
(***************************************************************************)
EXTENDS UpdateDesk, CalibreFeeder, ForgejoMigrate, SequenceTheorems, TLAPS

-----------------------------------------------------------------------------
(* The feeder of the books.                                                *)

\* What the crawl and the watcher hold.
CrawlType ==
  crawl \in [on : BOOLEAN, met : SUBSET (Book \X Place),
             at : {Nobody} \cup (Book \X (Place \ {"backup"})),
             output : {<<>>} \cup {Captured(b) : b \in Book}]

FeederType ==
  /\ where \in [Book -> SUBSET Place] /\ given \subseteq Book
  /\ watch \in [book : Book \cup {Nobody}, next : {"scan", "add", "remove"}]
  /\ watch.next # "scan" => watch.book \in Book

\* A book whose upload the watcher is about to remove is in a tree that nobody
\* empties any more: the crawl takes books out of the library, but only into the
\* backup, and only a book of the same name is moved over that.
FeederInv ==
  /\ CrawlType /\ FeederType
  /\ \A b \in Book : where[b] # {} => b \in given
  /\ crawl.at # Nobody => crawl.at[1] \in given
  /\ crawl.output # <<>> => crawl.at # Nobody
  /\ PdfsSurvive
  /\ watch.next = "remove" /\ watch.book \in Pdf /\ Unmistakable(watch.book) =>
       where[watch.book] \cap {"library", "backup"} # {}

-----------------------------------------------------------------------------
(* The migration of Forgejo.                                               *)

Numbers == SUBSET (Nat \ {0})

Command_ ==
  [verb : {"none", "export", "restore", "encrypted"},
   pc : {"idle", "tidy", "decrypt", "stop", "pg_dump", "dump", "drop", "load", "extract",
         "chown", "start", "finally"},
   sql : Numbers, zip : Numbers, rc : {0, 1}, agreed : BOOLEAN]

Pair == [sql : Numbers, zip : Numbers]

ForgejoType ==
  /\ service \in {"up", "down"} /\ db \in Numbers /\ tree \in Numbers
  /\ out \in [sql : Numbers \cup {None}, zip : Numbers \cup {None}]
  /\ shelf \subseteq Pair
  /\ job \in Command_
  /\ pushes \in Nat

\* Unless portal-service meddles the service is down from the stop to the second
\* dump, so that the two dumps are of the moment at which it stopped.
ExportInv ==
  /\ job.pc \in {"tidy", "decrypt", "stop", "pg_dump", "dump"} => job.rc = 0
  /\ job.pc \in {"tidy", "pg_dump", "dump"} => job.verb = "export"
  /\ job.pc \in {"decrypt", "drop", "load", "extract", "chown", "start"} => job.verb # "export"
  /\ job.pc \in {"pg_dump", "dump"} /\ job.agreed => service = "down" /\ db = tree
  /\ job.pc = "dump" => out.sql # None /\ (job.agreed => out.sql = db)
  /\ job.pc \in {"finally", "idle"} /\ job.verb = "export" /\ job.rc = 0 =>
       None \notin {out.sql, out.zip} /\ (job.agreed => out.sql = out.zip)

\* What a restore has brought back stays: whoever pushes only adds to it.
RestoreInv ==
  job.verb # "export" /\ job.rc = 0 =>
    /\ job.pc \in {"extract", "chown", "start", "finally"} => job.sql \subseteq db
    /\ job.pc \in {"chown", "start", "finally"} => job.zip \subseteq tree

ForgejoInv == ForgejoType /\ ExportInv /\ RestoreInv

-----------------------------------------------------------------------------
(* The update window and the command of its switches.                      *)

Toggles(t) == Splices(thread[t].verb)
On(m) == m \notin disabled

Members == SUBSET Module_

Work ==
  [verb : {"none", "on", "off", "update", "agree"},
   module : Module_ \cup Idents \cup {"none"},
   pc : {"idle", "read", "backup", "write", "engine", "answered"},
   read : Members, before : BOOLEAN, ok : BOOLEAN, shown : BOOLEAN]

Callback ==
  {<<"button">>} \cup ({"sensitive"} \X Module_) \cup ({"set active"} \X Module_ \X BOOLEAN)

FilesType == disabled \in Members /\ murky \in BOOLEAN

ThreadsType ==
  /\ thread \in [Thread_ -> Work]
  /\ \A t \in Thread_ :
       /\ thread[t].pc \in {"read", "backup", "write"} => Toggles(t)
       /\ thread[t].pc = "engine" => ~Toggles(t)
       /\ thread[t].pc = "idle" <=> thread[t].verb = "none"
       /\ Toggles(t) => thread[t].module \in Module_

WindowType ==
  /\ window \in [active : [Module_ -> BOOLEAN], sensitive : SUBSET Module_,
                 believed : [Module_ -> BOOLEAN], button : BOOLEAN,
                 listed : SUBSET Idents, hidden : SUBSET Idents, stored : SUBSET Idents,
                 forsaken : SUBSET (Module_ \cup {"button"})]
  /\ idle \in Seq(Callback)

DeskType == FilesType /\ ThreadsType /\ WindowType

\* Until the file is murky one command at a time toggles, and what it read is what
\* the file still holds.
SpliceInv ==
  ~murky =>
    /\ \A t, u \in Thread_ : Toggles(t) /\ Toggles(u) => t = u
    /\ \A t \in Thread_ : Toggles(t) /\ thread[t].pc \in {"backup", "write"} =>
         thread[t].read = disabled

\* What a thread will show when its command is answered.
Outcome(w) == IF w.ok THEN w.verb = "on" ELSE w.before

\* A switch that a command is about shows what was asked for; what is believed
\* of it was true when the command began, and what will be shown is true when it
\* is answered.
Toggling(t, m) == Toggles(t) /\ thread[t].module = m
Asked(t, m) ==
  LET w == thread[t]
  IN /\ w.shown
     /\ window.active[m] = (w.verb = "on")
     /\ w.before = window.believed[m]
     /\ On(m) = IF w.pc = "answered" THEN Outcome(w) ELSE w.before

\* Of the moves that wait for a switch the last is to what config.json says; the
\* switch shows it when none waits.
Moves(i, m) == idle[i][1] = "set active" /\ idle[i][2] = m
Settled(m) ==
  /\ window.believed[m] = On(m)
  /\ \A i \in DOMAIN idle :
       Moves(i, m) /\ (\A k \in DOMAIN idle : k > i => ~Moves(k, m)) => idle[i][3] = On(m)
  /\ (\A i \in DOMAIN idle : ~Moves(i, m)) => window.active[m] = On(m)

SwitchInv ==
  ~murky =>
    \A m \in Module_ \ window.forsaken :
      /\ \A t \in Thread_ : Toggling(t, m) => Asked(t, m)
      /\ (\A t \in Thread_ : ~Toggling(t, m)) => Settled(m)

DeskInv == DeskType /\ SpliceInv /\ SwitchInv

-----------------------------------------------------------------------------
(* The feeder of the books.                                                *)

\* At the path of an unmistakable book there is that book or none, and the listing
\* that shows its name is its own.
LEMMA OwnPath ==
  ASSUME NEW b \in Book, Unmistakable(b)
  PROVE  /\ \A c \in Book : NameOf[c] = NameOf[b] => c = b
         /\ \A c \in Book, place \in Place : b \in There(c, place) => c = b
         /\ Listed(b) => "library" \in where[b]
BY DEF Unmistakable, There, Listed

\* Whoever moves books says where they went: an unmistakable one is in the backup
\* then, or nowhere fewer.
LEMMA BooksMove ==
  ASSUME FeederInv, UNCHANGED <<given, watch>>, where' \in [Book -> SUBSET Place],
         \A d \in Book : where'[d] # {} => d \in given,
         \A d \in Book : Unmistakable(d) => "backup" \in where'[d] \/ where[d] \subseteq where'[d],
         CrawlType', crawl'.at # Nobody => crawl'.at[1] \in given,
         crawl'.output # <<>> => crawl'.at # Nobody
  PROVE  FeederInv'
<1>1. FeederType' /\ PdfsSurvive'
  BY DEF FeederInv, FeederType, PdfsSurvive
<1>2. watch'.next = "remove" /\ watch'.book \in Pdf /\ Unmistakable(watch'.book) =>
        where'[watch'.book] \cap {"library", "backup"} # {}
  BY DEF FeederInv, FeederType
<1>. QED
  BY <1>1, <1>2 DEF FeederInv

LEMMA FeederMoves ==
  ASSUME FeederInv, CalibreNext
  PROVE  FeederInv'
<1>. USE DEF FeederInv
<1>1. ASSUME NEW b \in Book, NEW place \in {"books", "upload"}, Give(b, place) PROVE FeederInv'
  <2>1. CrawlType' /\ UNCHANGED <<crawl, watch>>
    BY <1>1 DEF Give, CrawlType
  <2>. QED
    BY <1>1, <2>1 DEF Give, Place, PdfsSurvive, FeederType
<1>2. CASE StartCrawl \/ EndCrawl
  <2>1. CrawlType' /\ crawl'.at = crawl.at /\ crawl'.output = crawl.output
    BY <1>2 DEF StartCrawl, EndCrawl, CrawlType
  <2>2. UNCHANGED <<where, given, watch>>
    BY <1>2 DEF StartCrawl, EndCrawl
  <2>. QED
    BY <2>1, <2>2 DEF FeederType, PdfsSurvive
<1>3. ASSUME NEW b \in Book, NEW place \in Place, Meet(b, place) PROVE FeederInv'
  <2>. DEFINE seen == IF Passed(b, place) THEN Nobody ELSE <<b, place>>
  <2>1. seen \in {Nobody} \cup (Book \X (Place \ {"backup"}))
    BY <1>3 DEF Passed
  <2>2. seen # Nobody => seen[1] \in given
    BY <1>3 DEF Meet, FeederType
  <2>3. /\ crawl' = [crawl EXCEPT !.met = @ \cup {<<b, place>>}, !.at = seen]
        /\ crawl.at = Nobody /\ UNCHANGED <<where, given, watch>>
    BY <1>3 DEF Meet
  <2>4. <<b, place>> \in Book \X Place
    OBVIOUS
  <2>. HIDE DEF seen
  <2>5. crawl'.at = seen /\ crawl'.output = crawl.output /\ CrawlType'
    BY <2>1, <2>3, <2>4 DEF CrawlType
  <2>. QED
    BY <2>2, <2>3, <2>5 DEF FeederType, PdfsSurvive
<1>4. CASE MoveToBackup
  <2>0. crawl.at # Nobody /\ UNCHANGED <<given, watch>>
    BY <1>4 DEF MoveToBackup
  <2>1. PICK b \in Book, place \in Place \ {"backup"} : crawl.at = <<b, place>>
    BY <2>0 DEF CrawlType
  <2>2. crawl.at[1] = b /\ crawl.at[2] = place
    BY <2>1
  <2>3. ASSUME NEW c \in There(b, place), NEW over \in SUBSET {d \in Book \ {c} : NameOf[d] = NameOf[c]},
               where' = [d \in Book |->
                       IF d = c THEN (where[d] \ {place}) \cup {"backup"}
                       ELSE IF d \in over THEN where[d] \ {"backup"} ELSE where[d]],
               crawl' = [crawl EXCEPT !.at = <<c, place>>, !.output = Captured(c)]
        PROVE  FeederInv'
    <3>1. c \in Book /\ c \in given
      BY DEF There
    <3>2. <<c, place>> # Nobody /\ <<c, place>>[1] = c
      BY DEF Nobody
    <3>3. CrawlType' /\ crawl'.at = <<c, place>>
      BY <2>3, <3>1 DEF CrawlType
    <3>4. where' \in [Book -> SUBSET Place]
      BY <2>3 DEF FeederType, Place
    <3>5. \A d \in Book : where'[d] # {} => d \in given
      BY <2>3, <3>1
    <3>6. ASSUME NEW d \in Book, Unmistakable(d)
          PROVE  "backup" \in where'[d] \/ where[d] \subseteq where'[d]
      <4>1. d \notin over
        BY <3>1, <3>6, OwnPath
      <4>. QED
        BY <2>3, <4>1
    <3>. HIDE DEF FeederInv
    <3>. QED
      BY <2>0, <3>1, <3>2, <3>3, <3>4, <3>5, <3>6, BooksMove
  <2>4. CASE crawl' = [crawl EXCEPT !.at = Nobody] /\ UNCHANGED where
    <3>1. CrawlType' /\ crawl'.at = Nobody /\ crawl'.output = crawl.output
      BY <2>4 DEF CrawlType
    <3>2. crawl.output = <<>>
      BY <1>4 DEF MoveToBackup
    <3>. QED
      BY <2>0, <2>4, <3>1, <3>2 DEF FeederType, PdfsSurvive
  <2>. HIDE DEF FeederInv
  <2>5. MoveFrom(b, place) \/ (crawl' = [crawl EXCEPT !.at = Nobody] /\ UNCHANGED where)
    BY <1>4, <2>2, Zenon DEF MoveToBackup
  <2>6. MoveFrom(b, place) => FeederInv'
    BY <2>3, Zenon DEF MoveFrom
  <2>. QED
    BY <2>4, <2>5, <2>6, Zenon
<1>5. CASE LinkAndMark
  <2>0. crawl.at # Nobody /\ UNCHANGED <<given, watch>>
    BY <1>5 DEF LinkAndMark
  <2>1. PICK b \in Book, place \in Place : crawl.at = <<b, place>>
    BY <2>0 DEF CrawlType
  <2>2. b \in given /\ crawl.at[1] = b
    BY <2>0, <2>1
  <2>. DEFINE linked == NamesFile(crawl.output, b) /\ There(b, "upload") = {}
              l == IF linked THEN {"upload"} ELSE {}
  <2>3. crawl' = [crawl EXCEPT !.at = Nobody, !.output = <<>>]
    BY <1>5 DEF LinkAndMark
  <2>4. where' = [where EXCEPT ![b] = where[b] \cup l] /\ l \in {{}, {"upload"}}
    <3>. HIDE DEF FeederInv
    <3>. QED
      BY <1>5, <2>2 DEF LinkAndMark
  <2>. HIDE DEF l
  <2>5. where' \in [Book -> SUBSET Place] /\ \A d \in Book : where[d] \subseteq where'[d]
    BY <2>4 DEF FeederType, Place
  <2>6. CrawlType' /\ crawl'.at = Nobody /\ crawl'.output = <<>>
    BY <2>3 DEF CrawlType
  <2>7. \A d \in Book : where'[d] # {} => d \in given
    BY <2>2, <2>4 DEF FeederType
  <2>. HIDE DEF FeederInv
  <2>. QED
    BY <2>0, <2>5, <2>6, <2>7, BooksMove
<1>6. ASSUME NEW b \in Book, Scan(b) PROVE FeederInv'
  <2>1. CrawlType' /\ UNCHANGED <<crawl, where, given>>
    BY <1>6 DEF Scan, CrawlType
  <2>2. watch' \in [book : {b}, next : {"add", "remove"}]
    BY <1>6 DEF Scan
  <2>3. ASSUME watch'.next = "remove", b \in Pdf, Unmistakable(b) PROVE "library" \in where[b]
    BY <1>6, <2>3, OwnPath DEF Scan
  <2>. QED
    BY <2>1, <2>2, <2>3 DEF FeederType, PdfsSurvive
<1>7. CASE AddBook
  <2>1. /\ watch.next = "add" /\ watch.book \in Book /\ UNCHANGED <<given, crawl>>
        /\ CrawlType'
    BY <1>7 DEF AddBook, CrawlType, FeederType
  <2>2. ASSUME NEW c \in There(watch.book, "upload"),
               where' = [where EXCEPT ![c] = @ \cup {"library"}],
               watch' = [watch EXCEPT !.next = "remove"]
        PROVE  FeederInv'
    <3>1. c \in Book /\ c \in given
      BY DEF There
    <3>2. Unmistakable(watch.book) => c = watch.book
      BY <2>1, OwnPath DEF There
    <3>3. /\ where' \in [Book -> SUBSET Place] /\ where'[c] = where[c] \cup {"library"}
          /\ \A d \in Book \ {c} : where'[d] = where[d]
      BY <2>2, <3>1 DEF FeederType, Place
    <3>4. FeederType' /\ PdfsSurvive' /\ watch'.book = watch.book
      BY <2>1, <2>2, <3>1, <3>3 DEF FeederType, PdfsSurvive
    <3>. QED
      BY <2>1, <3>1, <3>2, <3>3, <3>4
  <2>3. CASE watch' = [book |-> Nobody, next |-> "scan"] /\ UNCHANGED where
    BY <2>1, <2>3 DEF FeederType, PdfsSurvive
  <2>. HIDE DEF FeederInv
  <2>. QED
    BY <1>7, <2>2, <2>3 DEF AddBook
<1>8. CASE RemoveUpload
  <2>1. CrawlType' /\ UNCHANGED <<given, crawl>> /\ watch.next = "remove" /\ watch.book \in Book
    BY <1>8 DEF RemoveUpload, CrawlType, FeederType
  <2>2. watch' = [book |-> Nobody, next |-> "scan"]
    BY <1>8 DEF RemoveUpload
  <2>3. /\ where' \in [Book -> SUBSET Place]
        /\ \A d \in Book : where'[d] \subseteq where[d] /\ where[d] \ {"upload"} \subseteq where'[d]
        /\ \A d \in Book : d \notin There(watch.book, "upload") => where'[d] = where[d]
    BY <1>8 DEF RemoveUpload, Place, FeederType
  <2>4. ASSUME NEW d \in given \cap Pdf, Unmistakable(d) PROVE where'[d] # {}
    <3>1. CASE d = watch.book
      BY <2>1, <2>3, <2>4, <3>1
    <3>2. CASE d # watch.book
      <4>1. d \in Book /\ d \notin There(watch.book, "upload")
        BY <2>1, <2>4, <3>2 DEF FeederType, There, Unmistakable
      <4>. QED
        BY <2>3, <2>4, <4>1 DEF PdfsSurvive
    <3>. QED
      BY <3>1, <3>2
  <2>. QED
    BY <2>1, <2>2, <2>3, <2>4 DEF FeederType, PdfsSurvive
<1>9. CASE (\E ok \in BOOLEAN : Install(ok) \/ Start(ok)) \/ Stop \/ Uninstall
  <2>1. /\ CrawlType' /\ UNCHANGED <<where, given, crawl>>
        /\ watch' \in {watch, [book |-> Nobody, next |-> "scan"]}
    BY <1>9 DEF Install, Start, Stop, Uninstall, Halt, CrawlType
  <2>. QED
    BY <2>1 DEF FeederType, PdfsSurvive
<1>. QED
  BY <1>1, <1>2, <1>3, <1>4, <1>5, <1>6, <1>7, <1>8, <1>9 DEF CalibreNext

\* No interleaving of the crawl, the watcher and a stop loses a pdf that was
\* handed over, if no other book bears its name and its name is found in no other
\* book's listing (portals/calibre/calibreHelperDaemon.sh:144-184, 385-400).
THEOREM PdfsAreKept == CalibreSpec => []PdfsSurvive
<1>1. CalibreInit => FeederInv
  BY DEF CalibreInit, FeederInv, CrawlType, FeederType, PdfsSurvive
<1>2. FeederInv /\ [CalibreNext]_calibreVars => FeederInv'
  <2>1. FeederInv /\ UNCHANGED calibreVars => FeederInv'
    BY DEF calibreVars, FeederInv, CrawlType, FeederType, PdfsSurvive
  <2>. QED
    BY <2>1, FeederMoves
<1>3. FeederInv => PdfsSurvive
  BY DEF FeederInv
<1>. QED
  BY <1>1, <1>2, <1>3, PTL DEF CalibreSpec

-----------------------------------------------------------------------------
(* The migration of Forgejo.                                               *)

LEMMA NoArtefact == \A n \in Numbers : n # None
BY DEF Numbers, None

\* What a step of the command does to its record.
Moved(pc, rc) ==
  /\ job'.pc = pc /\ job'.rc = rc /\ job'.verb = job.verb /\ job'.sql = job.sql
  /\ job'.zip = job.zip /\ job'.agreed = job.agreed
  /\ job' \in Command_

PCs == {"idle", "tidy", "decrypt", "stop", "pg_dump", "dump", "drop", "load", "extract",
        "chown", "start", "finally"}

LEMMA Moves_ ==
  ASSUME ForgejoType, NEW pc \in PCs
  PROVE  /\ Goto(pc) => Moved(pc, job.rc)
         /\ Fail(pc) => Moved(pc, 1)
<1>1. ASSUME Goto(pc) PROVE Moved(pc, job.rc)
  BY <1>1 DEF Goto, Moved, ForgejoType, Command_, PCs
<1>2. ASSUME Fail(pc) PROVE Moved(pc, 1)
  BY <1>2 DEF Fail, Moved, ForgejoType, Command_, PCs
<1>. QED
  BY <1>1, <1>2

LEMMA ForgejoMoves ==
  ASSUME ForgejoInv, ForgejoNext
  PROVE  ForgejoInv'
<1>. USE DEF Instance_, Bounds, At
<1>t. ForgejoType /\ ExportInv /\ RestoreInv
  BY DEF ForgejoInv
<1>1. CASE Push
  <2>1. /\ pushes' \in Nat \ {0} /\ db' = db \cup {pushes'} /\ tree' = tree \cup {pushes'}
        /\ service = "up" /\ UNCHANGED <<service, out, shelf, job>>
    BY <1>1, <1>t DEF Push, ForgejoType
  <2>2. ForgejoType'
    BY <1>t, <2>1 DEF ForgejoType, Numbers
  <2>3. ExportInv' /\ RestoreInv'
    BY <1>t, <2>1 DEF ExportInv, RestoreInv
  <2>. QED
    BY <2>2, <2>3 DEF ForgejoInv
<1>2. CASE Keep
  <2>1. /\ shelf' = shelf \cup {out} /\ UNCHANGED <<service, db, tree, out, job, pushes>>
        /\ job.pc = "idle" /\ job.verb = "export" /\ job.rc = 0
    BY <1>2 DEF Keep
  <2>2. out \in Pair
    BY <1>t, <2>1 DEF ForgejoType, ExportInv, Pair
  <2>. QED
    BY <1>t, <2>1, <2>2 DEF ForgejoInv, ForgejoType, ExportInv, RestoreInv
<1>3. ASSUME NEW c \in Command_, Run(c), c.rc = 0,
             \/ c.verb = "export" /\ c.pc = "tidy"
             \/ c.verb # "export" /\ c.pc \in {"stop", "decrypt"}
      PROVE  ForgejoInv'
  <2>1. job' = c /\ UNCHANGED <<service, db, tree, out, shelf, pushes>>
    BY <1>3 DEF Run
  <2>. QED
    BY <1>3, <1>t, <2>1 DEF ForgejoInv, ForgejoType, ExportInv, RestoreInv
<1>4. CASE BeginExport
  <2>. DEFINE c == [Idle EXCEPT !.verb = "export", !.pc = "tidy"]
  <2>1. c \in Command_ /\ c.rc = 0 /\ c.verb = "export" /\ c.pc = "tidy"
    BY DEF Idle, Command_, Numbers
  <2>. QED
    BY <1>3, <1>4, <2>1 DEF BeginExport
<1>5. ASSUME NEW pair \in shelf, BeginRestore(pair) PROVE ForgejoInv'
  <2>. DEFINE c == [Idle EXCEPT !.verb = "restore", !.pc = "stop", !.sql = pair.sql, !.zip = pair.zip]
  <2>1. pair.sql \in Numbers /\ pair.zip \in Numbers
    BY <1>t DEF ForgejoType, Pair
  <2>2. c \in Command_ /\ c.rc = 0 /\ c.verb = "restore" /\ c.pc = "stop"
    BY <2>1 DEF Idle, Command_, Numbers
  <2>. QED
    BY <1>3, <1>5, <2>2 DEF BeginRestore
<1>6. ASSUME NEW pair \in shelf, BeginEncrypted(pair) PROVE ForgejoInv'
  <2>. DEFINE c == [Idle EXCEPT !.verb = "encrypted", !.pc = "decrypt", !.sql = pair.sql,
                                !.zip = pair.zip]
  <2>1. pair.sql \in Numbers /\ pair.zip \in Numbers
    BY <1>t DEF ForgejoType, Pair
  <2>2. c \in Command_ /\ c.rc = 0 /\ c.verb = "encrypted" /\ c.pc = "decrypt"
    BY <2>1 DEF Idle, Command_, Numbers
  <2>. QED
    BY <1>3, <1>6, <2>2 DEF BeginEncrypted
<1>7. CASE Tidy
  <2>1. /\ job.pc = "tidy" /\ Moved("stop", job.rc) /\ UNCHANGED <<service, db, tree, shelf, pushes>>
    BY <1>7, <1>t, Moves_ DEF Tidy, PCs
  <2>2. out' \in [sql : Numbers \cup {None}, zip : Numbers \cup {None}]
    <3>1. PICK gone \in SUBSET {"sql", "zip"} :
            out' = [a \in {"sql", "zip"} |-> IF a \in gone THEN None ELSE out[a]]
      BY <1>7 DEF Tidy
    <3>2. out["sql"] \in Numbers \cup {None} /\ out["zip"] \in Numbers \cup {None}
      BY <1>t DEF ForgejoType
    <3>. QED
      BY <3>1, <3>2
  <2>. QED
    BY <1>t, <2>1, <2>2 DEF ForgejoInv, ForgejoType, ExportInv, RestoreInv, Moved
<1>8. CASE Decrypt
  <2>1. /\ job.pc = "decrypt" /\ UNCHANGED <<service, db, tree, out, shelf, pushes>>
        /\ Moved("stop", job.rc) \/ Moved("idle", 1)
    BY <1>8, <1>t, Moves_ DEF Decrypt, PCs
  <2>. QED
    BY <1>t, <2>1 DEF ForgejoInv, ForgejoType, ExportInv, RestoreInv, Moved
<1>9. CASE StopService
  <2>1. /\ job.pc = "stop" /\ UNCHANGED <<db, tree, out, shelf, pushes>>
    BY <1>9 DEF StopService
  <2>2. CASE Fail("idle") /\ service' \in {service, "down"}
    <3>1. Moved("idle", 1)
      BY <1>t, <2>2, Moves_ DEF PCs
    <3>. QED
      BY <1>t, <2>1, <2>2, <3>1 DEF ForgejoInv, ForgejoType, ExportInv, RestoreInv, Moved
  <2>3. CASE /\ service' = "down"
             /\ job' = [job EXCEPT !.pc = IF job.verb = "export" THEN "pg_dump" ELSE "drop",
                                   !.agreed = (db = tree)]
    <3>1. /\ job' \in Command_ /\ job'.pc = IF job.verb = "export" THEN "pg_dump" ELSE "drop"
          /\ job'.verb = job.verb /\ job'.rc = job.rc /\ (job'.agreed <=> db = tree)
      BY <1>t, <2>3 DEF ForgejoType, Command_
    <3>. QED
      BY <1>t, <2>1, <2>3, <3>1 DEF ForgejoInv, ForgejoType, ExportInv, RestoreInv
  <2>. QED
    BY <1>9, <2>2, <2>3 DEF StopService
<1>10. CASE PgDump
  <2>1. job.pc = "pg_dump" /\ UNCHANGED <<service, db, tree, shelf, pushes>>
    BY <1>10 DEF PgDump
  <2>2. CASE Goto("dump") /\ out' = [out EXCEPT !.sql = db]
    <3>1. Moved("dump", job.rc) /\ out'.sql = db /\ db # None
          /\ out' \in [sql : Numbers \cup {None}, zip : Numbers \cup {None}]
      BY <1>t, <2>2, Moves_, NoArtefact DEF PCs, ForgejoType
    <3>. QED
      BY <1>t, <2>1, <3>1 DEF ForgejoInv, ForgejoType, ExportInv, RestoreInv, Moved
  <2>3. CASE Fail("finally") /\ UNCHANGED out
    <3>1. Moved("finally", 1)
      BY <1>t, <2>3, Moves_ DEF PCs
    <3>. QED
      BY <1>t, <2>1, <2>3, <3>1 DEF ForgejoInv, ForgejoType, ExportInv, RestoreInv, Moved
  <2>. QED
    BY <1>10, <2>2, <2>3 DEF PgDump
<1>11. CASE ForgejoDump
  <2>1. job.pc = "dump" /\ UNCHANGED <<service, db, tree, shelf, pushes>>
    BY <1>11 DEF ForgejoDump
  <2>2. CASE Goto("finally") /\ out' = [out EXCEPT !.zip = tree]
    <3>1. /\ Moved("finally", job.rc) /\ out'.zip = tree /\ out'.sql = out.sql
          /\ out' \in [sql : Numbers \cup {None}, zip : Numbers \cup {None}]
      BY <1>t, <2>2, Moves_ DEF PCs, ForgejoType
    <3>2. out.sql # None /\ tree # None /\ (job.agreed => out.sql = tree)
      BY <1>t, <2>1, NoArtefact DEF ExportInv, ForgejoType
    <3>. QED
      BY <1>t, <2>1, <3>1, <3>2 DEF ForgejoInv, ForgejoType, ExportInv, RestoreInv, Moved
  <2>3. CASE Fail("finally") /\ UNCHANGED out
    <3>1. Moved("finally", 1)
      BY <1>t, <2>3, Moves_ DEF PCs
    <3>. QED
      BY <1>t, <2>1, <2>3, <3>1 DEF ForgejoInv, ForgejoType, ExportInv, RestoreInv, Moved
  <2>. QED
    BY <1>11, <2>2, <2>3 DEF ForgejoDump
<1>12. CASE Drop
  <2>1. /\ job.pc = "drop" /\ db' \in {db, {}} /\ UNCHANGED <<service, tree, out, shelf, pushes>>
        /\ Moved("load", job.rc) \/ Moved("finally", 1)
    BY <1>12, <1>t, Moves_ DEF Drop, PCs
  <2>2. db' \in Numbers
    BY <1>t, <2>1 DEF ForgejoType, Numbers
  <2>. QED
    BY <1>t, <2>1, <2>2 DEF ForgejoInv, ForgejoType, ExportInv, RestoreInv, Moved
<1>13. CASE Load
  <2>1. /\ job.pc = "load" /\ UNCHANGED <<service, tree, out, shelf, pushes>>
        /\ \E rows \in SUBSET job.sql : db' = db \cup rows
        /\ \/ Moved("extract", job.rc) /\ db' = db \cup job.sql
           \/ Moved("finally", 1)
    <3>1. db = db \cup {} /\ {} \in SUBSET job.sql /\ job.sql \in SUBSET job.sql
      OBVIOUS
    <3>. QED
      BY <1>13, <1>t, <3>1, Moves_ DEF Load, PCs
  <2>2. db' \in Numbers
    BY <1>t, <2>1 DEF ForgejoType, Command_, Numbers
  <2>. QED
    BY <1>t, <2>1, <2>2 DEF ForgejoInv, ForgejoType, ExportInv, RestoreInv, Moved
<1>14. CASE Extract
  <2>1. /\ job.pc = "extract" /\ UNCHANGED <<service, db, out, shelf, pushes>>
        /\ \E some \in SUBSET job.zip : tree' = tree \cup some
        /\ \/ Moved("chown", job.rc) /\ tree' = tree \cup job.zip
           \/ Moved("finally", 1)
    BY <1>14, <1>t, Moves_ DEF Extract, PCs
  <2>2. tree' \in Numbers
    BY <1>t, <2>1 DEF ForgejoType, Command_, Numbers
  <2>. QED
    BY <1>t, <2>1, <2>2 DEF ForgejoInv, ForgejoType, ExportInv, RestoreInv, Moved
<1>15. CASE Chown
  <2>1. /\ job.pc = "chown" /\ UNCHANGED <<service, db, tree, out, shelf, pushes>>
        /\ Moved("start", job.rc) \/ Moved("finally", 1)
    BY <1>15, <1>t, Moves_ DEF Chown, PCs
  <2>. QED
    BY <1>t, <2>1 DEF ForgejoInv, ForgejoType, ExportInv, RestoreInv, Moved
<1>16. CASE StartService
  <2>1. /\ job.pc = "start" /\ service' \in {service, "up"}
        /\ UNCHANGED <<db, tree, out, shelf, pushes>>
        /\ Moved("finally", job.rc) \/ Moved("finally", 1)
    BY <1>16, <1>t, Moves_ DEF StartService, PCs
  <2>. QED
    BY <1>t, <2>1 DEF ForgejoInv, ForgejoType, ExportInv, RestoreInv, Moved
<1>17. CASE Finally
  <2>1. /\ job.pc = "finally" /\ service' \in {service, "up"}
        /\ UNCHANGED <<db, tree, out, shelf, pushes>>
        /\ Moved("idle", job.rc) \/ Moved("idle", 1)
    BY <1>17, <1>t, Moves_ DEF Finally, PCs
  <2>. QED
    BY <1>t, <2>1 DEF ForgejoInv, ForgejoType, ExportInv, RestoreInv, Moved
<1>18. CASE Portal
  <2>1. service' \in {"up", "down"} /\ UNCHANGED <<db, tree, out, shelf, pushes>>
    BY <1>18 DEF Portal
  <2>2. CASE job' = job /\ job.pc = "idle"
    BY <1>t, <2>1, <2>2 DEF ForgejoInv, ForgejoType, ExportInv, RestoreInv
  <2>3. CASE job' = [job EXCEPT !.agreed = FALSE]
    <3>1. /\ job'.pc = job.pc /\ job'.rc = job.rc /\ job'.verb = job.verb /\ job'.sql = job.sql
          /\ job'.zip = job.zip /\ job'.agreed = FALSE /\ job' \in Command_
      BY <1>t, <2>3 DEF ForgejoType, Command_
    <3>. QED
      BY <1>t, <2>1, <3>1 DEF ForgejoInv, ForgejoType, ExportInv, RestoreInv
  <2>. QED
    BY <1>18, <2>2, <2>3 DEF Portal
<1>. QED
  BY <1>1, <1>2, <1>4, <1>5, <1>6, <1>7, <1>8, <1>9, <1>10, <1>11, <1>12, <1>13, <1>14, <1>15,
     <1>16, <1>17, <1>18 DEF ForgejoNext

LEMMA ForgejoAlways == ForgejoSpec => []ForgejoInv
<1>1. ForgejoInit => ForgejoInv
  <2>. SUFFICES ASSUME ForgejoInit PROVE ForgejoInv
    OBVIOUS
  <2>1. job \in Command_ /\ job.pc = "idle" /\ job.verb = "none" /\ job.sql = {} /\ job.zip = {}
    BY DEF ForgejoInit, Idle, Command_, Numbers
  <2>2. ForgejoType
    BY <2>1 DEF ForgejoInit, ForgejoType, Numbers
  <2>. QED
    BY <2>1, <2>2 DEF ForgejoInv, ExportInv, RestoreInv
<1>2. ForgejoInv /\ UNCHANGED forgejoVars => ForgejoInv'
  BY DEF forgejoVars, ForgejoInv, ForgejoType, ExportInv, RestoreInv
<1>. QED
  BY <1>1, <1>2, ForgejoMoves, PTL DEF ForgejoSpec

\* An export that answers 0 leaves two artefacts of one moment, whatever failed
\* or was left over before, unless portal-service touched the unit meanwhile
\* (storage/backup/homeserver-forgejo-migrate.py:368-427).
THEOREM ExportsAreWhole == ForgejoSpec => []ExportIsOneMoment
<1>1. ForgejoInv => ExportIsOneMoment
  BY DEF ForgejoInv, ExportInv, ExportIsOneMoment, Ended, At
<1>. QED
  BY <1>1, ForgejoAlways, PTL

\* When a restore answers 0 every row and every file of the backup is back,
\* whoever started the unit or pushed meanwhile
\* (storage/backup/homeserver-forgejo-migrate.py:456-556).
THEOREM RestoresBringAllBack == ForgejoSpec => RestoredTogether
<1>1. ASSUME ForgejoInv, ForgejoInv', Finally, job.verb # "export", job'.rc = 0
      PROVE  job.zip \subseteq tree' /\ job.sql \subseteq db'
  <2>1. /\ job.pc = "finally" /\ UNCHANGED <<db, tree>>
        /\ Moved("idle", job.rc) \/ Moved("idle", 1)
    BY <1>1, Moves_ DEF Finally, PCs, At, ForgejoInv
  <2>2. job.rc = 0
    BY <1>1, <2>1 DEF Moved
  <2>. QED
    BY <1>1, <2>1, <2>2 DEF ForgejoInv, RestoreInv
<1>2. ForgejoInv /\ ForgejoInv' =>
        [Finally /\ job.verb # "export" /\ job'.rc = 0
          => job.zip \subseteq tree' /\ job.sql \subseteq db']_forgejoVars
  BY <1>1
<1>. QED
  BY <1>2, ForgejoAlways, PTL DEF RestoredTogether

-----------------------------------------------------------------------------
(* The update window and the command of its switches.                      *)

LEMMA SplicedType ==
  ASSUME DeskType, NEW t \in Thread_, NEW old \in Members, Toggles(t)
  PROVE  /\ Spliced(thread[t], old) \in Members
         /\ \A m \in Module_ :
              m \notin Spliced(thread[t], old) <=>
                IF m = thread[t].module THEN thread[t].verb = "on" ELSE m \notin old
<1>. DEFINE w == thread[t]
<1>1. w.verb \in {"on", "off"} /\ w.module \in Module_
  BY DEF Splices, DeskType, ThreadsType, Toggles
<1>2. Spliced(w, old) = IF w.verb = "off" THEN old \cup {w.module} ELSE old \ {w.module}
  BY DEF Spliced
<1>. HIDE DEF w
<1>3. /\ Spliced(w, old) \in Members
      /\ \A m \in Module_ : m \notin Spliced(w, old) <=>
                             IF m = w.module THEN w.verb = "on" ELSE m \notin old
  BY <1>1, <1>2 DEF Members
<1>. QED
  BY <1>3 DEF w

\* A command goes on with what it was asked.
Works(t, w) ==
  /\ thread' = [thread EXCEPT ![t] = w]
  /\ w \in Work
  /\ w.verb = thread[t].verb /\ w.module = thread[t].module
  /\ w.before = thread[t].before /\ w.shown = thread[t].shown

LEMMA EndsType ==
  ASSUME DeskType, NEW t \in Thread_, NEW ok \in BOOLEAN, End(t, ok)
  PROVE  Works(t, thread'[t]) /\ thread'[t].pc = "answered" /\ thread'[t].ok = ok
<1>. DEFINE w == [thread[t] EXCEPT !.pc = "answered", !.ok = ok, !.read = {}]
<1>1. thread' = [thread EXCEPT ![t] = w]
  BY DEF End
<1>2. thread[t] \in Work /\ thread \in [Thread_ -> Work]
  BY DEF DeskType, ThreadsType
<1>3. /\ w \in Work /\ w.pc = "answered" /\ w.ok = ok /\ w.verb = thread[t].verb
      /\ w.module = thread[t].module /\ w.before = thread[t].before /\ w.shown = thread[t].shown
  BY <1>2 DEF Work, Members
<1>. HIDE DEF w
<1>. QED
  BY <1>1, <1>2, <1>3 DEF Works

\* The steps of a command, as the invariants need them.
LEMMA CommandSteps ==
  ASSUME DeskType, NEW t \in Thread_, Command(t)
  PROVE  LET v == thread[t]
             w == thread'[t]
         IN /\ Works(t, w) /\ UNCHANGED <<window, idle>>
            /\ v.pc \in {"read", "backup", "write", "engine"}
            /\ \/ /\ v.pc \in {"read", "backup", "write"} /\ w.pc = "answered"
                  /\ w.ok => v.pc = "read" /\ Spliced(v, disabled) = disabled
                  /\ UNCHANGED <<disabled, murky>>
               \/ /\ v.pc = "read" /\ w.pc = "backup" /\ w.read = disabled
                  /\ UNCHANGED <<disabled, murky>>
               \/ /\ v.pc = "backup" /\ w.pc = "write" /\ w.read = v.read
                  /\ UNCHANGED <<disabled, murky>>
               \/ /\ v.pc = "write" /\ w.pc = "answered"
                  /\ disabled' = Spliced(v, v.read) /\ murky' = (murky \/ ~w.ok)
               \/ v.pc = "engine" /\ w.pc = "answered" /\ UNCHANGED <<disabled, murky>>
<1>. DEFINE v == thread[t]
<1>0. v \in Work /\ thread \in [Thread_ -> Work] /\ disabled \in Members /\ UNCHANGED <<window, idle>>
  BY DEF DeskType, ThreadsType, FilesType, Command
<1>1. CASE Read(t)
  <2>1. v.pc = "read" /\ UNCHANGED <<disabled, murky>>
    BY <1>1 DEF Read
  <2>2. CASE End(t, FALSE) \/ (Spliced(v, disabled) = disabled /\ End(t, TRUE))
    BY <1>0, <2>1, <2>2, EndsType
  <2>3. CASE thread' = [thread EXCEPT ![t].read = disabled, ![t].pc = "backup"]
    <3>. DEFINE w == [v EXCEPT !.read = disabled, !.pc = "backup"]
    <3>1. thread' = [thread EXCEPT ![t] = w]
      BY <2>3
    <3>2. /\ w \in Work /\ w.pc = "backup" /\ w.verb = v.verb
          /\ w.module = v.module /\ w.before = v.before /\ w.shown = v.shown
          /\ w.read = disabled
      BY <1>0 DEF Work
    <3>. HIDE DEF w
    <3>. QED
      BY <1>0, <2>1, <3>1, <3>2 DEF Works
  <2>. QED
    BY <1>1, <2>2, <2>3 DEF Read
<1>2. CASE Backup(t)
  <2>1. v.pc = "backup" /\ UNCHANGED <<disabled, murky>>
    BY <1>2 DEF Backup, Fails
  <2>2. CASE End(t, FALSE)
    BY <1>0, <2>1, <2>2, EndsType
  <2>3. CASE thread' = [thread EXCEPT ![t].pc = "write"]
    <3>. DEFINE w == [v EXCEPT !.pc = "write"]
    <3>1. thread' = [thread EXCEPT ![t] = w]
      BY <2>3
    <3>2. /\ w \in Work /\ w.pc = "write" /\ w.verb = v.verb
          /\ w.module = v.module /\ w.before = v.before /\ w.shown = v.shown
          /\ w.read = v.read
      BY <1>0 DEF Work
    <3>. HIDE DEF w
    <3>. QED
      BY <1>0, <2>1, <3>1, <3>2 DEF Works
  <2>. QED
    BY <1>2, <2>2, <2>3 DEF Backup, Fails
<1>3. CASE Write(t)
  <2>1. v.pc = "write"
    BY <1>3 DEF Write
  <2>2. CASE End(t, FALSE) /\ UNCHANGED <<disabled, murky>>
    BY <1>0, <2>1, <2>2, EndsType
  <2>3. ASSUME NEW ok \in BOOLEAN, End(t, ok), disabled' = Spliced(v, v.read),
               murky' = (murky \/ ~ok)
        PROVE  /\ Works(t, thread'[t]) /\ thread'[t].pc = "answered" /\ thread'[t].ok = ok
    BY <1>0, <2>1, <2>3, EndsType
  <2>. QED
    BY <1>0, <1>3, <2>1, <2>2, <2>3 DEF Write, Fails
<1>4. CASE Engine(t)
  BY <1>0, <1>4, EndsType DEF Engine
<1>. QED
  BY <1>1, <1>2, <1>3, <1>4 DEF Command

\* A command begins.
Begins(t, verb, m) ==
  LET w == thread'[t]
  IN /\ thread' = [thread EXCEPT ![t] = w] /\ w \in Work
     /\ w.verb = verb /\ w.module = m /\ w.shown
     /\ w.pc = IF Splices(verb) THEN "read" ELSE "engine"
     /\ m \in Module_ => w.before = window.believed[m]
     /\ Free(t)
     /\ murky' = (murky \/ (Splices(verb) /\ \E u \in Thread_ : Toggles(u)))

LEMMA LaunchType ==
  ASSUME DeskType, NEW t \in Thread_, NEW verb \in {"on", "off", "update", "agree"},
         NEW m \in Module_ \cup Idents \cup {"none"}, Launch(t, verb, m)
  PROVE  Begins(t, verb, m)
<1>. DEFINE pc == IF Splices(verb) THEN "read" ELSE "engine"
            before == IF m \in Module_ THEN window.believed[m] ELSE TRUE
            w == [Asleep EXCEPT !.verb = verb, !.module = m, !.pc = pc, !.shown = TRUE,
                                !.before = before]
<1>1. thread' = [thread EXCEPT ![t] = w] /\ thread \in [Thread_ -> Work]
  BY DEF Launch, DeskType, ThreadsType
<1>2. before \in BOOLEAN /\ pc \in {"read", "engine"}
  BY DEF DeskType, WindowType
<1>3. /\ w \in Work /\ w.verb = verb /\ w.module = m /\ w.shown /\ w.pc = pc
      /\ w.before = before
  <2>. HIDE DEF before, pc
  <2>. QED
    BY <1>2 DEF Asleep, Work, Members
<1>4. /\ Free(t)
      /\ murky' = (murky \/ (Splices(verb) /\ \E u \in Thread_ : Toggles(u)))
  BY DEF Launch, Toggles
<1>. HIDE DEF w
<1>. QED
  BY <1>1, <1>3, <1>4 DEF Begins

-----------------------------------------------------------------------------
(* Types.                                                                  *)

LEMMA ThreadsStay ==
  ASSUME DeskType, NEW t \in Thread_, NEW w \in Work, thread' = [thread EXCEPT ![t] = w],
         w.pc \in {"read", "backup", "write"} => Splices(w.verb),
         w.pc = "engine" => ~Splices(w.verb),
         w.pc = "idle" <=> w.verb = "none",
         Splices(w.verb) => w.module \in Module_
  PROVE  ThreadsType'
BY DEF DeskType, ThreadsType, Toggles

LEMMA AsleepType ==
  Asleep \in Work /\ Asleep.pc = "idle" /\ Asleep.verb = "none" /\ ~Splices(Asleep.verb)
BY DEF Asleep, Work, Members, Splices

LEMMA BeginsType ==
  ASSUME DeskType, NEW t \in Thread_, NEW verb \in {"on", "off", "update", "agree"},
         NEW m, Begins(t, verb, m), Splices(verb) => m \in Module_
  PROVE  ThreadsType' /\ murky' \in BOOLEAN
<1>1. murky' \in BOOLEAN
  BY DEF Begins
<1>2. ThreadsType'
  <2>. DEFINE w == thread'[t]
  <2>1. /\ w \in Work /\ thread' = [thread EXCEPT ![t] = w] /\ w.verb = verb /\ w.module = m
        /\ w.pc = IF Splices(verb) THEN "read" ELSE "engine"
    BY DEF Begins
  <2>. HIDE DEF w
  <2>. QED
    BY <2>1, ThreadsStay
<1>. QED
  BY <1>1, <1>2

\* What an event of a switch does to the window.
LEMMA StateSetSteps ==
  ASSUME DeskType, NEW t \in Thread_, NEW m \in Module_, NEW on \in BOOLEAN, StateSet(t, m, on)
  PROVE  /\ Begins(t, Verb(on), m) /\ UNCHANGED disabled
         /\ window'.active = [window.active EXCEPT ![m] = on]
         /\ window'.believed = window.believed /\ window'.forsaken = window.forsaken
         /\ window' \in [active : [Module_ -> BOOLEAN], sensitive : SUBSET Module_,
                 believed : [Module_ -> BOOLEAN], button : BOOLEAN,
                 listed : SUBSET Idents, hidden : SUBSET Idents, stored : SUBSET Idents,
                 forsaken : SUBSET (Module_ \cup {"button"})]
<1>1. Verb(on) \in {"on", "off"}
  BY DEF Verb
<1>2. Begins(t, Verb(on), m)
  BY <1>1, LaunchType DEF StateSet
<1>. QED
  BY <1>2 DEF StateSet, DeskType, WindowType

LEMMA CallbackTypes ==
  /\ <<"button">> \in Callback
  /\ \A m \in Module_ : <<"sensitive", m>> \in Callback
  /\ \A m \in Module_, b \in BOOLEAN : <<"set active", m, b>> \in Callback
BY DEF Callback

LEMMA CallbackIs ==
  ASSUME NEW c \in Callback
  PROVE  /\ c[1] = "sensitive" => c[2] \in Module_
         /\ c[1] = "set active" => c[2] \in Module_ /\ c[3] \in BOOLEAN
<1>1. CASE c = <<"button">>
  <2>1. c[1] = "button"
    BY <1>1
  <2>. QED
    BY <2>1
<1>2. CASE c \in {"sensitive"} \X Module_
  <2>1. c[1] = "sensitive" /\ c[2] \in Module_
    BY <1>2
  <2>. QED
    BY <2>1
<1>3. CASE c \in {"set active"} \X Module_ \X BOOLEAN
  <2>1. c[1] = "set active" /\ c[2] \in Module_ /\ c[3] \in BOOLEAN
    BY <1>3
  <2>. QED
    BY <2>1
<1>. QED
  BY <1>1, <1>2, <1>3 DEF Callback

LEMMA ShortQueues ==
  /\ \A a \in Callback : <<a>> \in Seq(Callback)
  /\ \A a, b \in Callback : <<a, b>> \in Seq(Callback)
OBVIOUS

\* The queue as its positions.
LEMMA QueueTail ==
  ASSUME DeskType, idle # <<>>, idle' = Tail(idle)
  PROVE  /\ idle' \in Seq(Callback) /\ Head(idle) = idle[1] /\ idle[1] \in Callback
         /\ \A i \in DOMAIN idle' : i + 1 \in DOMAIN idle /\ idle'[i] = idle[i + 1]
         /\ \A i \in DOMAIN idle : i = 1 \/ (i - 1 \in DOMAIN idle' /\ idle'[i - 1] = idle[i])
         /\ DOMAIN idle \subseteq Nat /\ 1 \in DOMAIN idle /\ DOMAIN idle' \subseteq Nat \ {0}
<1>1. idle \in Seq(Callback)
  BY DEF DeskType, WindowType
<1>. QED
  BY <1>1

LEMMA QueueMore ==
  ASSUME DeskType, NEW s \in Seq(Callback), idle' = idle \o s
  PROVE  /\ idle' \in Seq(Callback)
         /\ DOMAIN idle \subseteq DOMAIN idle' /\ \A i \in DOMAIN idle : idle'[i] = idle[i]
         /\ DOMAIN idle' = 1 .. Len(idle) + Len(s) /\ DOMAIN idle = 1 .. Len(idle)
         /\ Len(idle) \in Nat /\ Len(s) \in Nat
         /\ \A i \in DOMAIN idle' \ DOMAIN idle :
              i - Len(idle) \in 1 .. Len(s) /\ idle'[i] = s[i - Len(idle)]
<1>1. idle \in Seq(Callback)
  BY DEF DeskType, WindowType
<1>. QED
  BY <1>1

\* What a thread leaves to the queue, and to the window.
Left(t) ==
  LET w == thread[t]
  IN (IF Toggles(t) THEN <<<<"set active", w.module, Outcome(w)>>, <<"sensitive", w.module>>>>
      ELSE <<>>) \o <<<<"button">>>>

LEMMA FinishSteps ==
  ASSUME DeskType, NEW t \in Thread_, Finish(t)
  PROVE  LET w == thread[t]
         IN /\ w.pc = "answered" /\ w.shown /\ thread' = [thread EXCEPT ![t] = Asleep]
            /\ UNCHANGED <<disabled, murky>>
            /\ idle' = idle \o Left(t) /\ Left(t) \in Seq(Callback)
            /\ WindowType' /\ window'.active = window.active
            /\ window'.forsaken = window.forsaken
            /\ window'.believed = IF Toggles(t)
                                  THEN [window.believed EXCEPT ![w.module] = Outcome(w)]
                                  ELSE window.believed
<1>. DEFINE w == thread[t]
            moves == IF Toggles(t) THEN <<<<"set active", w.module, Outcome(w)>>, <<"sensitive", w.module>>>>
                     ELSE <<>>
<1>1. /\ w \in Work /\ (Toggles(t) => w.module \in Module_)
  BY DEF DeskType, ThreadsType
<1>2. Outcome(w) \in BOOLEAN
  BY <1>1 DEF Work, Outcome
<1>3. moves \in Seq(Callback)
  <2>. DEFINE a == <<"set active", w.module, Outcome(w)>>
              b == <<"sensitive", w.module>>
  <2>1. Toggles(t) => a \in Callback /\ b \in Callback
    BY <1>1, <1>2, CallbackTypes
  <2>2. moves = IF Toggles(t) THEN <<a, b>> ELSE <<>>
    OBVIOUS
  <2>. HIDE DEF a, b, moves
  <2>. QED
    BY <2>1, <2>2, ShortQueues
<1>4. <<<<"button">>>> \in Seq(Callback)
  <2>. DEFINE a == <<"button">>
  <2>1. a \in Callback
    BY CallbackTypes
  <2>. HIDE DEF a
  <2>2. <<a>> \in Seq(Callback)
    BY <2>1, ShortQueues
  <2>. QED
    BY <2>2 DEF a
<1>5. Left(t) \in Seq(Callback)
  <2>1. Left(t) = moves \o <<<<"button">>>>
    BY DEF Left
  <2>. HIDE DEF moves
  <2>. QED
    BY <2>1, <1>3, <1>4
<1>6. idle' = idle \o Left(t)
  <2>1. CASE Toggles(t)
    <3>1. idle \o moves \o <<<<"button">>>> = idle \o (moves \o <<<<"button">>>>)
      <4>1. idle \in Seq(Callback)
        BY DEF DeskType, WindowType
      <4>. HIDE DEF moves
      <4>. QED
        BY <1>3, <1>4, <4>1, ConcatAssociative
    <3>2. idle' = idle \o moves \o <<<<"button">>>>
      BY <2>1 DEF Finish, Outcome, Toggles
    <3>. QED
      BY <3>1, <3>2 DEF Left
  <2>2. CASE ~Toggles(t)
    <3>1. idle \o moves \o <<<<"button">>>> = idle \o (moves \o <<<<"button">>>>)
      <4>1. idle \in Seq(Callback)
        BY DEF DeskType, WindowType
      <4>. HIDE DEF moves
      <4>. QED
        BY <1>3, <1>4, <4>1, ConcatAssociative
    <3>2. idle' = idle \o moves \o <<<<"button">>>>
      BY <2>2 DEF Finish, Toggles
    <3>. QED
      BY <3>1, <3>2 DEF Left
  <2>. QED
    BY <2>1, <2>2
<1>7. idle' \in Seq(Callback)
  BY <1>5, <1>6, QueueMore
<1>8. window' = CASE Toggles(t) -> [window EXCEPT !.believed[w.module] = Outcome(w)]
                  [] w.verb = "agree" /\ w.ok -> [window EXCEPT !.listed = @ \ {w.module}]
                  [] OTHER -> window
  BY DEF Finish, Outcome, Toggles
<1>9. WindowType' /\ window'.active = window.active /\ window'.forsaken = window.forsaken
      /\ window'.believed = IF Toggles(t) THEN [window.believed EXCEPT ![w.module] = Outcome(w)]
                            ELSE window.believed
  <2>1. CASE Toggles(t)
    <3>1. window' = [window EXCEPT !.believed[w.module] = Outcome(w)]
      BY <1>8, <2>1 DEF Toggles, Splices
    <3>. QED
      BY <1>1, <1>2, <1>7, <2>1, <3>1 DEF WindowType, DeskType
  <2>2. CASE ~Toggles(t) /\ w.verb = "agree" /\ w.ok
    <3>1. window' = [window EXCEPT !.listed = @ \ {w.module}]
      BY <1>8, <2>2
    <3>. QED
      BY <1>7, <2>2, <3>1 DEF WindowType, DeskType
  <2>3. CASE ~Toggles(t) /\ ~(w.verb = "agree" /\ w.ok)
    <3>1. window' = window
      BY <1>8, <2>3
    <3>. QED
      BY <1>7, <2>3, <3>1 DEF WindowType, DeskType
  <2>. QED
    BY <2>1, <2>2, <2>3
<1>. QED
  BY <1>5, <1>6, <1>9 DEF Finish

LEMMA ReopenSteps ==
  ASSUME DeskType, Reopen
  PROVE  /\ UNCHANGED disabled /\ idle' = <<>> /\ WindowType' /\ ThreadsType'
         /\ \A t \in Thread_ : /\ thread'[t].verb = thread[t].verb
                               /\ thread'[t].module = thread[t].module
                               /\ thread'[t].pc = thread[t].pc
                               /\ thread'[t].read = thread[t].read
         /\ (murky => murky') /\ murky' \in BOOLEAN
         /\ ~murky' =>
              /\ \A t \in Thread_ : ~Toggles(t)
              /\ \A m \in Module_ : window'.active[m] = On(m) /\ window'.believed[m] = On(m)
<1>1. PICK told \in BOOLEAN, listed \in {Idents, {}} :
        LET on == [m \in Module_ |-> ~told \/ m \notin disabled] IN
          /\ window' = [window EXCEPT !.active = on, !.believed = on, !.sensitive = Module_,
                           !.button = TRUE, !.listed = listed, !.hidden = window.stored,
                           !.forsaken = {}]
          /\ murky' = (murky \/ ~told \/ \E t \in Thread_ : Splices(thread[t].verb))
  BY DEF Reopen
<1>. DEFINE on == [m \in Module_ |-> ~told \/ m \notin disabled]
<1>2. on \in [Module_ -> BOOLEAN] /\ \A m \in Module_ : on[m] = (~told \/ m \notin disabled)
  OBVIOUS
<1>3. window' = [window EXCEPT !.active = on, !.believed = on, !.sensitive = Module_,
                           !.button = TRUE, !.listed = listed, !.hidden = window.stored,
                           !.forsaken = {}]
  BY <1>1
<1>4. idle' = <<>> /\ UNCHANGED disabled /\ idle' \in Seq(Callback)
  BY DEF Reopen
<1>5. /\ WindowType' /\ window'.active = on /\ window'.believed = on
  <2>. HIDE DEF on
  <2>. QED
    BY <1>2, <1>3, <1>4 DEF WindowType, DeskType
<1>6. ASSUME NEW t \in Thread_
      PROVE  /\ thread'[t] \in Work
             /\ thread'[t].verb = thread[t].verb /\ thread'[t].module = thread[t].module
             /\ thread'[t].pc = thread[t].pc /\ thread'[t].read = thread[t].read
  <2>1. thread[t] \in Work
    BY DEF DeskType, ThreadsType
  <2>2. thread'[t] = [thread[t] EXCEPT !.shown = FALSE]
    BY DEF Reopen
  <2>. QED
    BY <2>1, <2>2 DEF Work
<1>7. thread' = [t \in Thread_ |-> [thread[t] EXCEPT !.shown = FALSE]]
  BY DEF Reopen
<1>8. thread' \in [Thread_ -> Work]
  BY <1>6, <1>7
<1>9. ThreadsType'
  BY <1>6, <1>8 DEF DeskType, ThreadsType, Toggles
<1>10. (murky => murky') /\ murky' \in BOOLEAN
  BY <1>1
<1>11. ~murky' => told /\ \A t \in Thread_ : ~Toggles(t)
  BY <1>1 DEF Toggles
<1>12. \A m \in Module_ : told => on[m] = On(m)
  BY <1>2 DEF On
<1>. HIDE DEF on
<1>. QED
  BY <1>1, <1>4, <1>5, <1>6, <1>9, <1>10, <1>11, <1>12

\* A callback of the queue: it is run and gone.
LEMMA RunIdleSteps ==
  ASSUME DeskType, RunIdle
  PROVE  /\ idle # <<>> /\ idle' = Tail(idle) /\ UNCHANGED disabled
         /\ \/ /\ UNCHANGED <<murky, thread>> /\ WindowType'
               /\ window'.active = window.active /\ window'.believed = window.believed
               /\ window'.forsaken = window.forsaken
               /\ \A m \in Module_ : Moves(1, m) => window.active[m] = idle[1][3]
            \/ \E t \in Thread_, m \in Module_, on \in BOOLEAN :
                 /\ Moves(1, m) /\ window.active[m] # on
                 /\ StateSet(t, m, on) /\ WindowType'
<1>1. idle # <<>> /\ idle' = Tail(idle)
  BY DEF RunIdle
<1>2. /\ idle' \in Seq(Callback) /\ Head(idle) = idle[1] /\ idle[1] \in Callback
  BY <1>1, QueueTail
<1>. DEFINE c == idle[1]
<1>3. CASE /\ c[1] = "button" /\ window' = [window EXCEPT !.button = TRUE]
           /\ UNCHANGED <<disabled, murky, thread>>
  <2>1. /\ WindowType' /\ window'.active = window.active /\ window'.believed = window.believed
        /\ window'.forsaken = window.forsaken
    <3>. HIDE DEF c
    <3>. QED
      BY <1>2, <1>3 DEF DeskType, WindowType
  <2>2. \A m \in Module_ : ~Moves(1, m)
    BY <1>3 DEF Moves
  <2>. QED
    BY <1>1, <1>3, <2>1, <2>2
<1>4. CASE /\ c[1] = "sensitive" /\ window' = [window EXCEPT !.sensitive = @ \cup {c[2]}]
           /\ UNCHANGED <<disabled, murky, thread>>
  <2>1. c[2] \in Module_
    BY <1>2, <1>4, CallbackIs
  <2>2. /\ WindowType' /\ window'.active = window.active /\ window'.believed = window.believed
        /\ window'.forsaken = window.forsaken
    <3>. DEFINE s == c[2]
    <3>1. s \in Module_ /\ window' = [window EXCEPT !.sensitive = @ \cup {s}]
      BY <1>4, <2>1
    <3>. HIDE DEF s, c
    <3>. QED
      BY <1>2, <3>1 DEF DeskType, WindowType
  <2>3. \A m \in Module_ : ~Moves(1, m)
    BY <1>4 DEF Moves
  <2>. QED
    BY <1>1, <1>4, <2>2, <2>3
<1>5. CASE /\ c[1] = "set active" /\ window.active[c[2]] = c[3]
           /\ UNCHANGED <<disabled, murky, thread, window>>
  <2>1. WindowType'
    <3>. HIDE DEF c
    <3>. QED
      BY <1>2, <1>5 DEF DeskType, WindowType
  <2>. QED
    BY <1>1, <1>5, <2>1 DEF Moves
<1>6. CASE /\ c[1] = "set active" /\ window.active[c[2]] # c[3]
           /\ \E t \in Thread_ : StateSet(t, c[2], c[3])
  <2>1. c[2] \in Module_ /\ c[3] \in BOOLEAN
    BY <1>2, <1>6, CallbackIs
  <2>2. PICK t \in Thread_ : StateSet(t, c[2], c[3])
    BY <1>6
  <2>3. WindowType' /\ UNCHANGED disabled
    BY <1>2, <2>1, <2>2, StateSetSteps DEF WindowType
  <2>4. Moves(1, c[2])
    BY <1>6 DEF Moves
  <2>. QED
    BY <1>1, <1>6, <2>1, <2>2, <2>3, <2>4
<1>. QED
  BY <1>2, <1>3, <1>4, <1>5, <1>6 DEF RunIdle

LEMMA CommandTypes ==
  ASSUME DeskType, NEW t \in Thread_, Command(t)
  PROVE  DeskType'
<1>. DEFINE v == thread[t]
            w == thread'[t]
<1>1. /\ Works(t, w) /\ UNCHANGED <<window, idle>>
      /\ v.pc \in {"read", "backup", "write", "engine"}
      /\ w.pc = "answered" \/ v.pc = "read" \/ v.pc = "backup"
      /\ w.pc \in {"answered", "backup", "write"}
      /\ \/ UNCHANGED <<disabled, murky>>
         \/ v.pc = "write" /\ disabled' = Spliced(v, v.read) /\ murky' \in BOOLEAN
  BY CommandSteps
<1>2. /\ v \in Work /\ (v.pc \in {"read", "backup", "write"} => Splices(v.verb))
      /\ (v.pc = "idle" <=> v.verb = "none") /\ (Splices(v.verb) => v.module \in Module_)
  BY DEF DeskType, ThreadsType, Toggles
<1>3. ThreadsType'
  <2>1. /\ w \in Work /\ thread' = [thread EXCEPT ![t] = w] /\ w.verb = v.verb /\ w.module = v.module
    BY <1>1 DEF Works
  <2>. HIDE DEF w, v
  <2>. QED
    BY <1>1, <1>2, <2>1, ThreadsStay
<1>4. FilesType'
  <2>1. CASE UNCHANGED <<disabled, murky>>
    BY <2>1 DEF DeskType, FilesType
  <2>2. CASE v.pc = "write" /\ disabled' = Spliced(v, v.read) /\ murky' \in BOOLEAN
    <3>1. v.read \in Members /\ Toggles(t)
      BY <1>2, <2>2 DEF Work, Toggles
    <3>2. Spliced(v, v.read) \in Members
      BY <3>1, SplicedType
    <3>. QED
      BY <2>2, <3>2 DEF FilesType
  <2>. QED
    BY <1>1, <2>1, <2>2
<1>5. WindowType'
  BY <1>1 DEF DeskType, WindowType
<1>. QED
  BY <1>3, <1>4, <1>5 DEF DeskType

\* A thread whose work raised.
LEMMA RaiseSteps ==
  ASSUME DeskType, NEW t \in Thread_, Raise(t)
  PROVE  /\ thread' = [thread EXCEPT ![t] = Asleep] /\ UNCHANGED <<disabled, murky, idle>>
         /\ WindowType' /\ window'.active = window.active /\ window'.believed = window.believed
         /\ window.forsaken \subseteq window'.forsaken
         /\ Toggles(t) => thread[t].module \in window'.forsaken
<1>. DEFINE c == IF Splices(thread[t].verb) THEN thread[t].module ELSE "button"
<1>1. /\ thread' = [thread EXCEPT ![t] = Asleep] /\ UNCHANGED <<disabled, murky, idle>>
      /\ window' = [window EXCEPT !.forsaken = window.forsaken \cup {c}]
  BY DEF Raise
<1>2. c \in Module_ \cup {"button"} /\ (Toggles(t) => c = thread[t].module)
  BY DEF DeskType, ThreadsType, Toggles
<1>. HIDE DEF c
<1>3. /\ WindowType' /\ window'.active = window.active /\ window'.believed = window.believed
      /\ window'.forsaken = window.forsaken \cup {c}
  BY <1>1, <1>2 DEF DeskType, WindowType
<1>. QED
  BY <1>1, <1>2, <1>3

LEMMA DeskTypes ==
  ASSUME DeskType, DeskNext
  PROVE  DeskType'
<1>1. ASSUME NEW t \in Thread_, Finish(t) \/ Raise(t) \/ Dismiss(t) PROVE DeskType'
  <2>1. thread' = [thread EXCEPT ![t] = Asleep] /\ UNCHANGED <<disabled, murky>> /\ WindowType'
    <3>1. CASE Finish(t)
      BY <3>1, FinishSteps
    <3>2. CASE Dismiss(t)
      BY <3>2 DEF Dismiss, DeskType, WindowType
    <3>3. CASE Raise(t)
      BY <3>3, RaiseSteps
    <3>. QED
      BY <1>1, <3>1, <3>2, <3>3
  <2>2. ThreadsType'
    BY <2>1, AsleepType, ThreadsStay
  <2>. QED
    BY <2>1, <2>2 DEF DeskType, FilesType
<1>2. ASSUME NEW t \in Thread_, Update(t) \/ \E i \in Idents : Agree(t, i)
      PROVE  DeskType'
  <2>1. PICK verb \in {"update", "agree"}, m \in Module_ \cup Idents \cup {"none"} :
          Launch(t, verb, m)
    BY <1>2 DEF Update, Agree
  <2>2. UNCHANGED <<disabled, idle>> /\ window' \in {window, [window EXCEPT !.button = FALSE]}
    BY <1>2 DEF Update, Agree
  <2>a. verb \in {"on", "off", "update", "agree"} /\ ~Splices(verb)
    BY DEF Splices
  <2>b. Begins(t, verb, m)
    BY <2>1, <2>a, LaunchType
  <2>3. ThreadsType' /\ murky' \in BOOLEAN
    BY <2>a, <2>b, BeginsType
  <2>4. WindowType'
    BY <2>2 DEF DeskType, WindowType
  <2>. QED
    BY <2>2, <2>3, <2>4 DEF DeskType, FilesType
<1>3. ASSUME NEW t \in Thread_, NEW m \in Module_, NEW on \in BOOLEAN, StateSet(t, m, on),
             idle' \in Seq(Callback)
      PROVE  DeskType'
  <2>1. Verb(on) \in {"on", "off"}
    BY DEF Verb
  <2>. DEFINE verb == Verb(on)
  <2>a. Begins(t, verb, m)
    BY <1>3, StateSetSteps
  <2>. HIDE DEF verb
  <2>2. ThreadsType' /\ murky' \in BOOLEAN
    BY <2>a, <2>1, BeginsType DEF verb
  <2>3. WindowType' /\ UNCHANGED disabled
    BY <1>3, StateSetSteps DEF WindowType
  <2>. QED
    BY <2>2, <2>3 DEF DeskType, FilesType
<1>4. ASSUME NEW t \in Thread_, NEW m \in Module_, Click(t, m) PROVE DeskType'
  <2>1. (~window.active[m]) \in BOOLEAN /\ idle' \in Seq(Callback)
    BY <1>4 DEF Click, DeskType, WindowType
  <2>. QED
    BY <1>3, <1>4, <2>1 DEF Click
<1>5. CASE RunIdle
  <2>1. idle' \in Seq(Callback)
    BY <1>5, RunIdleSteps, QueueTail
  <2>2. CASE UNCHANGED <<murky, thread>> /\ WindowType'
    <3>1. UNCHANGED disabled
      BY <1>5, RunIdleSteps
    <3>2. FilesType'
      BY <2>2, <3>1 DEF DeskType, FilesType
    <3>3. ThreadsType'
      BY <2>2 DEF DeskType, ThreadsType, Toggles
    <3>. QED
      BY <2>2, <3>2, <3>3 DEF DeskType
  <2>. QED
    BY <1>3, <1>5, <2>1, <2>2, RunIdleSteps
<1>6. CASE Reopen
  <2>1. UNCHANGED disabled /\ WindowType' /\ ThreadsType' /\ murky' \in BOOLEAN
    BY <1>6, ReopenSteps
  <2>. QED
    BY <2>1 DEF DeskType, FilesType
<1>7. ASSUME NEW i \in Idents, Hide(i) PROVE DeskType'
  <2>1. UNCHANGED <<disabled, murky, thread, idle>>
    BY <1>7 DEF Hide
  <2>2. \E h, s \in SUBSET Idents : window' = [window EXCEPT !.hidden = h, !.stored = s]
    BY <1>7 DEF Hide, DeskType, WindowType
  <2>3. WindowType'
    BY <2>1, <2>2 DEF DeskType, WindowType
  <2>. QED
    BY <2>1, <2>3 DEF DeskType, FilesType, ThreadsType, Toggles
<1>. QED
  BY <1>1, <1>2, <1>4, <1>5, <1>6, <1>7, CommandTypes DEF DeskNext

-----------------------------------------------------------------------------
(* The file.                                                               *)

LEMMA SpliceSame ==
  ASSUME SpliceInv, UNCHANGED disabled, murky => murky',
         \A t \in Thread_ : /\ thread'[t].verb = thread[t].verb /\ thread'[t].pc = thread[t].pc
                            /\ thread'[t].read = thread[t].read
  PROVE  SpliceInv'
BY DEF SpliceInv, Toggles

LEMMA SpliceEnds ==
  ASSUME DeskType, SpliceInv, UNCHANGED <<disabled, murky>>, NEW t \in Thread_,
         thread' = [thread EXCEPT ![t] = Asleep]
  PROVE  SpliceInv'
<1>1. /\ ~Toggles(t)'
      /\ \A u \in Thread_ \ {t} : thread'[u] = thread[u]
  BY AsleepType DEF DeskType, ThreadsType, Toggles
<1>2. \A u \in Thread_ \ {t} : Toggles(u)' <=> Toggles(u)
  BY <1>1 DEF Toggles
<1>. QED
  BY <1>1, <1>2 DEF SpliceInv

LEMMA SpliceBegins ==
  ASSUME DeskType, SpliceInv, UNCHANGED disabled, NEW t \in Thread_,
         NEW verb \in {"on", "off", "update", "agree"}, NEW m, Begins(t, verb, m)
  PROVE  SpliceInv'
<1>1. /\ thread'[t].pc \in {"read", "engine"} /\ (Toggles(t)' <=> Splices(verb))
      /\ \A u \in Thread_ \ {t} : thread'[u] = thread[u]
      /\ murky => murky'
  BY DEF Begins, DeskType, ThreadsType, Toggles
<1>2. \A u \in Thread_ \ {t} : Toggles(u)' <=> Toggles(u)
  BY <1>1 DEF Toggles
<1>3. Splices(verb) /\ ~murky' => \A u \in Thread_ : ~Toggles(u)
  BY DEF Begins
<1>. QED
  BY <1>1, <1>2, <1>3 DEF SpliceInv

LEMMA SpliceWorks ==
  ASSUME DeskType, SpliceInv, NEW t \in Thread_, Command(t)
  PROVE  SpliceInv'
<1>. DEFINE v == thread[t]
            w == thread'[t]
<1>1. /\ Works(t, w)
      /\ v.pc \in {"read", "backup", "write", "engine"}
      /\ \/ w.pc = "answered" /\ UNCHANGED <<disabled, murky>>
         \/ /\ v.pc = "read" /\ w.pc = "backup" /\ w.read = disabled
            /\ UNCHANGED <<disabled, murky>>
         \/ /\ v.pc = "backup" /\ w.pc = "write" /\ w.read = v.read
            /\ UNCHANGED <<disabled, murky>>
         \/ v.pc = "write" /\ w.pc = "answered" /\ (murky => murky')
  BY CommandSteps
<1>2. /\ w.verb = v.verb
      /\ \A u \in Thread_ \ {t} : thread'[u] = thread[u]
  BY <1>1 DEF Works, DeskType, ThreadsType
<1>3. \A u \in Thread_ : Toggles(u)' <=> Toggles(u)
  BY <1>2 DEF Toggles
<1>4. v.pc = "write" => Toggles(t)
  BY DEF DeskType, ThreadsType
<1>. HIDE DEF v, w
<1>5. CASE UNCHANGED <<disabled, murky>>
  BY <1>1, <1>2, <1>3, <1>5 DEF SpliceInv, v, w
<1>6. CASE v.pc = "write" /\ w.pc = "answered" /\ (murky => murky')
  <2>. SUFFICES ASSUME ~murky'
       PROVE  /\ \A u, x \in Thread_ : Toggles(u)' /\ Toggles(x)' => u = x
              /\ \A u \in Thread_ : Toggles(u)' /\ thread'[u].pc \in {"backup", "write"} =>
                   thread'[u].read = disabled'
    BY DEF SpliceInv
  <2>1. \A u, x \in Thread_ : Toggles(u) /\ Toggles(x) => u = x
    BY <1>6 DEF SpliceInv
  <2>2. \A u \in Thread_ : Toggles(u)' => thread'[u].pc = "answered"
    BY <1>3, <1>4, <1>6, <2>1 DEF w
  <2>. QED
    BY <1>3, <2>1, <2>2
<1>. QED
  BY <1>1, <1>5, <1>6

LEMMA SpliceKept ==
  ASSUME DeskType, SpliceInv, DeskNext
  PROVE  SpliceInv'
<1>1. ASSUME NEW t \in Thread_, Finish(t) \/ Raise(t) \/ Dismiss(t) PROVE SpliceInv'
  <2>1. thread' = [thread EXCEPT ![t] = Asleep] /\ UNCHANGED <<disabled, murky>>
    BY <1>1, FinishSteps, RaiseSteps DEF Dismiss
  <2>. QED
    BY <2>1, SpliceEnds
<1>2. ASSUME NEW t \in Thread_, Update(t) \/ \E i \in Idents : Agree(t, i)
      PROVE  SpliceInv'
  <2>1. PICK verb \in {"update", "agree"}, m \in Module_ \cup Idents \cup {"none"} :
          Launch(t, verb, m)
    BY <1>2 DEF Update, Agree
  <2>2. UNCHANGED disabled
    BY <1>2 DEF Update, Agree
  <2>. QED
    BY <2>1, <2>2, LaunchType, SpliceBegins
<1>3. ASSUME NEW t \in Thread_, NEW m \in Module_, NEW on \in BOOLEAN, StateSet(t, m, on)
      PROVE  SpliceInv'
  <2>. DEFINE verb == Verb(on)
  <2>1. verb \in {"on", "off"}
    BY DEF Verb
  <2>2. Begins(t, verb, m) /\ UNCHANGED disabled
    BY <1>3, StateSetSteps
  <2>. HIDE DEF verb
  <2>. QED
    BY <2>1, <2>2, SpliceBegins
<1>4. ASSUME NEW t \in Thread_, NEW m \in Module_, Click(t, m) PROVE SpliceInv'
  <2>1. (~window.active[m]) \in BOOLEAN
    OBVIOUS
  <2>. QED
    BY <1>3, <1>4, <2>1 DEF Click
<1>5. CASE RunIdle
  <2>1. CASE UNCHANGED <<disabled, murky, thread>>
    BY <2>1, SpliceSame
  <2>. QED
    BY <1>3, <1>5, <2>1, RunIdleSteps
<1>6. CASE Reopen
  BY <1>6, ReopenSteps, SpliceSame
<1>7. CASE \E i \in Idents : Hide(i)
  <2>1. UNCHANGED <<disabled, murky, thread>>
    BY <1>7 DEF Hide
  <2>. QED
    BY <2>1, SpliceSame
<1>. QED
  BY <1>1, <1>2, <1>4, <1>5, <1>6, <1>7, SpliceWorks DEF DeskNext

-----------------------------------------------------------------------------
(* The switches.                                                           *)

\* One command at a time is about a switch.
LEMMA OneToggles ==
  ASSUME SpliceInv, ~murky
  PROVE  \A t, u \in Thread_ : Toggles(t) /\ Toggles(u) => t = u
BY DEF SpliceInv

\* The switch of a module whose commands, beliefs and queue a step leaves alone.
LEMMA SettledSame ==
  ASSUME NEW m, Settled(m), idle' = idle, On(m)' = On(m),
         window'.active[m] = window.active[m], window'.believed[m] = window.believed[m]
  PROVE  Settled(m)'
BY DEF Settled, Moves

LEMMA SettledTail ==
  ASSUME DeskType, NEW m, Settled(m), idle # <<>>, idle' = Tail(idle), On(m)' = On(m),
         window'.active[m] = window.active[m], window'.believed[m] = window.believed[m],
         Moves(1, m) => window.active[m] = idle[1][3]
  PROVE  Settled(m)'
<1>1. /\ \A i \in DOMAIN idle' : i + 1 \in DOMAIN idle /\ idle'[i] = idle[i + 1]
      /\ \A i \in DOMAIN idle : i = 1 \/ (i - 1 \in DOMAIN idle' /\ idle'[i - 1] = idle[i])
      /\ DOMAIN idle \subseteq Nat /\ 1 \in DOMAIN idle /\ DOMAIN idle' \subseteq Nat \ {0}
  BY QueueTail
<1>2. /\ \A i \in DOMAIN idle' : Moves(i, m)' <=> Moves(i + 1, m)
      /\ \A i \in DOMAIN idle : i # 1 => (Moves(i, m) <=> Moves(i - 1, m)')
  BY <1>1 DEF Moves
<1>3. ASSUME NEW i \in DOMAIN idle', Moves(i, m)', \A k \in DOMAIN idle' : k > i => ~Moves(k, m)'
      PROVE  idle'[i][3] = On(m)
  <2>1. i + 1 \in DOMAIN idle /\ Moves(i + 1, m) /\ i \in Nat \ {0}
    BY <1>1, <1>2, <1>3
  <2>2. ASSUME NEW k \in DOMAIN idle, k > i + 1 PROVE ~Moves(k, m)
    <3>1. k # 1 /\ k - 1 \in DOMAIN idle' /\ k - 1 > i
      BY <1>1, <2>1, <2>2
    <3>2. ~Moves(k - 1, m)'
      BY <1>3, <3>1
    <3>. QED
      BY <1>2, <3>1, <3>2
  <2>. QED
    BY <1>1, <2>1, <2>2 DEF Settled
<1>4. ASSUME \A i \in DOMAIN idle' : ~Moves(i, m)' PROVE window.active[m] = On(m)
  <2>1. \A i \in DOMAIN idle : i # 1 => ~Moves(i, m)
    BY <1>1, <1>2, <1>4
  <2>2. CASE Moves(1, m)
    BY <1>1, <2>1, <2>2 DEF Settled
  <2>3. CASE ~Moves(1, m)
    BY <2>1, <2>3 DEF Settled
  <2>. QED
    BY <2>2, <2>3
<1>. QED
  BY <1>3, <1>4 DEF Settled

LEMMA SettledMore ==
  ASSUME DeskType, NEW m, Settled(m), NEW s \in Seq(Callback), idle' = idle \o s,
         \A i \in 1 .. Len(s) : ~(s[i][1] = "set active" /\ s[i][2] = m), On(m)' = On(m),
         window'.active[m] = window.active[m], window'.believed[m] = window.believed[m]
  PROVE  Settled(m)'
<1>1. /\ DOMAIN idle \subseteq DOMAIN idle' /\ \A i \in DOMAIN idle : idle'[i] = idle[i]
      /\ \A i \in DOMAIN idle' \ DOMAIN idle :
           i - Len(idle) \in 1 .. Len(s) /\ idle'[i] = s[i - Len(idle)]
  BY QueueMore
<1>2. \A i \in DOMAIN idle : Moves(i, m)' <=> Moves(i, m)
  BY <1>1 DEF Moves
<1>3. ASSUME NEW i \in DOMAIN idle' \ DOMAIN idle PROVE ~Moves(i, m)'
  <2>1. PICK k \in 1 .. Len(s) : idle'[i] = s[k]
    BY <1>1
  <2>2. ~(s[k][1] = "set active" /\ s[k][2] = m)
    OBVIOUS
  <2>. QED
    BY <2>1, <2>2, Zenon DEF Moves
<1>4. \A i \in DOMAIN idle' : Moves(i, m)' => i \in DOMAIN idle /\ Moves(i, m)
  BY <1>2, <1>3
<1>. QED
  BY <1>1, <1>2, <1>4 DEF Settled

\* The three callbacks of an answered switch come last.
LEMMA QueueThree ==
  ASSUME DeskType, NEW s \in Seq(Callback), Len(s) = 3, idle' = idle \o s
  PROVE  \E n \in DOMAIN idle' :
           /\ n + 1 \in DOMAIN idle' /\ n + 2 \in DOMAIN idle'
           /\ idle'[n] = s[1] /\ idle'[n + 1] = s[2] /\ idle'[n + 2] = s[3]
           /\ \A i \in DOMAIN idle' : i > n => i = n + 1 \/ i = n + 2
           /\ \A i \in DOMAIN idle' : i > n \/ i = n \/ n > i
<1>1. /\ DOMAIN idle' = 1 .. Len(idle) + 3 /\ DOMAIN idle = 1 .. Len(idle) /\ Len(idle) \in Nat
      /\ \A i \in DOMAIN idle' \ DOMAIN idle : idle'[i] = s[i - Len(idle)]
  BY QueueMore
<1>. DEFINE l == Len(idle)
            q == idle'
            d == DOMAIN idle'
            e == DOMAIN idle
<1>2. /\ d = 1 .. l + 3 /\ e = 1 .. l /\ l \in Nat
      /\ \A i \in d \ e : q[i] = s[i - l]
  BY <1>1
<1>3. /\ l + 1 \in d /\ l + 1 + 1 \in d /\ l + 1 + 2 \in d
      /\ q[l + 1] = s[1] /\ q[l + 1 + 1] = s[2] /\ q[l + 1 + 2] = s[3]
      /\ \A i \in d : i > l + 1 => i = l + 1 + 1 \/ i = l + 1 + 2
      /\ \A i \in d : i > l + 1 \/ i = l + 1 \/ l + 1 > i
  <2>. HIDE DEF l, q, d, e
  <2>1. l + 1 \in d \ e /\ l + 1 + 1 \in d \ e /\ l + 1 + 2 \in d \ e
        /\ l + 1 - l = 1 /\ l + 1 + 1 - l = 2 /\ l + 1 + 2 - l = 3
    BY <1>2
  <2>2. q[l + 1] = s[1] /\ q[l + 1 + 1] = s[2] /\ q[l + 1 + 2] = s[3]
    <3>. DEFINE x == l + 1
                y == l + 1 + 1
                z == l + 1 + 2
    <3>1. /\ x \in d \ e /\ x - l = 1 /\ y \in d \ e /\ y - l = 2
          /\ z \in d \ e /\ z - l = 3
      BY <1>2, <2>1
    <3>. HIDE DEF x, y, z
    <3>2. q[x] = s[x - l] /\ q[y] = s[y - l] /\ q[z] = s[z - l]
      BY <1>2, <3>1, Zenon
    <3>3. q[x] = s[1] /\ q[y] = s[2] /\ q[z] = s[3]
      BY <3>1, <3>2, Zenon
    <3>. QED
      BY <3>3 DEF x, y, z
  <2>. QED
    BY <1>2, <2>1, <2>2
<1>4. l + 1 \in DOMAIN idle'
  BY <1>3
<1>. QED
  BY <1>3, <1>4

\* A switch that was just answered: the last move is to what was found.
LEMMA SettledAnew ==
  ASSUME DeskType, NEW m, NEW s \in Seq(Callback), idle' = idle \o s,
         window'.believed[m] = On(m)', Len(s) = 3,
         s[1][1] = "set active", s[1][2] = m, s[1][3] = On(m)',
         s[2][1] # "set active", s[3][1] # "set active"
  PROVE  Settled(m)'
<1>1. PICK n \in DOMAIN idle' :
           /\ n + 1 \in DOMAIN idle' /\ n + 2 \in DOMAIN idle'
           /\ idle'[n] = s[1] /\ idle'[n + 1] = s[2] /\ idle'[n + 2] = s[3]
           /\ \A i \in DOMAIN idle' : i > n => i = n + 1 \/ i = n + 2
           /\ \A i \in DOMAIN idle' : i > n \/ i = n \/ n > i
  BY QueueThree
<1>2. \A i \in DOMAIN idle' : Moves(i, m)' <=> (idle'[i][1] = "set active" /\ idle'[i][2] = m)
  BY DEF Moves
<1>3. idle'[n][1] = "set active" /\ idle'[n][2] = m /\ idle'[n][3] = On(m)'
  BY <1>1
<1>4. Moves(n, m)'
  BY <1>2, <1>3
<1>5. ~Moves(n + 1, m)' /\ ~Moves(n + 2, m)'
  BY <1>1, <1>2
<1>6. ASSUME NEW i \in DOMAIN idle', Moves(i, m)', \A k \in DOMAIN idle' : k > i => ~Moves(k, m)'
      PROVE  idle'[i][3] = On(m)'
  <2>1. ~(n > i)
    BY <1>4, <1>6
  <2>2. ~(i > n)
    BY <1>1, <1>5, <1>6
  <2>3. i = n
    BY <1>1, <2>1, <2>2
  <2>. QED
    BY <1>3, <2>3
<1>. QED
  BY <1>4, <1>6 DEF Settled

LEMMA AskedSame ==
  ASSUME NEW t, NEW m, Asked(t, m), thread'[t] = thread[t], On(m)' = On(m),
         window'.active[m] = window.active[m], window'.believed[m] = window.believed[m]
  PROVE  Asked(t, m)'
BY DEF Asked, Outcome

LEMMA OnSame ==
  ASSUME NEW m, disabled' = disabled
  PROVE  On(m)' = On(m)
BY DEF On

\* A step that leaves the switches, what is believed of them, the queue, and the
\* commands about them as they are.
LEMMA SwitchSame ==
  ASSUME SwitchInv, murky => murky', idle' = idle, disabled' = disabled,
         window'.active = window.active, window'.believed = window.believed,
         window.forsaken \subseteq window'.forsaken,
         \A t \in Thread_ : thread'[t] = thread[t] \/ (~Toggles(t) /\ ~Toggles(t)')
  PROVE  SwitchInv'
<1>. SUFFICES ASSUME ~murky', NEW m \in Module_ \ window'.forsaken
     PROVE  /\ \A t \in Thread_ : Toggling(t, m)' => Asked(t, m)'
            /\ (\A t \in Thread_ : ~Toggling(t, m)') => Settled(m)'
  BY DEF SwitchInv
<1>1. \A t \in Thread_ : /\ Toggling(t, m)' <=> Toggling(t, m)
                         /\ Toggling(t, m) => thread'[t] = thread[t]
  BY DEF Toggling, Toggles
<1>2. /\ \A t \in Thread_ : Toggling(t, m) => Asked(t, m)
      /\ (\A t \in Thread_ : ~Toggling(t, m)) => Settled(m)
  BY DEF SwitchInv
<1>3. On(m)' = On(m)
  BY OnSame
<1>. QED
  BY <1>1, <1>2, <1>3, AskedSame, SettledSame

LEMMA SwitchWorks ==
  ASSUME DeskType, SpliceInv, SwitchInv, NEW t \in Thread_, Command(t)
  PROVE  SwitchInv'
<1>. SUFFICES ASSUME ~murky', NEW m \in Module_ \ window'.forsaken
     PROVE  /\ \A u \in Thread_ : Toggling(u, m)' => Asked(u, m)'
            /\ (\A u \in Thread_ : ~Toggling(u, m)') => Settled(m)'
  BY DEF SwitchInv
<1>. DEFINE v == thread[t]
            w == thread'[t]
<1>1. /\ Works(t, w) /\ UNCHANGED <<window, idle>>
      /\ \/ /\ v.pc \in {"read", "backup", "write"} /\ w.pc = "answered"
            /\ w.ok => v.pc = "read" /\ Spliced(v, disabled) = disabled
            /\ UNCHANGED <<disabled, murky>>
         \/ v.pc = "read" /\ w.pc = "backup" /\ UNCHANGED <<disabled, murky>>
         \/ v.pc = "backup" /\ w.pc = "write" /\ UNCHANGED <<disabled, murky>>
         \/ /\ v.pc = "write" /\ w.pc = "answered"
            /\ disabled' = Spliced(v, v.read) /\ murky' = (murky \/ ~w.ok)
         \/ v.pc = "engine" /\ w.pc = "answered" /\ UNCHANGED <<disabled, murky>>
  BY CommandSteps
<1>2. /\ v \in Work /\ w \in Work /\ w.verb = v.verb /\ w.module = v.module
      /\ w.before = v.before /\ w.shown = v.shown
      /\ \A u \in Thread_ \ {t} : thread'[u] = thread[u]
  BY <1>1 DEF Works, DeskType, ThreadsType
<1>3. ~murky /\ m \in Module_ \ window.forsaken
  <2>1. window' = window
    BY <1>1
  <2>2. murky => murky'
    BY <1>1
  <2>. QED
    BY <2>1, <2>2
<1>4. \A u \in Thread_ : Toggling(u, m)' <=> Toggling(u, m)
  BY <1>2 DEF Toggling, Toggles
<1>5. /\ \A u \in Thread_ : Toggling(u, m) => Asked(u, m)
      /\ (\A u \in Thread_ : ~Toggling(u, m)) => Settled(m)
  BY <1>3 DEF SwitchInv
<1>6. /\ v.pc \in {"read", "backup", "write"} => Toggles(t)
      /\ v.pc = "engine" => ~Toggles(t)
  BY DEF DeskType, ThreadsType
<1>7. CASE ~Toggling(t, m)
  <2>1. On(m)' = On(m)
    <3>1. CASE UNCHANGED disabled
      BY <3>1, OnSame
    <3>2. CASE v.pc = "write" /\ disabled' = Spliced(v, v.read)
      <4>1. Toggles(t) /\ v.read = disabled /\ m # v.module
        BY <1>3, <1>6, <1>7, <3>2 DEF SpliceInv, Toggling
      <4>2. m \notin Spliced(v, v.read) <=> m \notin v.read
        BY <1>2, <4>1, SplicedType DEF Work
      <4>. QED
        BY <3>2, <4>1, <4>2 DEF On
    <3>. QED
      BY <1>1, <3>1, <3>2
  <2>2. \A u \in Thread_ : Toggling(u, m) => thread'[u] = thread[u]
    BY <1>2, <1>7
  <2>3. window' = window /\ idle' = idle
    BY <1>1
  <2>. QED
    BY <1>4, <1>5, <2>1, <2>2, <2>3, AskedSame, SettledSame
<1>8. CASE Toggling(t, m)
  <2>1. Toggles(t) /\ v.module = m /\ v.pc # "engine"
    BY <1>6, <1>8 DEF Toggling
  <2>2. \A u \in Thread_ : Toggling(u, m) => u = t
    BY <1>3, <2>1, OneToggles DEF Toggling
  <2>3. /\ v.shown /\ window.active[m] = (v.verb = "on") /\ v.before = window.believed[m]
        /\ v.pc # "answered" => On(m) = v.before
    BY <1>5, <1>8 DEF Asked
  <2>4. On(m)' = IF w.pc = "answered" THEN Outcome(w) ELSE w.before
    <3>2. \A old \in Members : m \notin Spliced(v, old) <=> v.verb = "on"
      BY <2>1, SplicedType
    <3>3. disabled \in Members /\ v.read \in Members
      BY <1>2 DEF DeskType, FilesType, Work
    <3>4. CASE v.pc \in {"read", "backup", "write"} /\ w.pc = "answered" /\ UNCHANGED disabled
               /\ (w.ok => Spliced(v, disabled) = disabled)
      <4>1. On(m)' = On(m) /\ On(m) = v.before
        BY <2>3, <3>4, OnSame
      <4>2. CASE w.ok
        <5>1. On(m) <=> v.verb = "on"
          BY <3>2, <3>3, <3>4, <4>2 DEF On
        <5>2. On(m) \in BOOLEAN
          BY DEF On
        <5>. QED
          BY <1>2, <3>4, <4>1, <4>2, <5>1, <5>2 DEF Outcome
      <4>3. CASE ~w.ok
        BY <1>2, <3>4, <4>1, <4>3 DEF Outcome
      <4>. QED
        BY <4>2, <4>3
    <3>5. CASE v.pc # "answered" /\ w.pc # "answered" /\ UNCHANGED disabled
      BY <1>2, <2>3, <3>5, OnSame
    <3>6. CASE /\ v.pc = "write" /\ w.pc = "answered"
               /\ disabled' = Spliced(v, v.read) /\ murky' = (murky \/ ~w.ok)
      <4>1. w.ok
        BY <3>6
      <4>2. On(m)' <=> v.verb = "on"
        BY <3>2, <3>3, <3>6 DEF On
      <4>3. On(m)' \in BOOLEAN
        BY DEF On
      <4>. QED
        BY <1>2, <3>6, <4>1, <4>2, <4>3 DEF Outcome
    <3>. QED
      BY <1>1, <2>1, <3>4, <3>5, <3>6
  <2>5. Asked(t, m)'
    BY <1>1, <1>2, <2>3, <2>4 DEF Asked, Outcome
  <2>. QED
    BY <1>4, <1>8, <2>2, <2>5
<1>. QED
  BY <1>7, <1>8

\* A command about a switch begins when the switch moves; no other one works on
\* the file then.
LEMMA SwitchBegins ==
  ASSUME DeskType, SwitchInv, NEW t \in Thread_, NEW n \in Module_, NEW on \in BOOLEAN,
         StateSet(t, n, on), window.active[n] # on,
         \/ idle' = idle
         \/ idle # <<>> /\ idle' = Tail(idle) /\ Moves(1, n)
  PROVE  SwitchInv'
<1>. DEFINE verb == Verb(on)
<1>1. verb \in {"on", "off"} /\ (verb = "on") = on
  BY DEF Verb
<1>2. /\ Begins(t, verb, n) /\ UNCHANGED disabled
      /\ window'.active = [window.active EXCEPT ![n] = on]
      /\ window'.believed = window.believed /\ window'.forsaken = window.forsaken
  <2>1. Begins(t, verb, n)
    BY StateSetSteps
  <2>2. UNCHANGED disabled
    BY StateSetSteps
  <2>3. window'.active = [window.active EXCEPT ![n] = on]
    BY DEF StateSet, DeskType, WindowType
  <2>4. window'.believed = window.believed /\ window'.forsaken = window.forsaken
    BY StateSetSteps
  <2>. QED
    BY <2>1, <2>2, <2>3, <2>4
<1>. SUFFICES ASSUME ~murky', NEW m \in Module_ \ window'.forsaken
     PROVE  /\ \A u \in Thread_ : Toggling(u, m)' => Asked(u, m)'
            /\ (\A u \in Thread_ : ~Toggling(u, m)') => Settled(m)'
  BY DEF SwitchInv
<1>. HIDE DEF verb
<1>3. /\ thread'[t].verb = verb /\ thread'[t].module = n /\ thread'[t].shown
      /\ thread'[t].pc = "read" /\ thread'[t].before = window.believed[n]
      /\ \A u \in Thread_ \ {t} : thread'[u] = thread[u]
  BY <1>1, <1>2 DEF Begins, DeskType, ThreadsType, Splices
<1>4. ~murky /\ Splices(verb)
  BY <1>1, <1>2 DEF Begins, Splices
<1>5. \A u \in Thread_ : ~Toggles(u)
  BY <1>2, <1>4 DEF Begins
<1>6. m \in Module_ \ window.forsaken /\ Settled(m)
  BY <1>2, <1>4, <1>5 DEF SwitchInv, Toggling
<1>7. \A k \in Module_ : On(k)' = On(k)
  BY <1>2, OnSame
<1>8. \A u \in Thread_ \ {t} : ~Toggling(u, m)'
  BY <1>3, <1>5 DEF Toggling, Toggles
<1>9. CASE m = n
  <2>1. window'.active[n] = on /\ window.believed[n] = On(n)
    BY <1>2, <1>6, <1>9 DEF DeskType, WindowType, Settled
  <2>2. Toggling(t, m)' /\ Asked(t, m)'
    BY <1>1, <1>2, <1>3, <1>4, <1>7, <1>9, <2>1 DEF Toggling, Toggles, Asked
  <2>. QED
    BY <1>8, <2>2
<1>10. CASE m # n
  <2>1. window'.active[m] = window.active[m] /\ ~Toggling(t, m)'
    BY <1>2, <1>3, <1>10 DEF DeskType, WindowType, Toggling
  <2>2. CASE idle' = idle
    BY <1>2, <1>6, <1>7, <1>8, <2>1, <2>2, SettledSame
  <2>3. CASE idle # <<>> /\ idle' = Tail(idle) /\ Moves(1, n)
    <3>1. ~Moves(1, m)
      BY <1>10, <2>3 DEF Moves
    <3>. QED
      BY <1>2, <1>6, <1>7, <1>8, <2>1, <2>3, <3>1, SettledTail
  <2>. QED
    BY <1>8, <2>1, <2>2, <2>3
<1>. QED
  BY <1>9, <1>10

LEMMA ThreeLeft ==
  ASSUME NEW a, NEW b, NEW c
  PROVE  /\ Len(<<a, b>> \o <<c>>) = 3
         /\ (<<a, b>> \o <<c>>)[1] = a /\ (<<a, b>> \o <<c>>)[2] = b /\ (<<a, b>> \o <<c>>)[3] = c
         /\ Len(<<>> \o <<c>>) = 1 /\ (<<>> \o <<c>>)[1] = c
OBVIOUS

LEMMA LeftIs ==
  ASSUME NEW t \in Thread_
  PROVE  /\ Toggles(t) =>
              /\ Len(Left(t)) = 3 /\ Left(t)[1][1] = "set active"
              /\ Left(t)[1][2] = thread[t].module /\ Left(t)[1][3] = Outcome(thread[t])
              /\ Left(t)[2][1] = "sensitive" /\ Left(t)[3][1] = "button"
         /\ ~Toggles(t) => Len(Left(t)) = 1 /\ Left(t)[1][1] = "button"
<1>. DEFINE w == thread[t]
            a == <<"set active", w.module, Outcome(w)>>
            b == <<"sensitive", w.module>>
            c == <<"button">>
<1>1. Left(t) = (IF Toggles(t) THEN <<a, b>> ELSE <<>>) \o <<c>>
  BY DEF Left
<1>2. a[1] = "set active" /\ a[2] = w.module /\ a[3] = Outcome(w)
      /\ b[1] = "sensitive" /\ c[1] = "button"
  OBVIOUS
<1>. HIDE DEF a, b, c
<1>3. CASE Toggles(t)
  <2>1. Len(Left(t)) = 3 /\ Left(t)[1] = a /\ Left(t)[2] = b /\ Left(t)[3] = c
    BY <1>1, <1>3, ThreeLeft
  <2>. QED
    BY <1>2, <1>3, <2>1
<1>4. CASE ~Toggles(t)
  <2>1. Len(Left(t)) = 1 /\ Left(t)[1] = c
    BY <1>1, <1>4, ThreeLeft
  <2>. QED
    BY <1>2, <1>4, <2>1
<1>. QED
  BY <1>3, <1>4

LEMMA SwitchEnds ==
  ASSUME DeskType, SpliceInv, SwitchInv, NEW t \in Thread_, Finish(t)
  PROVE  SwitchInv'
<1>. SUFFICES ASSUME ~murky', NEW m \in Module_ \ window'.forsaken
     PROVE  /\ \A u \in Thread_ : Toggling(u, m)' => Asked(u, m)'
            /\ (\A u \in Thread_ : ~Toggling(u, m)') => Settled(m)'
  BY DEF SwitchInv
<1>. DEFINE w == thread[t]
            s == Left(t)
<1>1. /\ w.pc = "answered" /\ thread' = [thread EXCEPT ![t] = Asleep]
      /\ UNCHANGED <<disabled, murky>> /\ idle' = idle \o s /\ s \in Seq(Callback)
      /\ window'.active = window.active /\ window'.forsaken = window.forsaken
      /\ window'.believed = IF Toggles(t)
                            THEN [window.believed EXCEPT ![w.module] = Outcome(w)]
                            ELSE window.believed
  BY FinishSteps
<1>2. ~Splices(thread'[t].verb) /\ \A u \in Thread_ \ {t} : thread'[u] = thread[u]
  BY <1>1, AsleepType DEF DeskType, ThreadsType
<1>3. ~murky /\ m \in Module_ \ window.forsaken /\ On(m)' = On(m)
  BY <1>1, OnSame
<1>4. /\ \A u \in Thread_ : Toggling(u, m) => Asked(u, m)
      /\ (\A u \in Thread_ : ~Toggling(u, m)) => Settled(m)
  BY <1>3 DEF SwitchInv
<1>5. ~Toggling(t, m)' /\ \A u \in Thread_ \ {t} : Toggling(u, m)' <=> Toggling(u, m)
  BY <1>2 DEF Toggling, Toggles
<1>6. CASE Toggling(t, m)
  <2>1. Toggles(t) /\ w.module = m /\ On(m) = Outcome(w)
    BY <1>1, <1>4, <1>6 DEF Toggling, Asked
  <2>2. window'.believed[m] = On(m)'
    BY <1>1, <1>3, <2>1 DEF DeskType, WindowType
  <2>3. /\ Len(s) = 3 /\ s[1][1] = "set active" /\ s[1][2] = m /\ s[1][3] = On(m)'
        /\ s[2][1] = "sensitive" /\ s[3][1] = "button"
    BY <1>3, <2>1, LeftIs
  <2>. HIDE DEF s
  <2>4. s[2][1] # "set active" /\ s[3][1] # "set active"
    BY <2>3
  <2>5. Settled(m)'
    BY <1>1, <2>2, <2>3, <2>4, SettledAnew
  <2>6. \A u \in Thread_ : Toggling(u, m) => u = t
    BY <1>3, <2>1, OneToggles DEF Toggling
  <2>. QED
    BY <1>5, <2>5, <2>6
<1>7. CASE ~Toggling(t, m)
  <2>1. \A i \in 1 .. Len(s) : ~(s[i][1] = "set active" /\ s[i][2] = m)
    <3>1. CASE Toggles(t)
      <4>1. /\ Len(s) = 3 /\ s[1][2] = w.module /\ s[2][1] = "sensitive" /\ s[3][1] = "button"
            /\ w.module # m
        BY <1>7, <3>1, LeftIs DEF Toggling
      <4>. HIDE DEF s, w
      <4>2. s[2][1] # "set active" /\ s[3][1] # "set active"
        BY <4>1
      <4>3. 1 .. Len(s) = {1, 2, 3}
        BY <4>1
      <4>. QED
        BY <4>1, <4>2, <4>3
    <3>2. CASE ~Toggles(t)
      <4>1. Len(s) = 1 /\ s[1][1] = "button"
        BY <3>2, LeftIs
      <4>. HIDE DEF s
      <4>2. 1 .. Len(s) = {1} /\ s[1][1] # "set active"
        BY <4>1
      <4>. QED
        BY <4>2
    <3>. QED
      BY <3>1, <3>2
  <2>2. window'.active[m] = window.active[m] /\ window'.believed[m] = window.believed[m]
    BY <1>1, <1>7 DEF DeskType, WindowType, Toggling
  <2>. HIDE DEF s
  <2>3. Settled(m) => Settled(m)'
    BY <1>1, <1>3, <2>1, <2>2, SettledMore
  <2>4. \A u \in Thread_ \ {t} : Toggling(u, m) => Asked(u, m)'
    BY <1>2, <1>3, <1>4, <2>2, AskedSame
  <2>. QED
    BY <1>4, <1>5, <1>7, <2>3, <2>4
<1>. QED
  BY <1>6, <1>7

LEMMA SwitchKept ==
  ASSUME DeskType, SpliceInv, SwitchInv, DeskNext
  PROVE  SwitchInv'
<1>1. ASSUME NEW t \in Thread_, Dismiss(t) PROVE SwitchInv'
  <2>1. /\ ~thread[t].shown /\ thread' = [thread EXCEPT ![t] = Asleep]
        /\ UNCHANGED <<disabled, murky, window, idle>>
    BY <1>1 DEF Dismiss
  <2>2. ~Toggles(t)' /\ \A u \in Thread_ \ {t} : thread'[u] = thread[u]
    BY <2>1, AsleepType DEF DeskType, ThreadsType, Toggles
  <2>3. CASE murky
    BY <2>1, <2>3 DEF SwitchInv
  <2>4. CASE ~murky
    <3>. SUFFICES ASSUME ~murky', NEW m \in Module_ \ window'.forsaken
         PROVE  /\ \A u \in Thread_ : Toggling(u, m)' => Asked(u, m)'
                /\ (\A u \in Thread_ : ~Toggling(u, m)') => Settled(m)'
      BY DEF SwitchInv
    <3>1. /\ \A u \in Thread_ : Toggling(u, m) => Asked(u, m)
          /\ (\A u \in Thread_ : ~Toggling(u, m)) => Settled(m)
      BY <2>1, <2>4 DEF SwitchInv
    <3>2. ~Toggling(t, m) /\ ~Toggling(t, m)'
      BY <2>1, <2>2, <3>1 DEF Toggling, Asked
    <3>3. \A u \in Thread_ \ {t} : Toggling(u, m)' <=> Toggling(u, m)
      BY <2>2 DEF Toggling, Toggles
    <3>4. On(m)' = On(m)
      BY <2>1, OnSame
    <3>. QED
      BY <2>1, <2>2, <3>1, <3>2, <3>3, <3>4, AskedSame, SettledSame
  <2>. QED
    BY <2>3, <2>4
<1>2. ASSUME NEW t \in Thread_, Update(t) \/ \E i \in Idents : Agree(t, i)
      PROVE  SwitchInv'
  <2>1. PICK verb \in {"update", "agree"}, m \in Module_ \cup Idents \cup {"none"} :
          Launch(t, verb, m)
    BY <1>2 DEF Update, Agree
  <2>2. UNCHANGED <<disabled, idle>> /\ window' \in {window, [window EXCEPT !.button = FALSE]}
    BY <1>2 DEF Update, Agree
  <2>3. /\ window'.active = window.active /\ window'.believed = window.believed
        /\ window'.forsaken = window.forsaken
    BY <2>2 DEF DeskType, WindowType
  <2>4. Begins(t, verb, m)
    BY <2>1, LaunchType
  <2>5. /\ Free(t) /\ thread'[t].verb = verb /\ (murky => murky')
        /\ \A u \in Thread_ \ {t} : thread'[u] = thread[u]
    BY <2>4 DEF Begins, DeskType, ThreadsType
  <2>6. ~Toggles(t) /\ ~Toggles(t)'
    BY <2>5 DEF Toggles, Free, DeskType, ThreadsType, Splices
  <2>. QED
    BY <2>2, <2>3, <2>5, <2>6, SwitchSame
<1>3. ASSUME NEW t \in Thread_, NEW m \in Module_, Click(t, m) PROVE SwitchInv'
  <2>. DEFINE on == ~window.active[m]
  <2>1. /\ on \in BOOLEAN /\ window.active[m] # on
        /\ StateSet(t, m, on) /\ idle' = idle
    BY <1>3 DEF Click, DeskType, WindowType
  <2>. HIDE DEF on
  <2>. QED
    BY <2>1, SwitchBegins
<1>4. CASE RunIdle
  <2>1. idle # <<>> /\ idle' = Tail(idle) /\ UNCHANGED disabled
    BY <1>4, RunIdleSteps
  <2>2. ASSUME UNCHANGED <<murky, thread>>, window'.active = window.active,
               window'.believed = window.believed, window'.forsaken = window.forsaken,
               \A m \in Module_ : Moves(1, m) => window.active[m] = idle[1][3]
        PROVE  SwitchInv'
    <3>. SUFFICES ASSUME ~murky', NEW m \in Module_ \ window'.forsaken
         PROVE  /\ \A u \in Thread_ : Toggling(u, m)' => Asked(u, m)'
                /\ (\A u \in Thread_ : ~Toggling(u, m)') => Settled(m)'
      BY DEF SwitchInv
    <3>1. On(m)' = On(m) /\ \A u \in Thread_ : Toggling(u, m)' <=> Toggling(u, m)
      BY <2>1, <2>2, OnSame DEF Toggling, Toggles
    <3>2. /\ \A u \in Thread_ : Toggling(u, m) => Asked(u, m)
          /\ (\A u \in Thread_ : ~Toggling(u, m)) => Settled(m)
      BY <2>2 DEF SwitchInv
    <3>3. \A u \in Thread_ : Asked(u, m) => Asked(u, m)'
      BY <2>2, <3>1, AskedSame
    <3>4. Settled(m) => Settled(m)'
      BY <2>1, <2>2, <3>1, SettledTail
    <3>. QED
      BY <3>1, <3>2, <3>3, <3>4
  <2>3. ASSUME NEW t \in Thread_, NEW m \in Module_, NEW on \in BOOLEAN,
               Moves(1, m), window.active[m] # on, StateSet(t, m, on)
        PROVE  SwitchInv'
    BY <2>1, <2>3, SwitchBegins
  <2>. QED
    BY <1>4, <2>2, <2>3, RunIdleSteps
<1>5. CASE Reopen
  <2>1. /\ UNCHANGED disabled /\ idle' = <<>>
        /\ \A t \in Thread_ : thread'[t].verb = thread[t].verb
        /\ ~murky' =>
              /\ \A t \in Thread_ : ~Toggles(t)
              /\ \A m \in Module_ : window'.active[m] = On(m) /\ window'.believed[m] = On(m)
    BY <1>5, ReopenSteps
  <2>. SUFFICES ASSUME ~murky', NEW m \in Module_ \ window'.forsaken
       PROVE  /\ \A u \in Thread_ : Toggling(u, m)' => Asked(u, m)'
              /\ (\A u \in Thread_ : ~Toggling(u, m)') => Settled(m)'
    BY DEF SwitchInv
  <2>2. \A u \in Thread_ : ~Toggling(u, m)'
    BY <2>1 DEF Toggling, Toggles
  <2>3. window'.active[m] = On(m)' /\ window'.believed[m] = On(m)' /\ DOMAIN idle' = {}
    BY <2>1, OnSame
  <2>. QED
    BY <2>2, <2>3 DEF Settled
<1>6. ASSUME NEW i \in Idents, Hide(i) PROVE SwitchInv'
  <2>1. UNCHANGED <<disabled, murky, thread, idle>>
    BY <1>6 DEF Hide
  <2>2. \E h, s : window' = [window EXCEPT !.hidden = h, !.stored = s]
    BY <1>6 DEF Hide
  <2>3. /\ window'.active = window.active /\ window'.believed = window.believed
        /\ window'.forsaken = window.forsaken
    BY <2>2 DEF DeskType, WindowType
  <2>. QED
    BY <2>1, <2>3, SwitchSame
<1>7. ASSUME NEW t \in Thread_, Raise(t) PROVE SwitchInv'
  <2>1. /\ thread' = [thread EXCEPT ![t] = Asleep] /\ UNCHANGED <<disabled, murky, idle>>
        /\ window'.active = window.active /\ window'.believed = window.believed
        /\ window.forsaken \subseteq window'.forsaken
        /\ Toggles(t) => thread[t].module \in window'.forsaken
    BY <1>7, RaiseSteps
  <2>2. ~Toggles(t)' /\ \A u \in Thread_ \ {t} : thread'[u] = thread[u]
    BY <2>1, AsleepType DEF DeskType, ThreadsType, Toggles
  <2>. SUFFICES ASSUME ~murky', NEW m \in Module_ \ window'.forsaken
       PROVE  /\ \A u \in Thread_ : Toggling(u, m)' => Asked(u, m)'
              /\ (\A u \in Thread_ : ~Toggling(u, m)') => Settled(m)'
    BY DEF SwitchInv
  <2>3. /\ \A u \in Thread_ : Toggling(u, m) => Asked(u, m)
        /\ (\A u \in Thread_ : ~Toggling(u, m)) => Settled(m)
    BY <2>1 DEF SwitchInv
  <2>4. ~Toggling(t, m) /\ ~Toggling(t, m)'
    BY <2>1, <2>2 DEF Toggling
  <2>5. \A u \in Thread_ \ {t} : Toggling(u, m)' <=> Toggling(u, m)
    BY <2>2 DEF Toggling, Toggles
  <2>6. On(m)' = On(m)
    BY <2>1, OnSame
  <2>. QED
    BY <2>1, <2>2, <2>3, <2>4, <2>5, <2>6, AskedSame, SettledSame
<1>. QED
  BY <1>1, <1>2, <1>3, <1>4, <1>5, <1>6, <1>7, SwitchWorks, SwitchEnds DEF DeskNext

-----------------------------------------------------------------------------
LEMMA DeskBegins == DeskInit => DeskInv
<1>. SUFFICES ASSUME DeskInit PROVE DeskInv
  OBVIOUS
<1>1. FilesType
  BY DEF DeskInit, FilesType, Members
<1>2. ThreadsType
  BY AsleepType DEF DeskInit, ThreadsType, Toggles
<1>3. WindowType
  BY DEF DeskInit, WindowType
<1>4. \A t \in Thread_ : ~Toggles(t)
  BY AsleepType DEF DeskInit, Toggles
<1>5. SpliceInv
  BY <1>4 DEF SpliceInv
<1>6. SwitchInv
  <2>1. \A m \in Module_ : /\ window.active[m] = TRUE /\ window.believed[m] = TRUE
                           /\ On(m) = TRUE /\ DOMAIN idle = {}
    BY DEF DeskInit, On
  <2>2. \A t \in Thread_, m \in Module_ : ~Toggling(t, m)
    BY <1>4 DEF Toggling
  <2>. QED
    BY <2>1, <2>2 DEF SwitchInv, Settled
<1>. QED
  BY <1>1, <1>2, <1>3, <1>5, <1>6 DEF DeskInv, DeskType

LEMMA DeskStands == DeskInv /\ UNCHANGED deskVars => DeskInv'
<1>. SUFFICES ASSUME DeskInv, UNCHANGED deskVars PROVE DeskInv'
  OBVIOUS
<1>1. UNCHANGED <<disabled, murky, thread, window, idle>>
  BY DEF deskVars
<1>2. DeskType'
  BY <1>1 DEF DeskInv, DeskType, FilesType, ThreadsType, Toggles, WindowType
<1>3. SpliceInv'
  BY <1>1, SpliceSame DEF DeskInv
<1>4. SwitchInv'
  BY <1>1, SwitchSame DEF DeskInv
<1>. QED
  BY <1>2, <1>3, <1>4 DEF DeskInv

LEMMA DeskSafe == DeskSpec => []DeskInv
<1>1. DeskInv /\ [DeskNext]_deskVars => DeskInv'
  BY DeskStands, DeskTypes, SpliceKept, SwitchKept DEF DeskInv
<1>. QED
  BY DeskBegins, <1>1, PTL DEF DeskSpec

\* A switch about which nothing is under way shows what config.json says of its
\* module, however many of its commands were refused
\* (gui/update-modal/index.py:641-714); but for a switch whose thread died, and
\* until two commands overlap, one is refused after its file is in place, or the
\* window is opened without the list or beside a command.
THEOREM SwitchesTellConfig == DeskSpec => []SwitchTellsConfig
<1>1. ASSUME DeskInv PROVE SwitchTellsConfig
  <2>. SUFFICES ASSUME ~murky, NEW m \in Module_ \ window.forsaken, Quiet(m)
       PROVE  window.active[m] = On(m)
    BY DEF SwitchTellsConfig, On
  <2>1. Settled(m)
    BY <1>1 DEF DeskInv, SwitchInv, Quiet, Toggling
  <2>2. \A i \in DOMAIN idle : ~Moves(i, m)
    <3>1. ASSUME NEW i \in DOMAIN idle, Moves(i, m) PROVE FALSE
      <4>1. idle[i][1] = "set active" /\ idle[i][2] = m
        BY <3>1 DEF Moves
      <4>2. idle[i][1] = "button" \/ idle[i][2] # m
        BY DEF Quiet
      <4>. QED
        BY <4>1, <4>2
    <3>. QED
      BY <3>1
  <2>. QED
    BY <2>1, <2>2 DEF Settled
<1>. QED
  BY DeskSafe, <1>1, PTL
================================================================================
