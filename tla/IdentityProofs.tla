---------------------------- MODULE IdentityProofs ----------------------------
(***************************************************************************)
(* Theorems about the network identity claim, for any number of claimers,  *)
(* operators, devices, names and addresses.  They are about the casts of   *)
(* MCIdentity, because the claims' flock is not taken by the commands of   *)
(* the two stores: what a cast leaves out is what a theorem supposes.      *)
(***************************************************************************)
EXTENDS MCIdentity, TLAPS

\* What each variable is a function of.
Shapes ==
  /\ DOMAIN stage = Claimer /\ DOMAIN want = Claimer /\ DOMAIN pre = Claimer
  /\ DOMAIN pc = Client /\ DOMAIN request = Client /\ DOMAIN draft = Client
  /\ DOMAIN existing = Client /\ DOMAIN answer = Client
  /\ DOMAIN at = Client /\ DOMAIN job = Client /\ DOMAIN lines = Client
  /\ DOMAIN previous = Client /\ DOMAIN outcome = Client
  /\ "res" \in DOMAIN config
  /\ \A p \in Client : "res" \in DOMAIN draft[p]
  /\ \A q \in Claimer : "res" \in DOMAIN pre[q].dhcp

\* The flock: one claim is under way, and of each store's command only while
\* the claim is at that store.
LockInv ==
  /\ lock # Nobody => lock \in Claimer
  /\ \A q \in Claimer :
       /\ stage[q] # "idle" => lock = q
       /\ stage[q] # "adding" => pc[q] = "idle"
       /\ stage[q] # "naming" => at[q] = "idle"

\* That no claim that stands has the address that is being claimed.
Unclaimed == \A q \in Claimer : stage[q] # "idle" => \A c \in claimed : c.ip # want[q].ip

Reserving(res) == \A c \in claimed : Reserves(c) \in res
Naming(recs) == \A c \in claimed : Record(c) \in recs
Fresh(q, res) == \A r \in res : r.mac # want[q].mac

\* Beside nothing that changes reservations: what every copy of them has.
DhcpPart(q) ==
    /\ stage[q] = "resolved" => Fresh(q, config.res)
    /\ stage[q] \in {"adding", "naming", "unwinding"} =>
         Reserving(pre[q].dhcp.res) /\ Fresh(q, pre[q].dhcp.res)
    /\ pc[q] # "idle" => request[q].op = "add"
    /\ pc[q] \in {"idle", "config", "existing", "choose", "update"}
    /\ pc[q] \in {"existing", "choose", "update"} => Reserving(draft[q].res)
    /\ stage[q] = "naming" => Reserves(want[q]) \in config.res
    /\ stage[q] \in {"unnaming", "unwound"} => Reserves(want[q]) \notin config.res

DhcpSide == Reserving(config.res) /\ \A q \in Claimer : DhcpPart(q)

\* Beside nothing that changes names: what every copy of them has.
DnsPart(q) ==
    /\ stage[q] = "resolved" => Record(want[q]) \notin include
    /\ stage[q] \in {"adding", "naming", "unwinding", "unnaming"} =>
         Naming(pre[q].dns) /\ Record(want[q]) \notin pre[q].dns
    /\ at[q] # "idle" => job[q].op = "create" /\ job[q].record = Record(want[q])
    /\ at[q] \in {"idle", "lines", "render", "check", "replace", "reload", "query",
                  "restore", "reloadback"}
    /\ at[q] \notin {"idle", "lines"} =>
         Naming(lines[q]) /\ Record(want[q]) \in lines[q]
    /\ at[q] \notin {"idle", "lines", "render"} => Naming(previous[q])
    /\ at[q] \in {"reload", "query"} => Record(want[q]) \in include
    /\ stage[q] = "naming" /\ at[q] = "idle" /\ outcome[q] \in {"applied", "noop"} =>
         Record(want[q]) \in include
    /\ stage[q] = "unwound" => Record(want[q]) \notin include /\ (resolver = include \/ hup)

DnsSide == Naming(include) /\ \A q \in Claimer : DnsPart(q)

\* The commands of the names, one after the other: what the file has and what
\* the resolver serves at each step of one.
Edited(q) ==
  lines[q] = IF job[q].op = "create" THEN previous[q] \cup {job[q].record}
             ELSE previous[q] \ {job[q].record}

ServeInv ==
  /\ \A q \in Claimer : stage[q] = "idle" /\ outcome[q] = "noop"
  /\ \A q \in Operator :
       /\ at[q] \in {"idle", "lines", "render", "check", "replace", "reloadback"} =>
            owed \subseteq include
       /\ at[q] = "render" =>
            lines[q] = IF job[q].op = "create" THEN include \cup {job[q].record}
                       ELSE include \ {job[q].record}
       /\ at[q] \in {"check", "replace", "reload", "query", "restore"} =>
            Edited(q) /\ owed \subseteq previous[q]
       /\ at[q] \in {"check", "replace"} => include = previous[q]
       /\ at[q] \in {"reload", "query"} => include = lines[q]
       /\ at[q] = "query" => resolver = include \/ hup
       /\ at[q] = "restore" => include \in {lines[q], previous[q]}
       /\ at[q] = "idle" /\ outcome[q] \in {"applied", "restored"} =>
            resolver = include \/ hup

OneOperator == \E o : Operator = {o}

-----------------------------------------------------------------------------
(* What one step of a store's command touches.                             *)

\* A command of the DHCP store by p touches p's copies and the file.
DhcpFrame(p) ==
  /\ DOMAIN pc' = Client /\ DOMAIN request' = Client /\ DOMAIN draft' = Client
  /\ DOMAIN existing' = Client /\ DOMAIN answer' = Client
  /\ "res" \in DOMAIN config'
  /\ \A q \in Client : "res" \in DOMAIN draft'[q]
  /\ \A q \in Client \ {p} : pc'[q] = pc[q] /\ request'[q] = request[q] /\ draft'[q] = draft[q]

\* A command of the DNS store by p touches p's copies, the file and the resolver.
DnsFrame(p) ==
  /\ DOMAIN at' = Client /\ DOMAIN job' = Client /\ DOMAIN lines' = Client
  /\ DOMAIN previous' = Client /\ DOMAIN outcome' = Client
  /\ \A q \in Client \ {p} :
       /\ at'[q] = at[q] /\ job'[q] = job[q] /\ lines'[q] = lines[q]
       /\ previous'[q] = previous[q] /\ outcome'[q] = outcome[q]

LEMMA NothingReadShape == "res" \in DOMAIN Dhcp!NothingRead
BY DEF Dhcp!NothingRead, Dhcp!NoPool

LEMMA EndShape ==
  ASSUME Shapes, NEW p \in Client, NEW a, Dhcp!End(p, a), "res" \in DOMAIN config'
  PROVE  DhcpFrame(p) /\ pc'[p] = "idle"
<1>1. draft' = [draft EXCEPT ![p] = Dhcp!NothingRead]
  BY DEF Dhcp!End
<1>2. \A q \in Client : "res" \in DOMAIN draft'[q]
  <2>. TAKE q \in Client
  <2>1. CASE q = p
    BY <1>1, <2>1, NothingReadShape DEF Shapes
  <2>2. CASE q # p
    BY <1>1, <2>2 DEF Shapes
  <2>. QED
    BY <2>1, <2>2
<1>. QED
  BY <1>2 DEF Shapes, DhcpFrame, Dhcp!End

LEMMA DhcpShape ==
  ASSUME Shapes, NEW p \in Client, Dhcp!Start(p) \/ DhcpWork(p)
  PROVE  DhcpFrame(p)
<1>. USE DEF Shapes
<1>1. CASE Dhcp!Start(p)
  <2>1. PICK r \in Dhcp!Requests : request' = [request EXCEPT ![p] = r] /\
               pc' = [pc EXCEPT ![p] = IF r.op = "readdress" THEN "range" ELSE "config"]
    BY <1>1 DEF Dhcp!Start
  <2>. QED
    BY <1>1, <2>1 DEF Dhcp!Start, DhcpFrame
<1>2. CASE Dhcp!CheckRange(p)
  <2>1. CASE Dhcp!Continue(p, "config") /\ UNCHANGED <<draft, existing>>
    BY <1>2, <2>1 DEF Dhcp!CheckRange, Dhcp!Continue, DhcpFrame
  <2>2. CASE Dhcp!Error(p)
    BY <1>2, <2>2, EndShape DEF Dhcp!CheckRange, Dhcp!Error
  <2>. QED
    BY <1>2, <2>1, <2>2 DEF Dhcp!CheckRange
<1>3. CASE Dhcp!ReadConfig(p)
  <2>0. UNCHANGED config
    BY <1>3 DEF Dhcp!ReadConfig
  <2>1. CASE Dhcp!End(p, "ok") \/ Dhcp!Error(p)
    BY <2>0, <2>1, EndShape DEF Dhcp!Error
  <2>2. ASSUME NEW new, "res" \in DOMAIN new, NEW l, Dhcp!Continue(p, l),
               draft' = [draft EXCEPT ![p] = new], UNCHANGED existing
        PROVE  DhcpFrame(p)
    BY <2>0, <2>2 DEF Dhcp!Continue, DhcpFrame
  <2>3. ASSUME NEW f PROVE "res" \in DOMAIN [config EXCEPT !.res = f]
    OBVIOUS
  <2>4. "res" \in DOMAIN Dhcp!Moved(config, request[p].id, request[p].ip)
    BY DEF Dhcp!Moved
  <2>5. \/ Dhcp!End(p, "ok") \/ Dhcp!Error(p)
        \/ draft' = [draft EXCEPT ![p] = config] /\ UNCHANGED existing
             /\ Dhcp!Continue(p, "existing")
        \/ draft' = [draft EXCEPT ![p] =
                       [config EXCEPT !.res = @ \ Dhcp!Named(config, request[p].id)]]
             /\ UNCHANGED existing /\ Dhcp!Continue(p, "update")
        \/ draft' = [draft EXCEPT ![p] = Dhcp!Moved(config, request[p].id, request[p].ip)]
             /\ UNCHANGED existing /\ Dhcp!Continue(p, "update")
    BY <1>3 DEF Dhcp!ReadConfig
  <2>. QED
    BY <2>1, <2>2, <2>3, <2>4, <2>5
<1>4. CASE Dhcp!ReadExisting(p)
  <2>1. PICK l : Dhcp!Continue(p, l)
    BY <1>4 DEF Dhcp!ReadExisting
  <2>2. UNCHANGED draft \/ draft' = [draft EXCEPT ![p].pool = Dhcp!PoolFrom(request[p].max)]
    BY <1>4 DEF Dhcp!ReadExisting
  <2>3. DOMAIN draft' = Client /\ \A q \in Client : "res" \in DOMAIN draft'[q]
    BY <2>2
  <2>4. \A q \in Client \ {p} : draft'[q] = draft[q]
    BY <2>2
  <2>. QED
    BY <1>4, <2>1, <2>3, <2>4 DEF Dhcp!ReadExisting, Dhcp!Continue, DhcpFrame
<1>5. CASE Dhcp!RefuseExisting(p) \/ Dhcp!RefuseChosen(p)
  BY <1>5, EndShape DEF Dhcp!RefuseExisting, Dhcp!RefuseChosen, Dhcp!Error
<1>6. CASE Dhcp!Choose(p)
  <2>1. PICK ip : draft' = [draft EXCEPT ![p].res =
                    Dhcp!Appended(@, [mac |-> request[p].mac, ip |-> ip])]
    BY <1>6 DEF Dhcp!Choose
  <2>2. DOMAIN draft' = Client /\ \A q \in Client : "res" \in DOMAIN draft'[q]
    BY <2>1
  <2>3. \A q \in Client \ {p} : draft'[q] = draft[q]
    BY <2>1
  <2>. QED
    BY <1>6, <2>2, <2>3 DEF Dhcp!Choose, Dhcp!Continue, DhcpFrame
<1>7. CASE Dhcp!Update(p)
  BY <1>7, EndShape DEF Dhcp!Update
<1>. QED
  BY <1>1, <1>2, <1>3, <1>4, <1>5, <1>6, <1>7 DEF DhcpWork

LEMMA DnsShape ==
  ASSUME Shapes, NEW p \in Client, Dns!StartJob(p) \/ Dns!Work(p)
  PROVE  DnsFrame(p)
<1>. USE DEF Shapes, DnsFrame, Dns!Stop, Dns!To
<1>1. CASE Dns!StartJob(p)
  BY <1>1 DEF Dns!StartJob, Dns!Ask
<1>2. CASE Dns!ReadLines(p)
  <2>1. CASE \E o : Dns!Stop(p, o)
    BY <2>1
  <2>2. CASE /\ Dns!To(p, "render") /\ UNCHANGED previous
             /\ \E new : lines' = [lines EXCEPT ![p] = new]
    BY <2>2
  <2>. QED
    BY <1>2, <2>1, <2>2 DEF Dns!ReadLines
<1>3. CASE Dns!Render(p)
  BY <1>3 DEF Dns!Render
<1>4. CASE Dns!Check(p)
  BY <1>4 DEF Dns!Check
<1>5. CASE Dns!Replace(p)
  BY <1>5 DEF Dns!Replace, Dns!Crash
<1>6. CASE Dns!Reload(p)
  BY <1>6 DEF Dns!Reload
<1>7. CASE Dns!Query(p)
  BY <1>7 DEF Dns!Query
<1>8. CASE Dns!Restore(p)
  BY <1>8 DEF Dns!Restore, Dns!Crash
<1>9. CASE Dns!ReloadBack(p)
  BY <1>9 DEF Dns!ReloadBack
<1>. QED
  BY <1>1, <1>2, <1>3, <1>4, <1>5, <1>6, <1>7, <1>8, <1>9 DEF Dns!Work

-----------------------------------------------------------------------------
(* The flock, in every cast.                                               *)

CastStep ==
  /\ cast' = cast
  /\ \/ \E p \in Claimer : cast \in {"claims", "releases", "edits"} /\ Claim(p)
     \/ \E p \in Claimer : cast = "claims" /\ Kill(p)
     \/ \E p \in Operator : cast = "releases" /\ Reserve(p)
     \/ \E p \in Operator : cast \in {"names", "edits"} /\ Rename(p)

\* A step is one of the cast, or Unbound acts on a signal.
LEMMA CastSteps ==
  ASSUME CastNext
  PROVE  cast' = cast /\ (CastStep \/ Load)
<1>1. cast' = cast
  BY DEF CastNext
<1>2. CASE \E p \in Claimer :
             \/ cast = "claims" /\ (Claim(p) \/ Kill(p))
             \/ cast \in {"releases", "edits"} /\ Alone(p) /\ Claim(p)
                  /\ (cast = "edits" => answer'[p] = "ok")
  BY <1>1, <1>2, Zenon DEF CastStep
<1>3. CASE \E p \in Operator :
             \/ cast = "releases" /\ Reserve(p)
             \/ cast = "names" /\ Rename(p)
             \/ cast = "edits" /\ Rename(p)
                  /\ (job'[p] = Dns!NoJob \/ OneAlias(job'[p].record))
                  /\ at'[p] # "restore" /\ outcome'[p] # "crashed"
  BY <1>1, <1>3, Zenon DEF CastStep
<1>4. CASE Load
  BY <1>1, <1>4
<1>. QED
  BY <1>1, <1>2, <1>3, <1>4, Zenon DEF CastNext

LEMMA Kinds ==
  ASSUME NEW p
  PROVE  /\ p \in Claimer => p \in Client /\ p \notin Operator /\ p # Nobody
         /\ p \in Operator => p \in Client /\ p \notin Claimer
BY ClaimConstants DEF Client

LEMMA OthersIdle ==
  ASSUME LockInv, NEW p \in Claimer, stage[p] # "idle" \/ lock = Nobody,
         NEW q \in Claimer, q # p
  PROVE  stage[q] = "idle" /\ pc[q] = "idle" /\ at[q] = "idle"
BY Kinds DEF LockInv

\* What the parts of an action keep of Shapes.
ClaimShape ==
  /\ DOMAIN stage' = Claimer /\ DOMAIN want' = Claimer /\ DOMAIN pre' = Claimer
  /\ \A q \in Claimer : "res" \in DOMAIN pre'[q].dhcp

LEMMA LeaveShape ==
  ASSUME Shapes, NEW p \in Claimer, Leave(p)
  PROVE  ClaimShape /\ stage'[p] = "idle"
<1>1. \A q \in Claimer : pre'[q] = IF q = p THEN NoPreimage ELSE pre[q]
  BY DEF Leave, Shapes
<1>2. "res" \in DOMAIN NoPreimage.dhcp
  BY NothingReadShape DEF NoPreimage
<1>3. \A q \in Claimer : "res" \in DOMAIN pre'[q].dhcp
  BY <1>1, <1>2 DEF Shapes
<1>. QED
  BY <1>3 DEF ClaimShape, Leave, Move, Shapes

LEMMA SameShape ==
  ASSUME Shapes
  PROVE  /\ UNCHANGED dhcpVars => \A p : DhcpFrame(p)
         /\ UNCHANGED dnsVars => \A p : DnsFrame(p)
         /\ UNCHANGED claimVars => ClaimShape
<1>1. UNCHANGED dhcpVars => \A p : DhcpFrame(p)
  BY DEF Shapes, DhcpFrame, dhcpVars
<1>2. UNCHANGED dnsVars => \A p : DnsFrame(p)
  BY DEF Shapes, DnsFrame, dnsVars
<1>3. UNCHANGED claimVars => ClaimShape
  BY DEF Shapes, ClaimShape, claimVars
<1>. QED
  BY <1>1, <1>2, <1>3

LEMMA ShapesFrom ==
  ASSUME NEW p, DhcpFrame(p), DnsFrame(p), ClaimShape
  PROVE  Shapes'
BY DEF Shapes, DhcpFrame, DnsFrame, ClaimShape

\* What an action of a claim keeps: its shapes, the other claims, and its place.
ClaimFrame(p) ==
  /\ DhcpFrame(p) /\ DnsFrame(p) /\ ClaimShape
  /\ \A q \in Claimer \ {p} : stage'[q] = stage[q] /\ want'[q] = want[q] /\ pre'[q] = pre[q]
  /\ stage[p] # "idle" \/ lock = Nobody
  /\ \/ stage'[p] = "idle" /\ lock' = Nobody
     \/ stage[p] # "idle" /\ lock' = lock
     \/ lock' = p
  /\ stage'[p] # "adding" => pc'[p] = "idle"
  /\ stage'[p] # "naming" => at'[p] = "idle"

LEMMA ClaimKeeps ==
  ASSUME Shapes, LockInv, NEW p \in Claimer, Claim(p) \/ Kill(p)
  PROVE  ClaimFrame(p)
<1>0. p \in Client /\ p # Nobody /\ DOMAIN stage = Claimer /\ DOMAIN want = Claimer
        /\ DOMAIN pre = Claimer
  BY Kinds DEF Shapes
<1>i. stage[p] # "adding" => pc[p] = "idle"
  BY DEF LockInv
<1>j. stage[p] # "naming" => at[p] = "idle"
  BY DEF LockInv
<1>k. ASSUME Leave(p)
      PROVE  /\ ClaimShape /\ stage'[p] = "idle" /\ lock' = Nobody
             /\ \A q \in Claimer \ {p} :
                  stage'[q] = stage[q] /\ want'[q] = want[q] /\ pre'[q] = pre[q]
  <2>1. stage' = [stage EXCEPT ![p] = "idle"] /\ lock' = Nobody
          /\ want' = [want EXCEPT ![p] = NoClaim] /\ pre' = [pre EXCEPT ![p] = NoPreimage]
    BY <1>k DEF Leave, Move
  <2>2. ClaimShape /\ stage'[p] = "idle"
    BY <1>k, LeaveShape
  <2>. QED
    BY <2>1, <2>2, <1>0
<1>m. ASSUME NEW l, Move(p, l), UNCHANGED want,
             \A q \in Claimer : "res" \in DOMAIN pre'[q].dhcp, DOMAIN pre' = Claimer,
             \A q \in Claimer \ {p} : pre'[q] = pre[q]
      PROVE  /\ ClaimShape /\ stage'[p] = l
             /\ \A q \in Claimer \ {p} :
                  stage'[q] = stage[q] /\ want'[q] = want[q] /\ pre'[q] = pre[q]
  BY <1>0, <1>m DEF ClaimShape, Move
<1>n. (\A q \in Claimer : "res" \in DOMAIN pre[q].dhcp) /\ "res" \in DOMAIN config
  BY DEF Shapes
<1>s. /\ UNCHANGED dhcpVars => DhcpFrame(p) /\ pc' = pc
      /\ UNCHANGED dnsVars => DnsFrame(p) /\ at' = at
      /\ UNCHANGED claimVars => ClaimShape
  BY SameShape DEF dhcpVars, dnsVars
<1>1. CASE Lock(p)
  <2>1. stage[p] = "idle" /\ lock = Nobody /\ lock' = p /\ Move(p, "resolved")
          /\ UNCHANGED dhcpVars /\ UNCHANGED dnsVars /\ UNCHANGED pre
    BY <1>1 DEF Lock
  <2>2. PICK c : want' = [want EXCEPT ![p] = c]
    BY <1>1 DEF Lock
  <2>3. ClaimShape
    BY <2>1, <2>2, <1>0, <1>n DEF ClaimShape, Move
  <2>4. \A q \in Claimer \ {p} : stage'[q] = stage[q] /\ want'[q] = want[q] /\ pre'[q] = pre[q]
    BY <2>1, <2>2, <1>0 DEF Move
  <2>5. stage'[p] = "resolved"
    BY <2>1, <1>0 DEF Move
  <2>. QED
    BY <2>1, <2>3, <2>4, <2>5, <1>s, <1>i, <1>j DEF ClaimFrame
<1>2. CASE Preimages(p)
  <2>1. stage[p] = "resolved" /\ Move(p, "adding") /\ UNCHANGED dnsVars /\ UNCHANGED lock
          /\ UNCHANGED want
    BY <1>2 DEF Preimages
  <2>2. pre' = [pre EXCEPT ![p] = [dhcp |-> config, dns |-> include]]
    BY <1>2 DEF Preimages
  <2>3. ClaimShape /\ stage'[p] = "adding" /\ \A q \in Claimer \ {p} :
                  stage'[q] = stage[q] /\ want'[q] = want[q] /\ pre'[q] = pre[q]
    BY <1>m, <1>n, <1>0, <2>1, <2>2
  <2>4. DhcpFrame(p)
    BY <1>2, <1>0 DEF Preimages, DhcpFrame, Shapes
  <2>. QED
    BY <2>1, <2>3, <2>4, <1>s, <1>j DEF ClaimFrame
<1>3. CASE Blocked(p)
  <2>1. stage[p] = "adding" /\ pc[p] = "idle" /\ Leave(p) /\ UNCHANGED dhcpVars /\ UNCHANGED dnsVars
    BY <1>3 DEF Blocked
  <2>. QED
    BY <2>1, <1>k, <1>s, <1>j DEF ClaimFrame
<1>4. CASE Verify(p)
  <2>1. stage[p] = "adding" /\ pc[p] = "idle" /\ UNCHANGED dhcpVars /\ UNCHANGED lock
          /\ UNCHANGED want /\ UNCHANGED pre
    BY <1>4 DEF Verify
  <2>2. CASE Move(p, "naming") /\ Dns!Ask(p, [op |-> "create", record |-> Record(want[p])])
    <3>1. DnsFrame(p)
      BY <2>2, <1>0 DEF Dns!Ask, DnsFrame, Shapes
    <3>2. ClaimShape /\ stage'[p] = "naming" /\ \A q \in Claimer \ {p} :
                  stage'[q] = stage[q] /\ want'[q] = want[q] /\ pre'[q] = pre[q]
      BY <1>m, <1>n, <1>0, <2>1, <2>2
    <3>. QED
      BY <2>1, <3>1, <3>2, <1>s DEF ClaimFrame
  <2>3. CASE Move(p, "unwinding") /\ UNCHANGED dnsVars
    <3>2. ClaimShape /\ stage'[p] = "unwinding" /\ \A q \in Claimer \ {p} :
                  stage'[q] = stage[q] /\ want'[q] = want[q] /\ pre'[q] = pre[q]
      BY <1>m, <1>n, <1>0, <2>1, <2>3
    <3>. QED
      BY <2>1, <2>3, <3>2, <1>s, <1>j DEF ClaimFrame
  <2>. QED
    BY <1>4, <2>2, <2>3 DEF Verify
<1>5. CASE Applied(p)
  <2>1. stage[p] = "naming" /\ at[p] = "idle" /\ Leave(p) /\ UNCHANGED dhcpVars /\ UNCHANGED dnsVars
    BY <1>5 DEF Applied
  <2>. QED
    BY <2>1, <1>k, <1>s, <1>i DEF ClaimFrame
<1>6. CASE NameFailed(p)
  <2>1. stage[p] = "naming" /\ at[p] = "idle" /\ UNCHANGED dhcpVars /\ UNCHANGED dnsVars
    BY <1>6 DEF NameFailed
  <2>2. CASE Leave(p)
    BY <2>1, <2>2, <1>k, <1>s, <1>i DEF ClaimFrame
  <2>3. CASE Move(p, "unwinding") /\ UNCHANGED <<lock, want, pre>>
    <3>2. ClaimShape /\ stage'[p] = "unwinding" /\ \A q \in Claimer \ {p} :
                  stage'[q] = stage[q] /\ want'[q] = want[q] /\ pre'[q] = pre[q]
      BY <1>m, <1>n, <1>0, <2>3
    <3>. QED
      BY <2>1, <2>3, <3>2, <1>s, <1>i DEF ClaimFrame
  <2>. QED
    BY <1>6, <2>2, <2>3 DEF NameFailed
<1>7. CASE Unwind(p)
  <2>1. stage[p] = "unwinding" /\ UNCHANGED dnsVars /\ UNCHANGED <<pc, request, draft, existing, answer>>
    BY <1>7 DEF Unwind
  <2>2. config' \in {config, pre[p].dhcp}
    BY <1>7 DEF Unwind
  <2>3. DhcpFrame(p) /\ pc' = pc
    BY <2>1, <2>2, <1>n DEF DhcpFrame, Shapes
  <2>4. CASE Leave(p)
    BY <2>1, <2>3, <2>4, <1>k, <1>s, <1>i, <1>j DEF ClaimFrame
  <2>5. CASE Move(p, "unnaming") /\ UNCHANGED <<lock, want, pre>>
    <3>2. ClaimShape /\ stage'[p] = "unnaming" /\ \A q \in Claimer \ {p} :
                  stage'[q] = stage[q] /\ want'[q] = want[q] /\ pre'[q] = pre[q]
      BY <1>m, <1>n, <1>0, <2>5
    <3>. QED
      BY <2>1, <2>3, <2>5, <3>2, <1>s, <1>i, <1>j DEF ClaimFrame
  <2>. QED
    BY <1>7, <2>4, <2>5 DEF Unwind
<1>8. CASE Unname(p)
  <2>1. stage[p] = "unnaming" /\ UNCHANGED dhcpVars /\ UNCHANGED <<at, job, lines, previous, outcome>>
    BY <1>8 DEF Unname
  <2>3. DnsFrame(p) /\ at' = at
    BY <2>1 DEF DnsFrame, Shapes
  <2>4. CASE Leave(p)
    BY <2>1, <2>3, <2>4, <1>k, <1>s, <1>i, <1>j DEF ClaimFrame
  <2>5. CASE Move(p, "unwound") /\ UNCHANGED <<lock, want, pre>>
    <3>2. ClaimShape /\ stage'[p] = "unwound" /\ \A q \in Claimer \ {p} :
                  stage'[q] = stage[q] /\ want'[q] = want[q] /\ pre'[q] = pre[q]
      BY <1>m, <1>n, <1>0, <2>5
    <3>. QED
      BY <2>1, <2>3, <2>5, <3>2, <1>s, <1>i, <1>j DEF ClaimFrame
  <2>. QED
    BY <1>8, <2>4, <2>5 DEF Unname
<1>9. CASE RolledBack(p)
  <2>1. stage[p] = "unwound" /\ Leave(p) /\ UNCHANGED dhcpVars /\ UNCHANGED dnsVars
    BY <1>9 DEF RolledBack
  <2>. QED
    BY <2>1, <1>k, <1>s, <1>i, <1>j DEF ClaimFrame
<1>10. CASE stage[p] = "adding" /\ DhcpWork(p) /\ UNCHANGED <<dnsVars, claimVars>>
  <2>1. DhcpFrame(p)
    BY <1>10, <1>0, DhcpShape
  <2>2. UNCHANGED <<stage, want, pre, lock>>
    BY <1>10 DEF claimVars
  <2>. QED
    BY <1>10, <2>1, <2>2, <1>s, <1>j DEF ClaimFrame
<1>11. CASE stage[p] = "naming" /\ Dns!Work(p) /\ UNCHANGED <<dhcpVars, claimVars>>
  <2>1. DnsFrame(p)
    BY <1>11, <1>0, DnsShape
  <2>2. UNCHANGED <<stage, want, pre, lock>>
    BY <1>11 DEF claimVars
  <2>. QED
    BY <1>11, <2>1, <2>2, <1>s, <1>i DEF ClaimFrame
<1>12. CASE Kill(p)
  <2>1. stage[p] # "idle" /\ Leave(p) /\ Dhcp!End(p, "error") /\ Dns!Stop(p, "crashed")
    BY <1>12 DEF Kill
  <2>2. config' \in {config, draft[p], pre[p].dhcp}
    BY <1>12 DEF Kill
  <2>3. "res" \in DOMAIN config'
    BY <2>2, <1>n, <1>0 DEF Shapes
  <2>4. DhcpFrame(p) /\ pc'[p] = "idle"
    BY <2>1, <2>3, <1>0, EndShape
  <2>5. DnsFrame(p) /\ at'[p] = "idle"
    BY <2>1, <1>0 DEF Dns!Stop, DnsFrame, Shapes
  <2>. QED
    BY <2>1, <2>4, <2>5, <1>k DEF ClaimFrame
<1>. QED
  BY <1>1, <1>2, <1>3, <1>4, <1>5, <1>6, <1>7, <1>8, <1>9, <1>10, <1>11, <1>12, Zenon DEF Claim

LEMMA LockStep ==
  ASSUME Shapes, LockInv, CastStep
  PROVE  Shapes' /\ LockInv'
<1>1. ASSUME NEW p \in Claimer, Claim(p) \/ Kill(p)
      PROVE  Shapes' /\ LockInv'
  <2>1. ClaimFrame(p)
    BY <1>1, ClaimKeeps
  <2>2. Shapes'
    BY <2>1, ShapesFrom DEF ClaimFrame
  <2>3. \A q \in Claimer \ {p} : stage'[q] = "idle" /\ pc'[q] = "idle" /\ at'[q] = "idle"
    BY <2>1, OthersIdle, Kinds DEF ClaimFrame, DhcpFrame, DnsFrame
  <2>4. LockInv'
    <3>1. stage'[p] # "idle" => lock' = p
      BY <2>1 DEF ClaimFrame, LockInv
    <3>2. lock' # Nobody => lock' \in Claimer
      BY <2>1 DEF ClaimFrame, LockInv
    <3>. QED
      BY <2>1, <2>3, <3>1, <3>2 DEF ClaimFrame, LockInv
  <2>. QED
    BY <2>2, <2>4
<1>2. ASSUME NEW p \in Operator, Reserve(p) \/ Rename(p)
      PROVE  Shapes' /\ LockInv'
  <2>1. p \in Client /\ UNCHANGED claimVars /\ \A q \in Claimer : q # p /\ q \in Client
    BY <1>2, Kinds DEF Reserve, Rename
  <2>2. DhcpFrame(p) /\ DnsFrame(p) /\ ClaimShape
    BY <1>2, <2>1, DhcpShape, DnsShape, SameShape DEF Reserve, Rename
  <2>3. \A q \in Claimer : pc'[q] = pc[q] /\ at'[q] = at[q]
    BY <2>1, <2>2 DEF DhcpFrame, DnsFrame
  <2>4. UNCHANGED <<stage, lock>>
    BY <2>1 DEF claimVars
  <2>. QED
    BY <2>2, <2>3, <2>4, ShapesFrom DEF LockInv
<1>. QED
  BY <1>1, <1>2, Zenon DEF CastStep

-----------------------------------------------------------------------------
(* The reservations, where claims alone change them.                       *)

LEMMA IdleDhcpPart ==
  ASSUME NEW q, stage'[q] = "idle", pc'[q] = "idle"
  PROVE  DhcpPart(q)'
BY DEF DhcpPart

\* One step of add_reservation as a claim runs it.
LEMMA AddingSide ==
  ASSUME Shapes, DhcpSide, NEW p \in Claimer, stage[p] = "adding",
         DhcpWork(p), UNCHANGED claimVars
  PROVE  Reserving(config.res)' /\ DhcpPart(p)'
<1>0. p \in Client /\ DOMAIN draft = Client /\ DOMAIN pc = Client /\ DOMAIN request = Client
        /\ "res" \in DOMAIN draft[p]
  BY Kinds DEF Shapes
<1>1. DhcpPart(p) /\ Reserving(config.res)
  BY DEF DhcpSide
<1>2. UNCHANGED <<stage, want, pre, claimed>>
  BY DEF claimVars
<1>3. /\ Reserving(pre[p].dhcp.res)' /\ Fresh(p, pre[p].dhcp.res)'
  BY <1>1, <1>2 DEF DhcpPart, Reserving, Fresh, Reserves
<1>4. ASSUME /\ pc'[p] \in {"idle", "config", "existing", "choose", "update"}
             /\ pc'[p] # "idle" => request'[p].op = "add"
             /\ pc'[p] \in {"existing", "choose", "update"} => Reserving(draft'[p].res)
      PROVE  DhcpPart(p)'
  BY <1>2, <1>3, <1>4 DEF DhcpPart, Reserving
<1>5. CASE Dhcp!CheckRange(p)
  BY <1>1, <1>5 DEF DhcpPart, Dhcp!CheckRange
<1>6. CASE Dhcp!ReadConfig(p)
  <2>1. request[p].op = "add"
    BY <1>1, <1>6 DEF DhcpPart, Dhcp!ReadConfig
  <2>2. draft' = [draft EXCEPT ![p] = config] /\ Dhcp!Continue(p, "existing") /\ config' = config
    BY <1>6, <2>1 DEF Dhcp!ReadConfig
  <2>3. draft'[p] = config /\ pc'[p] = "existing" /\ request'[p].op = "add"
    BY <2>1, <2>2, <1>0 DEF Dhcp!Continue
  <2>. QED
    BY <1>1, <1>2, <1>4, <2>2, <2>3 DEF Reserving
<1>7. CASE Dhcp!ReadExisting(p)
  <2>1. request[p].op = "add"
    BY <1>1, <1>7 DEF DhcpPart, Dhcp!ReadExisting
  <2>2. draft' = draft /\ Dhcp!Continue(p, "choose") /\ config' = config /\ pc[p] = "existing"
    BY <1>7, <2>1 DEF Dhcp!ReadExisting
  <2>3. pc'[p] = "choose" /\ request'[p].op = "add"
    BY <2>1, <2>2, <1>0 DEF Dhcp!Continue
  <2>4. Reserving(draft[p].res)
    BY <1>1, <2>2 DEF DhcpPart
  <2>. QED
    BY <1>1, <1>2, <1>4, <2>2, <2>3, <2>4 DEF Reserving
<1>8. CASE Dhcp!RefuseExisting(p) \/ Dhcp!RefuseChosen(p)
  <2>1. config' = config /\ pc'[p] = "idle"
    BY <1>8, <1>0 DEF Dhcp!RefuseExisting, Dhcp!RefuseChosen, Dhcp!Error, Dhcp!End
  <2>. QED
    BY <1>1, <1>2, <1>4, <2>1 DEF Reserving
<1>9. CASE Dhcp!Choose(p)
  <2>1. PICK ip : draft' = [draft EXCEPT ![p].res =
                    Dhcp!Appended(@, [mac |-> request[p].mac, ip |-> ip])]
    BY <1>9 DEF Dhcp!Choose
  <2>2. draft'[p].res = Dhcp!Appended(draft[p].res, [mac |-> request[p].mac, ip |-> ip])
    BY <2>1, <1>0
  <2>3. pc[p] = "choose" /\ Dhcp!Continue(p, "update") /\ config' = config
    BY <1>9 DEF Dhcp!Choose
  <2>4. pc'[p] = "update" /\ request'[p].op = "add" /\ Reserving(draft[p].res)
    BY <1>0, <1>1, <2>3 DEF Dhcp!Continue, DhcpPart
  <2>5. Reserving(draft'[p].res)
    BY <2>2, <2>4 DEF Reserving, Dhcp!Appended
  <2>. QED
    BY <1>1, <1>2, <1>4, <2>3, <2>4, <2>5 DEF Reserving
<1>10. CASE Dhcp!Update(p)
  <2>1. config' \in {config, draft[p]} /\ pc[p] = "update" /\ pc'[p] = "idle"
    BY <1>10, <1>0 DEF Dhcp!Update, Dhcp!End
  <2>2. Reserving(draft[p].res)
    BY <1>1, <2>1 DEF DhcpPart
  <2>. QED
    BY <1>1, <1>2, <1>4, <2>1, <2>2 DEF Reserving
<1>. QED
  BY <1>5, <1>6, <1>7, <1>8, <1>9, <1>10, Zenon DEF DhcpWork

LEMMA ClaimDhcpSide ==
  ASSUME Shapes, LockInv, DhcpSide, NEW p \in Claimer, Claim(p) \/ Kill(p), ClaimFrame(p)
  PROVE  DhcpSide'
<1>0. p \in Client /\ DOMAIN stage = Claimer /\ DOMAIN want = Claimer /\ DOMAIN pre = Claimer
        /\ DOMAIN pc = Client /\ DOMAIN request = Client
  BY Kinds DEF Shapes
<1>1. DhcpPart(p) /\ Reserving(config.res)
  BY DEF DhcpSide
<1>2. \A q \in Claimer \ {p} : DhcpPart(q)'
  BY OthersIdle, IdleDhcpPart, Kinds DEF ClaimFrame, DhcpFrame
<1>3. SUFFICES Reserving(config.res)' /\ DhcpPart(p)'
  BY <1>2 DEF DhcpSide
<1>i. stage'[p] # "adding" => pc'[p] = "idle"
  BY DEF ClaimFrame
<1>m. ASSUME NEW l, Move(p, l) PROVE stage'[p] = l
  BY <1>m, <1>0 DEF Move
<1>k. ASSUME Leave(p), UNCHANGED claimed, Reserving(config'.res) PROVE Reserving(config.res)' /\ DhcpPart(p)'
  <2>1. stage'[p] = "idle"
    BY <1>k, <1>m DEF Leave
  <2>2. DhcpPart(p)'
    BY <2>1, <1>i, IdleDhcpPart
  <2>. QED
    BY <1>k, <2>2 DEF Reserving
<1>4. CASE Lock(p)
  <2>1. PICK c : want' = [want EXCEPT ![p] = c] /\ \A r \in config.res : r.mac # c.mac
    <3>1. PICK mac \in Mac, name \in Name, ip \in Addresses :
            /\ \A r \in config.res : r.mac # mac
            /\ want' = [want EXCEPT ![p] = [mac |-> mac, ip |-> ip, name |-> name]]
      BY <1>4 DEF Lock
    <3>2. \A r \in config.res : r.mac # [mac |-> mac, ip |-> ip, name |-> name].mac
      BY <3>1
    <3>. QED
      BY <3>1, <3>2
  <2>2. stage'[p] = "resolved" /\ UNCHANGED <<config, claimed>>
    BY <1>4, <1>m DEF Lock, dhcpVars
  <2>3. Fresh(p, config.res)'
    BY <2>1, <2>2, <1>0 DEF Fresh
  <2>. QED
    BY <1>1, <1>i, <2>2, <2>3 DEF DhcpPart, Reserving
<1>5. CASE Preimages(p)
  <2>1. stage[p] = "resolved" /\ stage'[p] = "adding" /\ UNCHANGED <<config, claimed, want>>
    BY <1>5, <1>m DEF Preimages
  <2>2. pre'[p].dhcp = config /\ pc'[p] = "config" /\ request'[p].op = "add"
    BY <1>5, <1>0 DEF Preimages
  <2>3. Fresh(p, config.res)
    BY <1>1, <2>1 DEF DhcpPart
  <2>. QED
    BY <1>1, <2>1, <2>2, <2>3 DEF DhcpPart, Reserving, Fresh
<1>6. CASE Blocked(p) \/ RolledBack(p)
  <2>1. Leave(p) /\ UNCHANGED <<config, claimed>>
    BY <1>6 DEF Blocked, RolledBack, dhcpVars
  <2>. QED
    BY <1>1, <1>k, <2>1
<1>7. CASE Verify(p)
  <2>1. stage[p] = "adding" /\ UNCHANGED <<config, claimed, want, pre>>
    BY <1>7 DEF Verify, dhcpVars
  <2>2. Reserving(pre[p].dhcp.res) /\ Fresh(p, pre[p].dhcp.res)
    BY <1>1, <2>1 DEF DhcpPart
  <2>3. Reserving(pre[p].dhcp.res)' /\ Fresh(p, pre[p].dhcp.res)'
    BY <2>1, <2>2 DEF Reserving, Fresh
  <2>4. CASE Reserves(want[p]) \in config.res /\ stage'[p] = "naming"
    BY <1>1, <1>i, <2>1, <2>3, <2>4 DEF DhcpPart, Reserving
  <2>5. CASE stage'[p] = "unwinding"
    BY <1>1, <1>i, <2>1, <2>3, <2>5 DEF DhcpPart, Reserving
  <2>. QED
    BY <1>7, <1>m, <2>4, <2>5 DEF Verify
<1>8. CASE Applied(p)
  <2>1. stage[p] = "naming" /\ Leave(p) /\ UNCHANGED config /\ claimed' = claimed \cup {want[p]}
    BY <1>8 DEF Applied, dhcpVars
  <2>2. Reserves(want[p]) \in config.res
    BY <1>1, <2>1 DEF DhcpPart
  <2>3. DhcpPart(p)'
    BY <2>1, <1>m, <1>i, IdleDhcpPart DEF Leave
  <2>. QED
    BY <1>1, <2>1, <2>2, <2>3 DEF Reserving, Reserves
<1>9. CASE NameFailed(p)
  <2>1. stage[p] = "naming" /\ UNCHANGED <<config, claimed>>
    BY <1>9 DEF NameFailed, dhcpVars
  <2>2. CASE Leave(p)
    BY <1>1, <1>k, <2>1, <2>2
  <2>3. CASE Move(p, "unwinding") /\ UNCHANGED <<lock, want, pre>>
    <3>1. stage'[p] = "unwinding"
      BY <2>3, <1>m
    <3>2. Reserving(pre[p].dhcp.res) /\ Fresh(p, pre[p].dhcp.res)
      BY <1>1, <2>1 DEF DhcpPart
    <3>3. Reserving(pre[p].dhcp.res)' /\ Fresh(p, pre[p].dhcp.res)'
      BY <2>1, <2>3, <3>2 DEF Reserving, Fresh
    <3>. QED
      BY <1>1, <1>i, <2>1, <2>3, <3>1, <3>3 DEF DhcpPart, Reserving
  <2>. QED
    BY <1>9, <2>2, <2>3 DEF NameFailed
<1>10. CASE Unwind(p)
  <2>1. stage[p] = "unwinding" /\ UNCHANGED claimed
    BY <1>10 DEF Unwind
  <2>2. Reserving(pre[p].dhcp.res) /\ Fresh(p, pre[p].dhcp.res)
    BY <1>1, <2>1 DEF DhcpPart
  <2>3. CASE Leave(p) /\ config' \in {config, pre[p].dhcp}
    BY <1>1, <1>k, <2>1, <2>2, <2>3
  <2>4. CASE config' = pre[p].dhcp /\ Move(p, "unnaming") /\ UNCHANGED <<lock, want, pre>>
    <3>1. stage'[p] = "unnaming"
      BY <2>4, <1>m
    <3>2. Reserves(want'[p]) \notin config'.res
      BY <2>2, <2>4 DEF Fresh, Reserves
    <3>. QED
      BY <1>i, <2>1, <2>2, <2>4, <3>1, <3>2 DEF DhcpPart, Reserving
  <2>. QED
    BY <1>10, <2>3, <2>4 DEF Unwind
<1>11. CASE Unname(p)
  <2>1. stage[p] = "unnaming" /\ UNCHANGED <<config, claimed>>
    BY <1>11 DEF Unname, dhcpVars
  <2>2. CASE Leave(p)
    BY <1>1, <1>k, <2>1, <2>2
  <2>3. CASE Move(p, "unwound") /\ UNCHANGED <<lock, want, pre>>
    <3>1. stage'[p] = "unwound"
      BY <2>3, <1>m
    <3>2. Reserves(want'[p]) \notin config'.res
      BY <1>1, <2>1, <2>3 DEF DhcpPart
    <3>. QED
      BY <1>1, <1>i, <2>1, <2>3, <3>1, <3>2 DEF DhcpPart, Reserving
  <2>. QED
    BY <1>11, <2>2, <2>3 DEF Unname
<1>12. CASE stage[p] = "adding" /\ DhcpWork(p) /\ UNCHANGED <<dnsVars, claimVars>>
  BY <1>12, AddingSide
<1>13. CASE stage[p] = "naming" /\ Dns!Work(p) /\ UNCHANGED <<dhcpVars, claimVars>>
  BY <1>1, <1>13 DEF DhcpPart, Reserving, Fresh, dhcpVars, claimVars
<1>14. CASE Kill(p)
  <2>1. Leave(p) /\ UNCHANGED claimed
    BY <1>14 DEF Kill
  <2>2. \/ config' = config
        \/ config' = draft[p] /\ pc[p] = "update"
        \/ config' = pre[p].dhcp /\ stage[p] = "unwinding"
    BY <1>14 DEF Kill
  <2>3. Reserving(config'.res)
    BY <1>1, <2>2 DEF DhcpPart
  <2>. QED
    BY <1>k, <2>1, <2>3
<1>. QED
  BY <1>4, <1>5, <1>6, <1>7, <1>8, <1>9, <1>10, <1>11, <1>12, <1>13, <1>14, Zenon DEF Claim

LEMMA DhcpSideStep ==
  ASSUME Shapes, LockInv, DhcpSide, cast \in {"claims", "edits"}, CastStep
  PROVE  DhcpSide'
<1>1. ASSUME NEW p \in Claimer, Claim(p) \/ Kill(p)
      PROVE  DhcpSide'
  BY <1>1, ClaimKeeps, ClaimDhcpSide
<1>2. ASSUME NEW p \in Operator, Rename(p)
      PROVE  DhcpSide'
  BY <1>2 DEF Rename, DhcpSide, DhcpPart, Reserving, Fresh, dhcpVars, claimVars
<1>. QED
  BY <1>1, <1>2 DEF CastStep

-----------------------------------------------------------------------------
(* The names, where claims alone change them.                              *)

LEMMA IdleDnsPart ==
  ASSUME NEW q, stage'[q] = "idle", at'[q] = "idle"
  PROVE  DnsPart(q)'
BY DEF DnsPart

\* One step of create_device_name as a claim runs it.
LEMMA NamingSide ==
  ASSUME Shapes, DnsSide, NEW p \in Claimer, stage[p] = "naming",
         Dns!Work(p), UNCHANGED claimVars
  PROVE  Naming(include)' /\ DnsPart(p)'
<1>0. p \in Client /\ DOMAIN at = Client /\ DOMAIN job = Client /\ DOMAIN lines = Client
        /\ DOMAIN previous = Client /\ DOMAIN outcome = Client
  BY Kinds DEF Shapes
<1>1. DnsPart(p) /\ Naming(include)
  BY DEF DnsSide
<1>2. UNCHANGED <<stage, want, pre, claimed>>
  BY DEF claimVars
<1>3. Naming(pre[p].dns)' /\ Record(want'[p]) \notin pre'[p].dns
  BY <1>1, <1>2 DEF DnsPart, Naming
<1>4. ASSUME /\ at'[p] # "idle" => job'[p].op = "create" /\ job'[p].record = Record(want[p])
             /\ at'[p] \in {"idle", "lines", "render", "check", "replace", "reload", "query",
                            "restore", "reloadback"}
             /\ at'[p] \notin {"idle", "lines"} =>
                  Naming(lines'[p]) /\ Record(want[p]) \in lines'[p]
             /\ at'[p] \notin {"idle", "lines", "render"} => Naming(previous'[p])
             /\ at'[p] \in {"reload", "query"} => Record(want[p]) \in include'
             /\ at'[p] = "idle" /\ outcome'[p] \in {"applied", "noop"} =>
                  Record(want[p]) \in include'
      PROVE  DnsPart(p)'
  BY <1>2, <1>3, <1>4 DEF DnsPart, Naming
<1>5. ASSUME NEW o, Dns!Stop(p, o)
      PROVE  at'[p] = "idle" /\ outcome'[p] = o
  BY <1>0, <1>5 DEF Dns!Stop
<1>6. ASSUME NEW l, Dns!To(p, l)
      PROVE  at'[p] = l /\ UNCHANGED <<job, outcome>>
  BY <1>0, <1>6 DEF Dns!To
<1>7. ASSUME UNCHANGED include PROVE Naming(include)'
  BY <1>1, <1>2, <1>7 DEF Naming
<1>8. CASE Dns!ReadLines(p)
  <2>1. at[p] = "lines" /\ job[p].op = "create" /\ job[p].record = Record(want[p])
          /\ UNCHANGED include
    BY <1>1, <1>8 DEF DnsPart, Dns!ReadLines
  <2>2. CASE /\ lines' = [lines EXCEPT ![p] = include \cup {job[p].record}]
             /\ Dns!To(p, "render")
    <3>1. lines'[p] = include \cup {Record(want[p])}
      BY <2>1, <2>2, <1>0
    <3>2. Naming(lines'[p])
      BY <3>1, <1>1 DEF Naming
    <3>. QED
      BY <1>4, <1>6, <1>7, <2>1, <2>2, <3>1, <3>2
  <2>3. CASE Dns!Stop(p, "refused")
    BY <1>4, <1>5, <1>7, <2>1, <2>3
  <2>4. CASE Dns!Stop(p, "noop") /\ job[p].record \in include
    BY <1>4, <1>5, <1>7, <2>1, <2>4
  <2>. QED
    BY <1>8, <2>1, <2>2, <2>3, <2>4 DEF Dns!ReadLines
<1>9. CASE Dns!Render(p)
  <2>1. at[p] = "render" /\ at'[p] = "check" /\ UNCHANGED <<include, lines, job>>
    BY <1>6, <1>9 DEF Dns!Render
  <2>2. previous'[p] = include
    BY <1>9, <1>0 DEF Dns!Render
  <2>3. Naming(lines[p]) /\ Record(want[p]) \in lines[p]
          /\ job[p].op = "create" /\ job[p].record = Record(want[p])
    BY <1>1, <2>1 DEF DnsPart
  <2>. QED
    BY <1>1, <1>4, <1>7, <2>1, <2>2, <2>3
<1>10. ASSUME at[p] \in {"check", "replace", "reload", "query", "restore"}
       PROVE  /\ Naming(lines[p]) /\ Record(want[p]) \in lines[p] /\ Naming(previous[p])
              /\ job[p].op = "create" /\ job[p].record = Record(want[p])
              /\ at[p] \in {"reload", "query"} => Record(want[p]) \in include
  BY <1>1, <1>10 DEF DnsPart
<1>11. CASE Dns!Check(p)
  <2>1. at[p] = "check" /\ at'[p] \in {"replace", "restore"}
          /\ UNCHANGED <<include, lines, previous, job>>
    BY <1>6, <1>11 DEF Dns!Check
  <2>. QED
    BY <1>4, <1>7, <1>10, <2>1
<1>12. CASE Dns!Replace(p)
  <2>1. at[p] = "replace"
    BY <1>12 DEF Dns!Replace
  <2>2. CASE include' = lines[p] /\ Dns!To(p, "reload") /\ UNCHANGED <<lines, previous>>
    <3>1. Naming(include)'
      BY <2>1, <2>2, <1>10, <1>2 DEF Naming
    <3>2. at'[p] = "reload" /\ UNCHANGED job
      BY <2>2, <1>6
    <3>. QED
      BY <1>4, <1>10, <2>1, <2>2, <3>1, <3>2
  <2>3. CASE Dns!Crash(p) /\ UNCHANGED include
    BY <1>4, <1>5, <1>7, <2>3 DEF Dns!Crash
  <2>. QED
    BY <1>12, <2>2, <2>3 DEF Dns!Replace
<1>13. CASE Dns!Reload(p)
  <2>1. at[p] = "reload" /\ at'[p] \in {"query", "restore"}
          /\ UNCHANGED <<include, lines, previous, job>>
    BY <1>6, <1>13 DEF Dns!Reload
  <2>. QED
    BY <1>4, <1>7, <1>10, <2>1
<1>14. CASE Dns!Query(p)
  <2>1. at[p] = "query" /\ UNCHANGED include
    BY <1>14 DEF Dns!Query
  <2>2. CASE Dns!Stop(p, "applied")
    BY <1>4, <1>5, <1>7, <1>10, <2>1, <2>2
  <2>3. CASE Dns!To(p, "restore") /\ UNCHANGED <<lines, previous>>
    BY <1>4, <1>6, <1>7, <1>10, <2>1, <2>3
  <2>. QED
    BY <1>14, <2>2, <2>3 DEF Dns!Query
<1>15. CASE Dns!Restore(p)
  <2>1. at[p] = "restore"
    BY <1>15 DEF Dns!Restore
  <2>2. CASE include' = previous[p] /\ Dns!To(p, "reloadback") /\ UNCHANGED <<lines, previous>>
    <3>1. Naming(include)'
      BY <2>1, <2>2, <1>10, <1>2 DEF Naming
    <3>2. at'[p] = "reloadback" /\ UNCHANGED job
      BY <2>2, <1>6
    <3>. QED
      BY <1>4, <1>10, <2>1, <2>2, <3>1, <3>2
  <2>3. CASE Dns!Crash(p) /\ UNCHANGED include
    BY <1>4, <1>5, <1>7, <2>3 DEF Dns!Crash
  <2>. QED
    BY <1>15, <2>2, <2>3 DEF Dns!Restore
<1>16. CASE Dns!ReloadBack(p)
  <2>1. UNCHANGED include /\ (Dns!Stop(p, "restored") \/ Dns!Stop(p, "unrestored"))
    BY <1>16 DEF Dns!ReloadBack
  <2>2. at'[p] = "idle" /\ outcome'[p] \in {"restored", "unrestored"}
    BY <2>1, <1>5
  <2>. QED
    BY <1>4, <1>7, <2>1, <2>2
<1>. QED
  BY <1>8, <1>9, <1>11, <1>12, <1>13, <1>14, <1>15, <1>16, Zenon DEF Dns!Work

LEMMA ClaimDnsSide ==
  ASSUME Shapes, LockInv, DnsSide, NEW p \in Claimer, Claim(p) \/ Kill(p), ClaimFrame(p)
  PROVE  DnsSide'
<1>0. p \in Client /\ DOMAIN stage = Claimer /\ DOMAIN want = Claimer /\ DOMAIN pre = Claimer
        /\ DOMAIN at = Client /\ DOMAIN job = Client
  BY Kinds DEF Shapes
<1>1. DnsPart(p) /\ Naming(include)
  BY DEF DnsSide
<1>2. \A q \in Claimer \ {p} : DnsPart(q)'
  BY OthersIdle, IdleDnsPart, Kinds DEF ClaimFrame, DnsFrame
<1>3. SUFFICES Naming(include)' /\ DnsPart(p)'
  BY <1>2 DEF DnsSide
<1>i. stage'[p] # "naming" => at'[p] = "idle"
  BY DEF ClaimFrame
<1>m. ASSUME NEW l, Move(p, l) PROVE stage'[p] = l
  BY <1>m, <1>0 DEF Move
<1>k. ASSUME Leave(p), UNCHANGED claimed, Naming(include') PROVE Naming(include)' /\ DnsPart(p)'
  <2>1. stage'[p] = "idle"
    BY <1>k, <1>m DEF Leave
  <2>2. DnsPart(p)'
    BY <2>1, <1>i, IdleDnsPart
  <2>. QED
    BY <1>k, <2>2 DEF Naming
<1>4. CASE Lock(p)
  <2>1. PICK c : want' = [want EXCEPT ![p] = c] /\ Record(c) \notin include
    <3>1. PICK mac \in Mac, name \in Name, ip \in Addresses :
            want' = [want EXCEPT ![p] = [mac |-> mac, ip |-> ip, name |-> name]]
      BY <1>4 DEF Lock
    <3>2. ip \notin {r.address : r \in Dns!Devices(include)}
      BY <3>1 DEF Addresses
    <3>3. \A r \in include : "address" \in DOMAIN r => r.address # ip
      BY <3>2 DEF Dns!Devices
    <3>4. Record([mac |-> mac, ip |-> ip, name |-> name]) = [address |-> ip, name |-> name]
      BY DEF Record
    <3>5. [address |-> ip, name |-> name] \notin include
      BY <3>3
    <3>. QED
      BY <3>1, <3>4, <3>5
  <2>2. stage'[p] = "resolved" /\ UNCHANGED <<include, claimed>>
    BY <1>4, <1>m DEF Lock, dnsVars
  <2>3. Record(want'[p]) \notin include'
    BY <2>1, <2>2, <1>0
  <2>. QED
    BY <1>1, <1>i, <2>2, <2>3 DEF DnsPart, Naming
<1>5. CASE Preimages(p)
  <2>1. stage[p] = "resolved" /\ stage'[p] = "adding" /\ UNCHANGED <<include, claimed, want>>
    BY <1>5, <1>m DEF Preimages, dnsVars
  <2>2. pre'[p].dns = include
    BY <1>5, <1>0 DEF Preimages
  <2>3. Record(want[p]) \notin include
    BY <1>1, <2>1 DEF DnsPart
  <2>. QED
    BY <1>1, <1>i, <2>1, <2>2, <2>3 DEF DnsPart, Naming
<1>6. CASE Blocked(p) \/ RolledBack(p)
  <2>1. Leave(p) /\ UNCHANGED <<include, claimed>>
    BY <1>6 DEF Blocked, RolledBack, dnsVars
  <2>. QED
    BY <1>1, <1>k, <2>1
<1>7. CASE Verify(p)
  <2>1. stage[p] = "adding" /\ UNCHANGED <<include, claimed, want, pre>>
    BY <1>7 DEF Verify, dnsVars, Dns!Ask
  <2>2. Naming(pre[p].dns) /\ Record(want[p]) \notin pre[p].dns
    BY <1>1, <2>1 DEF DnsPart
  <2>3. Naming(pre[p].dns)' /\ Record(want'[p]) \notin pre'[p].dns
    BY <2>1, <2>2 DEF Naming
  <2>4. CASE Move(p, "naming") /\ Dns!Ask(p, [op |-> "create", record |-> Record(want[p])])
    <3>1. stage'[p] = "naming" /\ at'[p] = "lines"
            /\ job'[p] = [op |-> "create", record |-> Record(want[p])]
      BY <2>4, <1>m, <1>0 DEF Dns!Ask
    <3>. QED
      BY <1>1, <2>1, <2>3, <3>1 DEF DnsPart, Naming
  <2>5. CASE stage'[p] = "unwinding"
    BY <1>1, <1>i, <2>1, <2>3, <2>5 DEF DnsPart, Naming
  <2>. QED
    BY <1>7, <1>m, <2>4, <2>5 DEF Verify
<1>8. CASE Applied(p)
  <2>1. stage[p] = "naming" /\ at[p] = "idle" /\ outcome[p] \in {"applied", "noop"}
          /\ Leave(p) /\ UNCHANGED include /\ claimed' = claimed \cup {want[p]}
    BY <1>8 DEF Applied, dnsVars
  <2>2. Record(want[p]) \in include
    BY <1>1, <2>1 DEF DnsPart
  <2>3. DnsPart(p)'
    BY <2>1, <1>m, <1>i, IdleDnsPart DEF Leave
  <2>. QED
    BY <1>1, <2>1, <2>2, <2>3 DEF Naming, Record
<1>9. CASE NameFailed(p)
  <2>1. stage[p] = "naming" /\ UNCHANGED <<include, claimed>>
    BY <1>9 DEF NameFailed, dnsVars
  <2>2. CASE Leave(p)
    BY <1>1, <1>k, <2>1, <2>2
  <2>3. CASE Move(p, "unwinding") /\ UNCHANGED <<lock, want, pre>>
    <3>1. stage'[p] = "unwinding"
      BY <2>3, <1>m
    <3>2. Naming(pre[p].dns) /\ Record(want[p]) \notin pre[p].dns
      BY <1>1, <2>1 DEF DnsPart
    <3>3. Naming(pre[p].dns)' /\ Record(want'[p]) \notin pre'[p].dns
      BY <2>1, <2>3, <3>2 DEF Naming
    <3>. QED
      BY <1>1, <1>i, <2>1, <2>3, <3>1, <3>3 DEF DnsPart, Naming
  <2>. QED
    BY <1>9, <2>2, <2>3 DEF NameFailed
<1>10. CASE Unwind(p)
  <2>1. stage[p] = "unwinding" /\ UNCHANGED <<claimed, include>>
    BY <1>10 DEF Unwind, dnsVars
  <2>2. CASE Leave(p)
    BY <1>1, <1>k, <2>1, <2>2
  <2>3. CASE Move(p, "unnaming") /\ UNCHANGED <<lock, want, pre>>
    <3>1. stage'[p] = "unnaming"
      BY <2>3, <1>m
    <3>2. Naming(pre[p].dns) /\ Record(want[p]) \notin pre[p].dns
      BY <1>1, <2>1 DEF DnsPart
    <3>3. Naming(pre[p].dns)' /\ Record(want'[p]) \notin pre'[p].dns
      BY <2>1, <2>3, <3>2 DEF Naming
    <3>. QED
      BY <1>1, <1>i, <2>1, <2>3, <3>1, <3>3 DEF DnsPart, Naming
  <2>. QED
    BY <1>10, <2>2, <2>3 DEF Unwind
<1>11. CASE Unname(p)
  <2>1. stage[p] = "unnaming" /\ UNCHANGED claimed
    BY <1>11 DEF Unname
  <2>2. Naming(pre[p].dns) /\ Record(want[p]) \notin pre[p].dns
    BY <1>1, <2>1 DEF DnsPart
  <2>3. CASE Leave(p) /\ include' \in {include, pre[p].dns}
    BY <1>1, <1>k, <2>1, <2>2, <2>3
  <2>4. CASE include' = pre[p].dns /\ hup' = TRUE /\ Move(p, "unwound")
               /\ UNCHANGED <<lock, want, pre>>
    <3>1. stage'[p] = "unwound"
      BY <2>4, <1>m
    <3>. QED
      BY <1>i, <2>1, <2>2, <2>4, <3>1 DEF DnsPart, Naming
  <2>. QED
    BY <1>11, <2>3, <2>4 DEF Unname
<1>12. CASE stage[p] = "adding" /\ DhcpWork(p) /\ UNCHANGED <<dnsVars, claimVars>>
  BY <1>1, <1>12 DEF DnsPart, Naming, dnsVars, claimVars
<1>13. CASE stage[p] = "naming" /\ Dns!Work(p) /\ UNCHANGED <<dhcpVars, claimVars>>
  BY <1>13, NamingSide
<1>14. CASE Kill(p)
  <2>1. Leave(p) /\ UNCHANGED <<claimed, include>>
    BY <1>14 DEF Kill
  <2>. QED
    BY <1>1, <1>k, <2>1
<1>. QED
  BY <1>4, <1>5, <1>6, <1>7, <1>8, <1>9, <1>10, <1>11, <1>12, <1>13, <1>14, Zenon DEF Claim

LEMMA DnsSideStep ==
  ASSUME Shapes, LockInv, DnsSide, cast \in {"claims", "releases"}, CastStep
  PROVE  DnsSide'
<1>1. ASSUME NEW p \in Claimer, Claim(p) \/ Kill(p)
      PROVE  DnsSide'
  BY <1>1, ClaimKeeps, ClaimDnsSide
<1>2. ASSUME NEW p \in Operator, Reserve(p)
      PROVE  DnsSide'
  BY <1>2 DEF Reserve, DnsSide, DnsPart, Naming, dnsVars, claimVars
<1>. QED
  BY <1>1, <1>2 DEF CastStep

-----------------------------------------------------------------------------
(* The addresses that claims were told of.                                 *)

LEMMA UnclaimedStep ==
  ASSUME Shapes, LockInv, Unclaimed, AddressNamedOnce, CastStep,
         cast \in {"claims", "edits"} => DhcpSide,
         cast \in {"claims", "releases"} => DnsSide
  PROVE  Unclaimed' /\ AddressNamedOnce'
<1>1. ASSUME NEW p \in Claimer, Claim(p) \/ Kill(p), cast \in {"claims", "releases", "edits"}
      PROVE  Unclaimed' /\ AddressNamedOnce'
  <2>0. DOMAIN stage = Claimer /\ DOMAIN want = Claimer
    BY DEF Shapes
  <2>1. ClaimFrame(p)
    BY <1>1, ClaimKeeps
  <2>2. \A q \in Claimer \ {p} : stage'[q] = "idle"
    BY <2>1, OthersIdle DEF ClaimFrame
  <2>3. CASE Lock(p)
    <3>1. PICK mac \in Mac, name \in Name, ip \in Addresses :
            want' = [want EXCEPT ![p] = [mac |-> mac, ip |-> ip, name |-> name]]
      BY <2>3 DEF Lock
    <3>2. want'[p].ip = ip /\ UNCHANGED claimed
      BY <2>3, <3>1, <2>0 DEF Lock
    <3>3. ip \notin Dhcp!Used(config) /\ ip \notin {r.address : r \in Dns!Devices(include)}
      BY <3>1 DEF Addresses
    <3>4. \A c \in claimed : c.ip # ip
      <4>1. CASE DhcpSide
        <5>1. \A c \in claimed : Reserves(c) \in config.res /\ Reserves(c).ip = c.ip
          BY <4>1 DEF DhcpSide, Reserving, Reserves
        <5>2. \A r \in config.res : r.ip # ip
          BY <3>3 DEF Dhcp!Used
        <5>. QED
          BY <5>1, <5>2
      <4>2. CASE DnsSide
        <5>1. \A c \in claimed : /\ Record(c) \in include /\ Record(c).address = c.ip
                                 /\ "address" \in DOMAIN Record(c)
          BY <4>2 DEF DnsSide, Naming, Record
        <5>2. \A r \in include : "address" \in DOMAIN r => r.address # ip
          BY <3>3 DEF Dns!Devices
        <5>. QED
          BY <5>1, <5>2
      <4>. QED
        BY <1>1, <4>1, <4>2
    <3>. QED
      BY <2>2, <3>2, <3>4 DEF Unclaimed, AddressNamedOnce
  <2>4. CASE Applied(p)
    <3>1. stage[p] = "naming" /\ stage'[p] = "idle" /\ claimed' = claimed \cup {want[p]}
      BY <2>4, <2>0 DEF Applied, Leave, Move
    <3>2. \A c \in claimed : c.ip # want[p].ip
      BY <3>1 DEF Unclaimed
    <3>3. AddressNamedOnce'
      BY <3>1, <3>2 DEF AddressNamedOnce
    <3>. QED
      BY <2>2, <3>1, <3>3 DEF Unclaimed
  <2>5. ASSUME UNCHANGED claimed, stage'[p] = "idle" \/ (stage[p] # "idle" /\ UNCHANGED want)
        PROVE  Unclaimed' /\ AddressNamedOnce'
    BY <2>2, <2>5 DEF Unclaimed, AddressNamedOnce
  <2>6. ASSUME Leave(p) PROVE stage'[p] = "idle"
    BY <2>6, <2>0 DEF Leave, Move
  <2>7. CASE Preimages(p) \/ Verify(p)
    BY <2>5, <2>7 DEF Preimages, Verify
  <2>8. CASE Blocked(p) \/ RolledBack(p) \/ Kill(p)
    BY <2>5, <2>6, <2>8 DEF Blocked, RolledBack, Kill
  <2>9. CASE NameFailed(p) \/ Unwind(p) \/ Unname(p)
    BY <2>5, <2>6, <2>9 DEF NameFailed, Unwind, Unname
  <2>10. CASE /\ stage[p] \in {"adding", "naming"} /\ UNCHANGED claimVars
    BY <2>5, <2>10 DEF claimVars
  <2>. QED
    BY <1>1, <2>3, <2>4, <2>7, <2>8, <2>9, <2>10 DEF Claim
<1>2. ASSUME NEW p \in Operator, Reserve(p) \/ Rename(p)
      PROVE  Unclaimed' /\ AddressNamedOnce'
  BY <1>2 DEF Reserve, Rename, Unclaimed, AddressNamedOnce, claimVars
<1>. QED
  BY <1>1, <1>2, Zenon DEF CastStep

-----------------------------------------------------------------------------
(* The commands of the names, one after the other.                         *)

LEMMA ServeStep ==
  ASSUME Shapes, ServeInv, NEW p, Operator = {p}, cast = "names", CastStep
  PROVE  ServeInv'
<1>0. p \in Client /\ DOMAIN at = Client /\ DOMAIN job = Client /\ DOMAIN lines = Client
        /\ DOMAIN previous = Client /\ DOMAIN outcome = Client /\ p \notin Claimer
  BY Kinds DEF Shapes
<1>1. Rename(p)
  BY DEF CastStep
<1>2. (Dns!StartJob(p) \/ Dns!Work(p)) /\ UNCHANGED stage
  BY <1>1 DEF Rename, claimVars
<1>3. \A q \in Claimer : stage'[q] = "idle" /\ outcome'[q] = "noop"
  <2>1. DnsFrame(p)
    BY <1>0, <1>2, DnsShape
  <2>2. \A q \in Claimer : q \in Client \ {p}
    BY <1>0, Kinds
  <2>. QED
    BY <2>1, <2>2, <1>2 DEF DnsFrame, ServeInv
<1>4. SUFFICES
        /\ at'[p] \in {"idle", "lines", "render", "check", "replace", "reloadback"} =>
             owed' \subseteq include'
        /\ at'[p] = "render" =>
             lines'[p] = IF job'[p].op = "create" THEN include' \cup {job'[p].record}
                         ELSE include' \ {job'[p].record}
        /\ at'[p] \in {"check", "replace", "reload", "query", "restore"} =>
             Edited(p)' /\ owed' \subseteq previous'[p]
        /\ at'[p] \in {"check", "replace"} => include' = previous'[p]
        /\ at'[p] \in {"reload", "query"} => include' = lines'[p]
        /\ at'[p] = "query" => resolver' = include' \/ hup'
        /\ at'[p] = "restore" => include' \in {lines'[p], previous'[p]}
        /\ at'[p] = "idle" /\ outcome'[p] \in {"applied", "restored"} =>
             resolver' = include' \/ hup'
  BY <1>3, <1>4 DEF ServeInv
<1>5. /\ at[p] \in {"idle", "lines", "render", "check", "replace", "reloadback"} =>
           owed \subseteq include
      /\ at[p] = "render" =>
           lines[p] = IF job[p].op = "create" THEN include \cup {job[p].record}
                      ELSE include \ {job[p].record}
      /\ at[p] \in {"check", "replace", "reload", "query", "restore"} =>
           Edited(p) /\ owed \subseteq previous[p]
      /\ at[p] \in {"check", "replace"} => include = previous[p]
      /\ at[p] \in {"reload", "query"} => include = lines[p]
      /\ at[p] = "query" => resolver = include \/ hup
      /\ at[p] = "restore" => include \in {lines[p], previous[p]}
      /\ at[p] = "idle" /\ outcome[p] \in {"applied", "restored"} =>
           resolver = include \/ hup
  BY DEF ServeInv
<1>6. ASSUME NEW o, Dns!Stop(p, o)
      PROVE  at'[p] = "idle" /\ outcome'[p] = o
  BY <1>0, <1>6 DEF Dns!Stop
<1>7. ASSUME NEW l, Dns!To(p, l)
      PROVE  at'[p] = l /\ UNCHANGED <<job, outcome, owed>>
  BY <1>0, <1>7 DEF Dns!To
<1>8. CASE Dns!StartJob(p)
  <2>1. at[p] = "idle" /\ at'[p] = "lines" /\ UNCHANGED <<include, owed>>
    BY <1>0, <1>8 DEF Dns!StartJob, Dns!Ask
  <2>. QED
    BY <1>5, <2>1
<1>9. CASE Dns!ReadLines(p)
  <2>1. at[p] = "lines" /\ UNCHANGED <<include, resolver, hup>> /\ owed \subseteq include
    BY <1>5, <1>9 DEF Dns!ReadLines, Dns!unbound
  <2>2. CASE /\ job[p].op = "create" /\ Dns!To(p, "render")
             /\ lines' = [lines EXCEPT ![p] = include \cup {job[p].record}]
    BY <1>0, <1>7, <2>1, <2>2
  <2>3. CASE /\ job[p].op # "create" /\ Dns!To(p, "render")
             /\ lines' = [lines EXCEPT ![p] = include \ {job[p].record}]
    BY <1>0, <1>7, <2>1, <2>3
  <2>4. CASE Dns!Stop(p, "refused") /\ UNCHANGED owed
    BY <1>6, <2>1, <2>4
  <2>5. CASE /\ (job[p].op = "create") <=> (job[p].record \in include)
             /\ Dns!Stop(p, "noop")
             /\ owed' = IF job[p].op = "create" THEN owed \cup {job[p].record}
                        ELSE owed \ {job[p].record}
    BY <1>6, <2>1, <2>5
  <2>. QED
    BY <1>9, <2>2, <2>3, <2>4, <2>5 DEF Dns!ReadLines
<1>10. CASE Dns!Render(p)
  <2>1. at[p] = "render" /\ at'[p] = "check" /\ UNCHANGED <<include, lines, job, owed>>
          /\ previous'[p] = include
    BY <1>0, <1>7, <1>10 DEF Dns!Render
  <2>. QED
    BY <1>5, <2>1 DEF Edited
<1>11. CASE Dns!Check(p)
  <2>1. at[p] = "check" /\ at'[p] \in {"replace", "restore"}
          /\ UNCHANGED <<include, lines, previous, job, owed>>
    BY <1>7, <1>11 DEF Dns!Check
  <2>. QED
    BY <1>5, <2>1 DEF Edited
<1>12. CASE Dns!Replace(p)
  <2>1. at[p] = "replace"
    BY <1>12 DEF Dns!Replace
  <2>2. CASE include' = lines[p] /\ Dns!To(p, "reload") /\ UNCHANGED <<lines, previous>>
    BY <1>5, <1>7, <2>1, <2>2 DEF Edited
  <2>3. CASE Dns!Crash(p) /\ UNCHANGED include
    BY <1>5, <1>6, <2>1, <2>3 DEF Dns!Crash
  <2>. QED
    BY <1>12, <2>2, <2>3 DEF Dns!Replace
<1>13. CASE Dns!Reload(p)
  <2>1. at[p] = "reload" /\ UNCHANGED <<include, lines, previous, job, owed>>
    BY <1>7, <1>13 DEF Dns!Reload
  <2>2. (at'[p] = "query" /\ hup' = TRUE) \/ at'[p] = "restore"
    BY <1>7, <1>13 DEF Dns!Reload
  <2>. QED
    BY <1>5, <2>1, <2>2 DEF Edited
<1>14. CASE Dns!Query(p)
  <2>1. at[p] = "query" /\ UNCHANGED <<include, resolver, hup>>
    BY <1>14 DEF Dns!Query, Dns!unbound
  <2>2. CASE /\ Dns!Stop(p, "applied")
             /\ owed' = IF job[p].op = "create" THEN owed \cup {job[p].record}
                        ELSE owed \ {job[p].record}
    BY <1>5, <1>6, <2>1, <2>2 DEF Edited
  <2>3. CASE Dns!To(p, "restore") /\ UNCHANGED <<lines, previous>>
    BY <1>5, <1>7, <2>1, <2>3 DEF Edited
  <2>. QED
    BY <1>14, <2>2, <2>3 DEF Dns!Query
<1>15. CASE Dns!Restore(p)
  <2>1. at[p] = "restore"
    BY <1>15 DEF Dns!Restore
  <2>2. CASE include' = previous[p] /\ Dns!To(p, "reloadback") /\ UNCHANGED <<lines, previous>>
    BY <1>5, <1>7, <2>1, <2>2
  <2>3. CASE Dns!Crash(p) /\ UNCHANGED include
    \* A removal that crashes here withdraws the promise of what it has removed.
    <3>1. owed' = owed \ {job[p].record} /\ at'[p] = "idle" /\ outcome'[p] = "crashed"
      BY <1>6, <2>3 DEF Dns!Crash
    <3>2. owed \ {job[p].record} \subseteq lines[p] /\ owed \subseteq previous[p]
      BY <1>5, <2>1 DEF Edited
    <3>. QED
      BY <1>5, <2>1, <2>3, <3>1, <3>2
  <2>. QED
    BY <1>15, <2>2, <2>3 DEF Dns!Restore
<1>16. CASE Dns!ReloadBack(p)
  <2>1. at[p] = "reloadback" /\ UNCHANGED <<include, owed>>
    BY <1>16 DEF Dns!ReloadBack
  <2>2. CASE hup' = TRUE /\ Dns!Stop(p, "restored")
    BY <1>5, <1>6, <2>1, <2>2
  <2>3. CASE Dns!Stop(p, "unrestored")
    BY <1>5, <1>6, <2>1, <2>3
  <2>. QED
    BY <1>16, <2>2, <2>3 DEF Dns!ReloadBack
<1>. QED
  BY <1>2, <1>8, <1>9, <1>10, <1>11, <1>12, <1>13, <1>14, <1>15, <1>16, Zenon DEF Dns!Work

-----------------------------------------------------------------------------
(* The theorems.                                                           *)

IdentityInv ==
  /\ Shapes /\ LockInv /\ Unclaimed /\ AddressNamedOnce
  /\ cast \in {"claims", "edits"} => DhcpSide
  /\ cast \in {"claims", "releases"} => DnsSide

\* What Unbound serves is in no part of the invariant, but where the file has
\* been put back, and that is what it loads.
LEMMA LoadKeeps ==
  ASSUME IdentityInv, Load, cast' = cast
  PROVE  IdentityInv'
<1>1. /\ UNCHANGED <<config, pc, request, draft, existing, answer>>
      /\ UNCHANGED <<include, at, job, lines, previous, outcome>>
      /\ UNCHANGED <<lock, stage, want, pre, claimed, cast>>
      /\ resolver' = include
  BY DEF Load, Dns!Load, dhcpVars, claimVars
<1>2. Shapes' /\ LockInv' /\ Unclaimed' /\ AddressNamedOnce'
  BY <1>1 DEF IdentityInv, Shapes, LockInv, Unclaimed, AddressNamedOnce
<1>3. DhcpSide => DhcpSide'
  BY <1>1 DEF DhcpSide, DhcpPart, Reserving, Fresh
<1>4. DnsSide => DnsSide'
  BY <1>1 DEF DnsSide, DnsPart, Naming
<1>. QED
  BY <1>1, <1>2, <1>3, <1>4 DEF IdentityInv

LEMMA IdentityAlways == CastSpec => []IdentityInv
<1>1. CastInit => IdentityInv
  <2>. SUFFICES ASSUME CastInit PROVE IdentityInv
    OBVIOUS
  <2>1. /\ stage = [p \in Claimer |-> "idle"] /\ want = [p \in Claimer |-> NoClaim]
        /\ pre = [p \in Claimer |-> NoPreimage] /\ claimed = {} /\ lock = Nobody
    BY DEF CastInit, Init
  <2>2. /\ pc = [p \in Client |-> "idle"] /\ request = [p \in Client |-> Dhcp!NoRequest]
        /\ draft = [p \in Client |-> Dhcp!NothingRead] /\ existing = [p \in Client |-> {}]
        /\ answer = [p \in Client |-> "ok"] /\ "res" \in DOMAIN config
    BY DEF CastInit, Init, Dhcp!DhcpInit
  <2>3. /\ at = [p \in Client |-> "idle"] /\ job = [p \in Client |-> Dns!NoJob]
        /\ lines = [p \in Client |-> {}] /\ previous = [p \in Client |-> {}]
        /\ outcome = [p \in Client |-> "noop"]
    BY DEF CastInit, Init, Dns!NamesInit
  <2>4. Shapes
    BY <2>1, <2>2, <2>3, NothingReadShape DEF Shapes, NoPreimage
  <2>5. \A q \in Claimer : stage[q] = "idle" /\ pc[q] = "idle" /\ at[q] = "idle"
    BY <2>1, <2>2, <2>3, Kinds
  <2>6. LockInv /\ Unclaimed /\ AddressNamedOnce
    BY <2>1, <2>5 DEF LockInv, Unclaimed, AddressNamedOnce
  <2>7. DhcpSide
    BY <2>1, <2>5 DEF DhcpSide, DhcpPart, Reserving
  <2>8. DnsSide
    BY <2>1, <2>5 DEF DnsSide, DnsPart, Naming
  <2>. QED
    BY <2>4, <2>6, <2>7, <2>8 DEF IdentityInv
<1>2. IdentityInv /\ [CastNext]_<<vars, cast>> => IdentityInv'
  <2>. SUFFICES ASSUME IdentityInv, [CastNext]_<<vars, cast>> PROVE IdentityInv'
    OBVIOUS
  <2>0. CASE CastNext /\ Load
    BY <2>0, CastSteps, LoadKeeps
  <2>1. CASE CastNext /\ CastStep
    <3>1. CastStep /\ cast' = cast
      BY <2>1, CastSteps
    <3>2. Shapes' /\ LockInv'
      BY <3>1, LockStep DEF IdentityInv
    <3>3. Unclaimed' /\ AddressNamedOnce'
      BY <3>1, UnclaimedStep DEF IdentityInv
    <3>4. cast' \in {"claims", "edits"} => DhcpSide'
      BY <3>1, DhcpSideStep DEF IdentityInv
    <3>5. cast' \in {"claims", "releases"} => DnsSide'
      BY <3>1, DnsSideStep DEF IdentityInv
    <3>. QED
      BY <3>2, <3>3, <3>4, <3>5 DEF IdentityInv
  <2>2. CASE UNCHANGED <<vars, cast>>
    <3>1. /\ UNCHANGED <<config, pc, request, draft, existing, answer>>
          /\ UNCHANGED <<include, resolver, hup, at, job, lines, previous, outcome>>
          /\ UNCHANGED <<lock, stage, want, pre, claimed, cast>>
      BY <2>2 DEF vars, dhcpVars, dnsVars, claimVars
    <3>2. Shapes' /\ LockInv' /\ Unclaimed' /\ AddressNamedOnce'
      BY <3>1 DEF IdentityInv, Shapes, LockInv, Unclaimed, AddressNamedOnce
    <3>3. DhcpSide => DhcpSide'
      BY <3>1 DEF DhcpSide, DhcpPart, Reserving, Fresh
    <3>4. DnsSide => DnsSide'
      BY <3>1 DEF DnsSide, DnsPart, Naming
    <3>. QED
      BY <3>1, <3>2, <3>3, <3>4 DEF IdentityInv
  <2>. QED
    BY <2>0, <2>1, <2>2, CastSteps
<1>. QED
  BY <1>1, <1>2, PTL DEF CastSpec

\* A claim that was told "applied" keeps its reservation and its name, whatever
\* claims beside and after it do, fail at, roll back or are killed in
\* (IdentityClaimManager.claim under its flock).
THEOREM ClaimsKept == CastSpec => []ClaimsStandAlone
<1>1. IdentityInv => ClaimsStandAlone
  BY DEF IdentityInv, ClaimsStandAlone, ClaimsStand, DhcpSide, DnsSide, Reserving, Naming
<1>. QED
  BY <1>1, IdentityAlways, PTL

\* A claim whose rollback went through leaves neither its reservation nor its
\* name, and Unbound serves what the file says or has a signal to load it.
THEOREM RollbacksAreWhole == CastSpec => []RolledBackAlone
<1>1. IdentityInv => RolledBackAlone
  BY DEF IdentityInv, RolledBackAlone, RolledBackWhole, DhcpSide, DnsSide, DhcpPart, DnsPart
<1>. QED
  BY <1>1, IdentityAlways, PTL

\* No address has two claimed names, beside commands that release reservations
\* or edit aliases: each of them leaves one of the two stores to the claims.
THEOREM AddressesAreNamedOnce == CastSpec => []AddressNamedOnce
<1>1. IdentityInv => AddressNamedOnce
  BY DEF IdentityInv
<1>. QED
  BY <1>1, IdentityAlways, PTL

\* An answer "applied" or "restored" means that Unbound serves the file or has a
\* signal to load it, and that the file has every name promised.  It supposes one
\* command of dns/index.py at a time, which nothing in the code sees to.
LEMMA AnswersAreServed ==
  ASSUME OneOperator
  PROVE  CastSpec => []ServedAsWritten
<1>0. PICK p : Operator = {p}
  BY DEF OneOperator
<1>1. CastInit => (cast = "names" => ServeInv)
  <2>. SUFFICES ASSUME CastInit PROVE ServeInv
    OBVIOUS
  <2>1. /\ stage = [q \in Claimer |-> "idle"] /\ at = [q \in Client |-> "idle"]
        /\ outcome = [q \in Client |-> "noop"] /\ owed = {}
    BY DEF CastInit, Init, Dns!NamesInit
  <2>. QED
    BY <2>1, Kinds DEF ServeInv
<1>2. IdentityInv /\ (cast = "names" => ServeInv) /\ [CastNext]_<<vars, cast>>
        => (cast = "names" => ServeInv)'
  <2>. SUFFICES ASSUME IdentityInv, cast = "names" => ServeInv,
                       [CastNext]_<<vars, cast>>, cast' = "names"
                PROVE  ServeInv'
    OBVIOUS
  <2>1. CASE CastNext /\ CastStep
    <3>1. CastStep /\ cast = "names" /\ Shapes
      BY <2>1, CastSteps DEF IdentityInv
    <3>. QED
      BY <1>0, <3>1, ServeStep
  <2>0. CASE CastNext /\ Load
    <3>1. cast = "names" /\ UNCHANGED <<include, at, job, lines, previous, outcome, owed, stage>>
            /\ resolver' = include
      BY <2>0, CastSteps DEF Load, Dns!Load, claimVars
    <3>. QED
      BY <3>1 DEF ServeInv, Edited
  <2>2. CASE UNCHANGED <<vars, cast>>
    BY <2>2 DEF vars, dnsVars, claimVars, ServeInv, Edited
  <2>. QED
    BY <2>0, <2>1, <2>2, CastSteps
<1>3. IdentityInv /\ (cast = "names" => ServeInv) => ServedAsWritten
  <2>. SUFFICES ASSUME IdentityInv, ServeInv, cast = "names",
                       NEW q \in Client, at[q] = "idle", outcome[q] \in {"applied", "restored"}
                PROVE  (resolver = include \/ hup) /\ owed \subseteq include
    BY DEF ServedAsWritten, Dns!ServedAsWritten
  <2>1. q \in Operator
    BY DEF Client, ServeInv
  <2>. QED
    BY <2>1 DEF ServeInv
<1>. QED
  BY <1>1, <1>2, <1>3, IdentityAlways, PTL DEF CastSpec
===============================================================================
