--------------------------- MODULE CredentialLauncher ---------------------------
(***************************************************************************)
(* The one-shot launcher of the SacredCredential                            *)
(* (lib/bind_derived/index.py over lib/sacred_credential/index.py).  Each   *)
(* command is a process: it reads the skeleton, asks Keyman for the record, *)
(* compares, perhaps has Keyman rewrite the record, and binds anew.  The    *)
(* serving process keeps the public key of the last bind and hands it to    *)
(* verify.  A key pair is a function of the identity and the PIN, so the    *)
(* pair <<identity, PIN>> stands for it, and for the record that yields it. *)
(***************************************************************************)
EXTENDS Naturals

CONSTANTS Pin_, Skeleton,
          Process,      \* the launchers that run at once
          MaxRun        \* bound on the commands and the changes by hand

NoKey == <<"none", "none">>

VARIABLES skeleton,     \* the identity of skeleton.key
          record,       \* caduceus.key in Keyman's custody, or NoKey
          default,      \* the provisioned default PIN, or "none"
          served,       \* the key that the serving process holds
          launcher,     \* [Process -> its command]
          inCustody,    \* [Process -> the records in custody since it began]
          runs

credVars == <<skeleton, record, default, served, launcher, inCustody, runs>>

Unused == [op |-> "none", pc |-> "none", pin |-> "none", new |-> "none", given |-> NoKey,
           bound |-> NoKey, id |-> "none", job |-> "none", why |-> "none"]

CredInit ==
    /\ skeleton \in Skeleton
    /\ record \in {NoKey} \cup ({skeleton} \X Pin_)
    /\ default \in Pin_ \cup {"none"}
    /\ served = NoKey
    /\ launcher = [p \in Process |-> Unused]
    /\ inCustody = [p \in Process |-> {}]
    /\ runs = 0

Over(p) == launcher[p].pc \in {"none", "ok", "refused"}
Runs == runs < MaxRun /\ runs' = runs + 1
Custody(r) == record' = r /\ inCustody' = [p \in Process |-> inCustody[p] \cup {r}]

Launch(p, op, pin, new, given, pc, job) ==
    /\ Over(p) /\ Runs
    /\ launcher' = [launcher EXCEPT ![p] = [Unused EXCEPT !.op = op, !.pin = pin, !.new = new,
                       !.given = given, !.pc = pc, !.job = job]]
    /\ inCustody' = [inCustody EXCEPT ![p] = {record}]
    /\ UNCHANGED <<skeleton, record, default, served>>

\* What the record is read for: to verify a PIN, to rewrite it, to bind.
Bind(p) == Launch(p, "bind", "none", "none", NoKey, "identity", "bind")
VerifyPin(p, pin) == Launch(p, "verify", pin, "none", served, "expected", "verify")
AtomicChangePin(p, old, new) == Launch(p, "change", old, new, NoKey, "expected", "verify")
ResetDefaultPin(p) == Launch(p, "reset", "none", default, NoKey, "default", "rewrite")
Provision(p, pin) == Launch(p, "provision", "none", pin, NoKey, "exists", "create")

-----------------------------------------------------------------------------
To(p, pc) == launcher' = [launcher EXCEPT ![p].pc = pc]
Refuse(p, why) == launcher' = [launcher EXCEPT ![p].pc = "refused", ![p].why = why]
Reads == UNCHANGED <<skeleton, record, default, served, inCustody, runs>>

\* The key that was given, else that of the bind of this process.
ExpectedKey(w) == IF w.given # NoKey THEN w.given ELSE w.bound
Expects(p) ==
    /\ launcher[p].pc = "expected" /\ Reads
    /\ IF ExpectedKey(launcher[p]) = NoKey THEN Refuse(p, "derived-unbound") ELSE To(p, "identity")

Default(p) ==
    /\ launcher[p].pc = "default" /\ Reads
    /\ IF launcher[p].new = "none" THEN Refuse(p, "default-not-provisioned") ELSE To(p, "identity")

Exists(p) ==
    /\ launcher[p].pc = "exists" /\ Reads
    /\ IF record # NoKey THEN Refuse(p, "key-exists") ELSE To(p, "identity")

RawIdentity(p) ==
    /\ launcher[p].pc = "identity" /\ Reads
    /\ \/ launcher' = [launcher EXCEPT ![p].id = skeleton,
                          ![p].pc = IF launcher[p].job = "create" THEN "keyman" ELSE "decrypt"]
       \/ Refuse(p, "skeleton-unavailable")

\* The record as Keyman decrypts it, its user name compared with the identity,
\* and what the job makes of it; a PIN that was presented is among those that fit.
Decrypted(p, fitting) ==
    LET w == launcher[p]
        fits == record[1] = w.id IN
    /\ w.pc = "decrypt" /\ Reads
    /\ \/ Refuse(p, "keyman-refused")
       \/ record # NoKey /\ ~fits /\ Refuse(p, "identity-mismatch")
       \/ /\ record # NoKey /\ fits
          /\ CASE w.job = "bind" -> launcher' = [launcher EXCEPT ![p].pc = "ok",
                                                   ![p].bound = <<w.id, record[2]>>]
               [] w.job = "rewrite" ->
                    IF w.op = "change" /\ w.pin \notin fitting THEN Refuse(p, "pin-refused") ELSE To(p, "keyman")
               [] w.job = "verify" ->
                    CASE w.pin \notin fitting -> Refuse(p, "pin-refused")
                      [] <<w.id, w.pin>> # ExpectedKey(w) -> Refuse(p, "key-mismatch")
                      [] OTHER -> launcher' = [launcher EXCEPT ![p].bound = <<w.id, w.pin>>,
                                    ![p].job = "rewrite", ![p].pc = IF w.op = "change" THEN "identity" ELSE "ok"]

\* The PIN that was presented is not compared.
DecryptAnyPin(p) == Decrypted(p, Pin_)
Decrypt(p) == Decrypted(p, {record[2]})

\* reencrypt keeps the user name.  A Keyman that takes more than 15 seconds is
\* killed, before or after it wrote; create may refuse a record that exists.
Rewritten(w) == IF w.job = "create" THEN <<w.id, w.new>> ELSE <<record[1], w.new>>
Keyman(p) ==
    LET w == launcher[p] IN
    /\ w.pc = "keyman"
    /\ \/ /\ Custody(Rewritten(w))
          /\ \/ launcher' = [launcher EXCEPT ![p].pc = IF w.op = "provision" THEN "ok" ELSE "identity",
                                ![p].job = "bind"]
             \/ Refuse(p, "keyman-refused")
       \/ Refuse(p, "keyman-refused") /\ UNCHANGED <<record, inCustody>>
    /\ UNCHANGED <<skeleton, default, served, runs>>

\* The serving process reads the answer of a bind or a reset.
Take(p) ==
    /\ launcher[p].pc = "ok" /\ launcher[p].job = "bind" /\ launcher[p].op \in {"bind", "reset"}
    /\ served' = launcher[p].bound
    /\ launcher' = [launcher EXCEPT ![p] = Unused]
    /\ UNCHANGED <<skeleton, record, default, inCustody, runs>>

\* A person replaces the skeleton key, or the default PIN.
ReplaceByHand(s, d) ==
    /\ Runs /\ skeleton' = s /\ default' = d
    /\ UNCHANGED <<record, served, launcher, inCustody>>

CredNext ==
    \/ \E p \in Process :
          \/ Bind(p) \/ ResetDefaultPin(p)
          \/ \E pin \in Pin_ : VerifyPin(p, pin) \/ Provision(p, pin)
          \/ \E old, new \in Pin_ : AtomicChangePin(p, old, new)
          \/ Expects(p) \/ Default(p) \/ Exists(p) \/ RawIdentity(p) \/ Decrypt(p) \/ Keyman(p)
          \/ Take(p)
    \/ \E s \in Skeleton, d \in Pin_ : ReplaceByHand(s, d)

CredSpec == CredInit /\ [][CredNext]_credVars
-----------------------------------------------------------------------------
\* A key that an answer vouches for was the record in custody at some moment of
\* that command, however old the key that the serving process passed to it, and
\* whatever the other launchers did.
VouchedWasHeld ==
    \A p \in Process : launcher[p].pc = "ok" /\ launcher[p].bound # NoKey =>
        launcher[p].bound \in inCustody[p]
=============================================================================
