-------------------------------- MODULE HouseCa --------------------------------
(***************************************************************************)
(* The house certificate authority (network/cert/house-ca/index.py): the    *)
(* root ring of two files, the leaves it signs, the exported bundle, the    *)
(* trust store, the portals of the proxy and the state ledger.  A root is   *)
(* the number of its creation, 0 a file that is absent.  One command runs   *)
(* at a time; every openssl call and every move may fail, and the process   *)
(* may be killed between two steps.                                         *)
(***************************************************************************)
EXTENDS Naturals, Sequences, FiniteSets

CONSTANTS Portal,       \* the identities leaves are issued for
          MaxRoot       \* bound on the roots made

VARIABLES ring,         \* the files ca.pem, ca.key.pem and their previous ones
          leaf,         \* [Portal -> the root that signed it, whether its key fits]
          bundle,       \* the root in the exported bundle
          trust,        \* the root in the trust store of this body
          ledger,       \* the record of state.json
          proxied,      \* the portals nginx has a configuration for
          call,         \* the command that runs, and what is left of it
          made          \* the roots made so far

caVars == <<ring, leaf, bundle, trust, ledger, proxied, call, made>>

CaInit ==
    /\ ring = [ca |-> 0, key |-> 0, oldCa |-> 0, oldKey |-> 0]
    /\ leaf = [p \in Portal |-> [cert |-> 0, fits |-> FALSE]]
    /\ bundle = 0 /\ trust = 0
    /\ ledger = [root |-> 0, installed |-> FALSE, portals |-> {}]
    /\ proxied = {}
    /\ call = [verb |-> "none", todo |-> <<>>, portal |-> CHOOSE p \in Portal : TRUE,
               found |-> [ca |-> 0, key |-> 0], answer |-> "none", failed |-> "none"]
    /\ made = 0

Live == [ca |-> ring.ca, key |-> ring.key]
RootValid == ring.ca # 0 /\ ring.ca = ring.key

-----------------------------------------------------------------------------
(* A command is the list of its steps.  ensure-root makes a root only where  *)
(* neither file exists, or where an authority renews an invalid ring.        *)

EnsureRoot(authority) ==
    IF RootValid THEN <<>>
    ELSE IF (ring.ca # 0 \/ ring.key # 0) /\ ~authority THEN <<"refuse">>
    ELSE <<"make", "keep key", "keep ca">>

IssueLeaf == <<"leaf key", "leaf cert", "verify">>

\* ensure-root is asked again by the leaf a rotation issues, and finds the ring
\* it has just made.
Rotate == <<"drop older", "set ca aside", "set key aside", "make", "keep key",
            "keep ca", "leaf key", "leaf cert", "verify", "drop previous">>

Steps(verb) ==
    CASE verb = "ensure-root"   -> EnsureRoot(FALSE)
      [] verb = "renew-root"    -> EnsureRoot(TRUE)
      [] verb = "rotate-ca"     -> Rotate
      [] verb = "issue-leaf"    -> EnsureRoot(FALSE) \o IssueLeaf
      [] verb = "bundle-export" -> EnsureRoot(FALSE) \o <<"export">>
      [] verb = "trust-install" -> <<"trust", "commit trust">>
      [] verb = "portal-admit"  -> EnsureRoot(FALSE) \o IssueLeaf \o <<"proxy", "commit portal">>

Begin(verb, p) ==
    /\ call.answer # "running"
    /\ call' = [verb |-> verb, todo |-> Steps(verb), portal |-> p, found |-> Live,
                answer |-> "running", failed |-> "none"]
    /\ UNCHANGED <<ring, leaf, bundle, trust, ledger, proxied, made>>

Doing(step) == call.todo # <<>> /\ Head(call.todo) = step
Done == call' = [call EXCEPT !.todo = Tail(@)]

\* A root is made below temporary names; its files are then put in place one
\* after the other.
Make ==
    /\ Doing("make") /\ made < MaxRoot
    /\ made' = made + 1 /\ Done
    /\ UNCHANGED <<ring, leaf, bundle, trust, ledger, proxied>>

Files(step) ==
    CASE step = "keep key"      -> [ring EXCEPT !.key = made]
      [] step = "keep ca"       -> [ring EXCEPT !.ca = made]
      [] step \in {"drop older", "drop previous"} -> [ring EXCEPT !.oldCa = 0, !.oldKey = 0]
      [] step = "set ca aside"  -> IF ring.ca = 0 THEN ring
                                   ELSE [ring EXCEPT !.oldCa = ring.ca, !.ca = 0]
      [] step = "set key aside" -> IF ring.key = 0 THEN ring
                                   ELSE [ring EXCEPT !.oldKey = ring.key, !.key = 0]

MoveFile ==
    \E step \in {"keep key", "keep ca", "drop older", "drop previous", "set ca aside",
                 "set key aside"} :
        /\ Doing(step) /\ Done /\ ring' = Files(step)
        /\ UNCHANGED <<leaf, bundle, trust, ledger, proxied, made>>

\* The request writes the new key over the one in use, before the certificate.
LeafKey ==
    /\ Doing("leaf key") /\ Done
    /\ leaf' = [leaf EXCEPT ![call.portal].fits = FALSE]
    /\ UNCHANGED <<ring, bundle, trust, ledger, proxied, made>>

LeafCert ==
    /\ Doing("leaf cert") /\ Done /\ RootValid
    /\ leaf' = [leaf EXCEPT ![call.portal] = [cert |-> ring.ca, fits |-> TRUE]]
    /\ UNCHANGED <<ring, bundle, trust, ledger, proxied, made>>

Verify ==
    /\ Doing("verify") /\ Done
    /\ leaf[call.portal].cert = ring.ca
    /\ UNCHANGED <<ring, leaf, bundle, trust, ledger, proxied, made>>

ExportBundle ==
    /\ Doing("export") /\ Done
    /\ bundle' = ring.ca
    /\ UNCHANGED <<ring, leaf, trust, ledger, proxied, made>>

\* The fingerprint a bundle must have: the root's, or else the ledger's.
Expected == IF ring.ca # 0 THEN ring.ca ELSE ledger.root

TrustInstall ==
    /\ Doing("trust") /\ Done
    /\ bundle # 0 /\ bundle = Expected
    /\ trust' = bundle
    /\ UNCHANGED <<ring, leaf, bundle, ledger, proxied, made>>

ApplyNginx ==
    /\ Doing("proxy") /\ Done
    /\ proxied' = proxied \cup {call.portal}
    /\ UNCHANGED <<ring, leaf, bundle, trust, ledger, made>>

\* A transition replaces the fields it names; the list of portals is replaced
\* by the one portal of the transition.
StateCommit ==
    /\ \/ /\ Doing("commit trust")
          /\ ledger' = [ledger EXCEPT !.root = Expected, !.installed = TRUE]
       \/ /\ Doing("commit portal")
          /\ ledger' = [ledger EXCEPT !.root = leaf[call.portal].cert,
                                      !.portals = {call.portal}]
    /\ Done
    /\ UNCHANGED <<ring, leaf, bundle, trust, proxied, made>>

-----------------------------------------------------------------------------
\* The previous files put back only over those that are missing.
RestoreMissing ==
    [ring EXCEPT !.ca = IF @ = 0 THEN ring.oldCa ELSE @,
                 !.key = IF @ = 0 THEN ring.oldKey ELSE @, !.oldCa = 0, !.oldKey = 0]

\* What a rotation puts back when a step of it raises.
RestoreRing ==
    [ring EXCEPT !.ca = ring.oldCa, !.key = ring.oldKey, !.oldCa = 0, !.oldKey = 0]

\* How far it may come with that before a removal or a move raises in its turn.
Halfway == {ring, [ring EXCEPT !.ca = 0], [ring EXCEPT !.ca = 0, !.key = 0],
            [ring EXCEPT !.ca = ring.oldCa, !.oldCa = 0, !.key = 0]}

\* The steps of a rotation's try; the moves before it and the removals after it
\* are outside.
Tried == {"make", "keep key", "keep ca", "leaf key", "leaf cert", "verify"}

RefusedAt(why) == call' = [call EXCEPT !.todo = <<>>, !.answer = "refused", !.failed = why]

\* A step raises: openssl or a move fails, or a check refuses.  The reading of a
\* fingerprint before a rotation's first step counts as that step.
Raise ==
    /\ call.todo # <<>>
    /\ LET step == Head(call.todo) IN
       IF call.verb = "rotate-ca" /\ step \in Tried
       THEN \/ ring' = RestoreRing /\ RefusedAt(step)
            \/ ring' \in Halfway /\ RefusedAt("restore")
       ELSE /\ \/ ring' = ring
               \/ step \in {"drop older", "drop previous"} /\ ring' = [ring EXCEPT !.oldCa = 0]
            /\ RefusedAt(step)
    /\ UNCHANGED <<leaf, bundle, trust, ledger, proxied, made>>

\* The receipt reads fingerprints with openssl, when everything has been done.
Answer ==
    /\ call.answer = "running" /\ call.todo = <<>>
    /\ \/ call' = [call EXCEPT !.answer = "ok"]
       \/ RefusedAt("receipt")
    /\ UNCHANGED <<ring, leaf, bundle, trust, ledger, proxied, made>>

KillCall ==
    /\ call.answer = "running"
    /\ call' = [call EXCEPT !.todo = <<>>, !.answer = "none"]
    /\ UNCHANGED <<ring, leaf, bundle, trust, ledger, proxied, made>>

CaNext ==
    \/ \E verb \in {"ensure-root", "renew-root", "rotate-ca", "issue-leaf", "bundle-export",
                    "trust-install", "portal-admit"} : \E p \in Portal : Begin(verb, p)
    \/ Make \/ MoveFile \/ LeafKey \/ LeafCert \/ Verify \/ ExportBundle \/ TrustInstall
    \/ ApplyNginx \/ StateCommit \/ Raise \/ Answer \/ KillCall

CaSpec == CaInit /\ [][CaNext]_caVars

-----------------------------------------------------------------------------
\* Each file of the ring that the command found is in its place, or aside.
FoundKept ==
    /\ call.found.ca \in {ring.ca, ring.oldCa}
    /\ call.found.key \in {ring.key, ring.oldKey}

\* A rotation that is refused loses no ring, also after an earlier one was killed.
\* It has put back what it found, whichever step of the new root or of its first
\* leaf failed; where a move failed, or the putting back, each file is in its
\* place or aside; and where what comes after the new ring failed, that is there.
FailedRotationRestores ==
    call.answer = "refused" /\ call.verb = "rotate-ca" =>
        CASE call.failed \in Tried \cup {"drop older"} -> Live = call.found
          [] call.failed \in {"set ca aside", "set key aside", "restore"} -> FoundKept
          [] call.failed \in {"drop previous", "receipt"} -> Live = [ca |-> made, key |-> made]
=============================================================================
