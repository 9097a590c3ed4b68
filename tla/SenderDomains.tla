--------------------------- MODULE SenderDomains ---------------------------
(***************************************************************************)
(* Sender domains and their DKIM keys: two tenants register the same name,  *)
(* prove it by a DNS record, and rotate the keys that sign their mail.      *)
(*                                                                          *)
(* A domain's row and token get a fresh number on every registration; a     *)
(* deleted row stays deleted.  Public DNS is the set of verification tokens  *)
(* and the set of public keys published, which its owner changes at any     *)
(* moment.  A request reads rows, asks DNS and then writes, in three steps. *)
(***************************************************************************)
EXTENDS Integers, Sequences, FiniteSets

CONSTANTS
  Tenants, Procs,
  Domains,          \* plan limit on a tenant's domains
  MaxRows, MaxKeys, MaxRequests

SenderDomainsAssumption == MaxRequests \in Nat

VARIABLES
  rows,             \* domains: row number -> [tenant, status]
  keys,             \* dkim_keys: key number -> [row, status]
  txt,              \* verification tokens (row numbers) in public DNS
  pub,              \* DKIM public keys (key numbers) in public DNS
  req, made,
  proven,           \* history: rows whose token a lookup of them found
  seen              \* history: keys a lookup found published

vars == <<rows, keys, txt, pub, req, made, proven, seen>>

DomainStatus == {"pending", "verified", "deleted"}
DKIMStatus == {"pending", "active", "retired", "gone"}
Domain == [tenant: Tenants, status: DomainStatus]
DKIMKey == [row: Nat, status: DKIMStatus]
Idle == [pc |-> "idle", d |-> 0, k |-> 0]

Init ==
  /\ rows = <<>> /\ keys = <<>> /\ txt = {} /\ pub = {}
  /\ req = [p \in Procs |-> Idle] /\ made = 0 /\ proven = {} /\ seen = {}

Goto(p, pc, d, k) == req' = [req EXCEPT ![p] = [pc |-> pc, d |-> d, k |-> k]]
Done(p) == req' = [req EXCEPT ![p] = Idle]
At(p, pc) == req[p].pc = pc
Begin(p) == At(p, "idle") /\ made < MaxRequests /\ made' = made + 1

LiveRows(t) == {d \in DOMAIN rows : rows[d].tenant = t /\ rows[d].status # "deleted"}
KeysOf(d, s) == {k \in DOMAIN keys : keys[k].row = d /\ keys[k].status = s}

-----------------------------------------------------------------------------
(* Ownership. *)

CheckDomainLimit(t) == Cardinality(LiveRows(t)) < Domains

(* One live row per tenant and name. *)
CreateDomain(t) ==
  /\ Len(rows) < MaxRows /\ LiveRows(t) = {}
  /\ rows' = Append(rows, [tenant |-> t, status |-> "pending"])

handleCreateDomain(p) ==
  /\ Begin(p) /\ \E t \in Tenants : CheckDomainLimit(t) /\ CreateDomain(t)
  /\ UNCHANGED <<keys, txt, pub, req, proven, seen>>

GetDomain(d) == d \in DOMAIN rows /\ rows[d].status # "deleted"

(* The row and its token are read; a verified row is the answer. *)
Verify(p, d) == IF rows[d].status = "pending" THEN Goto(p, "lookup", d, 0) ELSE UNCHANGED req

handleVerify(p) ==
  /\ Begin(p) /\ \E d \in DOMAIN rows : GetDomain(d) /\ Verify(p, d)
  /\ UNCHANGED <<rows, keys, txt, pub, proven, seen>>

exactTXTMatch(d) == d \in txt

(* An unavailable DNS ends the request. *)
LookupTXT(p) ==
  /\ At(p, "lookup")
  /\ \/ Done(p) /\ UNCHANGED proven
     \/ /\ Goto(p, IF exactTXTMatch(req[p].d) THEN "verified" ELSE "absent", req[p].d, 0)
        /\ proven' = IF exactTXTMatch(req[p].d) THEN proven \cup {req[p].d} ELSE proven
  /\ UNCHANGED <<rows, keys, txt, pub, made, seen>>

(* Mutant: the row is found again by its tenant and name. *)
Target_ByName(d) == LiveRows(rows[d].tenant)

(* The row the check was made for, while it is live. *)
Target(d) == LiveRows(rows[d].tenant) \cap {d}

(* The name is verified for one live row at most. *)
OwnershipConflict(d) == \E e \in DOMAIN rows \ {d} : rows[e].status = "verified"

RecordDomainCheck(p) ==
  /\ req[p].pc \in {"verified", "absent"}
  /\ rows' = [d \in DOMAIN rows |->
                IF d \in Target(req[p].d) /\ At(p, "verified") /\ ~OwnershipConflict(d)
                THEN [rows[d] EXCEPT !.status = "verified"] ELSE rows[d]]
  /\ Done(p) /\ UNCHANGED <<keys, txt, pub, made, proven, seen>>

(* The row is marked, its keys are removed, in one transaction. *)
DeleteDomain(d) ==
  /\ rows' = [rows EXCEPT ![d].status = "deleted"]
  /\ keys' = [k \in DOMAIN keys |->
                IF keys[k].row = d THEN [keys[k] EXCEPT !.status = "gone"] ELSE keys[k]]

handleDeleteDomain(p) ==
  /\ Begin(p) /\ \E d \in DOMAIN rows : GetDomain(d) /\ DeleteDomain(d)
  /\ UNCHANGED <<txt, pub, req, proven, seen>>

-----------------------------------------------------------------------------
(* Keys. *)

(* Cheap checks before the key is generated. *)
CreateKey(p, d) ==
  IF rows[d].status = "verified" /\ KeysOf(d, "pending") = {}
  THEN Goto(p, "generate", d, 0) ELSE UNCHANGED req

handleCreateKey(p) ==
  /\ Begin(p) /\ \E d \in DOMAIN rows : GetDomain(d) /\ CreateKey(p, d)
  /\ UNCHANGED <<rows, keys, txt, pub, proven, seen>>

lockVerifiedDomain(d) == rows[d].status = "verified"

(* uq_dkim_one_pending refuses a second pending key. *)
CreateDKIMKey(p) ==
  /\ At(p, "generate") /\ Len(keys) < MaxKeys
  /\ keys' = IF lockVerifiedDomain(req[p].d) /\ KeysOf(req[p].d, "pending") = {}
             THEN Append(keys, [row |-> req[p].d, status |-> "pending"]) ELSE keys
  /\ Done(p) /\ UNCHANGED <<rows, txt, pub, made, proven, seen>>

(* The pending key is read, to be looked for in DNS. *)
VerifyPending(p, d) ==
  IF KeysOf(d, "pending") = {} THEN UNCHANGED req
  ELSE \E k \in KeysOf(d, "pending") : Goto(p, "find", d, k)

handleVerifyKey(p) ==
  /\ Begin(p) /\ \E d \in DOMAIN rows : GetDomain(d) /\ VerifyPending(p, d)
  /\ UNCHANGED <<rows, keys, txt, pub, proven, seen>>

publishes(k) == k \in pub

FindKey(p) ==
  /\ At(p, "find")
  /\ \/ Done(p) /\ UNCHANGED seen                 \* no answer, or another key
     \/ /\ publishes(req[p].k) /\ Goto(p, "activate", req[p].d, req[p].k)
        /\ seen' = seen \cup {req[p].k}
  /\ UNCHANGED <<rows, keys, txt, pub, made, proven>>

(* Mutant: the retirement is committed although nothing was pending. *)
Activated_Committed(d) ==
  [k \in DOMAIN keys |-> CASE k \in KeysOf(d, "active") -> [keys[k] EXCEPT !.status = "retired"]
                           [] k \in KeysOf(d, "pending") -> [keys[k] EXCEPT !.status = "active"]
                           [] OTHER -> keys[k]]

(* The active key retires and the domain's pending key, whichever it is     *)
(* now, becomes active; with none pending the transaction is rolled back.   *)
Activated(d) ==
  IF KeysOf(d, "pending") = {} THEN keys
  ELSE [k \in DOMAIN keys |-> CASE k \in KeysOf(d, "active") -> [keys[k] EXCEPT !.status = "retired"]
                                [] k \in KeysOf(d, "pending") -> [keys[k] EXCEPT !.status = "active"]
                                [] OTHER -> keys[k]]

ActivateDKIMKey(p) ==
  /\ At(p, "activate")
  /\ keys' = IF lockVerifiedDomain(req[p].d) THEN Activated(req[p].d) ELSE keys
  /\ Done(p) /\ UNCHANGED <<rows, txt, pub, made, proven, seen>>

-----------------------------------------------------------------------------

(* The owner of the name publishes and withdraws records (not MailX). *)
DnsChanges ==
  /\ \/ \E d \in DOMAIN rows : txt' = (txt \cup {d}) \ (txt \cap {d}) /\ UNCHANGED pub
     \/ \E k \in DOMAIN keys : pub' = (pub \cup {k}) \ (pub \cap {k}) /\ UNCHANGED txt
  /\ UNCHANGED <<rows, keys, req, made, proven, seen>>

Fail(p) == ~At(p, "idle") /\ Done(p) /\ UNCHANGED <<rows, keys, txt, pub, made, proven, seen>>

Next ==
  \/ DnsChanges
  \/ \E p \in Procs :
       \/ handleCreateDomain(p) \/ handleVerify(p) \/ LookupTXT(p) \/ RecordDomainCheck(p)
       \/ handleDeleteDomain(p) \/ handleCreateKey(p) \/ CreateDKIMKey(p)
       \/ handleVerifyKey(p) \/ FindKey(p) \/ ActivateDKIMKey(p) \/ Fail(p)

Spec == Init /\ [][Next]_vars

-----------------------------------------------------------------------------

(* Types. *)
TypeOK ==
  /\ rows \in Seq(Domain) /\ keys \in Seq(DKIMKey)
  /\ txt \subseteq DOMAIN rows /\ pub \subseteq DOMAIN keys /\ made \in 0..MaxRequests

(* A verified domain was proven by the token of that very registration,     *)
(* whatever was deleted and registered again during the lookup (Verify      *)
(* carries the row's id into RecordDomainCheck).                           *)
VerifiedWasProven == \A d \in DOMAIN rows : rows[d].status = "verified" => d \in proven

(* A domain that signs goes on signing until it is deleted: no activation,   *)
(* not even one that races another, leaves it without an active key.        *)
SigningNeverPauses ==
  [][\A d \in DOMAIN rows :
       KeysOf(d, "active") # {} /\ rows'[d].status # "deleted"
         => \E k \in DOMAIN keys' : keys'[k].row = d /\ keys'[k].status = "active"]_vars

(* "VerifyPending checks that the pending key's public key is published in  *)
(* DNS and, if so, activates it" (src/internal/dkim/service.go:171-172):    *)
(* a key that signs was found in DNS.                                      *)
ActiveKeyWasPublished == \A k \in DOMAIN keys : keys[k].status = "active" => k \in seen
=============================================================================
