---------------------------- MODULE OutboxFair ----------------------------
(***************************************************************************)
(* The outbox as one batch sees it: many tenants' due rows, a batch limit,  *)
(* and a dispatcher that hands a batch to the queue row by row while         *)
(* tenants keep sending.                                                    *)
(*                                                                          *)
(* `pending' holds the due, undispatched rows in available_at order; a row  *)
(* becomes due behind the ones already due.  Message ids are reused once    *)
(* dispatched, so that the model stays finite while tenants never stop.     *)
(***************************************************************************)
EXTENDS Integers, Sequences, FiniteSets, SequencesExt

CONSTANTS
  Tenants,             \* tenant ids, in the order the database compares them
  Ids,                 \* message ids in use at one time
  limit,               \* rows of a batch
  maxFairTenants       \* tenants one batch considers

VARIABLES
  pending,             \* outbox: Seq of [id, tenant]
  batch                \* the rows the dispatcher read and still has to hand over

vars == <<pending, batch>>

Row == [id: Ids, tenant: Tenants]
TypeOK ==
  /\ pending \in Seq(Row) /\ Len(pending) <= Cardinality(Ids)
  /\ batch \in Seq(Row)

Init == pending = <<>> /\ batch = <<>>

InUse == {pending[i].id : i \in DOMAIN pending}

(* A message is accepted, or its send_at comes. *)
Due(t) ==
  /\ InUse # Ids
  /\ pending' = Append(pending, [id |-> CHOOSE i \in Ids \ InUse : TRUE, tenant |-> t])
  /\ UNCHANGED batch

-----------------------------------------------------------------------------
(* fairOutboxSQL: the tenants with due rows in id order, at most            *)
(* maxFairTenants of them; each one's rows numbered by age; and of all of    *)
(* those the first `limit' by number and then by age.                        *)

DueTenants == {pending[i].tenant : i \in DOMAIN pending}
Capped == {t \in DueTenants : Cardinality({u \in DueTenants : u < t}) < maxFairTenants}
rn(i) == Cardinality({j \in 1..i : pending[j].tenant = pending[i].tenant})

(* Mutated: a tenant's id breaks the tie instead of the row's age. *)
Before_ByTenant(i, j) == rn(i) < rn(j) \/ (rn(i) = rn(j) /\ pending[i].tenant < pending[j].tenant)

Before(i, j) == rn(i) < rn(j) \/ (rn(i) = rn(j) /\ i < j)

(* Mutated: the oldest rows of the considered tenants, whoever owns them. *)
fairOutboxSQL_Oldest ==
  LET rows == SetToSortSeq({i \in DOMAIN pending : pending[i].tenant \in Capped}, LAMBDA i, j : i < j)
  IN [k \in 1..(IF Len(rows) < limit THEN Len(rows) ELSE limit) |-> pending[rows[k]]]

fairOutboxSQL ==
  LET ranked == {i \in DOMAIN pending : pending[i].tenant \in Capped /\ rn(i) <= limit}
      rows == SetToSortSeq(ranked, Before)
  IN [k \in 1..(IF Len(rows) < limit THEN Len(rows) ELSE limit) |-> pending[rows[k]]]

ListPendingOutbox ==
  /\ batch = <<>> /\ pending # <<>>
  /\ batch' = fairOutboxSQL /\ UNCHANGED pending

(* Enqueue and mark: a row another dispatcher marked first is no error. *)
HandOver(id) ==
  /\ batch # <<>> /\ Head(batch).id = id
  /\ batch' = Tail(batch)
  /\ pending' = SelectSeq(pending, LAMBDA r : r # Head(batch))

(* The queue refuses, or the mark is lost: the row stays and the batch goes on. *)
Skip ==
  /\ batch # <<>> /\ batch' = Tail(batch) /\ UNCHANGED pending

Next ==
  \/ \E t \in Tenants : Due(t)
  \/ ListPendingOutbox \/ Skip \/ \E id \in Ids : HandOver(id)

(* The dispatcher polls for ever, and the queue does not refuse a row for ever. *)
Spec ==
  /\ Init /\ [][Next]_vars
  /\ WF_vars(ListPendingOutbox) /\ WF_vars(Skip \/ \E id \in Ids : HandOver(id))
  /\ \A id \in Ids : SF_vars(HandOver(id))

-----------------------------------------------------------------------------
(* What a batch read now would hold of a tenant. *)
Share(t) == Cardinality({k \in DOMAIN fairOutboxSQL : fairOutboxSQL[k].tenant = t})
Waiting(t) == Cardinality({i \in DOMAIN pending : pending[i].tenant = t})

(* A tenant with a backlog cannot push another tenant's rows out of a batch: *)
(* no tenant gets two rows more than another that still has rows left over,  *)
(* and the batch is full unless it takes everything (ListPendingOutbox).     *)
BatchIsShared ==
  /\ \A t, u \in DueTenants : Share(t) > Share(u) + 1 => Share(u) = Waiting(u)
  /\ Len(fairOutboxSQL) < limit => Len(fairOutboxSQL) = Len(pending)

(* Every due row is handed to the queue in the end, however much the other   *)
(* tenants keep sending (ListPendingOutbox).  It holds while no more tenants *)
(* than maxFairTenants have due rows at a time.                              *)
NoTenantStarves == \A id \in Ids : (id \in InUse) ~> (id \notin InUse)

=============================================================================
