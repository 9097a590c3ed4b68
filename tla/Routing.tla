------------------------------ MODULE Routing ------------------------------
(***************************************************************************)
(* Sending pools.  An operator creates pools and members and switches them  *)
(* on and off while processes run; a message is pinned to one member when   *)
(* it is accepted, and every process dials through the registry it built    *)
(* when it started.                                                         *)
(*                                                                          *)
(* Pools and members are numbered in creation order and never deleted; 0 is *)
(* "none".  A direct member dials under its own identity (its number), a    *)
(* relay member and the base engine under none of their own (0).            *)
(***************************************************************************)
EXTENDS Integers, Sequences, FiniteSets

CONSTANTS
  Procs,
  Digest,              \* per message: the number its id hashes to
  MaxPools, MaxMembers

VARIABLES
  pools,               \* sending_pools: enabled, per pool
  members,             \* sending_pool_members
  domain,              \* sending_pool_id of the sender's domain
  accepting,           \* the acceptance transaction in flight
  sendingMember,       \* messages.sending_member_id, per accepted message
  router,              \* per process: its registry, built once
  job,                 \* per process: where it is, and the message it claimed
  sent, attempts,      \* terminal messages; delivery_attempts rows
  live                 \* history: was the job's member enabled since its claim?

vars == <<pools, members, domain, accepting, sendingMember, router, job, sent, attempts, live>>
tables == <<pools, members, domain>>
work == <<router, job, sent, attempts, live>>

MessageIds == DOMAIN Digest
RoutingAssumption ==
  /\ MaxPools \in Nat /\ MaxMembers \in Nat
  /\ 0 \notin MessageIds /\ \A msg \in MessageIds : Digest[msg] \in Nat

SendingPoolMember == [pool: 1..MaxPools, kind: {"direct", "relay"}, hostname: BOOLEAN, enabled: BOOLEAN]
MemberRoute == [kind: {"direct", "relay", "none"}, identity: 0..MaxMembers]
Router == [relay: BOOLEAN, seen: SUBSET (1..MaxPools), table: [1..MaxMembers -> MemberRoute]]
NoRoute == [kind |-> "none", identity |-> 0]
NoRoutes == [m \in 1..MaxMembers |-> NoRoute]
Down == [relay |-> FALSE, seen |-> {}, table |-> NoRoutes]

TypeOK ==
  /\ pools \in Seq(BOOLEAN) /\ members \in Seq(SendingPoolMember) /\ domain \in 0..MaxPools
  /\ accepting \in [msg: MessageIds \union {0}, pool: 0..MaxPools]
  /\ sendingMember \in [MessageIds -> {-1} \union (0..MaxMembers)]
  /\ router \in [Procs -> Router]
  /\ job \in [Procs -> [pc: {"down", "starting", "idle", "check", "gate", "smtp"}, msg: MessageIds \union {0}]]
  /\ sent \subseteq MessageIds
  /\ attempts \subseteq [msg: MessageIds, member: 0..MaxMembers, transport: {"direct", "relay"}, identity: 0..MaxMembers]
  /\ live \in [Procs -> BOOLEAN]

Init ==
  /\ pools = <<>> /\ members = <<>> /\ domain = 0
  /\ accepting = [msg |-> 0, pool |-> 0] /\ sendingMember = [m \in MessageIds |-> -1]
  /\ router = [p \in Procs |-> Down] /\ job = [p \in Procs |-> [pc |-> "down", msg |-> 0]]
  /\ sent = {} /\ attempts = {} /\ live = [p \in Procs |-> FALSE]

-----------------------------------------------------------------------------
(* The operator's commands.  Enabling and disabling is the whole lifecycle. *)

(* Mutated: the pool's own switch is not looked at. *)
MemberRoutingEnabled_MemberOnly(ps, ms, m) == ms[m].enabled

(* Both the member and its pool must be on; `ps' and `ms' are the tables read. *)
MemberRoutingEnabled(ps, ms, m) == ms[m].enabled /\ ps[ms[m].pool]

MemberOf(p) == IF job[p].msg = 0 THEN 0 ELSE sendingMember[job[p].msg]
Switched(p) == MemberOf(p) > 0 /\ MemberOf(p) \in DOMAIN members' /\ members'[MemberOf(p)].enabled
                 /\ pools'[members'[MemberOf(p)].pool]
Operator == live' = [p \in Procs |-> live[p] \/ Switched(p)] /\ UNCHANGED <<accepting, sendingMember, router, job, sent, attempts>>

CreateSendingPool == Len(pools) < MaxPools /\ pools' = Append(pools, TRUE)
SetSendingPoolEnabled(q, on) == q \in DOMAIN pools /\ pools' = [pools EXCEPT ![q] = on]

(* The schema refuses an identity on a relay member. *)
CreateSendingPoolMember(q, kind, hostname) ==
  /\ q \in DOMAIN pools /\ Len(members) < MaxMembers /\ (kind = "relay" => ~hostname)
  /\ members' = Append(members, [pool |-> q, kind |-> kind, hostname |-> hostname, enabled |-> TRUE])
SetSendingPoolMemberEnabled(m, on) == m \in DOMAIN members /\ members' = [members EXCEPT ![m].enabled = on]

(* The acceptance transaction holds a share lock on the domain's row. *)
AssignDomainPool(q) == accepting.msg = 0 /\ q \in {0} \union DOMAIN pools /\ domain' = q

cmdCreateSendingPool == CreateSendingPool /\ UNCHANGED <<members, domain>> /\ Operator
cmdSetSendingPoolEnabled(on) ==
  (\E q \in DOMAIN pools : SetSendingPoolEnabled(q, on)) /\ UNCHANGED <<members, domain>> /\ Operator
cmdCreateSendingPoolMember ==
  (\E q \in DOMAIN pools, kind \in {"direct", "relay"}, h \in BOOLEAN : CreateSendingPoolMember(q, kind, h))
    /\ UNCHANGED <<pools, domain>> /\ Operator
cmdSetSendingPoolMemberEnabled(on) ==
  (\E m \in DOMAIN members : SetSendingPoolMemberEnabled(m, on)) /\ UNCHANGED <<pools, domain>> /\ Operator
cmdAssignDomainPool == (\E q \in 0..MaxPools : AssignDomainPool(q)) /\ UNCHANGED <<pools, members>> /\ Operator

-----------------------------------------------------------------------------
(* Acceptance: the domain's pool and its switch are read, then the members, *)
(* by two statements of one transaction that sees other commits in between. *)

ListEnabled(q) == {m \in DOMAIN members : members[m].pool = q /\ members[m].enabled}

(* The candidate whose place in id order, from 0, is the digest of the       *)
(* message's id modulo their number.                                        *)
SelectMember(msg, candidates) ==
  IF candidates = {} THEN 0
  ELSE CHOOSE m \in candidates :
         Cardinality({c \in candidates : c < m}) = Digest[msg] % Cardinality(candidates)

ReadPool(msg) ==
  /\ accepting.msg = 0 /\ sendingMember[msg] = -1
  /\ accepting' = [msg |-> msg, pool |-> IF domain # 0 /\ pools[domain] THEN domain ELSE 0]
  /\ UNCHANGED <<tables, sendingMember, work>>

(* Whatever cannot be routed takes the path without a pool. *)
selectRoutingMember ==
  IF accepting.pool = 0 THEN 0 ELSE SelectMember(accepting.msg, ListEnabled(accepting.pool))

InsertMessage ==
  /\ accepting.msg # 0
  /\ sendingMember' = [sendingMember EXCEPT ![accepting.msg] = selectRoutingMember]
  /\ accepting' = [msg |-> 0, pool |-> 0]
  /\ UNCHANGED <<tables, work>>

-----------------------------------------------------------------------------
(* A process: its registry is read once, in two steps, and then kept. *)

Goto(p, pc, msg) == job' = [job EXCEPT ![p] = [pc |-> pc, msg |-> msg]]
At(p, pc) == job[p].pc = pc

ListSendingPools == DOMAIN pools
ListSendingPoolMembers(q) == {m \in DOMAIN members : members[m].pool = q}

Start(p) ==
  /\ At(p, "down") /\ Goto(p, "starting", 0)
  /\ \E relay \in BOOLEAN : router' = [router EXCEPT ![p] = [relay |-> relay, seen |-> ListSendingPools, table |-> NoRoutes]]
  /\ UNCHANGED <<tables, accepting, sendingMember, sent, attempts, live>>

(* Mutated: a relay member is always the base engine. *)
Target_Base(m, relay) ==
  CASE members[m].kind = "relay" -> [kind |-> IF relay THEN "relay" ELSE "direct", identity |-> 0]
    [] members[m].kind = "direct" -> IF members[m].hostname THEN [kind |-> "direct", identity |-> m] ELSE NoRoute

(* A relay member exists only where a relay is configured, a direct one only with a hostname. *)
Target(m, relay) ==
  CASE members[m].kind = "relay" -> IF relay THEN [kind |-> "relay", identity |-> 0] ELSE NoRoute
    [] members[m].kind = "direct" -> IF members[m].hostname THEN [kind |-> "direct", identity |-> m] ELSE NoRoute

buildRouter(p) ==
  /\ At(p, "starting") /\ Goto(p, "idle", 0)
  /\ LET listed == UNION {ListSendingPoolMembers(q) : q \in router[p].seen}
     IN router' = [router EXCEPT ![p].table =
                     [m \in 1..MaxMembers |-> IF m \in listed THEN Target(m, router[p].relay) ELSE NoRoute]]
  /\ UNCHANGED <<tables, accepting, sendingMember, sent, attempts, live>>

Stop(p) ==
  /\ ~At(p, "down") /\ Goto(p, "down", 0) /\ router' = [router EXCEPT ![p] = Down]
  /\ live' = [live EXCEPT ![p] = FALSE]
  /\ UNCHANGED <<tables, accepting, sendingMember, sent, attempts>>

(* The queue may hand an unfinished message to several processes in turn. *)
Claim(p) ==
  /\ At(p, "idle")
  /\ \E msg \in MessageIds \ sent :
       LET m == sendingMember[msg]
       IN /\ m # -1 /\ Goto(p, IF m = 0 THEN "smtp" ELSE "check", msg)
          /\ live' = [live EXCEPT ![p] = m # 0 /\ members[m].enabled /\ pools[members[m].pool]]
  /\ UNCHANGED <<tables, accepting, sendingMember, router, sent, attempts>>

Release(p) == Goto(p, "idle", 0) /\ live' = [live EXCEPT ![p] = FALSE]

Known(p, m) == router[p].table[m] # NoRoute

(* The registry first, then the switches, before any SMTP; a hold records nothing. *)
MemberKnownLocally(p) ==
  /\ At(p, "check")
  /\ IF Known(p, MemberOf(p)) THEN Goto(p, "gate", job[p].msg) /\ UNCHANGED live ELSE Release(p)
  /\ UNCHANGED <<tables, accepting, sendingMember, router, sent, attempts>>

holdIfMemberDisabled(p) ==
  /\ At(p, "gate")
  /\ \/ /\ MemberRoutingEnabled(pools, members, MemberOf(p))
        /\ Goto(p, "smtp", job[p].msg) /\ UNCHANGED live
     \/ ~MemberRoutingEnabled(pools, members, MemberOf(p)) /\ Release(p)
     \/ Release(p)                                             \* the check itself failed
  /\ UNCHANGED <<tables, accepting, sendingMember, router, sent, attempts>>

(* What the attempt's row says of the transport that was really used. *)
Deliver(p, m) ==
  IF m = 0 THEN [msg |-> job[p].msg, member |-> 0, transport |-> IF router[p].relay THEN "relay" ELSE "direct", identity |-> 0]
  ELSE LET route == router[p].table[m]
       IN [msg |-> job[p].msg, member |-> m, transport |-> route.kind, identity |-> route.identity]

Attempt(p) ==
  /\ At(p, "smtp") /\ attempts' = attempts \union {Deliver(p, MemberOf(p))}
  /\ sent' \in {sent, sent \union {job[p].msg}}
  /\ Release(p) /\ UNCHANGED <<tables, accepting, sendingMember, router>>

Next ==
  \/ cmdCreateSendingPool \/ cmdCreateSendingPoolMember \/ cmdAssignDomainPool
  \/ \E on \in BOOLEAN : cmdSetSendingPoolEnabled(on) \/ cmdSetSendingPoolMemberEnabled(on)
  \/ (\E msg \in MessageIds : ReadPool(msg)) \/ InsertMessage
  \/ \E p \in Procs : \/ Start(p) \/ buildRouter(p) \/ Stop(p) \/ Claim(p)
                      \/ MemberKnownLocally(p) \/ holdIfMemberDisabled(p) \/ Attempt(p)

Spec == Init /\ [][Next]_vars

-----------------------------------------------------------------------------
(* The member chosen at acceptance is the one every attempt of the message   *)
(* was made through, with that member's own kind of transport and identity, *)
(* whatever was switched, reassigned or restarted in between: a process     *)
(* without a relay never sends a relay member's mail itself (buildRouter,   *)
(* Router.Deliver, databaseOutcomeStore.Persist).                            *)
RouteIsKept ==
  \A a \in attempts :
    /\ a.member = sendingMember[a.msg]
    /\ a.member # 0 => /\ a.transport = members[a.member].kind
                       /\ a.identity = (IF members[a.member].kind = "direct" THEN a.member ELSE 0)

(* Mail goes out through a member only if the member and its pool were both *)
(* switched on at some moment since the job was claimed: a kill switch lets *)
(* at most the attempts already past its check through                      *)
(* (worker.holdIfMemberDisabled, database.MemberRoutingEnabled).            *)
KillSwitchHolds ==
  [][\A p \in Procs : job[p].pc = "smtp" /\ job'[p].pc = "idle" /\ MemberOf(p) # 0 => live[p]]_vars

=============================================================================
