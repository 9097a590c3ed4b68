------------------------------ MODULE ApiKeys -------------------------------
(***************************************************************************)
(* API keys of one tenant: creation, rotation, revocation and the check     *)
(* every request makes.  The dashboard and the administrator's commands     *)
(* run concurrently, one per process: each reads the key, checks what it    *)
(* read and then runs one transaction; Authenticate reads the key and later *)
(* writes its last use.  Keys are numbered in order of creation; the        *)
(* secret is right for the key named, any other is refused without effect.  *)
(***************************************************************************)
EXTENDS Integers, Sequences, FiniteSets

CONSTANTS
  Procs,
  Graces,          \* grace periods a rotation may be given
  touchThreshold,
  MaxRequests,     \* bound: operations
  MaxKeys,         \* bound: keys created
  Horizon          \* bound: time

ApiKeysAssumption == Graces \subseteq Nat /\ MaxKeys \in Nat /\ Horizon \in Nat

VARIABLES
  now,
  keys,    \* api_keys
  req,     \* process -> the operation it runs
  made     \* history: operations so far

vars == <<now, keys, req, made>>

Never == Horizon + 10    \* expires_at IS NULL
APIKey == [exp: Nat, revoked: BOOLEAN, by: 0..MaxKeys, of: 0..MaxKeys, used: Int]
NewAPIKey(exp, of) == [exp |-> exp, revoked |-> FALSE, by |-> 0, of |-> of, used |-> -1]
Idle == [pc |-> "idle", i |-> 0, at |-> 0, grace |-> 0, exp |-> 0]

Init ==
  /\ now = 0 /\ made = 0
  /\ \E e \in {1, Never} : keys = <<NewAPIKey(e, 0)>>
  /\ req = [p \in Procs |-> Idle]

Alive(k, t) == ~k.revoked /\ k.exp > t
Goto(p, r) == req' = [req EXCEPT ![p] = r]
Done(p) == req' = [req EXCEPT ![p] = Idle]
Begin(p) == req[p].pc = "idle" /\ made < MaxRequests /\ made' = made + 1

(* The dashboard creates keys without an expiry, the command with any. *)
InsertAPIKey(exp, of) ==
  Len(keys) < MaxKeys /\ keys' = Append(keys, NewAPIKey(exp, of))

Create(exp) == InsertAPIKey(exp, 0)

handleCreate(p) ==
  /\ Begin(p) /\ \E e \in {now + 1, Never} : Create(e)
  /\ UNCHANGED <<now, req>>

(* GetAPIKeyByKeyID, then the checks on the row read and on the clock. *)
Rotate(p, i, grace) ==
  /\ Alive(keys[i], now)
  /\ Goto(p, [pc |-> "rotate", i |-> i, at |-> now, grace |-> grace, exp |-> keys[i].exp])

(* The dashboard rotates without grace, the command with any. *)
handleRotate(p) ==
  /\ Begin(p) /\ \E i \in DOMAIN keys, g \in Graces : Rotate(p, i, g)
  /\ UNCHANGED <<now, keys>>

(* Mutant: a key that already has a successor is rotated again. *)
Rotatable_Again(k, at) == ~k.revoked /\ k.exp > at

(* Re-checked under the row lock; the clock is the caller's earlier one. *)
Rotatable(k, at) == k.by = 0 /\ ~k.revoked /\ k.exp > at

RotateAPIKey(p) ==
  LET r == req[p]
      n == Len(keys) + 1
  IN /\ r.pc = "rotate"
     /\ \/ /\ Rotatable(keys[r.i], r.at) /\ n <= MaxKeys
           /\ keys' = Append([keys EXCEPT ![r.i] = [@ EXCEPT !.exp = r.at + r.grace, !.by = n]],
                             NewAPIKey(r.exp, r.i))
        \/ ~Rotatable(keys[r.i], r.at) /\ UNCHANGED keys     \* ErrConflict
     /\ Done(p) /\ UNCHANGED <<now, made>>

handleRevoke(p) ==
  /\ Begin(p)
  /\ \E i \in DOMAIN keys : Goto(p, [Idle EXCEPT !.pc = "revoke", !.i = i])
  /\ UNCHANGED <<now, keys>>

RevokeAPIKey(p) ==
  /\ req[p].pc = "revoke" /\ Done(p)
  /\ keys' = [keys EXCEPT ![req[p].i].revoked = TRUE]     \* no row when it was set: not found
  /\ UNCHANGED <<now, made>>

(* An authenticated request goes on with the row it read. *)
Authenticate(p) ==
  /\ Begin(p)
  /\ \E i \in DOMAIN keys :
       /\ Alive(keys[i], now)
       /\ keys[i].used = -1 \/ now - keys[i].used > touchThreshold
       /\ Goto(p, [Idle EXCEPT !.pc = "touch", !.i = i, !.at = now])
  /\ UNCHANGED <<now, keys>>

TouchAPIKeyLastUsed(p) ==
  /\ req[p].pc = "touch" /\ Done(p)
  /\ keys' = [keys EXCEPT ![req[p].i].used = req[p].at]
  /\ UNCHANGED <<now, made>>

Tick ==
  /\ now < Horizon /\ now' = now + 1
  /\ UNCHANGED <<keys, req, made>>

Next ==
  \/ Tick
  \/ \E p \in Procs :
       \/ handleCreate(p) \/ handleRotate(p) \/ RotateAPIKey(p) \/ handleRevoke(p)
       \/ RevokeAPIKey(p) \/ Authenticate(p) \/ TouchAPIKeyLastUsed(p)

Spec == Init /\ [][Next]_vars

-----------------------------------------------------------------------------

TypeOK == now \in 0..Horizon /\ keys \in Seq(APIKey)

(* Of two concurrent rotations of one key only one succeeds: the loser      *)
(* never leaves a second valid replacement behind, and a key points at the  *)
(* one that replaced it.                                                   *)
OneSuccessor ==
  \A i, j \in DOMAIN keys :
    /\ keys[j].of = i /\ i # 0 => keys[i].by = j
    /\ keys[i].by = j /\ j # 0 => keys[j].of = i

=============================================================================
