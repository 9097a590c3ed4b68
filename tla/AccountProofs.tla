--------------------------- MODULE AccountProofs ---------------------------
(* Proofs about the components of Accounts, for every value of the          *)
(* constants: API keys, billing, account links, human authentication and    *)
(* the walks over lists.                                                    *)
(* A component's invariant is proved for its own next-state relation; a step *)
(* of another component leaves it alone, so the properties hold of their     *)
(* composition.                                                            *)
EXTENDS Accounts, FiniteSetTheorems, TLAPS

-----------------------------------------------------------------------------
(* API keys.                                                                *)

KeyRequest == [pc: {"idle", "rotate", "revoke", "touch"}, i: Nat, at: Nat, grace: Nat, exp: Nat]

(* A request under way has read a key that is there: keys are never deleted. *)
KeyRequestsOK ==
  /\ kReq \in [Procs -> KeyRequest]
  /\ \A p \in Procs : kReq[p].pc # "idle" => kReq[p].i \in 1..Len(keys)

(* A link never points past the last key, so a new key is linked to nothing. *)
LinksExist == \A i \in 1..Len(keys) : keys[i].by \in 0..Len(keys) /\ keys[i].of \in 0..Len(keys)

KeysInv == K!TypeOK /\ LinksExist /\ K!OneSuccessor /\ KeyRequestsOK

(* A request that moves and still names an existing row disturbs nobody.    *)
LEMMA KeyRequestMoves ==
  ASSUME KeyRequestsOK, NEW p \in Procs, NEW r \in KeyRequest, kReq' = [kReq EXCEPT ![p] = r],
         Len(keys) \in Nat, Len(keys)' \in Nat, Len(keys) <= Len(keys)',
         r.pc # "idle" => r.i \in 1..Len(keys)'
  PROVE  KeyRequestsOK'
  BY SMTT(30) DEF KeyRequestsOK, KeyRequest

(* The resting request is a request and rests.                              *)
LEMMA IdleKeyRequest == K!Idle \in KeyRequest /\ K!Idle.pc = "idle"
  BY DEF K!Idle, KeyRequest

(* Links are a function of the rows' by and of. *)
LEMMA LinksKept ==
  ASSUME LinksExist, K!OneSuccessor, keys \in Seq(K!APIKey), keys' \in Seq(K!APIKey), Len(keys)' = Len(keys),
         \A i \in 1..Len(keys) : keys'[i].by = keys[i].by /\ keys'[i].of = keys[i].of
  PROVE  LinksExist' /\ K!OneSuccessor'
  <1>1. DOMAIN keys = 1..Len(keys) /\ DOMAIN keys' = 1..Len(keys)
    OBVIOUS
  <1>2. LinksExist'
    BY DEF LinksExist
  <1>3. K!OneSuccessor'
    BY <1>1 DEF K!OneSuccessor
  <1>4. QED
    BY <1>2, <1>3

(* NewAPIKey builds a row without a successor.                              *)
LEMMA NewKeyIsOne ==
  ASSUME K!ApiKeysAssumption, NEW e \in Nat, NEW o \in 0..MaxKeys
  PROVE  /\ K!NewAPIKey(e, o) \in K!APIKey
         /\ K!NewAPIKey(e, o).by = 0 /\ K!NewAPIKey(e, o).of = o
  BY DEF K!NewAPIKey, K!APIKey, K!ApiKeysAssumption

(* A rewritten row stays a row. *)
LEMMA RowRevoked ==
  ASSUME NEW k \in K!APIKey, NEW w, w = [k EXCEPT !.revoked = TRUE]
  PROVE  w \in K!APIKey /\ w.by = k.by /\ w.of = k.of
  BY DEF K!APIKey

(* Noting when a key was used keeps its lineage.                            *)
LEMMA RowTouched ==
  ASSUME NEW k \in K!APIKey, NEW u \in Int, NEW w, w = [k EXCEPT !.used = u]
  PROVE  w \in K!APIKey /\ w.by = k.by /\ w.of = k.of
  BY DEF K!APIKey

(* The invariant holds of the empty table.                                  *)
LEMMA KeysInit == ASSUME K!ApiKeysAssumption PROVE K!Init => KeysInv
  <1> SUFFICES ASSUME K!Init PROVE KeysInv
    OBVIOUS
  <1>1. PICK e \in {1, K!Never} : keys = <<K!NewAPIKey(e, 0)>>
    BY DEF K!Init
  <1>2. e \in Nat
    BY DEF K!Never, K!ApiKeysAssumption
  <1>3. K!NewAPIKey(e, 0) \in K!APIKey /\ K!NewAPIKey(e, 0).by = 0 /\ K!NewAPIKey(e, 0).of = 0
    BY <1>2, NewKeyIsOne DEF K!ApiKeysAssumption
  <1>4. keys \in Seq(K!APIKey) /\ Len(keys) = 1 /\ keys[1] = K!NewAPIKey(e, 0)
    BY <1>1, <1>3
  <1>5. LinksExist /\ K!OneSuccessor
    BY <1>3, <1>4 DEF LinksExist, K!OneSuccessor
  <1>6. KeyRequestsOK
    BY IdleKeyRequest DEF K!Init, KeyRequestsOK
  <1>7. QED
    BY <1>4, <1>5, <1>6 DEF KeysInv, K!TypeOK, K!Init, K!ApiKeysAssumption

(* A new key, which replaces key o unless o is 0. *)
LEMMA KeyAdded ==
  ASSUME K!ApiKeysAssumption, KeysInv, NEW e \in Nat, NEW s \in Seq(K!APIKey), Len(s) = Len(keys), Len(keys) < MaxKeys,
         NEW o \in 0..Len(keys), keys' = Append(s, K!NewAPIKey(e, o)),
         \A i \in 1..Len(keys) :
           /\ s[i].of = keys[i].of
           /\ i # o => s[i].by = keys[i].by
           /\ i = o => (keys[i].by = 0 /\ s[i].by = Len(keys) + 1)
  PROVE  keys' \in Seq(K!APIKey) /\ Len(keys)' = Len(keys) + 1 /\ LinksExist' /\ K!OneSuccessor'
  <1>1. keys \in Seq(K!APIKey) /\ Len(keys) \in Nat
    BY DEF KeysInv, K!TypeOK
  <1>2. o \in 0..MaxKeys
    BY <1>1 DEF K!ApiKeysAssumption
  <1>3. PICK k : k = K!NewAPIKey(e, o)
    OBVIOUS
  <1>4. k \in K!APIKey /\ k.by = 0 /\ k.of = o
    BY <1>2, <1>3, NewKeyIsOne
  <1>5. keys' = Append(s, k)
    BY <1>3
  <1>6. keys' \in Seq(K!APIKey) /\ Len(keys)' = Len(keys) + 1
    BY <1>4, <1>5
  <1>7. keys'[Len(keys) + 1] = k /\ \A i \in 1..Len(keys) : keys'[i] = s[i]
    BY <1>1, <1>4, <1>5
  <1>8. DOMAIN keys = 1..Len(keys) /\ DOMAIN keys' = 1..(Len(keys) + 1)
    BY <1>1, <1>6
  <1>9. \A i \in 1..Len(keys) : keys[i].by \in 0..Len(keys) /\ keys[i].of \in 0..Len(keys)
    BY DEF KeysInv, LinksExist
  <1>10. LinksExist'
    <2> SUFFICES ASSUME NEW i \in 1..(Len(keys) + 1)
                 PROVE  keys'[i].by \in 0..(Len(keys) + 1) /\ keys'[i].of \in 0..(Len(keys) + 1)
      BY <1>6 DEF LinksExist
    <2>1. CASE i = Len(keys) + 1
      BY <2>1, <1>1, <1>4, <1>7
    <2>2. CASE i # Len(keys) + 1
      <3>1. i \in 1..Len(keys)
        BY <2>2, <1>1
      <3>2. QED
        BY <3>1, <1>1, <1>7, <1>9
    <2>3. QED
      BY <2>1, <2>2
  <1>11. \A j \in 1..Len(keys) : o # 0 => keys[j].of # o
    BY <1>1, <1>8, SMTT(30) DEF KeysInv, K!OneSuccessor
  <1>12. K!OneSuccessor'
    <2> SUFFICES ASSUME NEW i \in 1..(Len(keys) + 1), NEW j \in 1..(Len(keys) + 1)
                 PROVE  /\ (keys'[j].of = i => keys'[i].by = j)
                        /\ (keys'[i].by = j => keys'[j].of = i)
      BY <1>8 DEF K!OneSuccessor
    <2>1. CASE i \in 1..Len(keys) /\ j \in 1..Len(keys)
      <3>1. /\ (keys[j].of = i => keys[i].by = j)
            /\ (keys[i].by = j => keys[j].of = i)
        BY <2>1, <1>1, <1>8 DEF KeysInv, K!OneSuccessor
      <3>2. QED
        BY <2>1, <3>1, <1>1, <1>7, <1>11
    <2>2. CASE i = Len(keys) + 1
      BY <2>2, <1>1, <1>4, <1>7, <1>9
    <2>3. CASE i \in 1..Len(keys) /\ j = Len(keys) + 1
      BY <2>3, <1>1, <1>4, <1>7, <1>9
    <2>4. (i \in 1..Len(keys) \/ i = Len(keys) + 1) /\ (j \in 1..Len(keys) \/ j = Len(keys) + 1)
      BY <1>1
    <2>5. QED
      BY <2>1, <2>2, <2>3, <2>4
  <1>13. QED
    BY <1>6, <1>10, <1>12

(* The rows change and the process is done. *)
LEMMA KeysMove ==
  ASSUME KeysInv, NEW p \in Procs, kReq' = kReq \/ kReq' = [kReq EXCEPT ![p] = K!Idle], UNCHANGED kNow,
         keys' \in Seq(K!APIKey), Len(keys)' = Len(keys) \/ Len(keys)' = Len(keys) + 1, LinksExist', K!OneSuccessor'
  PROVE  KeysInv'
  <1>1. Len(keys) \in Nat /\ Len(keys)' \in Nat
    BY DEF KeysInv, K!TypeOK
  <1>2. KeyRequestsOK'
    <2>1. CASE kReq' = kReq
      BY <2>1, <1>1 DEF KeysInv, KeyRequestsOK
    <2>2. CASE kReq' = [kReq EXCEPT ![p] = K!Idle]
      <3>1. KeyRequestsOK /\ Len(keys) <= Len(keys)'
        BY <1>1 DEF KeysInv
      <3>2. PICK r \in KeyRequest : r = K!Idle /\ r.pc = "idle"
        BY IdleKeyRequest
      <3>3. QED
        BY <2>2, <1>1, <3>1, <3>2, KeyRequestMoves
    <2>3. QED
      BY <2>1, <2>2
  <1>3. QED
    BY <1>2 DEF KeysInv, K!TypeOK

(* Only the process moves. *)
LEMMA RequestMovesAlone ==
  ASSUME KeysInv, NEW p \in Procs, NEW r \in KeyRequest, kReq' = [kReq EXCEPT ![p] = r], UNCHANGED <<kNow, keys>>,
         r.pc # "idle" => r.i \in 1..Len(keys)
  PROVE  KeysInv'
  <1>1. Len(keys) \in Nat /\ Len(keys') = Len(keys)
    BY DEF KeysInv, K!TypeOK
  <1>2. KeyRequestsOK'
    BY <1>1 DEF KeysInv, KeyRequestsOK, KeyRequest
  <1>3. QED
    BY <1>1, <1>2 DEF KeysInv, K!TypeOK, LinksExist, K!OneSuccessor

(* Every step of the key handlers keeps the invariant.                      *)
LEMMA KeysStep == ASSUME K!ApiKeysAssumption PROVE KeysInv /\ [K!Next]_K!vars => KeysInv'
  <1> SUFFICES ASSUME KeysInv, [K!Next]_K!vars PROVE KeysInv'
    OBVIOUS
  <1>1. keys \in Seq(K!APIKey) /\ Len(keys) \in Nat /\ DOMAIN keys = 1..Len(keys) /\ kNow \in 0..KeysHorizon /\ KeysHorizon \in Nat
    BY DEF KeysInv, K!TypeOK, K!ApiKeysAssumption
  <1>2. LinksExist /\ K!OneSuccessor /\ KeyRequestsOK
    BY DEF KeysInv
  <1>3. CASE UNCHANGED keys /\ kNow' \in 0..KeysHorizon /\ KeyRequestsOK'
    <2>1. LinksExist' /\ K!OneSuccessor'
      BY <1>3, <1>2 DEF LinksExist, K!OneSuccessor
    <2>2. QED
      BY <1>1, <1>3, <2>1 DEF KeysInv, K!TypeOK
  <1>5. ASSUME K!Tick PROVE KeysInv'
    <2>1. KeyRequestsOK'
      BY <1>2, <1>5 DEF K!Tick, KeyRequestsOK
    <2>2. QED
      BY <1>1, <1>3, <1>5, <2>1 DEF K!Tick
  <1>6. ASSUME NEW p \in Procs, K!handleCreate(p) PROVE KeysInv'
    <2>1. PICK e \in {kNow + 1, K!Never} : Len(keys) < MaxKeys /\ keys' = Append(keys, K!NewAPIKey(e, 0))
      BY <1>6 DEF K!handleCreate, K!Create, K!InsertAPIKey
    <2>2. e \in Nat
      BY <1>1 DEF K!Never
    <2>3. keys' \in Seq(K!APIKey) /\ Len(keys)' = Len(keys) + 1 /\ LinksExist' /\ K!OneSuccessor'
      BY <2>1, <2>2, <1>1, KeyAdded
    <2>4. QED
      BY <2>3, <1>1, <1>6, KeysMove DEF K!handleCreate
  <1>7. ASSUME NEW p \in Procs, K!handleRotate(p) PROVE KeysInv'
    <2>1. PICK i \in 1..Len(keys), g \in Graces :
            kReq' = [kReq EXCEPT ![p] = [pc |-> "rotate", i |-> i, at |-> kNow, grace |-> g, exp |-> keys[i].exp]]
      BY <1>1, <1>7 DEF K!handleRotate, K!Rotate, K!Goto
    <2>2. g \in Nat /\ keys[i].exp \in Nat /\ i \in Nat /\ kNow \in Nat
      <3>1. keys[i] \in K!APIKey
        BY <1>1
      <3>2. keys[i].exp \in Nat
        BY <3>1 DEF K!APIKey
      <3>3. i \in Nat /\ kNow \in Nat
        BY <1>1
      <3>4. QED
        BY <3>2, <3>3 DEF K!ApiKeysAssumption
    <2>3. PICK x : x = keys[i].exp
      OBVIOUS
    <2>4. PICK r : r = [pc |-> "rotate", i |-> i, at |-> kNow, grace |-> g, exp |-> x]
      OBVIOUS
    <2>5. r \in KeyRequest /\ r.i = i /\ kReq' = [kReq EXCEPT ![p] = r]
      BY <2>1, <2>2, <2>3, <2>4 DEF KeyRequest
    <2>6. UNCHANGED <<kNow, keys>>
      BY <1>7 DEF K!handleRotate
    <2>7. QED
      BY <2>4, <2>5, <2>6, <1>1, RequestMovesAlone
  <1>8. ASSUME NEW p \in Procs, K!RotateAPIKey(p) PROVE KeysInv'
    <2>1. PICK r \in KeyRequest : r = kReq[p] /\ r.pc = "rotate" /\ r.i \in 1..Len(keys)
      BY <1>8, <1>2 DEF K!RotateAPIKey, KeyRequestsOK
    <2>2. UNCHANGED kNow /\ kReq' = [kReq EXCEPT ![p] = K!Idle]
      BY <1>8 DEF K!RotateAPIKey, K!Done
    <2>3. CASE K!Rotatable(keys[r.i], r.at) /\ Len(keys) + 1 <= MaxKeys
               /\ keys' = Append([keys EXCEPT ![r.i] = [@ EXCEPT !.exp = r.at + r.grace, !.by = Len(keys) + 1]],
                                 K!NewAPIKey(r.exp, r.i))
      <3>1. keys[r.i] \in K!APIKey /\ keys[r.i].by = 0
        BY <2>1, <2>3, <1>1 DEF K!Rotatable
      <3>2. PICK x \in Nat : x = r.at + r.grace
        BY DEF KeyRequest
      <3>3. PICK n \in 0..MaxKeys : n = Len(keys) + 1
        BY <2>3, <1>1 DEF K!ApiKeysAssumption
      <3>4. PICK k : k = [keys[r.i] EXCEPT !.exp = x, !.by = n]
        OBVIOUS
      <3>5. k \in K!APIKey /\ k.by = n /\ k.of = keys[r.i].of
        <4>1. PICK old \in K!APIKey : old = keys[r.i]
          BY <3>1
        <4>2. k = [old EXCEPT !.exp = x, !.by = n]
          BY <3>4, <4>1
        <4>3. QED
          BY <4>1, <4>2, <3>1 DEF K!APIKey
      <3>6. PICK s : s = [keys EXCEPT ![r.i] = k]
        OBVIOUS
      <3>7. s \in Seq(K!APIKey) /\ Len(s) = Len(keys)
        BY <3>5, <3>6, <2>1, <1>1
      <3>8. keys' = Append(s, K!NewAPIKey(r.exp, r.i))
        BY <2>3, <3>2, <3>3, <3>4, <3>6
      <3>9. \A i \in 1..Len(keys) :
              /\ s[i].of = keys[i].of
              /\ i # r.i => s[i].by = keys[i].by
              /\ i = r.i => (keys[i].by = 0 /\ s[i].by = Len(keys) + 1)
        BY <3>1, <3>3, <3>5, <3>6, <1>1
      <3>10. r.exp \in Nat /\ r.i \in 0..Len(keys) /\ Len(keys) < MaxKeys
        BY <2>1, <2>3, <1>1 DEF KeyRequest, K!ApiKeysAssumption
      <3>11. keys' \in Seq(K!APIKey) /\ Len(keys)' = Len(keys) + 1 /\ LinksExist' /\ K!OneSuccessor'
        BY <3>7, <3>8, <3>9, <3>10, KeyAdded
      <3>12. QED
        BY <3>11, <2>2, <1>1, KeysMove
    <2>4. CASE UNCHANGED keys
      BY <2>2, <2>4, RequestMovesAlone, IdleKeyRequest
    <2>5. QED
      BY <2>1, <2>3, <2>4, <1>8 DEF K!RotateAPIKey
  <1>9. ASSUME NEW p \in Procs, K!handleRevoke(p) PROVE KeysInv'
    <2>1. PICK i \in 1..Len(keys) : kReq' = [kReq EXCEPT ![p] = [K!Idle EXCEPT !.pc = "revoke", !.i = i]]
      BY <1>1, <1>9 DEF K!handleRevoke, K!Goto
    <2>2. PICK r : r = [K!Idle EXCEPT !.pc = "revoke", !.i = i]
      OBVIOUS
    <2>3. r \in KeyRequest /\ r.i = i
      <3>1. r = [pc |-> "revoke", i |-> i, at |-> 0, grace |-> 0, exp |-> 0]
        BY <2>2 DEF K!Idle
      <3>2. QED
        BY <3>1, <1>1 DEF KeyRequest
    <2>4. UNCHANGED <<kNow, keys>>
      BY <1>9 DEF K!handleRevoke
    <2>5. QED
      BY <2>1, <2>2, <2>3, <2>4, <1>1, RequestMovesAlone
  <1>10. ASSUME NEW p \in Procs, K!RevokeAPIKey(p) PROVE KeysInv'
    <2>1. PICK i \in 1..Len(keys) : i = kReq[p].i
      BY <1>2, <1>10 DEF K!RevokeAPIKey, KeyRequestsOK
    <2>2. PICK k : k = [keys[i] EXCEPT !.revoked = TRUE]
      OBVIOUS
    <2>3. k \in K!APIKey /\ k.by = keys[i].by /\ k.of = keys[i].of
      BY <2>2, <1>1, RowRevoked
    <2>4. keys' = [keys EXCEPT ![i] = k] /\ UNCHANGED kNow /\ kReq' = [kReq EXCEPT ![p] = K!Idle]
      BY <2>1, <2>2, <1>10 DEF K!RevokeAPIKey, K!Done
    <2>5. keys' \in Seq(K!APIKey) /\ Len(keys)' = Len(keys)
      BY <2>3, <2>4, <1>1
    <2>6. LinksExist' /\ K!OneSuccessor'
      BY <2>3, <2>4, <2>5, <1>1, <1>2, LinksKept
    <2>7. QED
      BY <2>4, <2>5, <2>6, <1>1, KeysMove
  <1>11. ASSUME NEW p \in Procs, K!Authenticate(p) PROVE KeysInv'
    <2>1. PICK i \in 1..Len(keys) : kReq' = [kReq EXCEPT ![p] = [K!Idle EXCEPT !.pc = "touch", !.i = i, !.at = kNow]]
      BY <1>1, <1>11 DEF K!Authenticate, K!Goto
    <2>2. PICK t \in Nat : t = kNow
      BY <1>1
    <2>3. PICK r : r = [K!Idle EXCEPT !.pc = "touch", !.i = i, !.at = t]
      OBVIOUS
    <2>4. r \in KeyRequest /\ r.i = i
      <3>1. r = [pc |-> "touch", i |-> i, at |-> t, grace |-> 0, exp |-> 0]
        BY <2>3 DEF K!Idle
      <3>2. QED
        BY <3>1, <1>1 DEF KeyRequest
    <2>5. UNCHANGED <<kNow, keys>>
      BY <1>11 DEF K!Authenticate
    <2>6. QED
      BY <2>1, <2>2, <2>3, <2>4, <2>5, <1>1, RequestMovesAlone
  <1>12. ASSUME NEW p \in Procs, K!TouchAPIKeyLastUsed(p) PROVE KeysInv'
    <2>1. PICK i \in 1..Len(keys), t \in Nat : i = kReq[p].i /\ t = kReq[p].at
      BY <1>2, <1>12 DEF K!TouchAPIKeyLastUsed, KeyRequestsOK, KeyRequest
    <2>2. PICK k : k = [keys[i] EXCEPT !.used = t]
      OBVIOUS
    <2>3. k \in K!APIKey /\ k.by = keys[i].by /\ k.of = keys[i].of
      BY <2>2, <1>1, RowTouched
    <2>4. keys' = [keys EXCEPT ![i] = k] /\ UNCHANGED kNow /\ kReq' = [kReq EXCEPT ![p] = K!Idle]
      BY <2>1, <2>2, <1>12 DEF K!TouchAPIKeyLastUsed, K!Done
    <2>5. keys' \in Seq(K!APIKey) /\ Len(keys)' = Len(keys)
      BY <2>3, <2>4, <1>1
    <2>6. LinksExist' /\ K!OneSuccessor'
      BY <2>3, <2>4, <2>5, <1>1, <1>2, LinksKept
    <2>7. QED
      BY <2>4, <2>5, <2>6, <1>1, KeysMove
  <1>13. CASE UNCHANGED K!vars
    <2>1. KeyRequestsOK'
      BY <1>2, <1>13 DEF K!vars, KeyRequestsOK
    <2>2. QED
      BY <2>1, <1>1, <1>3, <1>13 DEF K!vars
  <1>14. QED
    BY <1>5, <1>6, <1>7, <1>8, <1>9, <1>10, <1>11, <1>12, <1>13 DEF K!Next

(* Of two concurrent rotations of one key only one leaves a successor, and   *)
(* a key points at the one that replaced it: RotateAPIKey looks again under   *)
(* the row's lock, and a key's number is never used before it is inserted.   *)
LEMMA KeysAlone == ASSUME K!ApiKeysAssumption PROVE K!Spec => [](K!TypeOK /\ K!OneSuccessor)
  <1>1. KeysInv => K!TypeOK /\ K!OneSuccessor
    BY DEF KeysInv
  <1>2. QED
    BY KeysInit, KeysStep, <1>1, PTL DEF K!Spec

-----------------------------------------------------------------------------
(* Renewal charges.                                                         *)

PassRecord == [pc: {"idle", "mail", "verify", "claim", "charge", "settle", "finish", "lapse"},
               at: Nat, todo: SUBSET Nat, a: Nat, res: B!Outcomes]
AtCharge == {"charge", "settle", "finish"}

(* What a pass knows of the attempts it works on: those to verify were        *)
(* claimed in a former unit, the one to charge in this one and nothing was    *)
(* sent for it, and a failed outcome means that no money moved.              *)
PassOK(s) ==
  /\ s.pc = "idle" => s.todo = {}
  /\ \A a \in s.todo : a \in DOMAIN att /\ att[a].at < bNow
  /\ s.pc \in AtCharge => s.a \in DOMAIN att
  /\ s.pc = "charge" => (/\ att[s.a].at = bNow /\ att[s.a].status = "pending"
                         /\ B!RefOf(s.a) \notin DOMAIN bank)
  /\ (s.pc = "settle" /\ s.res = "failed") => ~B!MoneyMoved(B!RefOf(s.a))
  /\ s.pc = "finish" => B!RefOf(s.a) \in paid

(* Nobody else has the attempt that is about to be charged. *)
ChargedAlone ==
  \A q, r \in Replicas :
    (q # r /\ pass[r].pc = "charge" /\ pass[q].pc \in AtCharge) => pass[q].a # pass[r].a

(* A period's attempts are numbered, and all but one have failed. *)
AttemptsOK ==
  /\ \A a \in DOMAIN att : att[a].at <= bNow /\ att[a].n <= Cardinality(B!OfPeriod(att[a].end))
  /\ \A a, b \in DOMAIN att :
       (a # b /\ att[a].end = att[b].end) =>
          (/\ att[a].n # att[b].n
           /\ (att[a].status = "failed" \/ att[b].status = "failed"))

(* A failed attempt took no money, a successful one is credited. *)
ChargesOK ==
  \A a \in DOMAIN att :
    /\ att[a].status = "failed" => ~B!MoneyMoved(B!RefOf(a))
    /\ att[a].status = "succeeded" => B!RefOf(a) \in paid

(* Paystack knows of no renewal that was not claimed. *)
ChargesWereClaimed ==
  \A e, n \in Nat :
    B!RenewalReference(e, n) \in DOMAIN bank => \E a \in DOMAIN att : att[a].end = e /\ att[a].n = n

BillingInv ==
  /\ B!TypeOK /\ bNow \in Nat /\ pass \in [Replicas -> PassRecord]
  /\ AttemptsOK /\ ChargesOK /\ ChargesWereClaimed
  /\ (\A r \in Replicas : PassOK(pass[r])) /\ ChargedAlone

(* The instance counts the way FiniteSets does.                             *)
LEMMA PeriodCount == \A X : B!Cardinality(X) = Cardinality(X)
  BY DEF B!Cardinality, Cardinality

(* A renewal's reference names its period and try, and is never a           *)
(* checkout's.                                                              *)
LEMMA ReferencesDiffer ==
  /\ \A e, n, f, m : B!RenewalReference(e, n) = B!RenewalReference(f, m) => e = f /\ n = m
  /\ \A e, n, k : B!RenewalReference(e, n) # B!CheckoutReference(k)
  BY DEF B!RenewalReference, B!CheckoutReference

(* A pass that has not begun has nothing to do.                             *)
LEMMA IdlePass == B!Idle \in PassRecord /\ B!Idle.pc = "idle" /\ B!Idle.todo = {}
  BY DEF B!Idle, PassRecord, B!Outcomes

(* What the type of the attempts table says of one row.                     *)
LEMMA AttemptRow ==
  ASSUME B!TypeOK, NEW a \in DOMAIN att
  PROVE  /\ att[a] \in B!RenewalClaim /\ att[a].end \in Nat /\ att[a].n \in Nat /\ att[a].at \in Nat
         /\ att[a].plan \in B!Plans /\ att[a].status \in {"pending", "succeeded", "failed"}
         /\ a \in 1..Len(att) /\ a \in Nat /\ Len(att) \in Nat
  <1>1. att[a] \in B!RenewalClaim /\ a \in 1..Len(att) /\ Len(att) \in Nat
    BY DEF B!TypeOK
  <1>2. QED
    BY <1>1 DEF B!RenewalClaim

(* Two attempts have the same reference only if they are the same. *)
LEMMA OneReferenceEach ==
  ASSUME AttemptsOK, NEW a \in DOMAIN att, NEW b \in DOMAIN att, a # b
  PROVE  B!RefOf(a) # B!RefOf(b)
  BY ReferencesDiffer DEF AttemptsOK, B!RefOf

(* What the accounts promise follows. *)
LEMMA BillingInvSuffices == BillingInv => B!ChargesAreAccounted
  <1> SUFFICES ASSUME BillingInv PROVE B!ChargesAreAccounted
    OBVIOUS
  <1>1. B!TypeOK /\ AttemptsOK /\ ChargesOK
    BY DEF BillingInv
  <1>2. B!ChargedOncePerPeriod
    BY <1>1 DEF AttemptsOK, ChargesOK, B!ChargedOncePerPeriod
  <1>3. B!NoChargeForgotten
    BY <1>1, AttemptRow DEF ChargesOK, B!NoChargeForgotten
  <1>4. QED
    BY <1>1, <1>2, <1>3 DEF B!ChargesAreAccounted

(* The invariant holds of a tenant that never paid.                         *)
LEMMA BillingInit == ASSUME B!BillingAssumption PROVE B!Init => BillingInv
  <1> SUFFICES ASSUME B!Init PROVE BillingInv
    OBVIOUS
  <1>1. ten \in B!TenantPlan
    BY DEF B!Init, B!TenantPlan, B!Plans, B!None, B!BillingAssumption
  <1>2. att \in Seq(B!RenewalClaim) /\ DOMAIN att = {} /\ DOMAIN bank = {} /\ bNow \in Nat
    BY DEF B!Init
  <1>3. \A r \in Replicas : pass[r] = B!Idle
    BY DEF B!Init
  <1>4. pass \in [Replicas -> PassRecord]
    BY IdlePass DEF B!Init
  <1>5. \A r \in Replicas : PassOK(pass[r])
    BY <1>2, <1>3, IdlePass DEF PassOK, AtCharge
  <1>6. ChargedAlone
    BY <1>3, IdlePass DEF ChargedAlone
  <1>7. AttemptsOK /\ ChargesOK /\ ChargesWereClaimed
    BY <1>2 DEF AttemptsOK, ChargesOK, ChargesWereClaimed
  <1>8. QED
    BY <1>1, <1>2, <1>4, <1>5, <1>6, <1>7 DEF BillingInv, B!TypeOK

(* A step leaves a reference alone: one that was not charged still is not,   *)
(* and one that took no money still took none.                              *)
LeavesAlone(ref) ==
  /\ ref \notin DOMAIN bank => ref \notin DOMAIN bank'
  /\ ~B!MoneyMoved(ref) => ~B!MoneyMoved(ref)'

(* A step keeps what identifies the attempts. *)
SameAttempts ==
  /\ att \in Seq(B!RenewalClaim) /\ att' \in Seq(B!RenewalClaim) /\ DOMAIN att \subseteq DOMAIN att'
  /\ \A a \in DOMAIN att : att'[a].end = att[a].end /\ att'[a].n = att[a].n /\ att'[a].at = att[a].at

(* An attempt's reference depends on its own row only.                      *)
LEMMA SameReference ==
  ASSUME SameAttempts, NEW a \in DOMAIN att
  PROVE  B!RefOf(a)' = B!RefOf(a)
  BY DEF SameAttempts, B!RefOf

(* What a pass knows stays true when others settle other attempts. *)
LEMMA PassStays ==
  ASSUME NEW s \in PassRecord, PassOK(s), SameAttempts, UNCHANGED bNow, paid \subseteq paid',
         s.pc = "charge" => att'[s.a].status = att[s.a].status,
         s.pc \in AtCharge => LeavesAlone(B!RefOf(s.a))
  PROVE  PassOK(s)'
  <1>1. s.pc = "idle" => s.todo = {}
    BY DEF PassOK
  <1>2. \A a \in s.todo : a \in DOMAIN att' /\ att'[a].at < bNow'
    BY DEF PassOK, SameAttempts
  <1>3. CASE s.pc \notin AtCharge
    BY <1>1, <1>2, <1>3 DEF PassOK, AtCharge
  <1>4. CASE s.pc \in AtCharge
    <2>1. s.a \in DOMAIN att /\ s.a \in DOMAIN att' /\ B!RefOf(s.a)' = B!RefOf(s.a)
      BY <1>4, SameReference DEF PassOK, SameAttempts
    <2>2. PICK ref : ref = B!RefOf(s.a)
      OBVIOUS
    <2>3. B!RefOf(s.a)' = ref /\ LeavesAlone(ref)
      BY <1>4, <2>1, <2>2
    <2>4. s.pc = "charge" => (/\ att'[s.a].at = bNow' /\ att'[s.a].status = "pending"
                              /\ B!RefOf(s.a)' \notin DOMAIN bank')
      BY <2>1, <2>2, <2>3 DEF PassOK, SameAttempts, LeavesAlone
    <2>5. (s.pc = "settle" /\ s.res = "failed") => ~B!MoneyMoved(ref)'
      BY <2>2, <2>3 DEF PassOK, LeavesAlone
    <2>6. B!MoneyMoved(ref)' = B!MoneyMoved(B!RefOf(s.a))'
      BY <2>3 DEF B!MoneyMoved
    <2>7. s.pc = "finish" => B!RefOf(s.a)' \in paid'
      BY <2>2, <2>3 DEF PassOK
    <2>8. QED
      BY <1>1, <1>2, <2>1, <2>4, <2>5, <2>6, <2>7 DEF PassOK
  <1>5. QED
    BY <1>3, <1>4

(* The attempts stay as they are. *)
LEMMA AttemptsStay ==
  ASSUME AttemptsOK, ChargesOK, UNCHANGED att, bNow \in Nat, bNow' \in Nat, bNow <= bNow', paid \subseteq paid', B!TypeOK,
         \A a \in DOMAIN att : LeavesAlone(B!RefOf(a))
  PROVE  AttemptsOK' /\ ChargesOK'
  <1>1. AttemptsOK'
    <2>1. \A a \in DOMAIN att : att[a].at \in Nat
      BY AttemptRow
    <2>2. \A e : B!OfPeriod(e)' = B!OfPeriod(e)
      BY DEF B!OfPeriod
    <2>3. QED
      BY <2>1, <2>2 DEF AttemptsOK
  <1>2. ChargesOK'
    <2> SUFFICES ASSUME NEW a \in DOMAIN att
                 PROVE  /\ att[a].status = "failed" => ~B!MoneyMoved(B!RefOf(a))'
                        /\ att[a].status = "succeeded" => B!RefOf(a)' \in paid'
      BY DEF ChargesOK
    <2>1. PICK ref : ref = B!RefOf(a)
      OBVIOUS
    <2>2. B!RefOf(a)' = ref
      BY <2>1 DEF B!RefOf
    <2>3. B!MoneyMoved(ref)' = B!MoneyMoved(B!RefOf(a))'
      BY <2>2 DEF B!MoneyMoved
    <2>4. LeavesAlone(ref)
      BY <2>1
    <2>5. QED
      BY <2>1, <2>2, <2>3, <2>4 DEF ChargesOK, LeavesAlone
  <1>3. QED
    BY <1>1, <1>2

(* The owner, Paystack and its webhook: no pass moves, nothing new is charged. *)
LEMMA NoPassMoves ==
  ASSUME BillingInv, UNCHANGED <<bNow, att, pass>>, ten' \in B!TenantPlan, paid \subseteq paid',
         \A b \in DOMAIN bank' : bank'[b] \in [plan: B!Plans, state: {"ongoing", "succeeded", "failed", "odd"}],
         \A e, n \in Nat : LeavesAlone(B!RenewalReference(e, n))
  PROVE  BillingInv'
  <1>1. B!TypeOK /\ bNow \in Nat /\ pass \in [Replicas -> PassRecord] /\ AttemptsOK /\ ChargesOK
        /\ ChargesWereClaimed /\ (\A r \in Replicas : PassOK(pass[r])) /\ ChargedAlone
    BY DEF BillingInv
  <1>2. B!TypeOK'
    BY <1>1 DEF B!TypeOK
  <1>3. \A a \in DOMAIN att : LeavesAlone(B!RefOf(a))
    BY <1>1, AttemptRow DEF B!RefOf
  <1>4. AttemptsOK' /\ ChargesOK'
    BY <1>1, <1>3, AttemptsStay
  <1>5. SameAttempts
    BY <1>1 DEF SameAttempts, B!TypeOK
  <1>6. (\A r \in Replicas : PassOK(pass[r]))'
    <2> SUFFICES ASSUME NEW r \in Replicas PROVE PassOK(pass[r])'
      OBVIOUS
    <2>1. PICK s \in PassRecord : s = pass[r] /\ PassOK(s)
      BY <1>1
    <2>2. s.pc \in AtCharge => LeavesAlone(B!RefOf(s.a))
      BY <2>1, <1>3 DEF PassOK
    <2>3. PassOK(s)'
      BY <2>1, <2>2, <1>5, PassStays
    <2>4. QED
      BY <2>1, <2>3
  <1>7. ChargedAlone'
    BY <1>1 DEF ChargedAlone
  <1>8. ChargesWereClaimed'
    BY <1>1 DEF ChargesWereClaimed, LeavesAlone
  <1>9. QED
    BY <1>1, <1>2, <1>4, <1>6, <1>7, <1>8 DEF BillingInv

(* One pass goes on, without a charge. *)
LEMMA OnlyPassMoves ==
  ASSUME BillingInv, NEW r \in Replicas, NEW s \in PassRecord, pass' = [pass EXCEPT ![r] = s],
         UNCHANGED <<bNow, att, bank>>, ten' \in B!TenantPlan, paid \subseteq paid',
         PassOK(s)', s.pc # "charge",
         s.pc \in AtCharge => (\/ att[s.a].at < bNow
                               \/ (pass[r].pc \in AtCharge /\ s.a = pass[r].a))
  PROVE  BillingInv'
  <1>1. B!TypeOK /\ bNow \in Nat /\ pass \in [Replicas -> PassRecord] /\ AttemptsOK /\ ChargesOK
        /\ ChargesWereClaimed /\ (\A q \in Replicas : PassOK(pass[q])) /\ ChargedAlone
    BY DEF BillingInv
  <1>2. B!TypeOK'
    BY <1>1 DEF B!TypeOK
  <1>3. \A ref : LeavesAlone(ref)
    BY DEF LeavesAlone, B!MoneyMoved
  <1>4. AttemptsOK' /\ ChargesOK'
    BY <1>1, <1>3, AttemptsStay
  <1>5. SameAttempts
    BY <1>1 DEF SameAttempts, B!TypeOK
  <1>6. pass' \in [Replicas -> PassRecord]
    BY <1>1
  <1>7. (\A q \in Replicas : PassOK(pass[q]))'
    <2> SUFFICES ASSUME NEW q \in Replicas PROVE PassOK(pass[q])'
      OBVIOUS
    <2>1. CASE q = r
      <3>1. pass'[q] = s
        BY <2>1, <1>1
      <3>2. QED
        BY <3>1
    <2>2. CASE q # r
      <3>1. PICK o \in PassRecord : o = pass[q] /\ PassOK(o)
        BY <1>1
      <3>2. pass'[q] = o
        BY <2>2, <3>1, <1>1
      <3>3. PassOK(o)'
        BY <3>1, <1>3, <1>5, PassStays
      <3>4. QED
        BY <3>2, <3>3
    <2>3. QED
      BY <2>1, <2>2
  <1>8. ChargedAlone'
    <2> SUFFICES ASSUME NEW q \in Replicas, NEW c \in Replicas, q # c, pass'[c].pc = "charge", pass'[q].pc \in AtCharge
                 PROVE  pass'[q].a # pass'[c].a
      BY DEF ChargedAlone
    <2>1. c # r /\ pass'[c] = pass[c]
      BY <1>1
    <2>2. CASE q # r
      BY <2>1, <2>2, <1>1 DEF ChargedAlone
    <2>3. CASE q = r
      <3>1. pass'[q] = s
        BY <2>3, <1>1
      <3>2. CASE att[s.a].at < bNow
        <4>1. att[pass[c].a].at = bNow
          BY <2>1, <1>1 DEF PassOK
        <4>2. QED
          BY <4>1, <3>1, <3>2, <2>1, <1>1
      <3>3. CASE pass[r].pc \in AtCharge /\ s.a = pass[r].a
        BY <3>1, <3>3, <2>1, <2>3, <1>1 DEF ChargedAlone
      <3>4. QED
        BY <3>1, <3>2, <3>3
    <2>4. QED
      BY <2>2, <2>3
  <1>9. ChargesWereClaimed'
    BY <1>1 DEF ChargesWereClaimed
  <1>10. QED
    BY <1>1, <1>2, <1>4, <1>6, <1>7, <1>8, <1>9 DEF BillingInv

(* The tenants row stays one. *)
LEMMA RowExtended ==
  ASSUME B!BillingAssumption, ten \in B!TenantPlan, bNow \in Nat, NEW plan \in B!Plans
  PROVE  /\ B!Extended(plan) \in B!TenantPlan
         /\ B!SaveRenewalAuthorization(B!Extended(plan)) \in B!TenantPlan
  <1>1. PICK e \in Nat : e = (IF ten.plan = plan /\ ten.status = "active" /\ ten.end > bNow THEN ten.end ELSE bNow) + planPeriod
    <2>1. ten.end \in Nat /\ planPeriod \in Nat
      BY DEF B!TenantPlan, B!BillingAssumption
    <2>2. QED
      BY <2>1
  <1>2. B!Extended(plan) = [ten EXCEPT !.plan = plan, !.status = "active", !.end = e]
    BY <1>1 DEF B!Extended
  <1>3. B!Extended(plan) \in B!TenantPlan
    BY <1>2, ZenonT(60) DEF B!TenantPlan
  <1>4. PICK t \in B!TenantPlan : t = B!Extended(plan)
    BY <1>3
  <1>5. [t EXCEPT !.card = TRUE] \in B!TenantPlan
    BY DEF B!TenantPlan
  <1>6. QED
    BY <1>3, <1>4, <1>5 DEF B!SaveRenewalAuthorization

(* Clearing the reminder columns leaves a tenant's plan well formed.        *)
LEMMA ReminderCleared ==
  ASSUME ten \in B!TenantPlan, NEW on \in BOOLEAN
  PROVE  /\ [ten EXCEPT !.auto = on, !.remEnd = B!None, !.remAt = B!None, !.remAuto = FALSE] \in B!TenantPlan
         /\ [ten EXCEPT !.remEnd = B!None, !.remAt = B!None, !.remAuto = FALSE] \in B!TenantPlan
  BY ZenonT(60) DEF B!TenantPlan, B!None

(* So does recording that a reminder was sent.                              *)
LEMMA ReminderMarked ==
  ASSUME ten \in B!TenantPlan, bNow \in Nat
  PROVE  [ten EXCEPT !.remEnd = ten.end, !.remAt = bNow, !.remAuto = ten.auto /\ ten.card] \in B!TenantPlan
  <1>1. PICK on \in BOOLEAN : on <=> (ten.auto /\ ten.card)
    BY Zenon
  <1>2. (ten.auto /\ ten.card) = on
    <2>1. ten.auto \in BOOLEAN /\ ten.card \in BOOLEAN
      BY DEF B!TenantPlan
    <2>2. QED
      BY <2>1, <1>1
  <1>3. [ten EXCEPT !.remEnd = ten.end, !.remAt = bNow, !.remAuto = on] \in B!TenantPlan
    BY DEF B!TenantPlan
  <1>4. QED
    BY <1>2, <1>3

(* A lapse keeps the paid period's end and shortens no retention.           *)
LEMMA PlanLapsed ==
  ASSUME ten \in B!TenantPlan, B!DowngradeLapsedPlans
  PROVE  /\ ten' \in B!TenantPlan /\ ten'.end = ten.end
         /\ (ten.status = "active" /\ ten'.status = "lapsed") => B!Retention' >= B!Retention
  <1>1. CASE ~(B!IsPaid(ten.plan) /\ ten.end < bNow)
    BY <1>1 DEF B!DowngradeLapsedPlans
  <1>2. CASE B!IsPaid(ten.plan) /\ ten.end < bNow
    <2>1. ten.plan \in {"plus", "pro"} /\ ten.pin \in {0, 30, 90}
      BY <1>2 DEF B!TenantPlan, B!Plans, B!PlanFor, B!IsPaid
    <2>2. B!PlanFor[ten.plan].retention \in {30, 90}
      BY <2>1 DEF B!PlanFor, B!Plans
    <2>3. PICK pin \in {30, 90} : pin = (IF ten.pin = 0 THEN B!PlanFor[ten.plan].retention ELSE ten.pin)
      BY <2>1, <2>2
    <2>4. ten' = [ten EXCEPT !.plan = "free", !.status = "lapsed", !.pin = pin]
      BY <1>2, <2>3 DEF B!DowngradeLapsedPlans
    <2>5. ten' \in B!TenantPlan /\ ten'.end = ten.end /\ ten'.pin = pin
      BY <2>4 DEF B!TenantPlan, B!Plans
    <2>6. B!Retention' = pin
      BY <2>5 DEF B!Retention
    <2>7. B!Retention = pin
      BY <2>1, <2>2, <2>3 DEF B!Retention
    <2>8. QED
      BY <2>5, <2>6, <2>7
  <1>3. QED
    BY <1>1, <1>2

(* An attempt is finished by the pass that settled it. *)
LEMMA AttemptFinished ==
  ASSUME BillingInv, NEW r \in Replicas, NEW s \in PassRecord, pass' = [pass EXCEPT ![r] = s],
         NEW c \in DOMAIN att, pass[r].pc \in {"settle", "finish"}, pass[r].a = c,
         NEW status \in {"failed", "succeeded"}, B!FinishRenewalAttempt(c, status),
         status = "failed" => ~B!MoneyMoved(B!RefOf(c)), status = "succeeded" => B!RefOf(c) \in paid,
         UNCHANGED <<bNow, ten, paid, bank>>, s.pc \in {"verify", "lapse"}, s.todo = pass[r].todo
  PROVE  BillingInv'
  <1>1. B!TypeOK /\ bNow \in Nat /\ pass \in [Replicas -> PassRecord] /\ AttemptsOK /\ ChargesOK
        /\ ChargesWereClaimed /\ (\A q \in Replicas : PassOK(pass[q])) /\ ChargedAlone
    BY DEF BillingInv
  <1>2. att \in Seq(B!RenewalClaim) /\ att[c] \in B!RenewalClaim /\ ten \in B!TenantPlan
    BY <1>1, AttemptRow DEF B!TypeOK
  <1>3. PICK x \in B!RenewalClaim :
          /\ att' = [att EXCEPT ![c] = x] /\ x.end = att[c].end /\ x.n = att[c].n /\ x.at = att[c].at
          /\ x.status = att[c].status \/ (att[c].status = "pending" /\ x.status = status)
    <2>1. CASE att[c].status # "pending"
      <3>1. att' = [att EXCEPT ![c] = att[c]]
        BY <2>1, <1>2 DEF B!FinishRenewalAttempt
      <3>2. QED
        BY <3>1, <1>2
    <2>2. CASE att[c].status = "pending"
      <3>1. PICK x : x = [att[c] EXCEPT !.status = status]
        OBVIOUS
      <3>2. x \in B!RenewalClaim /\ x.end = att[c].end /\ x.n = att[c].n /\ x.at = att[c].at /\ x.status = status
        BY <3>1, <1>2 DEF B!RenewalClaim
      <3>3. att' = [att EXCEPT ![c] = x]
        BY <2>2, <3>1 DEF B!FinishRenewalAttempt
      <3>4. QED
        BY <2>2, <3>2, <3>3
    <2>3. QED
      BY <2>1, <2>2
  <1>4. att' \in Seq(B!RenewalClaim) /\ DOMAIN att' = DOMAIN att
    BY <1>2, <1>3
  <1>5. \A a \in DOMAIN att : /\ att'[a].end = att[a].end /\ att'[a].n = att[a].n /\ att'[a].at = att[a].at
                              /\ a # c => att'[a].status = att[a].status
                              /\ att[a].status = "failed" => att'[a].status = "failed"
                              /\ a = c => (att'[a].status = att[a].status \/ att'[a].status = status)
    BY <1>2, <1>3
  <1>6. SameAttempts
    BY <1>2, <1>4, <1>5 DEF SameAttempts
  <1>7. \A ref : LeavesAlone(ref)
    BY DEF LeavesAlone, B!MoneyMoved
  <1>8. B!TypeOK'
    BY <1>1, <1>4 DEF B!TypeOK
  <1>9. AttemptsOK'
    <2>1. \A e : B!OfPeriod(e)' = B!OfPeriod(e)
      BY <1>4, <1>5 DEF B!OfPeriod
    <2>2. (\A a \in DOMAIN att : att[a].at <= bNow /\ att[a].n <= Cardinality(B!OfPeriod(att[a].end)))'
      BY <2>1, <1>1, <1>4, <1>5 DEF AttemptsOK
    <2>3. \A a, b \in DOMAIN att' :
            (a # b /\ att'[a].end = att'[b].end) =>
               (/\ att'[a].n # att'[b].n
                /\ (att'[a].status = "failed" \/ att'[b].status = "failed"))
      BY <1>1, <1>4, <1>5 DEF AttemptsOK
    <2>4. QED
      BY <2>1, <2>2, <2>3 DEF AttemptsOK
  <1>10. ChargesOK'
    <2> SUFFICES ASSUME NEW a \in DOMAIN att
                 PROVE  /\ att'[a].status = "failed" => ~B!MoneyMoved(B!RefOf(a))'
                        /\ att'[a].status = "succeeded" => B!RefOf(a)' \in paid'
      BY <1>4 DEF ChargesOK
    <2>1. B!RefOf(a)' = B!RefOf(a)
      BY <1>6, SameReference
    <2>2. B!MoneyMoved(B!RefOf(a))' = B!MoneyMoved(B!RefOf(a))
      BY <2>1 DEF B!MoneyMoved
    <2>3. QED
      BY <2>1, <2>2, <1>1, <1>5 DEF ChargesOK
  <1>11. pass' \in [Replicas -> PassRecord]
    BY <1>1
  <1>12. (\A q \in Replicas : PassOK(pass[q]))'
    <2> SUFFICES ASSUME NEW q \in Replicas PROVE PassOK(pass[q])'
      OBVIOUS
    <2>1. CASE q = r
      <3>1. pass'[q] = s
        BY <2>1, <1>1
      <3>2. PassOK(s)'
        BY <1>1, <1>4, <1>5 DEF PassOK, AtCharge
      <3>3. QED
        BY <3>1, <3>2
    <2>2. CASE q # r
      <3>1. PICK o \in PassRecord : o = pass[q] /\ PassOK(o)
        BY <1>1
      <3>2. pass'[q] = o
        BY <2>2, <3>1, <1>1
      <3>3. o.pc = "charge" => (o.a # c /\ o.a \in DOMAIN att)
        BY <2>2, <3>1, <1>1 DEF ChargedAlone, AtCharge, PassOK
      <3>4. PassOK(o)'
        BY <3>1, <3>3, <1>5, <1>6, <1>7, PassStays
      <3>5. QED
        BY <3>2, <3>4
    <2>3. QED
      BY <2>1, <2>2
  <1>13. ChargedAlone'
    BY <1>1 DEF ChargedAlone, AtCharge
  <1>14. ChargesWereClaimed'
    BY <1>1, <1>4, <1>5 DEF ChargesWereClaimed
  <1>15. QED
    BY <1>1, <1>8, <1>9, <1>10, <1>11, <1>12, <1>13, <1>14 DEF BillingInv

(* An attempt is claimed: it is the next of its period, and new to Paystack. *)
LEMMA AttemptClaimed ==
  ASSUME B!BillingAssumption, BillingInv, NEW r \in Replicas, NEW x \in B!RenewalClaim, att' = Append(att, x),
         x.n = Cardinality(B!OfPeriod(x.end)) + 1, x.at = bNow, x.status = "pending",
         \A a \in B!OfPeriod(x.end) : att[a].status = "failed",
         NEW s \in PassRecord, pass' = [pass EXCEPT ![r] = s], s.pc = "charge", s.a = Len(att) + 1, s.todo = pass[r].todo,
         UNCHANGED <<bNow, ten, paid, bank>>
  PROVE  BillingInv'
  <1>1. B!TypeOK /\ bNow \in Nat /\ pass \in [Replicas -> PassRecord] /\ AttemptsOK /\ ChargesOK
        /\ ChargesWereClaimed /\ (\A q \in Replicas : PassOK(pass[q])) /\ ChargedAlone
    BY DEF BillingInv
  <1>2. att \in Seq(B!RenewalClaim) /\ Len(att) \in Nat /\ DOMAIN att = 1..Len(att)
    BY <1>1 DEF B!TypeOK
  <1>3. PICK m \in Nat : m = Len(att) + 1
    BY <1>2
  <1>4. /\ att' \in Seq(B!RenewalClaim) /\ DOMAIN att' = DOMAIN att \cup {m} /\ m \notin DOMAIN att
        /\ att'[m] = x /\ \A a \in DOMAIN att : att'[a] = att[a]
    BY <1>2, <1>3
  <1>5. SameAttempts
    BY <1>2, <1>4 DEF SameAttempts
  <1>6. \A ref : LeavesAlone(ref)
    BY DEF LeavesAlone, B!MoneyMoved
  <1>7. x.end \in Nat /\ x.n \in Nat
    BY DEF B!RenewalClaim
  <1>8. \A e : IsFiniteSet(B!OfPeriod(e)) /\ Cardinality(B!OfPeriod(e)) \in Nat
    <2> SUFFICES ASSUME NEW e PROVE IsFiniteSet(B!OfPeriod(e)) /\ Cardinality(B!OfPeriod(e)) \in Nat
      OBVIOUS
    <2>1. B!OfPeriod(e) \subseteq 1..Len(att)
      BY <1>2 DEF B!OfPeriod
    <2>2. IsFiniteSet(1..Len(att))
      BY <1>2, FS_Interval
    <2>3. QED
      BY <2>1, <2>2, FS_Subset, FS_CardinalityType
  <1>9. /\ B!OfPeriod(x.end)' = B!OfPeriod(x.end) \cup {m} /\ m \notin B!OfPeriod(x.end)
        /\ \A e : e # x.end => B!OfPeriod(e)' = B!OfPeriod(e)
    BY <1>4 DEF B!OfPeriod
  <1>10. Cardinality(B!OfPeriod(x.end)') = x.n
    BY <1>8, <1>9, FS_AddElement
  <1>11. B!TypeOK'
    BY <1>1, <1>4 DEF B!TypeOK
  <1>12. AttemptsOK'
    <2>1. ASSUME NEW a \in DOMAIN att'
          PROVE  (att[a].at <= bNow /\ att[a].n <= Cardinality(B!OfPeriod(att[a].end)))'
      <3>1. CASE a = m
        BY <3>1, <1>1, <1>4, <1>7, <1>10
      <3>2. CASE a # m
        <4>1. a \in DOMAIN att /\ att'[a] = att[a]
          BY <3>2, <1>4
        <4>2. att[a].at <= bNow /\ att[a].n <= Cardinality(B!OfPeriod(att[a].end)) /\ att[a].n \in Nat
          BY <4>1, <1>1, AttemptRow DEF AttemptsOK
        <4>3. CASE att[a].end = x.end
          <5>1. att[a].n <= x.n
            BY <4>2, <4>3, <1>7, <1>8
          <5>2. QED
            BY <5>1, <4>1, <4>2, <4>3, <1>10
        <4>4. CASE att[a].end # x.end
          BY <4>1, <4>2, <4>4, <1>9
        <4>5. QED
          BY <4>3, <4>4
      <3>3. QED
        BY <3>1, <3>2
    <2>2. ASSUME NEW a \in DOMAIN att, att[a].end = x.end
          PROVE  att[a].n # x.n /\ att[a].status = "failed"
      <3>1. att[a].n <= Cardinality(B!OfPeriod(x.end)) /\ att[a].n \in Nat
        BY <2>2, <1>1, AttemptRow DEF AttemptsOK
      <3>2. a \in B!OfPeriod(x.end)
        BY <2>2 DEF B!OfPeriod
      <3>3. QED
        BY <3>1, <3>2, <1>8
    <2>3. ASSUME NEW a \in DOMAIN att', NEW b \in DOMAIN att', a # b, att'[a].end = att'[b].end
          PROVE  /\ att'[a].n # att'[b].n
                 /\ (att'[a].status = "failed" \/ att'[b].status = "failed")
      <3>1. CASE a = m
        BY <3>1, <2>2, <2>3, <1>4
      <3>2. CASE b = m
        BY <3>2, <2>2, <2>3, <1>4
      <3>3. CASE a # m /\ b # m
        BY <3>3, <2>3, <1>1, <1>4 DEF AttemptsOK
      <3>4. QED
        BY <3>1, <3>2, <3>3
    <2>4. QED
      BY <2>1, <2>3 DEF AttemptsOK
  <1>13. ChargesOK'
    <2> SUFFICES ASSUME NEW a \in DOMAIN att'
                 PROVE  /\ att'[a].status = "failed" => ~B!MoneyMoved(B!RefOf(a))'
                        /\ att'[a].status = "succeeded" => B!RefOf(a)' \in paid'
      BY DEF ChargesOK
    <2>1. CASE a = m
      BY <2>1, <1>4
    <2>2. CASE a \in DOMAIN att
      <3>1. B!RefOf(a)' = B!RefOf(a)
        BY <2>2, <1>5, SameReference
      <3>2. B!MoneyMoved(B!RefOf(a))' = B!MoneyMoved(B!RefOf(a))
        BY <3>1 DEF B!MoneyMoved
      <3>3. QED
        BY <2>2, <3>1, <3>2, <1>1, <1>4 DEF ChargesOK
    <2>3. QED
      BY <2>1, <2>2, <1>4
  <1>14. pass' \in [Replicas -> PassRecord]
    BY <1>1
  <1>15. B!RefOf(m)' \notin DOMAIN bank'
    <2>1. B!RefOf(m)' = B!RenewalReference(x.end, x.n)
      BY <1>4 DEF B!RefOf
    <2>2. ASSUME B!RenewalReference(x.end, x.n) \in DOMAIN bank PROVE FALSE
      <3>1. PICK a \in DOMAIN att : att[a].end = x.end /\ att[a].n = x.n
        BY <2>2, <1>1, <1>7 DEF ChargesWereClaimed
      <3>2. att[a].n <= Cardinality(B!OfPeriod(x.end))
        BY <3>1, <1>1 DEF AttemptsOK
      <3>3. QED
        BY <3>1, <3>2, <1>8
    <2>3. QED
      BY <2>1, <2>2
  <1>16. (\A q \in Replicas : PassOK(pass[q]))'
    <2> SUFFICES ASSUME NEW q \in Replicas PROVE PassOK(pass[q])'
      OBVIOUS
    <2>1. CASE q = r
      <3>1. pass'[q] = s
        BY <2>1, <1>1
      <3>2. \A a \in s.todo : a \in DOMAIN att' /\ att'[a].at < bNow'
        BY <1>1, <1>4 DEF PassOK
      <3>3. s.a = m
        BY <1>3
      <3>4. PassOK(s)'
        BY <3>2, <3>3, <1>4, <1>15 DEF PassOK
      <3>5. QED
        BY <3>1, <3>4
    <2>2. CASE q # r
      <3>1. PICK o \in PassRecord : o = pass[q] /\ PassOK(o)
        BY <1>1
      <3>2. pass'[q] = o
        BY <2>2, <3>1, <1>1
      <3>3. o.pc = "charge" => o.a \in DOMAIN att
        BY <3>1 DEF PassOK, AtCharge
      <3>4. PassOK(o)'
        BY <3>1, <3>3, <1>4, <1>5, <1>6, PassStays
      <3>5. QED
        BY <3>2, <3>4
    <2>3. QED
      BY <2>1, <2>2
  <1>17. ChargedAlone'
    <2>1. \A q \in Replicas : (q # r /\ pass[q].pc \in AtCharge) => pass[q].a # s.a
      BY <1>1, <1>3, <1>4 DEF PassOK
    <2>2. QED
      BY <2>1, <1>1 DEF ChargedAlone
  <1>18. ChargesWereClaimed'
    BY <1>1, <1>4 DEF ChargesWereClaimed
  <1>19. QED
    BY <1>1, <1>11, <1>12, <1>13, <1>14, <1>16, <1>17, <1>18 DEF BillingInv

(* Paystack is asked to charge; whatever it did, only this reference moved. *)
LEMMA AttemptCharged ==
  ASSUME BillingInv, NEW r \in Replicas, B!renewOne(r)
  PROVE  BillingInv'
  <1>1. B!TypeOK /\ bNow \in Nat /\ pass \in [Replicas -> PassRecord] /\ AttemptsOK /\ ChargesOK
        /\ ChargesWereClaimed /\ (\A q \in Replicas : PassOK(pass[q])) /\ ChargedAlone
    BY DEF BillingInv
  <1>2. PICK o \in PassRecord : o = pass[r] /\ PassOK(o) /\ o.pc = "charge"
    BY <1>1 DEF B!renewOne
  <1>3. PICK c \in DOMAIN att : c = o.a /\ att[c].status = "pending" /\ B!RefOf(c) \notin DOMAIN bank
    BY <1>2 DEF PassOK, AtCharge
  <1>4. PICK res \in B!Outcomes :
          /\ (res = "failed" /\ UNCHANGED bank) \/ B!ChargeAuthorization(r, res)
          /\ pass' = [pass EXCEPT ![r].pc = "settle", ![r].res = res]
    BY DEF B!renewOne
  <1>5. UNCHANGED <<bNow, ten, att, paid>>
    BY DEF B!renewOne
  <1>6. PICK s : s = [o EXCEPT !.pc = "settle", !.res = res]
    OBVIOUS
  <1>7. s \in PassRecord /\ s.pc = "settle" /\ s.res = res /\ s.a = c /\ s.todo = o.todo
    BY <1>2, <1>3, <1>6 DEF PassRecord
  <1>8. pass' = [pass EXCEPT ![r] = s]
    <2>1. pass' = [pass EXCEPT ![r] = [pass[r] EXCEPT !.pc = "settle", !.res = res]]
      BY <1>1, <1>4
    <2>2. QED
      BY <2>1, <1>2, <1>6
  <1>9. PICK ref : ref = B!RefOf(c)
    OBVIOUS
  <1>10. att[c].plan \in B!Plans
    BY <1>1, AttemptRow
  <1>11. /\ \A b \in DOMAIN bank' : bank'[b] \in [plan: B!Plans, state: {"ongoing", "succeeded", "failed", "odd"}]
         /\ DOMAIN bank' \subseteq DOMAIN bank \cup {ref}
         /\ \A b : b # ref => LeavesAlone(b)
         /\ res = "failed" => ~B!MoneyMoved(ref)'
    <2>1. CASE UNCHANGED bank
      BY <2>1, <1>1, <1>3, <1>9 DEF B!TypeOK, LeavesAlone, B!MoneyMoved
    <2>2. CASE B!ChargeAuthorization(r, res) /\ ~UNCHANGED bank
      <3>1. PICK st \in {"succeeded", "failed", "ongoing", "odd"} :
              /\ bank' = [b \in DOMAIN bank \cup {B!RefOf(pass[r].a)} |->
                            IF b = B!RefOf(pass[r].a) THEN [plan |-> att[pass[r].a].plan, state |-> st] ELSE bank[b]]
              /\ res \in B!doTx(st)
        BY <2>2 DEF B!ChargeAuthorization
      <3>2. PICK x \in [plan: B!Plans, state: {"ongoing", "succeeded", "failed", "odd"}] : x = [plan |-> att[c].plan, state |-> st]
        BY <1>10
      <3>3. bank' = [b \in DOMAIN bank \cup {ref} |-> IF b = ref THEN x ELSE bank[b]]
        BY <3>1, <3>2, <1>2, <1>3, <1>9
      <3>4. DOMAIN bank' = DOMAIN bank \cup {ref} /\ bank'[ref] = x
            /\ \A b \in DOMAIN bank : b # ref => bank'[b] = bank[b]
        BY <3>3
      <3>5. \A b : b # ref => LeavesAlone(b)
        BY <3>4 DEF LeavesAlone, B!MoneyMoved
      <3>6. res = "failed" => st = "failed"
        BY <3>1 DEF B!doTx, B!classify
      <3>7. res = "failed" => ~B!MoneyMoved(ref)'
        BY <3>2, <3>4, <3>6 DEF B!MoneyMoved
      <3>8. \A b \in DOMAIN bank' : bank'[b] \in [plan: B!Plans, state: {"ongoing", "succeeded", "failed", "odd"}]
        BY <3>4, <1>1 DEF B!TypeOK
      <3>9. QED
        BY <3>4, <3>5, <3>7, <3>8
    <2>3. QED
      BY <2>1, <2>2, <1>4
  <1>12. SameAttempts
    BY <1>1, <1>5 DEF SameAttempts, B!TypeOK
  <1>13. \A a \in DOMAIN att : a # c => LeavesAlone(B!RefOf(a))
    BY <1>1, <1>9, <1>11, OneReferenceEach
  <1>14. B!TypeOK'
    BY <1>1, <1>5, <1>11 DEF B!TypeOK
  <1>15. AttemptsOK'
    <2>1. \A e : B!OfPeriod(e)' = B!OfPeriod(e)
      BY <1>5 DEF B!OfPeriod
    <2>2. QED
      BY <2>1, <1>1, <1>5 DEF AttemptsOK
  <1>16. ChargesOK'
    <2> SUFFICES ASSUME NEW a \in DOMAIN att
                 PROVE  /\ att[a].status = "failed" => ~B!MoneyMoved(B!RefOf(a))'
                        /\ att[a].status = "succeeded" => B!RefOf(a)' \in paid'
      BY <1>5 DEF ChargesOK
    <2>1. CASE a = c
      BY <2>1, <1>3
    <2>2. CASE a # c
      <3>1. PICK y : y = B!RefOf(a)
        OBVIOUS
      <3>2. B!RefOf(a)' = y /\ LeavesAlone(y)
        BY <2>2, <3>1, <1>12, <1>13, SameReference
      <3>3. B!MoneyMoved(y)' = B!MoneyMoved(B!RefOf(a))'
        BY <3>2 DEF B!MoneyMoved
      <3>4. QED
        BY <3>1, <3>2, <3>3, <1>1, <1>5 DEF ChargesOK, LeavesAlone
    <2>3. QED
      BY <2>1, <2>2
  <1>17. ChargesWereClaimed'
    <2>1. ref = B!RenewalReference(att[c].end, att[c].n)
      BY <1>9 DEF B!RefOf
    <2>2. \A e, n \in Nat : B!RenewalReference(e, n) = ref => (att[c].end = e /\ att[c].n = n)
      BY <2>1, ReferencesDiffer
    <2>3. QED
      BY <2>2, <1>1, <1>5, <1>11 DEF ChargesWereClaimed
  <1>18. pass' \in [Replicas -> PassRecord]
    BY <1>1, <1>7, <1>8
  <1>19. (\A q \in Replicas : PassOK(pass[q]))'
    <2> SUFFICES ASSUME NEW q \in Replicas PROVE PassOK(pass[q])'
      OBVIOUS
    <2>1. CASE q = r
      <3>1. pass'[q] = s
        BY <2>1, <1>1, <1>8
      <3>2. B!RefOf(c)' = ref
        BY <1>9, <1>12, SameReference
      <3>3. B!MoneyMoved(ref)' = B!MoneyMoved(B!RefOf(c))'
        BY <3>2 DEF B!MoneyMoved
      <3>4. PassOK(s)'
        BY <3>3, <1>2, <1>3, <1>5, <1>7, <1>11 DEF PassOK, AtCharge
      <3>5. QED
        BY <3>1, <3>4
    <2>2. CASE q # r
      <3>1. PICK z \in PassRecord : z = pass[q] /\ PassOK(z)
        BY <1>1
      <3>2. pass'[q] = z
        BY <2>2, <3>1, <1>1, <1>8
      <3>3. z.pc \in AtCharge => (z.a # c /\ z.a \in DOMAIN att)
        BY <2>2, <3>1, <1>1, <1>2, <1>3 DEF ChargedAlone, PassOK
      <3>4. PassOK(z)'
        BY <3>1, <3>3, <1>5, <1>12, <1>13, PassStays
      <3>5. QED
        BY <3>2, <3>4
    <2>3. QED
      BY <2>1, <2>2
  <1>20. ChargedAlone'
    <2>1. "settle" \in AtCharge /\ "charge" \in AtCharge
      BY DEF AtCharge
    <2>2. QED
      BY <2>1, <1>1, <1>2, <1>3, <1>7, <1>8 DEF ChargedAlone
  <1>21. QED
    BY <1>1, <1>5, <1>14, <1>15, <1>16, <1>17, <1>18, <1>19, <1>20 DEF BillingInv

(* A pass goes to its next stage. *)
LEMMA PassGoes ==
  ASSUME BillingInv, NEW r \in Replicas, NEW pc \in {"verify", "claim", "finish", "lapse"}, B!Goto(r, pc)
  PROVE  \E s \in PassRecord : /\ pass' = [pass EXCEPT ![r] = s] /\ s.pc = pc /\ s.todo = pass[r].todo
                               /\ s.a = pass[r].a
  <1>1. PICK o \in PassRecord : o = pass[r]
    BY DEF BillingInv
  <1>2. PICK s : s = [o EXCEPT !.pc = pc]
    OBVIOUS
  <1>3. s \in PassRecord /\ s.pc = pc /\ s.todo = o.todo /\ s.a = o.a
    BY <1>2 DEF PassRecord
  <1>4. pass' = [pass EXCEPT ![r] = [pass[r] EXCEPT !.pc = pc]]
    BY DEF B!Goto, BillingInv
  <1>5. QED
    BY <1>1, <1>2, <1>3, <1>4

(* One that is past its attempt keeps only the list of those to verify. *)
LEMMA PassWithoutAttempt ==
  ASSUME NEW r \in Replicas, PassOK(pass[r]), NEW s \in PassRecord, s.pc \in {"verify", "claim", "lapse"},
         s.todo = pass[r].todo, UNCHANGED <<bNow, att>>
  PROVE  PassOK(s)'
  BY DEF PassOK, AtCharge

(* The attempts a pass sets out to verify. *)
LEMMA PassToReconcile ==
  ASSUME B!BillingAssumption, BillingInv, UNCHANGED <<bNow, att>>
  PROVE  \E s \in PassRecord : s = B!ToReconcile /\ s.pc = "verify" /\ PassOK(s)'
  <1>1. B!PendingRenewalAttempts \subseteq Nat /\ \A a \in B!PendingRenewalAttempts : a \in DOMAIN att /\ att[a].at < bNow
    <2> SUFFICES ASSUME NEW a \in B!PendingRenewalAttempts PROVE a \in Nat /\ a \in DOMAIN att /\ att[a].at < bNow
      OBVIOUS
    <2>1. a \in DOMAIN att /\ att[a].at <= bNow - RenewalReconcileAfter
      BY DEF B!PendingRenewalAttempts
    <2>2. att[a].at \in Nat /\ a \in Nat /\ bNow \in Nat
      BY <2>1, AttemptRow DEF BillingInv
    <2>3. QED
      BY <2>1, <2>2 DEF B!BillingAssumption
  <1>2. PICK s : s = B!ToReconcile
    OBVIOUS
  <1>3. PICK w : w = B!PendingRenewalAttempts
    OBVIOUS
  <1>4. s = [B!Idle EXCEPT !.pc = "verify", !.todo = w]
    BY <1>2, <1>3 DEF B!ToReconcile
  <1>5. s \in PassRecord /\ s.pc = "verify" /\ s.todo = w
    BY <1>1, <1>3, <1>4, IdlePass DEF PassRecord
  <1>6. PassOK(s)'
    BY <1>1, <1>3, <1>5 DEF PassOK, AtCharge
  <1>7. QED
    BY <1>2, <1>5, <1>6

(* An idle pass has nothing to account for.                                 *)
LEMMA PassIdles == PassOK(B!Idle)'
  BY IdlePass DEF PassOK, AtCharge

(* A checkout opens a charge of its own and no renewal.                     *)
LEMMA CheckoutStep == ASSUME BillingInv, B!handleCheckout PROVE BillingInv'
  <1>1. PICK plan \in B!Plans : B!InitializeTransaction(plan)
    BY DEF B!handleCheckout
  <1>2. PICK ref : ref = B!CheckoutReference(bMade)
    OBVIOUS
  <1>3. bank' = [b \in DOMAIN bank \cup {ref} |-> IF b = ref THEN [plan |-> plan, state |-> "ongoing"] ELSE bank[b]]
    BY <1>1, <1>2 DEF B!InitializeTransaction
  <1>4. B!TypeOK
    BY DEF BillingInv
  <1>5. \A b \in DOMAIN bank' : bank'[b] \in [plan: B!Plans, state: {"ongoing", "succeeded", "failed", "odd"}]
    <2>1. \A b \in DOMAIN bank : bank[b] \in [plan: B!Plans, state: {"ongoing", "succeeded", "failed", "odd"}]
      BY <1>4 DEF B!TypeOK
    <2>2. [plan |-> plan, state |-> "ongoing"] \in [plan: B!Plans, state: {"ongoing", "succeeded", "failed", "odd"}]
      OBVIOUS
    <2>3. QED
      BY <2>1, <2>2, <1>3
  <1>6. \A b : b # ref => LeavesAlone(b)
    BY <1>3 DEF LeavesAlone, B!MoneyMoved
  <1>7. \A e, n \in Nat : LeavesAlone(B!RenewalReference(e, n))
    BY <1>2, <1>6, ReferencesDiffer
  <1>8. UNCHANGED <<bNow, ten, att, paid, pass>> /\ ten \in B!TenantPlan
    BY <1>4 DEF B!handleCheckout, B!TypeOK
  <1>9. QED
    BY <1>5, <1>7, <1>8, NoPassMoves

(* Paystack decides a charge that is in flight and no other.                *)
LEMMA ResolveStep == ASSUME BillingInv, B!PaystackResolves PROVE BillingInv'
  <1>1. PICK c \in DOMAIN bank : bank[c].state = "ongoing" /\ \E x \in {"succeeded", "failed"} : bank' = [bank EXCEPT ![c].state = x]
    BY DEF B!PaystackResolves
  <1>2. PICK x \in {"succeeded", "failed"} : bank' = [bank EXCEPT ![c].state = x]
    BY <1>1
  <1>3. B!TypeOK
    BY DEF BillingInv
  <1>4. bank[c] \in [plan: B!Plans, state: {"ongoing", "succeeded", "failed", "odd"}]
    BY <1>3 DEF B!TypeOK
  <1>5. PICK y : y = [bank[c] EXCEPT !.state = x]
    OBVIOUS
  <1>6. y \in [plan: B!Plans, state: {"ongoing", "succeeded", "failed", "odd"}] /\ y.state = x
    BY <1>4, <1>5
  <1>7. DOMAIN bank' = DOMAIN bank /\ bank'[c] = y /\ \A b \in DOMAIN bank : b # c => bank'[b] = bank[b]
    BY <1>2, <1>5
  <1>8. \A b \in DOMAIN bank' : bank'[b] \in [plan: B!Plans, state: {"ongoing", "succeeded", "failed", "odd"}]
    BY <1>3, <1>6, <1>7 DEF B!TypeOK
  <1>9. \A b : LeavesAlone(b)
    BY <1>1, <1>7 DEF LeavesAlone, B!MoneyMoved
  <1>10. UNCHANGED <<bNow, ten, att, paid, pass>> /\ ten \in B!TenantPlan
    BY <1>3 DEF B!PaystackResolves, B!TypeOK
  <1>11. QED
    BY <1>8, <1>9, <1>10, NoPassMoves

(* A webhook settles what Paystack decided; the owner's switch charges      *)
(* nobody.                                                                  *)
LEMMA OwnerStep ==
  ASSUME B!BillingAssumption, BillingInv, B!handleWebhook \/ B!handleAutoRenew
  PROVE  BillingInv'
  <1>1. B!TypeOK /\ ten \in B!TenantPlan /\ bNow \in Nat
    BY DEF BillingInv, B!TypeOK
  <1>2. ten' \in B!TenantPlan /\ paid \subseteq paid' /\ UNCHANGED <<bNow, att, bank, pass>>
    <2>1. CASE B!handleWebhook
      <3>1. PICK ref \in DOMAIN bank : paid' = paid \cup {ref} /\ B!saveAuthorization(bank[ref].plan)
        BY <2>1 DEF B!handleWebhook
      <3>2. PICK plan \in B!Plans : plan = bank[ref].plan
        BY <1>1 DEF B!TypeOK
      <3>3. B!saveAuthorization(plan)
        BY <3>1, <3>2
      <3>4. QED
        BY <2>1, <3>1, <3>3, <1>1, RowExtended DEF B!saveAuthorization, B!handleWebhook
    <2>2. CASE B!handleAutoRenew
      <3>1. PICK on \in BOOLEAN : B!SetAutoRenew(on)
        BY <2>2 DEF B!handleAutoRenew
      <3>2. QED
        BY <2>2, <3>1, <1>1, ReminderCleared DEF B!SetAutoRenew, B!handleAutoRenew
    <2>3. QED
      BY <2>1, <2>2
  <1>3. \A b : LeavesAlone(b)
    BY <1>2 DEF LeavesAlone, B!MoneyMoved
  <1>4. \A b \in DOMAIN bank' : bank'[b] \in [plan: B!Plans, state: {"ongoing", "succeeded", "failed", "odd"}]
    BY <1>1, <1>2 DEF B!TypeOK
  <1>5. QED
    BY <1>2, <1>3, <1>4, NoPassMoves

(* The passing of time charges nobody.                                      *)
LEMMA BillingTick == ASSUME BillingInv, B!Tick PROVE BillingInv'
  <1>1. B!TypeOK /\ bNow \in Nat /\ pass \in [Replicas -> PassRecord] /\ AttemptsOK /\ ChargesOK
        /\ ChargesWereClaimed /\ (\A q \in Replicas : PassOK(pass[q])) /\ ChargedAlone
    BY DEF BillingInv
  <1>2. UNCHANGED <<ten, att, paid, bank, pass>> /\ bNow' = bNow + 1 /\ \A q \in Replicas : pass[q].pc = "idle"
    BY DEF B!Tick
  <1>3. B!TypeOK'
    BY <1>1, <1>2 DEF B!TypeOK
  <1>4. \A b : LeavesAlone(b)
    BY <1>2 DEF LeavesAlone, B!MoneyMoved
  <1>5. AttemptsOK' /\ ChargesOK'
    BY <1>1, <1>2, <1>4, AttemptsStay
  <1>6. (\A q \in Replicas : PassOK(pass[q]))'
    BY <1>1, <1>2 DEF PassOK, AtCharge
  <1>7. ChargedAlone'
    BY <1>1, <1>2 DEF ChargedAlone
  <1>8. ChargesWereClaimed'
    BY <1>1, <1>2 DEF ChargesWereClaimed
  <1>9. QED
    BY <1>1, <1>2, <1>3, <1>5, <1>6, <1>7, <1>8 DEF BillingInv

(* Beginning, reminding, lapsing and crashing leave the attempts alone.     *)
LEMMA PassStep ==
  ASSUME B!BillingAssumption, BillingInv, NEW r \in Replicas,
         \/ B!RunOnce(r) \/ B!sendReminders(r) \/ B!runPlanLapse(r) \/ B!Crash(r)
  PROVE  BillingInv'
  <1>1. B!TypeOK /\ ten \in B!TenantPlan /\ bNow \in Nat
    BY DEF BillingInv, B!TypeOK
  <1>2. UNCHANGED <<bNow, att, bank, paid>>
    BY DEF B!RunOnce, B!sendReminders, B!runPlanLapse, B!Crash
  <1>3. ten' \in B!TenantPlan
    <2>1. CASE B!RunOnce(r)
      BY <2>1, <1>1, ReminderMarked DEF B!RunOnce, B!ClaimPlanReminders
    <2>2. CASE B!sendReminders(r)
      <3>1. FALSE \in BOOLEAN
        OBVIOUS
      <3>2. [ten EXCEPT !.remEnd = B!None, !.remAt = B!None, !.remAuto = FALSE] \in B!TenantPlan
        BY <3>1, <1>1, ReminderCleared
      <3>3. QED
        BY <2>2, <3>2, <1>1 DEF B!sendReminders, B!ReleasePlanReminder
    <2>3. CASE B!runPlanLapse(r)
      BY <2>3, <1>1, PlanLapsed DEF B!runPlanLapse
    <2>4. CASE B!Crash(r)
      BY <2>4, <1>1 DEF B!Crash
    <2>5. QED
      BY <2>1, <2>2, <2>3, <2>4
  <1>4. \E s \in PassRecord : pass' = [pass EXCEPT ![r] = s] /\ s.pc \in {"idle", "mail", "verify"} /\ PassOK(s)'
    <2>1. PICK v \in PassRecord : v = B!ToReconcile /\ v.pc = "verify" /\ PassOK(v)'
      BY <1>2, PassToReconcile
    <2>2. PICK i \in PassRecord : i = B!Idle /\ i.pc = "idle" /\ i.todo = {}
      BY IdlePass
    <2>3. PassOK(i)'
      BY <2>2 DEF PassOK, AtCharge
    <2>4. CASE pass' = [pass EXCEPT ![r] = v]
      BY <2>1, <2>4
    <2>5. CASE pass' = [pass EXCEPT ![r] = i]
      BY <2>2, <2>3, <2>5
    <2>6. CASE pass' = [pass EXCEPT ![r] = [i EXCEPT !.pc = "mail", !.at = ten.end]]
      <3>1. PICK e \in Nat : e = ten.end
        BY <1>1 DEF B!TenantPlan
      <3>2. PICK m : m = [i EXCEPT !.pc = "mail", !.at = e]
        OBVIOUS
      <3>3. m \in PassRecord /\ m.pc = "mail" /\ m.todo = {}
        BY <2>2, <3>2 DEF PassRecord
      <3>4. PassOK(m)'
        BY <3>3 DEF PassOK, AtCharge
      <3>5. QED
        BY <2>6, <3>1, <3>2, <3>3, <3>4
    <2>7. QED
      BY <2>1, <2>2, <2>4, <2>5, <2>6 DEF B!RunOnce, B!sendReminders, B!runPlanLapse, B!Crash
  <1>5. PICK s \in PassRecord : pass' = [pass EXCEPT ![r] = s] /\ s.pc \in {"idle", "mail", "verify"} /\ PassOK(s)'
    BY <1>4
  <1>6. s.pc # "charge" /\ s.pc \notin AtCharge
    BY <1>5 DEF AtCharge
  <1>7. QED
    BY <1>2, <1>3, <1>5, <1>6, OnlyPassMoves

(* Reconciliation reads what Paystack decided of a pending attempt.         *)
LEMMA VerifyStep == ASSUME BillingInv, NEW r \in Replicas, B!reconcilePending(r) PROVE BillingInv'
  <1>1. B!TypeOK /\ ten \in B!TenantPlan /\ pass \in [Replicas -> PassRecord] /\ PassOK(pass[r])
    BY DEF BillingInv, B!TypeOK
  <1>2. UNCHANGED <<bNow, ten, att, paid, bank>>
    BY DEF B!reconcilePending
  <1>3. CASE \E pc \in {"claim", "lapse"} : B!Goto(r, pc)
    <2>1. PICK pc \in {"claim", "lapse"} : B!Goto(r, pc)
      BY <1>3
    <2>2. PICK s \in PassRecord : pass' = [pass EXCEPT ![r] = s] /\ s.pc = pc /\ s.todo = pass[r].todo
      BY <2>1, PassGoes
    <2>3. PassOK(s)'
      BY <2>2, <1>1, <1>2, PassWithoutAttempt
    <2>4. s.pc # "charge" /\ s.pc \notin AtCharge
      BY <2>2 DEF AtCharge
    <2>5. QED
      BY <2>2, <2>3, <2>4, <1>1, <1>2, OnlyPassMoves
  <1>4. CASE \E a \in pass[r].todo : \E res \in B!VerifyTransaction(a) :
               pass' = [pass EXCEPT ![r].pc = "settle", ![r].a = a, ![r].res = res, ![r].todo = @ \ {a}]
    <2>0. PICK c \in pass[r].todo : \E res \in B!VerifyTransaction(c) :
            pass' = [pass EXCEPT ![r].pc = "settle", ![r].a = c, ![r].res = res, ![r].todo = @ \ {c}]
      BY <1>4
    <2>1. PICK res \in B!VerifyTransaction(c) :
            pass' = [pass EXCEPT ![r].pc = "settle", ![r].a = c, ![r].res = res, ![r].todo = @ \ {c}]
      BY <2>0
    <2>2. PICK o \in PassRecord : o = pass[r] /\ PassOK(o) /\ c \in o.todo
      BY <1>1
    <2>3. c \in DOMAIN att /\ att[c].at < bNow /\ c \in Nat
      BY <2>2, <1>1, AttemptRow DEF PassOK
    <2>4. PICK ref : ref = B!RefOf(c)
      OBVIOUS
    <2>5. res \in B!Outcomes /\ (res = "failed" => ~B!MoneyMoved(ref))
      <3>1. res \in B!doTx(B!Known(ref))
        BY <2>1, <2>4 DEF B!VerifyTransaction
      <3>2. ref \in DOMAIN bank => bank[ref].state \in {"ongoing", "succeeded", "failed", "odd"}
        BY <1>1 DEF B!TypeOK
      <3>3. B!Known(ref) \in {"ongoing", "succeeded", "failed", "odd"} /\ (B!Known(ref) = "failed" => ~B!MoneyMoved(ref))
        BY <3>2 DEF B!Known, B!MoneyMoved
      <3>4. QED
        BY <3>1, <3>3 DEF B!doTx, B!classify, B!Outcomes
    <2>6. PICK s : s = [o EXCEPT !.pc = "settle", !.a = c, !.res = res, !.todo = o.todo \ {c}]
      OBVIOUS
    <2>7. s \in PassRecord /\ s.pc = "settle" /\ s.a = c /\ s.res = res /\ s.todo = o.todo \ {c}
      BY <2>3, <2>5, <2>6 DEF PassRecord
    <2>8. pass' = [pass EXCEPT ![r] = s]
      <3>1. pass' = [pass EXCEPT ![r] = [pass[r] EXCEPT !.pc = "settle", !.a = c, !.res = res, !.todo = pass[r].todo \ {c}]]
        BY <2>1, <1>1
      <3>2. QED
        BY <3>1, <2>2, <2>6
    <2>9. B!RefOf(c)' = ref /\ ~B!MoneyMoved(ref)' = ~B!MoneyMoved(ref)
      BY <2>4, <1>2 DEF B!RefOf, B!MoneyMoved
    <2>10. B!MoneyMoved(B!RefOf(c))' = B!MoneyMoved(ref)
      BY <2>4, <1>2 DEF B!RefOf, B!MoneyMoved
    <2>11. PassOK(s)'
      BY <2>2, <2>3, <2>5, <2>7, <2>10, <1>2 DEF PassOK, AtCharge
    <2>12. QED
      BY <2>3, <2>7, <2>8, <2>11, <1>1, <1>2, OnlyPassMoves
  <1>5. QED
    BY <1>3, <1>4 DEF B!reconcilePending

(* A claim writes the only attempt of its period that is still open.        *)
LEMMA ClaimStep ==
  ASSUME B!BillingAssumption, BillingInv, NEW r \in Replicas, B!ClaimRenewalAttempt(r)
  PROVE  BillingInv'
  <1>1. B!TypeOK /\ ten \in B!TenantPlan /\ pass \in [Replicas -> PassRecord] /\ PassOK(pass[r]) /\ bNow \in Nat
    BY DEF BillingInv, B!TypeOK
  <1>2. UNCHANGED <<bNow, ten, paid, bank>>
    BY DEF B!ClaimRenewalAttempt
  <1>3. CASE B!Goto(r, "lapse") /\ UNCHANGED att
    <2>1. PICK s \in PassRecord : pass' = [pass EXCEPT ![r] = s] /\ s.pc = "lapse" /\ s.todo = pass[r].todo
      BY <1>3, PassGoes
    <2>2. PassOK(s)'
      BY <2>1, <1>1, <1>2, <1>3, PassWithoutAttempt
    <2>3. s.pc # "charge" /\ s.pc \notin AtCharge
      BY <2>1 DEF AtCharge
    <2>4. QED
      BY <2>1, <2>2, <2>3, <1>1, <1>2, <1>3, OnlyPassMoves
  <1>4. CASE /\ ~B!Blocked(ten.end)
             /\ att' = Append(att, [end |-> ten.end, n |-> B!Cardinality(B!OfPeriod(ten.end)) + 1,
                                    plan |-> ten.plan, at |-> bNow, status |-> "pending"])
             /\ pass' = [pass EXCEPT ![r].pc = "charge", ![r].a = Len(att) + 1]
    <2>1. PICK e \in Nat, plan \in B!Plans, t \in Nat : e = ten.end /\ plan = ten.plan /\ t = bNow
      BY <1>1 DEF B!TenantPlan
    <2>2. att \in Seq(B!RenewalClaim) /\ Len(att) \in Nat /\ DOMAIN att = 1..Len(att)
      BY <1>1 DEF B!TypeOK
    <2>3. IsFiniteSet(B!OfPeriod(e)) /\ Cardinality(B!OfPeriod(e)) \in Nat
      <3>1. B!OfPeriod(e) \subseteq 1..Len(att)
        BY <2>2 DEF B!OfPeriod
      <3>2. IsFiniteSet(1..Len(att))
        BY <2>2, FS_Interval
      <3>3. QED
        BY <3>1, <3>2, FS_Subset, FS_CardinalityType
    <2>4. PICK k \in Nat : k = Cardinality(B!OfPeriod(e)) /\ k = B!Cardinality(B!OfPeriod(e))
      BY <2>3, PeriodCount
    <2>5. ~(k >= RenewalMaxAttempts) /\ \A a \in B!OfPeriod(e) : att[a].status = "failed"
      BY <2>1, <2>4, <1>4 DEF B!Blocked
    <2>6. k + 1 \in 1..RenewalMaxAttempts
      BY <2>5 DEF B!BillingAssumption
    <2>7. PICK x : x = [end |-> e, n |-> k + 1, plan |-> plan, at |-> t, status |-> "pending"]
      OBVIOUS
    <2>8. x \in B!RenewalClaim /\ x.end = e /\ x.n = k + 1 /\ x.at = t /\ x.status = "pending"
      BY <2>6, <2>7 DEF B!RenewalClaim
    <2>9. att' = Append(att, x)
      BY <2>1, <2>4, <2>7, <1>4
    <2>10. PICK o \in PassRecord : o = pass[r]
      BY <1>1
    <2>11. PICK m \in Nat : m = Len(att) + 1
      BY <2>2
    <2>12. PICK s : s = [o EXCEPT !.pc = "charge", !.a = m]
      OBVIOUS
    <2>13. s \in PassRecord /\ s.pc = "charge" /\ s.a = m /\ s.todo = o.todo
      BY <2>12 DEF PassRecord
    <2>14. pass' = [pass EXCEPT ![r] = s]
      <3>1. pass' = [pass EXCEPT ![r] = [pass[r] EXCEPT !.pc = "charge", !.a = Len(att) + 1]]
        BY <1>1, <1>4
      <3>2. QED
        BY <3>1, <2>10, <2>11, <2>12
    <2>15. /\ x.n = Cardinality(B!OfPeriod(x.end)) + 1 /\ x.at = bNow
           /\ s.a = Len(att) + 1 /\ s.todo = pass[r].todo
           /\ \A a \in B!OfPeriod(x.end) : att[a].status = "failed"
      BY <2>1, <2>4, <2>5, <2>8, <2>10, <2>11, <2>13
    <2>16. QED
      BY <2>8, <2>9, <2>13, <2>14, <2>15, <1>2, AttemptClaimed
  <1>5. QED
    BY <1>3, <1>4 DEF B!ClaimRenewalAttempt

(* Settling records a success only with Paystack's own.                     *)
LEMMA SettleStep ==
  ASSUME B!BillingAssumption, BillingInv, NEW r \in Replicas, B!settle(r)
  PROVE  BillingInv'
  <1>1. B!TypeOK /\ ten \in B!TenantPlan /\ pass \in [Replicas -> PassRecord] /\ PassOK(pass[r]) /\ bNow \in Nat
    BY DEF BillingInv, B!TypeOK
  <1>2. PICK c \in DOMAIN att : c = pass[r].a
    BY <1>1 DEF PassOK, AtCharge, B!settle
  <1>3. pass[r].pc = "settle" /\ UNCHANGED <<bNow, bank>>
    BY DEF B!settle
  <1>4. PICK pc \in {"verify", "lapse"} : pc = B!AfterSettle(r)
    BY DEF B!AfterSettle
  <1>5. CASE B!Goto(r, B!AfterSettle(r)) /\ UNCHANGED <<ten, att, paid>>
    <2>1. PICK s \in PassRecord : pass' = [pass EXCEPT ![r] = s] /\ s.pc = pc /\ s.todo = pass[r].todo
      BY <1>4, <1>5, PassGoes
    <2>2. PassOK(s)'
      BY <2>1, <1>1, <1>3, <1>5, PassWithoutAttempt
    <2>3. s.pc # "charge" /\ s.pc \notin AtCharge
      BY <2>1 DEF AtCharge
    <2>4. QED
      BY <2>1, <2>2, <2>3, <1>1, <1>3, <1>5, OnlyPassMoves
  <1>6. CASE B!ApplyPlanPayment(B!RefOf(c), att[c].plan) /\ B!Goto(r, "finish") /\ UNCHANGED att
    <2>1. PICK s \in PassRecord : pass' = [pass EXCEPT ![r] = s] /\ s.pc = "finish" /\ s.todo = pass[r].todo /\ s.a = c
      BY <1>2, <1>6, PassGoes
    <2>2. PICK plan \in B!Plans : plan = att[c].plan
      BY <1>1, AttemptRow
    <2>3. ten' \in B!TenantPlan /\ paid \subseteq paid' /\ B!RefOf(c) \in paid'
      <3>1. CASE B!RefOf(c) \in paid
        BY <3>1, <1>1, <1>6 DEF B!ApplyPlanPayment
      <3>2. CASE B!RefOf(c) \notin paid
        BY <3>2, <2>2, <1>1, <1>6, RowExtended DEF B!ApplyPlanPayment
      <3>3. QED
        BY <3>1, <3>2
    <2>4. B!RefOf(c)' = B!RefOf(c)
      BY <1>6 DEF B!RefOf
    <2>5. PassOK(s)'
      BY <2>1, <2>3, <2>4, <1>1, <1>3, <1>6 DEF PassOK, AtCharge
    <2>6. s.pc # "charge" /\ pass[r].pc \in AtCharge /\ s.a = pass[r].a
      BY <2>1, <1>2, <1>3 DEF AtCharge
    <2>7. QED
      BY <2>1, <2>3, <2>5, <2>6, <1>3, <1>6, OnlyPassMoves
  <1>7. CASE /\ pass[r].res = "failed" /\ B!FinishRenewalAttempt(c, "failed")
             /\ B!Goto(r, B!AfterSettle(r)) /\ UNCHANGED <<ten, paid>>
    <2>1. PICK s \in PassRecord : pass' = [pass EXCEPT ![r] = s] /\ s.pc = pc /\ s.todo = pass[r].todo
      BY <1>4, <1>7, PassGoes
    <2>2. ~B!MoneyMoved(B!RefOf(c))
      BY <1>1, <1>2, <1>3, <1>7 DEF PassOK
    <2>3. QED
      BY <2>1, <2>2, <1>2, <1>3, <1>7, AttemptFinished
  <1>8. QED
    BY <1>2, <1>5, <1>6, <1>7 DEF B!settle

(* A pass that ends leaves its attempts to the next one.                    *)
LEMMA FinishStep == ASSUME BillingInv, NEW r \in Replicas, B!Finish(r) PROVE BillingInv'
  <1>1. PassOK(pass[r])
    BY DEF BillingInv
  <1>2. PICK c \in DOMAIN att : c = pass[r].a /\ B!RefOf(c) \in paid
    BY <1>1 DEF PassOK, AtCharge, B!Finish
  <1>3. PICK pc \in {"verify", "lapse"} : pc = B!AfterSettle(r)
    BY DEF B!AfterSettle
  <1>4. B!Goto(r, pc) /\ B!FinishRenewalAttempt(c, "succeeded") /\ pass[r].pc = "finish" /\ UNCHANGED <<bNow, ten, paid, bank>>
    BY <1>2, <1>3 DEF B!Finish
  <1>5. PICK s \in PassRecord : pass' = [pass EXCEPT ![r] = s] /\ s.pc = pc /\ s.todo = pass[r].todo
    BY <1>4, PassGoes
  <1>6. QED
    BY <1>2, <1>4, <1>5, AttemptFinished

(* Every step of the plan and of the renewal pass keeps the invariant.      *)
LEMMA BillingStep == ASSUME B!BillingAssumption PROVE BillingInv /\ [B!Next]_B!vars => BillingInv'
  <1> SUFFICES ASSUME BillingInv, [B!Next]_B!vars PROVE BillingInv'
    OBVIOUS
  <1>1. CASE UNCHANGED B!vars
    <2>1. UNCHANGED <<bNow, ten, att, paid, bank, pass>> /\ B!TypeOK
      BY <1>1 DEF B!vars, BillingInv
    <2>2. \A b : LeavesAlone(b)
      BY <2>1 DEF LeavesAlone, B!MoneyMoved
    <2>3. ten' \in B!TenantPlan
          /\ \A b \in DOMAIN bank' : bank'[b] \in [plan: B!Plans, state: {"ongoing", "succeeded", "failed", "odd"}]
      BY <2>1 DEF B!TypeOK
    <2>4. QED
      BY <2>1, <2>2, <2>3, NoPassMoves
  <1>2. CASE B!handleCheckout \/ B!PaystackResolves \/ B!handleWebhook \/ B!handleAutoRenew \/ B!Tick
    BY <1>2, CheckoutStep, ResolveStep, OwnerStep, BillingTick
  <1>3. ASSUME NEW r \in Replicas,
               \/ B!RunOnce(r) \/ B!sendReminders(r) \/ B!reconcilePending(r)
               \/ B!ClaimRenewalAttempt(r) \/ B!renewOne(r) \/ B!settle(r)
               \/ B!Finish(r) \/ B!runPlanLapse(r) \/ B!Crash(r)
        PROVE  BillingInv'
    BY <1>3, PassStep, VerifyStep, ClaimStep, AttemptCharged, SettleStep, FinishStep
  <1>4. QED
    BY <1>1, <1>2, <1>3 DEF B!Next

(* However many replicas run the billing pass, whatever answers of Paystack    *)
(* get lost and wherever passes die: the saved card is charged at most once     *)
(* for a period, and what it was charged is credited or still to reconcile.    *)
LEMMA ChargesAlone == ASSUME B!BillingAssumption PROVE B!Spec => []B!ChargesAreAccounted
  BY BillingInit, BillingStep, BillingInvSuffices, PTL DEF B!Spec

(* No step moves the paid period for nothing or shortens retention by a     *)
(* lapse.                                                                   *)
LEMMA PlanStep ==
  ASSUME BillingInv, [B!Next]_B!vars
  PROVE  [/\ ten'.end # ten.end => paid' # paid
          /\ (ten.status = "active" /\ ten'.status = "lapsed") => B!Retention' >= B!Retention]_B!vars
  <1>1. B!TypeOK /\ ten \in B!TenantPlan
    BY DEF BillingInv, B!TypeOK
  <1>2. CASE UNCHANGED ten
    BY <1>2
  <1>3. CASE B!handleWebhook
    <2>1. PICK ref \in DOMAIN bank : ref \notin paid /\ paid' = paid \cup {ref} /\ B!saveAuthorization(bank[ref].plan)
      BY <1>3 DEF B!handleWebhook
    <2>2. ten'.status = "active"
      BY <2>1, <1>1, ZenonT(60) DEF B!saveAuthorization, B!Extended, B!SaveRenewalAuthorization, B!TenantPlan
    <2>3. QED
      BY <2>1, <2>2
  <1>4. CASE B!handleAutoRenew
    <2>1. ten'.end = ten.end /\ ten'.status = ten.status
      BY <1>1, <1>4 DEF B!handleAutoRenew, B!SetAutoRenew, B!TenantPlan
    <2>2. QED
      BY <2>1
  <1>5. ASSUME NEW r \in Replicas, B!RunOnce(r) \/ B!sendReminders(r) \/ B!settle(r) \/ B!runPlanLapse(r)
        PROVE  /\ ten'.end # ten.end => paid' # paid
               /\ (ten.status = "active" /\ ten'.status = "lapsed") => B!Retention' >= B!Retention
    <2>1. CASE B!RunOnce(r) \/ B!sendReminders(r)
      <3>1. ten'.end = ten.end /\ ten'.status = ten.status
        BY <1>1, <2>1, ZenonT(60) DEF B!RunOnce, B!sendReminders, B!ClaimPlanReminders, B!ReleasePlanReminder, B!TenantPlan
      <3>2. QED
        BY <3>1
    <2>2. CASE B!settle(r)
      <3>1. CASE UNCHANGED ten
        BY <3>1
      <3>2. CASE \E ref, plan : B!ApplyPlanPayment(ref, plan)
        <4>1. PICK ref, plan : B!ApplyPlanPayment(ref, plan)
          BY <3>2
        <4>2. CASE ref \in paid
          BY <4>1, <4>2 DEF B!ApplyPlanPayment
        <4>3. CASE ref \notin paid
          <5>1. ten' = B!Extended(plan) /\ paid' = paid \cup {ref}
            BY <4>1, <4>3 DEF B!ApplyPlanPayment
          <5>2. ten'.status = "active"
            BY <5>1, <1>1 DEF B!Extended, B!TenantPlan
          <5>3. QED
            BY <5>1, <5>2, <4>3
        <4>4. QED
          BY <4>2, <4>3
      <3>3. QED
        BY <2>2, <3>1, <3>2 DEF B!settle
    <2>3. CASE B!runPlanLapse(r)
      BY <2>3, <1>1, PlanLapsed DEF B!runPlanLapse
    <2>4. QED
      BY <1>5, <2>1, <2>2, <2>3
  <1>6. QED
    BY <1>2, <1>3, <1>4, <1>5
       DEF B!Next, B!vars, B!handleCheckout, B!PaystackResolves, B!Tick, B!reconcilePending, B!ClaimRenewalAttempt,
           B!renewOne, B!Finish, B!Crash

(* A payment is credited once although the webhook and the pass both report   *)
(* it, and a lapse never shortens how long the tenant's mail is kept.          *)
LEMMA PlanAlone == ASSUME B!BillingAssumption PROVE B!Spec => B!PlanStepsAreFair
  <1>1. BillingInv /\ [B!Next]_B!vars =>
          [/\ ten'.end # ten.end => paid' # paid
           /\ (ten.status = "active" /\ ten'.status = "lapsed") => B!Retention' >= B!Retention]_B!vars
    BY PlanStep
  <1>2. QED
    BY <1>1, BillingInit, BillingStep, PTL DEF B!Spec, B!PlanStepsAreFair

-----------------------------------------------------------------------------
(* Links sent by email, and memberships.                                     *)

(* A superseded link has a later one that was delivered and stands, and a     *)
(* link whose request has swept has no pending one before it.                *)
LinksOK(links) ==
  /\ links \in Seq(L!OrgInvitation)
  /\ \A j \in DOMAIN links : links[j].state = "superseded" =>
       \E k \in DOMAIN links : /\ j < k /\ links[k].to = links[j].to
                               /\ links[k].sent /\ links[k].state # "superseded"
  /\ \A j \in DOMAIN links : links[j].swept =>
       \A i \in DOMAIN links : (i < j /\ links[i].to = links[j].to) => links[i].state # "pending"

(* Links are only added, and keep their address and their mail. *)
Grows(links, new) ==
  /\ DOMAIN links \subseteq DOMAIN new
  /\ \A i \in DOMAIN links : new[i].to = links[i].to /\ (links[i].sent => new[i].sent)

LinkRequest == [pc: {"idle", "vcreate", "vsend", "vsweep", "verify", "icreate", "isend", "isweep", "join", "signup"},
                a: People, i: Nat]

(* A request has the link it works on, and sweeps only once it was mailed. *)
LinkRequestOK(r) ==
  /\ r.pc \in {"vcreate", "vsend", "vsweep", "verify"} => r.a \in humans
  /\ r.pc \in {"vsend", "vsweep", "verify"} => r.i \in DOMAIN tok
  /\ r.pc = "vsweep" => tok[r.i].sent
  /\ r.pc \in {"isend", "isweep", "join", "signup"} => r.i \in DOMAIN inv
  /\ r.pc = "isweep" => inv[r.i].sent

AccountsOK ==
  /\ humans \subseteq People /\ verified \subseteq humans
  /\ \A i \in DOMAIN tok : tok[i].to \in humans

OrgOK(o) == o \subseteq People /\ IsFiniteSet(o) /\ Cardinality(o) <= MemberCap

LinksInv ==
  /\ LinksOK(inv) /\ LinksOK(tok) /\ AccountsOK /\ OrgOK(org)
  /\ lReq \in [Procs -> LinkRequest] /\ \A p \in Procs : LinkRequestOK(lReq[p])

(* The instance counts the way FiniteSets does.                             *)
LEMMA MemberCount == \A X : L!Cardinality(X) = Cardinality(X)
  BY DEF L!Cardinality, Cardinality

(* What the type of the links says of one of them.                          *)
LEMMA LinkRow ==
  ASSUME NEW links, LinksOK(links), NEW i \in DOMAIN links
  PROVE  /\ links[i] \in L!OrgInvitation /\ i \in Nat /\ i \in 1..Len(links) /\ Len(links) \in Nat
         /\ DOMAIN links = 1..Len(links) /\ links[i].to \in People
  <1>1. links \in Seq(L!OrgInvitation)
    BY DEF LinksOK
  <1>2. links[i] \in L!OrgInvitation /\ i \in Nat /\ i \in 1..Len(links) /\ Len(links) \in Nat /\ DOMAIN links = 1..Len(links)
    BY <1>1
  <1>3. QED
    BY <1>2 DEF L!OrgInvitation

(* A new link is pending and not yet mailed.                                *)
LEMMA NewLinkIsOne ==
  ASSUME NEW a \in People
  PROVE  /\ L!NewLink(a) \in L!OrgInvitation /\ L!NewLink(a).to = a /\ L!NewLink(a).state = "pending"
         /\ L!NewLink(a).sent = FALSE /\ L!NewLink(a).swept = FALSE
  BY DEF L!NewLink, L!OrgInvitation, L!LinkState

(* Adding a link changes none of the others.                                *)
LEMMA LinkAdded ==
  ASSUME NEW links, LinksOK(links), NEW a \in People, NEW new, new = Append(links, L!NewLink(a))
  PROVE  /\ LinksOK(new) /\ Grows(links, new) /\ Len(links) + 1 \in DOMAIN new
         /\ DOMAIN new = DOMAIN links \cup {Len(links) + 1} /\ new[Len(links) + 1].to = a
  <1>1. links \in Seq(L!OrgInvitation) /\ Len(links) \in Nat /\ DOMAIN links = 1..Len(links)
    BY DEF LinksOK
  <1>2. PICK k : k = L!NewLink(a)
    OBVIOUS
  <1>3. k \in L!OrgInvitation /\ k.to = a /\ k.state = "pending" /\ k.sent = FALSE /\ k.swept = FALSE
    BY <1>2, NewLinkIsOne
  <1>4. PICK m \in Nat : m = Len(links) + 1
    BY <1>1
  <1>5. /\ new \in Seq(L!OrgInvitation) /\ DOMAIN new = DOMAIN links \cup {m} /\ new[m] = k
        /\ m \notin DOMAIN links /\ \A i \in DOMAIN links : new[i] = links[i]
    BY <1>1, <1>2, <1>3, <1>4
  <1>6. \A i \in DOMAIN links : i \in Nat /\ i < m
    BY <1>1, <1>4
  <1>7. \A j \in DOMAIN new : new[j].state = "superseded" =>
          \E z \in DOMAIN new : j < z /\ new[z].to = new[j].to /\ new[z].sent /\ new[z].state # "superseded"
    BY <1>3, <1>5 DEF LinksOK
  <1>8. \A j \in DOMAIN new : new[j].swept =>
          \A i \in DOMAIN new : (i < j /\ new[i].to = new[j].to) => new[i].state # "pending"
    <2> SUFFICES ASSUME NEW j \in DOMAIN new, new[j].swept, NEW i \in DOMAIN new, i < j, new[i].to = new[j].to
                 PROVE  new[i].state # "pending"
      OBVIOUS
    <2>1. j \in DOMAIN links
      BY <1>3, <1>5
    <2>2. i \in DOMAIN links
      BY <2>1, <1>5, <1>6
    <2>3. QED
      BY <2>1, <2>2, <1>5 DEF LinksOK
  <1>9. QED
    BY <1>3, <1>4, <1>5, <1>7, <1>8 DEF LinksOK, Grows

(* Neither does recording that it was mailed,                               *)
LEMMA LinkMailed ==
  ASSUME NEW links, LinksOK(links), NEW i \in DOMAIN links, NEW new, new = L!Sent(links, i)
  PROVE  LinksOK(new) /\ Grows(links, new) /\ DOMAIN new = DOMAIN links /\ new[i].sent
  <1>1. links \in Seq(L!OrgInvitation) /\ links[i] \in L!OrgInvitation
    BY LinkRow DEF LinksOK
  <1>2. PICK k : k = [links[i] EXCEPT !.sent = TRUE]
    OBVIOUS
  <1>3. k \in L!OrgInvitation /\ k.to = links[i].to /\ k.state = links[i].state /\ k.sent = TRUE /\ k.swept = links[i].swept
    BY <1>1, <1>2 DEF L!OrgInvitation
  <1>4. new = [links EXCEPT ![i] = k]
    BY <1>2 DEF L!Sent
  <1>5. new \in Seq(L!OrgInvitation) /\ DOMAIN new = DOMAIN links
    BY <1>1, <1>3, <1>4
  <1>6. \A j \in DOMAIN links : /\ new[j].to = links[j].to /\ new[j].state = links[j].state
                                /\ new[j].swept = links[j].swept /\ (links[j].sent => new[j].sent)
    BY <1>1, <1>3, <1>4
  <1>7. new[i].sent
    BY <1>1, <1>3, <1>4
  <1>8. QED
    BY <1>5, <1>6, <1>7 DEF LinksOK, Grows

(* using it or letting it expire,                                           *)
LEMMA LinkEnded ==
  ASSUME NEW links, LinksOK(links), NEW i \in DOMAIN links, NEW s \in {"used", "expired"},
         NEW new, new = [links EXCEPT ![i].state = s], links[i].state = "pending"
  PROVE  LinksOK(new) /\ Grows(links, new) /\ DOMAIN new = DOMAIN links
  <1>1. links \in Seq(L!OrgInvitation) /\ links[i] \in L!OrgInvitation
    BY LinkRow DEF LinksOK
  <1>2. PICK k : k = [links[i] EXCEPT !.state = s]
    OBVIOUS
  <1>3. k \in L!OrgInvitation /\ k.to = links[i].to /\ k.state = s /\ k.sent = links[i].sent /\ k.swept = links[i].swept
    BY <1>1, <1>2 DEF L!OrgInvitation, L!LinkState
  <1>4. new = [links EXCEPT ![i] = k]
    BY <1>2
  <1>5. new \in Seq(L!OrgInvitation) /\ DOMAIN new = DOMAIN links
    BY <1>1, <1>3, <1>4
  <1>6. \A j \in DOMAIN links : /\ new[j].to = links[j].to /\ new[j].swept = links[j].swept /\ new[j].sent = links[j].sent
                                /\ new[j].state = "superseded" <=> links[j].state = "superseded"
                                /\ new[j].state = "pending" => links[j].state = "pending"
    BY <1>1, <1>3, <1>4
  <1>7. QED
    BY <1>5, <1>6 DEF LinksOK, Grows

(* nor sweeping the ones it supersedes.                                     *)
LEMMA LinksSwept ==
  ASSUME NEW links, LinksOK(links), NEW keep \in DOMAIN links, links[keep].sent,
         NEW new, new = L!Supersede(links, keep)
  PROVE  LinksOK(new) /\ Grows(links, new) /\ DOMAIN new = DOMAIN links
  <1>1. links \in Seq(L!OrgInvitation) /\ DOMAIN links = 1..Len(links) /\ Len(links) \in Nat
        /\ \A j \in DOMAIN links : links[j] \in L!OrgInvitation /\ j \in Nat
    BY LinkRow DEF LinksOK
  <1>2. DOMAIN new = DOMAIN links
    BY DEF L!Supersede
  <1>3. \A j \in DOMAIN links : j \in L!Older(links, keep) <=>
          (j < keep /\ links[j].to = links[keep].to /\ links[j].state = "pending")
    BY <1>1 DEF L!Older
  <1>4. ASSUME NEW j \in DOMAIN links
        PROVE  /\ new[j] \in L!OrgInvitation /\ new[j].to = links[j].to /\ new[j].sent = links[j].sent
               /\ j \in L!Older(links, keep) => (new[j].state = "superseded" /\ new[j].swept = links[j].swept)
               /\ j \notin L!Older(links, keep) => new[j].state = links[j].state
               /\ j # keep => new[j].swept = links[j].swept
    <2>1. CASE j \in L!Older(links, keep)
      <3>1. new[j] = [links[j] EXCEPT !.state = "superseded"]
        BY <2>1 DEF L!Supersede
      <3>2. QED
        BY <2>1, <3>1, <1>1 DEF L!OrgInvitation, L!LinkState
    <2>2. CASE j \notin L!Older(links, keep) /\ j = keep
      <3>1. new[j] = [links[j] EXCEPT !.swept = TRUE]
        BY <2>2 DEF L!Supersede
      <3>2. QED
        BY <2>2, <3>1, <1>1 DEF L!OrgInvitation
    <2>3. CASE j \notin L!Older(links, keep) /\ j # keep
      <3>1. new[j] = links[j]
        BY <2>3 DEF L!Supersede
      <3>2. QED
        BY <2>3, <3>1, <1>1
    <2>4. QED
      BY <2>1, <2>2, <2>3
  <1>5. new \in Seq(L!OrgInvitation)
    <2>1. new = [j \in 1..Len(links) |-> new[j]]
      BY <1>1 DEF L!Supersede
    <2>2. \A j \in 1..Len(links) : new[j] \in L!OrgInvitation
      BY <1>1, <1>4
    <2>3. QED
      BY <1>1, <2>1, <2>2
  <1>6. PICK w \in DOMAIN links : /\ keep <= w /\ links[w].to = links[keep].to
                                  /\ links[w].sent /\ links[w].state # "superseded"
    <2>1. CASE links[keep].state # "superseded"
      BY <2>1, <1>1
    <2>2. CASE links[keep].state = "superseded"
      BY <2>2, <1>1 DEF LinksOK
    <2>3. QED
      BY <2>1, <2>2
  <1>7. w \notin L!Older(links, keep) /\ new[w].state # "superseded" /\ new[w].sent /\ new[w].to = links[keep].to
    BY <1>1, <1>3, <1>4, <1>6
  <1>8. \A j \in DOMAIN new : new[j].state = "superseded" =>
          \E z \in DOMAIN new : j < z /\ new[z].to = new[j].to /\ new[z].sent /\ new[z].state # "superseded"
    <2> SUFFICES ASSUME NEW j \in DOMAIN links, new[j].state = "superseded"
                 PROVE  \E z \in DOMAIN links : j < z /\ new[z].to = new[j].to /\ new[z].sent /\ new[z].state # "superseded"
      BY <1>2
    <2>1. CASE j \in L!Older(links, keep)
      <3>1. j < w /\ new[j].to = links[keep].to
        BY <2>1, <1>1, <1>3, <1>4, <1>6
      <3>2. QED
        BY <3>1, <1>7
    <2>2. CASE j \notin L!Older(links, keep)
      <3>1. links[j].state = "superseded"
        BY <2>2, <1>4
      <3>2. PICK z \in DOMAIN links : j < z /\ links[z].to = links[j].to /\ links[z].sent /\ links[z].state # "superseded"
        BY <3>1 DEF LinksOK
      <3>3. CASE z \in L!Older(links, keep)
        <4>1. z < keep /\ links[z].to = links[keep].to
          BY <3>3, <1>3
        <4>2. j < w /\ new[j].to = links[keep].to
          BY <4>1, <3>2, <1>1, <1>4, <1>6
        <4>3. QED
          BY <4>2, <1>7
      <3>4. CASE z \notin L!Older(links, keep)
        BY <3>2, <3>4, <1>4
      <3>5. QED
        BY <3>3, <3>4
    <2>3. QED
      BY <2>1, <2>2
  <1>9. \A j \in DOMAIN new : new[j].swept =>
          \A i \in DOMAIN new : (i < j /\ new[i].to = new[j].to) => new[i].state # "pending"
    <2> SUFFICES ASSUME NEW j \in DOMAIN links, new[j].swept, NEW i \in DOMAIN links, i < j, new[i].to = new[j].to
                 PROVE  new[i].state # "pending"
      BY <1>2
    <2>1. links[i].to = links[j].to
      BY <1>4
    <2>2. CASE i \in L!Older(links, keep)
      BY <2>2, <1>4
    <2>3. CASE i \notin L!Older(links, keep)
      <3>1. new[i].state = links[i].state
        BY <2>3, <1>4
      <3>2. CASE j = keep
        BY <2>1, <2>3, <3>1, <3>2, <1>3
      <3>3. CASE j # keep
        BY <2>1, <3>1, <3>3, <1>4 DEF LinksOK
      <3>4. QED
        BY <3>2, <3>3
    <2>4. QED
      BY <2>2, <2>3
  <1>10. Grows(links, new)
    BY <1>2, <1>4 DEF Grows
  <1>11. QED
    BY <1>2, <1>5, <1>8, <1>9, <1>10 DEF LinksOK

(* What the rows promise: a delivered link stands, and at most one works. *)
LEMMA LinksAreClean ==
  ASSUME NEW links, LinksOK(links), NEW a
  PROVE  /\ L!Of(links, a) # {} => \E i \in L!Of(links, a) : links[i].state # "superseded"
         /\ (\A i \in L!Of(links, a) : links[i].swept) => L!Cardinality(L!Alive(links, a)) <= 1
  <1>1. ASSUME NEW i \in L!Of(links, a) PROVE \E j \in L!Of(links, a) : links[j].state # "superseded"
    <2>1. i \in DOMAIN links /\ links[i].to = a /\ links[i].sent
      BY DEF L!Of
    <2>2. CASE links[i].state # "superseded"
      BY <2>2
    <2>3. CASE links[i].state = "superseded"
      <3>1. PICK k \in DOMAIN links : links[k].to = a /\ links[k].sent /\ links[k].state # "superseded"
        BY <2>1, <2>3 DEF LinksOK
      <3>2. k \in L!Of(links, a)
        BY <3>1 DEF L!Of
      <3>3. QED
        BY <3>1, <3>2
    <2>4. QED
      BY <2>2, <2>3
  <1>2. ASSUME \A i \in L!Of(links, a) : links[i].swept
        PROVE  L!Cardinality(L!Alive(links, a)) <= 1
    <2>1. \A i, j \in L!Alive(links, a) : i = j
      <3> SUFFICES ASSUME NEW i \in L!Alive(links, a), NEW j \in L!Alive(links, a), i # j PROVE FALSE
        OBVIOUS
      <3>1. /\ i \in DOMAIN links /\ links[i].to = a /\ links[i].swept /\ links[i].state = "pending"
            /\ j \in DOMAIN links /\ links[j].to = a /\ links[j].swept /\ links[j].state = "pending"
        BY <1>2 DEF L!Alive, L!Of
      <3>2. i \in Nat /\ j \in Nat
        BY <3>1, LinkRow
      <3>3. i < j \/ j < i
        BY <3>2
      <3>4. QED
        BY <3>1, <3>3 DEF LinksOK
    <2>2. CASE L!Alive(links, a) = {}
      BY <2>2, FS_EmptySet, MemberCount
    <2>3. CASE L!Alive(links, a) # {}
      <3>1. PICK i \in L!Alive(links, a) : L!Alive(links, a) = {i}
        BY <2>1, <2>3
      <3>2. Cardinality({i}) = 1
        BY FS_Singleton
      <3>3. QED
        BY <3>1, <3>2, MemberCount
    <2>4. QED
      BY <2>2, <2>3
  <1>3. QED
    BY <1>1, <1>2

(* The invariant implies the property.                                      *)
LEMMA LinksInvSuffices == ASSUME L!AccountLinksAssumption PROVE LinksInv => L!InvitationsAreSound
  <1> SUFFICES ASSUME LinksInv PROVE L!InvitationsAreSound
    OBVIOUS
  <1>1. LinksOK(inv) /\ LinksOK(tok) /\ AccountsOK /\ OrgOK(org)
    BY DEF LinksInv
  <1>2. L!TypeOK
    BY <1>1 DEF L!TypeOK, LinksOK, AccountsOK, OrgOK, L!EmailVerificationToken
  <1>3. L!LinksSupersedeCleanly
    <2> SUFFICES ASSUME NEW links \in {inv, tok}, NEW a \in People
                 PROVE  /\ L!Of(links, a) # {} => \E i \in L!Of(links, a) : links[i].state # "superseded"
                        /\ (\A i \in L!Of(links, a) : links[i].swept) => L!Cardinality(L!Alive(links, a)) <= 1
      BY DEF L!LinksSupersedeCleanly
    <2>1. LinksOK(links)
      BY <1>1
    <2>2. QED
      BY <2>1, LinksAreClean
  <1>4. L!MembersWithinCap
    BY <1>1, MemberCount DEF OrgOK, L!MembersWithinCap
  <1>5. QED
    BY <1>2, <1>3, <1>4 DEF L!InvitationsAreSound

(* The resting request is a request and rests.                              *)
LEMMA IdleLinkRequest ==
  ASSUME L!AccountLinksAssumption
  PROVE  /\ L!Idle \in LinkRequest /\ L!Idle.pc = "idle"
  BY DEF L!AccountLinksAssumption, L!Idle, LinkRequest

(* A table without links is well formed.                                    *)
LEMMA NoLinks == LinksOK(<< >>)
  BY DEF LinksOK

(* An organisation of its owner, or of nobody, is within the cap.           *)
LEMMA OwnerAlone == ASSUME L!AccountLinksAssumption PROVE OrgOK({Owner}) /\ OrgOK({})
  <1>1. IsFiniteSet({Owner}) /\ Cardinality({Owner}) = 1 /\ IsFiniteSet({}) /\ Cardinality({}) = 0
    BY FS_Singleton, FS_EmptySet
  <1>2. Owner \in People /\ MemberCap \in Nat /\ 1 <= MemberCap /\ 0 <= MemberCap
    BY DEF L!AccountLinksAssumption
  <1>3. QED
    BY <1>1, <1>2 DEF OrgOK

(* The invariant holds before anybody was invited.                          *)
LEMMA LinksInit == ASSUME L!AccountLinksAssumption PROVE L!Init => LinksInv
  <1> SUFFICES ASSUME L!Init PROVE LinksInv
    OBVIOUS
  <1>1. LinksOK(tok) /\ DOMAIN tok = {}
    <2>1. tok = << >>
      BY DEF L!Init
    <2>2. QED
      BY <2>1, NoLinks
  <1>2. AccountsOK
    BY <1>1 DEF L!Init, AccountsOK, L!AccountLinksAssumption
  <1>3. OrgOK(org)
    BY OwnerAlone DEF L!Init
  <1>4. LinksOK(inv)
    <2>1. CASE inv = <<>>
      BY <2>1, NoLinks
    <2>2. CASE \E a, b \in People \ {Owner} :
                 a # b /\ inv = [i \in 1..2 |-> [L!NewLink(IF i = 1 THEN a ELSE b) EXCEPT !.sent = TRUE, !.swept = TRUE]]
      <3>1. PICK a \in People, b \in People :
              a # b /\ inv = [i \in 1..2 |-> [L!NewLink(IF i = 1 THEN a ELSE b) EXCEPT !.sent = TRUE, !.swept = TRUE]]
        BY <2>2
      <3>2. PICK x, y : /\ x = [L!NewLink(a) EXCEPT !.sent = TRUE, !.swept = TRUE]
                        /\ y = [L!NewLink(b) EXCEPT !.sent = TRUE, !.swept = TRUE]
        OBVIOUS
      <3>3. x \in L!OrgInvitation /\ x.to = a /\ x.state = "pending"
        BY <3>2, NewLinkIsOne DEF L!OrgInvitation
      <3>4. y \in L!OrgInvitation /\ y.to = b /\ y.state = "pending"
        BY <3>2, NewLinkIsOne DEF L!OrgInvitation
      <3>5. DOMAIN inv = 1..2 /\ inv[1] = x /\ inv[2] = y /\ inv = [i \in 1..2 |-> inv[i]]
        BY <3>1, <3>2
      <3>6. \A i \in 1..2 : i = 1 \/ i = 2
        OBVIOUS
      <3>7. inv \in Seq(L!OrgInvitation)
        <4>1. \A i \in 1..2 : inv[i] \in L!OrgInvitation
          BY <3>3, <3>4, <3>5, <3>6
        <4>2. QED
          BY <4>1, <3>5
      <3>8. \A i \in DOMAIN inv : inv[i].state = "pending"
        BY <3>3, <3>4, <3>5, <3>6
      <3>9. \A i, j \in DOMAIN inv : i # j => inv[i].to # inv[j].to
        <4>1. SUFFICES ASSUME NEW i \in 1..2, NEW j \in 1..2, i # j PROVE inv[i].to # inv[j].to
          BY <3>5
        <4>2. a # b
          BY <3>1
        <4>3. inv[1].to = a /\ inv[2].to = b
          BY <3>3, <3>4, <3>5
        <4>4. \/ i = 1 /\ j = 2
              \/ i = 2 /\ j = 1
          BY <4>1
        <4>5. QED
          BY <4>2, <4>3, <4>4
      <3>10. QED
        BY <3>5, <3>7, <3>8, <3>9 DEF LinksOK
    <2>3. QED
      BY <2>1, <2>2 DEF L!Init
  <1>5. lReq \in [Procs -> LinkRequest] /\ \A p \in Procs : lReq[p].pc = "idle"
    BY IdleLinkRequest DEF L!Init
  <1>6. \A p \in Procs : LinkRequestOK(lReq[p])
    BY <1>5 DEF LinkRequestOK
  <1>7. QED
    BY <1>1, <1>2, <1>3, <1>4, <1>5, <1>6 DEF LinksInv

(* A table grows into itself.                                               *)
LEMMA GrowsAlways == \A links : Grows(links, links)
  BY DEF Grows

(* Rows grow, and at most one request moves. *)
LEMMA LinksMove ==
  ASSUME LinksInv, LinksOK(inv'), LinksOK(tok'), Grows(inv, inv'), Grows(tok, tok'),
         humans \subseteq humans', AccountsOK', OrgOK(org'),
         \/ UNCHANGED lReq
         \/ \E p \in Procs, r \in LinkRequest : lReq' = [lReq EXCEPT ![p] = r] /\ LinkRequestOK(r)'
  PROVE  LinksInv'
  <1>1. lReq \in [Procs -> LinkRequest] /\ \A q \in Procs : LinkRequestOK(lReq[q])
    BY DEF LinksInv
  <1>2. ASSUME NEW z \in LinkRequest, LinkRequestOK(z) PROVE LinkRequestOK(z)'
    BY <1>2 DEF LinkRequestOK, Grows
  <1>3. lReq' \in [Procs -> LinkRequest]
    BY <1>1
  <1>4. (\A q \in Procs : LinkRequestOK(lReq[q]))'
    <2> SUFFICES ASSUME NEW q \in Procs PROVE LinkRequestOK(lReq[q])'
      OBVIOUS
    <2>1. PICK z \in LinkRequest : z = lReq[q] /\ LinkRequestOK(z)
      BY <1>1
    <2>2. LinkRequestOK(z)'
      BY <2>1, <1>2
    <2>3. CASE lReq'[q] = z
      BY <2>2, <2>3
    <2>4. CASE lReq'[q] # z
      <3>1. PICK p \in Procs, r \in LinkRequest : lReq' = [lReq EXCEPT ![p] = r] /\ LinkRequestOK(r)'
        BY <2>1, <2>4
      <3>2. lReq'[q] = r
        BY <2>1, <2>4, <3>1, <1>1
      <3>3. QED
        BY <3>1, <3>2
    <2>5. QED
      BY <2>3, <2>4
  <1>5. QED
    BY <1>3, <1>4 DEF LinksInv

(* A request that ends. *)
LEMMA LinkRequestDone ==
  ASSUME L!AccountLinksAssumption, NEW p \in Procs, L!Done(p)
  PROVE  \E r \in LinkRequest : lReq' = [lReq EXCEPT ![p] = r] /\ LinkRequestOK(r)'
  <1>1. PICK r \in LinkRequest : r = L!Idle /\ r.pc = "idle"
    BY IdleLinkRequest
  <1>2. LinkRequestOK(r)'
    BY <1>1 DEF LinkRequestOK
  <1>3. QED
    BY <1>1, <1>2 DEF L!Done

(* One that goes on. *)
LEMMA LinkRequestGoes ==
  ASSUME NEW p \in Procs, NEW a \in People, NEW i \in Nat,
         NEW pc \in {"vcreate", "vsend", "vsweep", "verify", "icreate", "isend", "isweep", "join", "signup"},
         L!Goto(p, pc, a, i),
         pc \in {"vcreate", "vsend", "vsweep", "verify"} => a \in humans',
         pc \in {"vsend", "vsweep", "verify"} => i \in DOMAIN tok', pc = "vsweep" => tok'[i].sent,
         pc \in {"isend", "isweep", "join", "signup"} => i \in DOMAIN inv', pc = "isweep" => inv'[i].sent
  PROVE  \E r \in LinkRequest : lReq' = [lReq EXCEPT ![p] = r] /\ LinkRequestOK(r)'
  <1>1. PICK r : r = [pc |-> pc, a |-> a, i |-> i]
    OBVIOUS
  <1>2. r \in LinkRequest /\ r.pc = pc /\ r.a = a /\ r.i = i
    BY <1>1 DEF LinkRequest
  <1>3. LinkRequestOK(r)'
    BY <1>2 DEF LinkRequestOK
  <1>4. QED
    BY <1>1, <1>2, <1>3 DEF L!Goto

(* Only a request moves. *)
LEMMA OnlyLinkRequestMoves ==
  ASSUME LinksInv, UNCHANGED <<humans, verified, org, inv, tok>>, NEW p \in Procs,
         \E r \in LinkRequest : lReq' = [lReq EXCEPT ![p] = r] /\ LinkRequestOK(r)'
  PROVE  LinksInv'
  <1>1. LinksOK(inv') /\ LinksOK(tok') /\ OrgOK(org')
    BY DEF LinksInv
  <1>2. AccountsOK'
    BY DEF LinksInv, AccountsOK
  <1>3. Grows(inv, inv') /\ Grows(tok, tok')
    BY GrowsAlways
  <1>4. QED
    BY <1>1, <1>2, <1>3, LinksMove

(* The verification of an address. *)
LEMMA VerificationStep ==
  ASSUME L!AccountLinksAssumption, LinksInv, NEW p \in Procs,
         \/ L!handleSignup(p) \/ L!handleResendVerification(p) \/ L!CreateEmailVerificationToken(p)
         \/ L!sendVerificationEmail(p) \/ L!SupersedeOtherEmailVerificationTokens(p)
         \/ L!handleVerifyEmail(p) \/ L!ConsumeVerification(p)
  PROVE  LinksInv'
  <1>1. LinksOK(inv) /\ LinksOK(tok) /\ AccountsOK /\ OrgOK(org) /\ LinkRequestOK(lReq[p]) /\ lReq[p] \in LinkRequest
    BY DEF LinksInv
  <1>2. PICK a \in People, i \in Nat : a = lReq[p].a /\ i = lReq[p].i
    BY <1>1 DEF LinkRequest
  <1>3. 0 \in Nat
    OBVIOUS
  <1>4. CASE L!handleSignup(p)
    <2>1. PICK b \in People : humans' = humans \cup {b} /\ L!Goto(p, "vcreate", b, 0)
      BY <1>4 DEF L!handleSignup
    <2>2. UNCHANGED <<verified, org, inv, tok>>
      BY <1>4 DEF L!handleSignup
    <2>3. \E r \in LinkRequest : lReq' = [lReq EXCEPT ![p] = r] /\ LinkRequestOK(r)'
      BY <2>1, <1>3, LinkRequestGoes
    <2>4. AccountsOK'
      BY <2>1, <2>2, <1>1 DEF AccountsOK
    <2>5. LinksOK(inv') /\ LinksOK(tok') /\ OrgOK(org') /\ Grows(inv, inv') /\ Grows(tok, tok')
      BY <2>2, <1>1, GrowsAlways
    <2>6. QED
      BY <2>1, <2>3, <2>4, <2>5, LinksMove
  <1>5. CASE L!handleResendVerification(p)
    <2>1. PICK b \in People : L!ResendVerification(p, b)
      BY <1>5 DEF L!handleResendVerification
    <2>2. UNCHANGED <<humans, verified, org, inv, tok>>
      BY <1>5 DEF L!handleResendVerification
    <2>3. CASE b \in humans /\ L!Goto(p, "vcreate", b, 0)
      BY <2>2, <2>3, <1>3, LinkRequestGoes, OnlyLinkRequestMoves
    <2>4. CASE L!Done(p)
      BY <2>2, <2>4, LinkRequestDone, OnlyLinkRequestMoves
    <2>5. QED
      BY <2>1, <2>3, <2>4 DEF L!ResendVerification
  <1>6. CASE L!CreateEmailVerificationToken(p)
    <2>1. lReq[p].pc = "vcreate" /\ UNCHANGED <<humans, verified, org, inv>>
      BY <1>6 DEF L!CreateEmailVerificationToken
    <2>2. CASE L!Done(p) /\ UNCHANGED tok
      BY <2>1, <2>2, LinkRequestDone, OnlyLinkRequestMoves
    <2>3. CASE tok' = Append(tok, L!NewLink(lReq[p].a)) /\ L!Goto(p, "vsend", lReq[p].a, Len(tok) + 1)
      <3>1. /\ LinksOK(tok') /\ Grows(tok, tok') /\ Len(tok) + 1 \in DOMAIN tok'
            /\ DOMAIN tok' = DOMAIN tok \cup {Len(tok) + 1} /\ tok'[Len(tok) + 1].to = a
        BY <2>3, <1>1, <1>2, LinkAdded
      <3>2. a \in humans
        BY <2>1, <1>1, <1>2 DEF LinkRequestOK
      <3>3. AccountsOK'
        BY <2>1, <3>1, <3>2, <1>1 DEF AccountsOK, Grows
      <3>4. PICK m \in Nat : m = Len(tok) + 1
        BY <1>1 DEF LinksOK
      <3>5. L!Goto(p, "vsend", a, m) /\ m \in DOMAIN tok' /\ a \in humans'
        BY <2>1, <2>3, <3>1, <3>2, <3>4, <1>2
      <3>6. \E r \in LinkRequest : lReq' = [lReq EXCEPT ![p] = r] /\ LinkRequestOK(r)'
        BY <3>5, LinkRequestGoes
      <3>7. LinksOK(inv') /\ OrgOK(org') /\ Grows(inv, inv') /\ humans \subseteq humans'
        BY <2>1, <1>1, GrowsAlways
      <3>8. QED
        BY <3>1, <3>3, <3>6, <3>7, LinksMove
    <2>4. QED
      BY <1>6, <2>2, <2>3 DEF L!CreateEmailVerificationToken
  <1>7. CASE L!sendVerificationEmail(p)
    <2>1. lReq[p].pc = "vsend" /\ UNCHANGED <<humans, verified, org, inv>>
      BY <1>7 DEF L!sendVerificationEmail
    <2>2. CASE L!Done(p) /\ UNCHANGED tok
      BY <2>1, <2>2, LinkRequestDone, OnlyLinkRequestMoves
    <2>3. CASE tok' = L!Sent(tok, lReq[p].i) /\ L!Goto(p, "vsweep", lReq[p].a, lReq[p].i)
      <3>1. i \in DOMAIN tok /\ a \in humans
        BY <2>1, <1>1, <1>2 DEF LinkRequestOK
      <3>2. LinksOK(tok') /\ Grows(tok, tok') /\ DOMAIN tok' = DOMAIN tok /\ tok'[i].sent
        BY <2>3, <3>1, <1>1, <1>2, LinkMailed
      <3>3. AccountsOK'
        BY <2>1, <3>2, <1>1 DEF AccountsOK, Grows
      <3>4. L!Goto(p, "vsweep", a, i)
        BY <2>3, <1>2
      <3>5. \E r \in LinkRequest : lReq' = [lReq EXCEPT ![p] = r] /\ LinkRequestOK(r)'
        BY <2>1, <3>1, <3>2, <3>4, LinkRequestGoes
      <3>6. LinksOK(inv') /\ OrgOK(org') /\ Grows(inv, inv') /\ humans \subseteq humans'
        BY <2>1, <1>1, GrowsAlways
      <3>7. QED
        BY <3>2, <3>3, <3>5, <3>6, LinksMove
    <2>4. QED
      BY <1>7, <2>2, <2>3 DEF L!sendVerificationEmail
  <1>8. CASE L!SupersedeOtherEmailVerificationTokens(p)
    <2>1. /\ lReq[p].pc = "vsweep" /\ UNCHANGED <<humans, verified, org, inv>>
          /\ tok' = L!Supersede(tok, i) /\ L!Done(p)
      BY <1>2, <1>8 DEF L!SupersedeOtherEmailVerificationTokens
    <2>2. i \in DOMAIN tok /\ tok[i].sent
      BY <2>1, <1>1, <1>2 DEF LinkRequestOK
    <2>3. LinksOK(tok') /\ Grows(tok, tok') /\ DOMAIN tok' = DOMAIN tok
      BY <2>1, <2>2, <1>1, LinksSwept
    <2>4. AccountsOK'
      BY <2>1, <2>3, <1>1 DEF AccountsOK, Grows
    <2>5. LinksOK(inv') /\ OrgOK(org') /\ Grows(inv, inv') /\ humans \subseteq humans'
      BY <2>1, <1>1, GrowsAlways
    <2>6. QED
      BY <2>1, <2>3, <2>4, <2>5, LinkRequestDone, LinksMove
  <1>9. CASE L!handleVerifyEmail(p)
    <2>1. PICK t \in DOMAIN tok : L!VerifyEmail(p, t)
      BY <1>9 DEF L!handleVerifyEmail
    <2>2. UNCHANGED <<humans, verified, org, inv, tok>>
      BY <1>9 DEF L!handleVerifyEmail
    <2>3. CASE L!Goto(p, "verify", tok[t].to, t)
      <3>1. PICK b \in People : b = tok[t].to /\ b \in humans
        BY <1>1 DEF AccountsOK
      <3>2. t \in Nat /\ L!Goto(p, "verify", b, t)
        BY <2>3, <3>1, <1>1, LinkRow
      <3>3. \E r \in LinkRequest : lReq' = [lReq EXCEPT ![p] = r] /\ LinkRequestOK(r)'
        BY <2>2, <3>1, <3>2, LinkRequestGoes
      <3>4. QED
        BY <2>2, <3>3, OnlyLinkRequestMoves
    <2>4. CASE L!Done(p)
      BY <2>2, <2>4, LinkRequestDone, OnlyLinkRequestMoves
    <2>5. QED
      BY <2>1, <2>3, <2>4 DEF L!VerifyEmail
  <1>10. CASE L!ConsumeVerification(p)
    <2>1. lReq[p].pc = "verify" /\ UNCHANGED <<humans, org, inv>> /\ L!Done(p)
      BY <1>10 DEF L!ConsumeVerification
    <2>2. i \in DOMAIN tok /\ a \in humans
      BY <2>1, <1>1, <1>2 DEF LinkRequestOK
    <2>3. CASE UNCHANGED <<tok, verified>>
      BY <2>1, <2>3, LinkRequestDone, OnlyLinkRequestMoves
    <2>4. CASE /\ tok[i].state = "pending" /\ tok' = [tok EXCEPT ![i].state = "used"]
               /\ verified' = verified \cup {a}
      <3>1. LinksOK(tok') /\ Grows(tok, tok') /\ DOMAIN tok' = DOMAIN tok
        BY <2>2, <2>4, <1>1, LinkEnded
      <3>2. AccountsOK'
        BY <2>1, <2>2, <2>4, <3>1, <1>1 DEF AccountsOK, Grows
      <3>3. LinksOK(inv') /\ OrgOK(org') /\ Grows(inv, inv') /\ humans \subseteq humans'
        BY <2>1, <1>1, GrowsAlways
      <3>4. QED
        BY <2>1, <3>1, <3>2, <3>3, LinkRequestDone, LinksMove
    <2>5. QED
      BY <1>2, <1>10, <2>3, <2>4 DEF L!ConsumeVerification
  <1>11. QED
    BY <1>4, <1>5, <1>6, <1>7, <1>8, <1>9, <1>10

(* Under the tenants row's lock there is room for one more, or the person is  *)
(* a member already.                                                         *)
LEMMA MemberJoins ==
  ASSUME L!AccountLinksAssumption, OrgOK(org), NEW a \in People, L!lockMemberCap(a) \/ L!lockMemberCap("none")
  PROVE  OrgOK(org \cup {a})
  <1>1. IsFiniteSet(org) /\ Cardinality(org) \in Nat /\ Cardinality(org) <= MemberCap /\ org \subseteq People /\ MemberCap \in Nat
    BY FS_CardinalityType DEF OrgOK, L!AccountLinksAssumption
  <1>2. a \in org \/ Cardinality(org) < MemberCap
    BY <1>1, MemberCount DEF L!lockMemberCap, L!AccountLinksAssumption
  <1>3. IsFiniteSet(org \cup {a}) /\ Cardinality(org \cup {a}) = IF a \in org THEN Cardinality(org) ELSE Cardinality(org) + 1
    BY <1>1, FS_AddElement
  <1>4. Cardinality(org \cup {a}) <= MemberCap
    BY <1>1, <1>2, <1>3
  <1>5. QED
    BY <1>1, <1>3, <1>4 DEF OrgOK

(* An invitation is accepted. *)
LEMMA InvitationAccepted ==
  ASSUME L!AccountLinksAssumption, LinksInv, NEW p \in Procs, NEW a \in People, a = lReq[p].a,
         NEW i \in DOMAIN inv, i = lReq[p].i, inv[i].state = "pending", L!lockMemberCap(a) \/ L!lockMemberCap("none"),
         L!Accept(p, i), L!Done(p), UNCHANGED <<verified, tok>>, humans \subseteq humans', humans' \subseteq People
  PROVE  LinksInv'
  <1>1. LinksOK(inv) /\ LinksOK(tok) /\ AccountsOK /\ OrgOK(org)
    BY DEF LinksInv
  <1>2. inv' = [inv EXCEPT ![i].state = "used"] /\ org' = org \cup {a}
    BY DEF L!Accept
  <1>3. LinksOK(inv') /\ Grows(inv, inv')
    BY <1>1, <1>2, LinkEnded
  <1>4. OrgOK(org')
    BY <1>1, <1>2, MemberJoins
  <1>5. AccountsOK'
    BY <1>1 DEF AccountsOK
  <1>6. LinksOK(tok') /\ Grows(tok, tok')
    BY <1>1, GrowsAlways
  <1>7. QED
    BY <1>3, <1>4, <1>5, <1>6, LinkRequestDone, LinksMove

(* Every step of an invitation keeps the invariant.                         *)
LEMMA InvitationStep ==
  ASSUME L!AccountLinksAssumption, LinksInv, NEW p \in Procs,
         \/ L!handleCreateOrg(p) \/ L!handleCreateInvite(p) \/ L!CreateOrgInvitation(p) \/ L!SendInvitation(p)
         \/ L!SupersedeOtherPendingOrgInvitations(p) \/ L!handleAcceptInvite(p)
         \/ L!AcceptOrgInvitationForExistingHuman(p) \/ L!AcceptOrgInvitationWithSignup(p) \/ L!Fail(p)
  PROVE  LinksInv'
  <1>1. LinksOK(inv) /\ LinksOK(tok) /\ AccountsOK /\ OrgOK(org) /\ LinkRequestOK(lReq[p]) /\ lReq[p] \in LinkRequest
    BY DEF LinksInv
  <1>2. PICK a \in People, i \in Nat : a = lReq[p].a /\ i = lReq[p].i
    BY <1>1 DEF LinkRequest
  <1>3. 0 \in Nat
    OBVIOUS
  <1>4. CASE L!handleCreateOrg(p)
    <2>1. org' = {Owner} /\ UNCHANGED <<humans, verified, inv, tok, lReq>>
      BY <1>4 DEF L!handleCreateOrg, L!CreateOrganization
    <2>2. AccountsOK' /\ OrgOK(org')
      BY <2>1, <1>1, OwnerAlone DEF AccountsOK
    <2>3. LinksOK(inv') /\ LinksOK(tok') /\ Grows(inv, inv') /\ Grows(tok, tok') /\ humans \subseteq humans'
      BY <2>1, <1>1, GrowsAlways
    <2>4. QED
      BY <2>1, <2>2, <2>3, LinksMove
  <1>5. CASE L!handleCreateInvite(p)
    <2>1. PICK by \in humans, b \in People : L!InviteToOrganization(p, by, b)
      BY <1>5 DEF L!handleCreateInvite
    <2>2. UNCHANGED <<humans, verified, org, inv, tok>>
      BY <1>5 DEF L!handleCreateInvite
    <2>3. CASE L!Goto(p, "icreate", b, 0)
      BY <2>2, <2>3, <1>3, LinkRequestGoes, OnlyLinkRequestMoves
    <2>4. CASE L!Done(p)
      BY <2>2, <2>4, LinkRequestDone, OnlyLinkRequestMoves
    <2>5. QED
      BY <2>1, <2>3, <2>4 DEF L!InviteToOrganization
  <1>6. CASE L!CreateOrgInvitation(p)
    <2>1. /\ inv' = Append(inv, L!NewLink(a)) /\ L!Goto(p, "isend", a, Len(inv) + 1)
          /\ UNCHANGED <<humans, verified, org, tok>>
      BY <1>2, <1>6 DEF L!CreateOrgInvitation
    <2>2. LinksOK(inv') /\ Grows(inv, inv') /\ Len(inv) + 1 \in DOMAIN inv'
      BY <2>1, <1>1, LinkAdded
    <2>3. PICK m \in Nat : m = Len(inv) + 1
      BY <1>1 DEF LinksOK
    <2>4. L!Goto(p, "isend", a, m) /\ m \in DOMAIN inv'
      BY <2>1, <2>2, <2>3
    <2>5. \E r \in LinkRequest : lReq' = [lReq EXCEPT ![p] = r] /\ LinkRequestOK(r)'
      BY <2>4, LinkRequestGoes
    <2>6. LinksOK(tok') /\ Grows(tok, tok') /\ OrgOK(org') /\ humans \subseteq humans'
      BY <2>1, <1>1, GrowsAlways
    <2>7. AccountsOK'
      BY <2>1, <1>1 DEF AccountsOK
    <2>8. QED
      BY <2>2, <2>5, <2>6, <2>7, LinksMove
  <1>7. CASE L!SendInvitation(p)
    <2>1. lReq[p].pc = "isend" /\ UNCHANGED <<humans, verified, org, tok>>
      BY <1>7 DEF L!SendInvitation
    <2>2. CASE L!Done(p) /\ UNCHANGED inv
      BY <2>1, <2>2, LinkRequestDone, OnlyLinkRequestMoves
    <2>3. CASE inv' = L!Sent(inv, i) /\ L!Goto(p, "isweep", a, i)
      <3>1. i \in DOMAIN inv
        BY <2>1, <1>1, <1>2 DEF LinkRequestOK
      <3>2. LinksOK(inv') /\ Grows(inv, inv') /\ DOMAIN inv' = DOMAIN inv /\ inv'[i].sent
        BY <2>3, <3>1, <1>1, LinkMailed
      <3>3. \E r \in LinkRequest : lReq' = [lReq EXCEPT ![p] = r] /\ LinkRequestOK(r)'
        BY <2>3, <3>1, <3>2, LinkRequestGoes
      <3>4. LinksOK(tok') /\ Grows(tok, tok') /\ OrgOK(org') /\ humans \subseteq humans'
        BY <2>1, <1>1, GrowsAlways
      <3>5. AccountsOK'
        BY <2>1, <1>1 DEF AccountsOK
      <3>6. QED
        BY <3>2, <3>3, <3>4, <3>5, LinksMove
    <2>4. QED
      BY <1>2, <1>7, <2>2, <2>3 DEF L!SendInvitation
  <1>8. CASE L!SupersedeOtherPendingOrgInvitations(p)
    <2>1. /\ lReq[p].pc = "isweep" /\ UNCHANGED <<humans, verified, org, tok>>
          /\ inv' = L!Supersede(inv, i) /\ L!Done(p)
      BY <1>2, <1>8 DEF L!SupersedeOtherPendingOrgInvitations
    <2>2. i \in DOMAIN inv /\ inv[i].sent
      BY <2>1, <1>1, <1>2 DEF LinkRequestOK
    <2>3. LinksOK(inv') /\ Grows(inv, inv')
      BY <2>1, <2>2, <1>1, LinksSwept
    <2>4. LinksOK(tok') /\ Grows(tok, tok') /\ OrgOK(org') /\ humans \subseteq humans'
      BY <2>1, <1>1, GrowsAlways
    <2>5. AccountsOK'
      BY <2>1, <1>1 DEF AccountsOK
    <2>6. QED
      BY <2>1, <2>3, <2>4, <2>5, LinkRequestDone, LinksMove
  <1>9. CASE L!handleAcceptInvite(p)
    <2>1. PICK t \in DOMAIN inv, caller \in humans \cup {"none"} : L!AcceptOrgInvitation(p, t, caller)
      BY <1>9 DEF L!handleAcceptInvite
    <2>2. UNCHANGED <<humans, verified, org, inv, tok>>
      BY <1>9 DEF L!handleAcceptInvite
    <2>3. PICK b \in People : b = inv[t].to
      BY <1>1, LinkRow
    <2>4. t \in Nat
      BY <1>1, LinkRow
    <2>5. CASE L!Done(p)
      BY <2>2, <2>5, LinkRequestDone, OnlyLinkRequestMoves
    <2>6. CASE L!Goto(p, "join", b, t)
      BY <2>2, <2>4, <2>6, LinkRequestGoes, OnlyLinkRequestMoves
    <2>7. CASE L!Goto(p, "signup", b, t)
      BY <2>2, <2>4, <2>7, LinkRequestGoes, OnlyLinkRequestMoves
    <2>8. QED
      BY <2>1, <2>3, <2>5, <2>6, <2>7 DEF L!AcceptOrgInvitation
  <1>10. CASE L!AcceptOrgInvitationForExistingHuman(p)
    <2>1. lReq[p].pc = "join" /\ L!Done(p) /\ UNCHANGED <<humans, verified, tok>>
      BY <1>10 DEF L!AcceptOrgInvitationForExistingHuman
    <2>2. i \in DOMAIN inv
      BY <2>1, <1>1, <1>2 DEF LinkRequestOK
    <2>3. CASE UNCHANGED <<inv, org>>
      BY <2>1, <2>3, LinkRequestDone, OnlyLinkRequestMoves
    <2>4. CASE inv[i].state = "pending" /\ L!lockMemberCap(a) /\ L!Accept(p, i)
      <3>1. humans \subseteq humans' /\ humans' \subseteq People
        BY <2>1, <1>1 DEF AccountsOK
      <3>2. QED
        BY <2>1, <2>2, <2>4, <3>1, <1>2, InvitationAccepted
    <2>5. QED
      BY <1>2, <1>10, <2>3, <2>4 DEF L!AcceptOrgInvitationForExistingHuman
  <1>11. CASE L!AcceptOrgInvitationWithSignup(p)
    <2>1. lReq[p].pc = "signup" /\ L!Done(p) /\ UNCHANGED <<verified, tok>>
      BY <1>11 DEF L!AcceptOrgInvitationWithSignup
    <2>2. i \in DOMAIN inv
      BY <2>1, <1>1, <1>2 DEF LinkRequestOK
    <2>3. CASE UNCHANGED <<inv, org, humans>>
      BY <2>1, <2>3, LinkRequestDone, OnlyLinkRequestMoves
    <2>4. CASE inv[i].state = "pending" /\ L!lockMemberCap("none") /\ L!Accept(p, i) /\ humans' = humans \cup {a}
      <3>1. humans \subseteq humans' /\ humans' \subseteq People
        BY <2>4, <1>1 DEF AccountsOK
      <3>2. QED
        BY <2>1, <2>2, <2>4, <3>1, <1>2, InvitationAccepted
    <2>5. QED
      BY <1>2, <1>11, <2>3, <2>4 DEF L!AcceptOrgInvitationWithSignup
  <1>12. CASE L!Fail(p)
    BY <1>12, LinkRequestDone, OnlyLinkRequestMoves DEF L!Fail
  <1>13. QED
    BY <1>4, <1>5, <1>6, <1>7, <1>8, <1>9, <1>10, <1>11, <1>12

(* So does the expiry of a link.                                            *)
LEMMA ExpiryStep == ASSUME LinksInv, L!Expire PROVE LinksInv'
  <1>1. LinksOK(inv) /\ LinksOK(tok) /\ AccountsOK /\ OrgOK(org)
    BY DEF LinksInv
  <1>2. UNCHANGED <<humans, verified, org, lReq>>
    BY DEF L!Expire
  <1>3. LinksOK(inv') /\ LinksOK(tok') /\ Grows(inv, inv') /\ Grows(tok, tok') /\ DOMAIN tok' = DOMAIN tok
    <2>1. CASE \E i \in DOMAIN inv : inv[i].state = "pending" /\ inv' = [inv EXCEPT ![i].state = "expired"] /\ UNCHANGED tok
      BY <2>1, <1>1, LinkEnded, GrowsAlways
    <2>2. CASE \E i \in DOMAIN tok : tok[i].state = "pending" /\ tok' = [tok EXCEPT ![i].state = "expired"] /\ UNCHANGED inv
      BY <2>2, <1>1, LinkEnded, GrowsAlways
    <2>3. QED
      BY <2>1, <2>2 DEF L!Expire
  <1>4. AccountsOK' /\ OrgOK(org') /\ humans \subseteq humans'
    BY <1>1, <1>2, <1>3 DEF AccountsOK, Grows
  <1>5. QED
    BY <1>2, <1>3, <1>4, LinksMove

(* Every step of the link handlers keeps the invariant.                     *)
LEMMA LinksStep == ASSUME L!AccountLinksAssumption PROVE LinksInv /\ [L!Next]_L!vars => LinksInv'
  <1> SUFFICES ASSUME LinksInv, [L!Next]_L!vars PROVE LinksInv'
    OBVIOUS
  <1>1. CASE UNCHANGED L!vars
    <2>1. UNCHANGED <<humans, verified, org, inv, tok, lReq>>
      BY <1>1 DEF L!vars
    <2>2. LinksOK(inv') /\ LinksOK(tok') /\ Grows(inv, inv') /\ Grows(tok, tok') /\ OrgOK(org') /\ humans \subseteq humans'
      BY <2>1, GrowsAlways DEF LinksInv
    <2>3. AccountsOK'
      BY <2>1 DEF LinksInv, AccountsOK
    <2>4. QED
      BY <2>1, <2>2, <2>3, LinksMove
  <1>2. CASE L!Expire
    BY <1>2, ExpiryStep
  <1>3. ASSUME NEW p \in Procs,
               \/ L!handleSignup(p) \/ L!handleResendVerification(p) \/ L!CreateEmailVerificationToken(p)
               \/ L!sendVerificationEmail(p) \/ L!SupersedeOtherEmailVerificationTokens(p)
               \/ L!handleVerifyEmail(p) \/ L!ConsumeVerification(p) \/ L!handleCreateOrg(p)
               \/ L!handleCreateInvite(p) \/ L!CreateOrgInvitation(p) \/ L!SendInvitation(p)
               \/ L!SupersedeOtherPendingOrgInvitations(p) \/ L!handleAcceptInvite(p)
               \/ L!AcceptOrgInvitationForExistingHuman(p) \/ L!AcceptOrgInvitationWithSignup(p)
               \/ L!Fail(p)
        PROVE  LinksInv'
    BY <1>3, VerificationStep, InvitationStep
  <1>4. QED
    BY <1>1, <1>2, <1>3 DEF L!Next

(* Requests that send links to one address at the same time leave one that    *)
(* works and, once all have finished, at most one; and acceptances that race   *)
(* never take the organization past the member cap of its plan.               *)
LEMMA LinksAlone == ASSUME L!AccountLinksAssumption PROVE L!Spec => []L!InvitationsAreSound
  BY LinksInit, LinksStep, LinksInvSuffices, PTL DEF L!Spec

-----------------------------------------------------------------------------
(* Human authentication.                                                    *)

AuthRequest ==
  [pc: {"idle", "mint", "challenge", "session", "reuse", "rotate", "rotated", "revoking", "reset",
        "resetting", "enroll", "activate", "disable", "mfafail", "complete", "resolve"},
   i: Nat, v: Nat, at: Nat, seen: SUBSET Nat, code: Nat \X Nat]

(* What a handler relies on between two of its steps.  A rotation and a     *)
(* reset hold the row they are about to consume; a confirmed code belongs   *)
(* to a proven enrollment; a TOTP code that was checked belongs to the       *)
(* secret in force for as long as its challenge is there.                   *)
AuthRequestOK(p, r) ==
  /\ r.pc = "rotate" => r.i \in DOMAIN rt
  /\ r.pc = "rotated" => r.i \in DOMAIN rt /\ rt[r.i].lock = p /\ ~rt[r.i].revoked
  /\ r.pc = "reset" => r.i \in DOMAIN resets
  /\ r.pc = "resetting" => r.i \in DOMAIN resets /\ acct.lock = p /\ ~resets[r.i].used
  /\ r.pc = "activate" => r.v \in proven /\ r.v # 0 /\ r.code[1] = r.v /\ r.code[2] \in Steps
  /\ r.pc = "mfafail" => r.i \in DOMAIN chals
  /\ r.pc = "complete" =>
       /\ r.i \in DOMAIN chals
       /\ r.code[1] \in 0..acct.gen /\ r.code[2] \in {0} \cup Steps
       /\ (r.code[2] \in Steps /\ ~chals[r.i].gone) => (acct.mfa /\ acct.secret = r.code[1])

AuthRequestsOK ==
  /\ hReq \in [Procs -> AuthRequest]
  /\ \A p \in Procs : AuthRequestOK(p, hReq[p])

(* The enrollment in force is an old, proven one and nothing is pending     *)
(* beside it.                                                               *)
EnrollmentOK ==
  /\ acct.gen <= MaxLinks /\ acct.codes \subseteq 1..acct.gen
  /\ acct.pend <= acct.gen
  /\ acct.mfa => acct.secret \in proven /\ acct.secret \in 1..acct.gen /\ acct.pend = 0

(* The row of an honoured credential says so. *)
RefreshSpent == \A i : <<"refresh", i>> \in spent => i \in DOMAIN rt /\ rt[i].revoked
ResetSpent == \A t : <<"reset", t>> \in spent => t \in DOMAIN resets /\ resets[t].used
ChallengeSpent == \A c : <<"mfa", c>> \in spent => c \in DOMAIN chals /\ chals[c].used
OAuthSpent == \A o : <<"oauth", o>> \in spent => o \in DOMAIN states /\ states[o] = "deleted"

(* An honoured TOTP code is of a past enrollment or at most the step the    *)
(* account has reached; an honoured backup code is gone.                    *)
CodeSpent ==
  \A k, s : <<"totp", <<k, s>>>> \in spent =>
    /\ k \in 1..acct.gen /\ s \in {0} \cup Steps
    /\ s \in Steps => k # acct.pend
    /\ (s \in Steps /\ acct.mfa /\ k = acct.secret) => s <= acct.step
    /\ s = 0 => k \notin acct.codes

SpentOK == RefreshSpent /\ ResetSpent /\ ChallengeSpent /\ OAuthSpent /\ CodeSpent

(* Wrong codes counted and still to be counted against a challenge. *)
Guessing(r, c) == r.pc \in {"mfafail", "complete"} /\ r.i = c
Guessers(c) == {q \in Procs : Guessing(hReq[q], c)}
GuessesLeft ==
  \A c \in DOMAIN chals :
    /\ chals[c].fails + Cardinality(Guessers(c)) < MFAChallengeMaxAttempts + Cardinality(Procs)
    /\ ~chals[c].used => chals[c].fails < MFAChallengeMaxAttempts

AuthInv == H!TypeOK /\ H!SingleUse /\ AuthRequestsOK /\ EnrollmentOK /\ SpentOK /\ GuessesLeft

(* The instance counts the way FiniteSets does.                             *)
LEMMA AuthCardinality == \A X : H!Cardinality(X) = Cardinality(X)
  BY DEF H!Cardinality, Cardinality

(* The resting request is a request and rests.                              *)
LEMMA IdleAuthRequest == H!Idle \in AuthRequest /\ H!Idle.pc = "idle"
  BY DEF H!Idle, AuthRequest

(* Nothing is expected of a resting request.                                *)
LEMMA IdleAuthOK == \A p : AuthRequestOK(p, H!Idle)'
  BY IdleAuthRequest DEF AuthRequestOK

(* What a step of process p may not do to the rows other handlers rely on. *)
OthersMayRely(p) ==
  /\ DOMAIN rt \subseteq DOMAIN rt'
  /\ \A i \in DOMAIN rt : rt[i].lock \notin {"-", p} =>
       rt'[i].lock = rt[i].lock /\ rt'[i].revoked = rt[i].revoked
  /\ DOMAIN resets \subseteq DOMAIN resets'
  /\ acct.lock \notin {"-", p} =>
       /\ acct'.lock = acct.lock
       /\ \A t \in DOMAIN resets : resets'[t].used = resets[t].used
  /\ proven \subseteq proven'
  /\ DOMAIN chals \subseteq DOMAIN chals'
  /\ acct.gen <= acct'.gen
  /\ \A c \in DOMAIN chals : ~chals'[c].gone =>
       /\ ~chals[c].gone
       /\ acct.mfa => acct'.mfa /\ acct'.secret = acct.secret

(* How a step may move one handler with respect to the guesses it counts. *)
GuessesMove(p, r) ==
  \A c \in DOMAIN chals' :
    /\ \/ /\ c \in DOMAIN chals /\ chals'[c].fails = chals[c].fails
          /\ chals[c].used => chals'[c].used
       \/ c \notin DOMAIN chals /\ chals'[c].fails = 0
    /\ Guessing(r, c) => (c \in DOMAIN chals /\ (Guessing(hReq[p], c) \/ ~chals[c].used))

(* What one handler relies on, the steps of another leave alone.            *)
LEMMA OtherRequestsStay ==
  ASSUME H!HumanAuthAssumption, H!TypeOK, H!TypeOK', NEW p \in Procs, OthersMayRely(p),
         NEW q \in Procs, q # p, NEW r \in AuthRequest, AuthRequestOK(q, r)
  PROVE  AuthRequestOK(q, r)'
  <1>1. q \notin {"-", p}
    BY DEF H!HumanAuthAssumption
  <1>2. CASE r.pc \in {"rotate", "rotated"}
    BY <1>1, <1>2 DEF AuthRequestOK, OthersMayRely
  <1>3. CASE r.pc \in {"reset", "resetting"}
    BY <1>1, <1>3 DEF AuthRequestOK, OthersMayRely
  <1>4. CASE r.pc \in {"activate", "mfafail"}
    BY <1>4 DEF AuthRequestOK, OthersMayRely
  <1>5. CASE r.pc = "complete"
    <2>1. r.i \in DOMAIN chals' /\ r.code[2] \in {0} \cup Steps
      BY <1>5 DEF AuthRequestOK, OthersMayRely
    <2>2. r.code[1] \in 0..acct'.gen
      <3>1. acct.gen \in Nat /\ acct'.gen \in Nat /\ acct.gen <= acct'.gen
        BY DEF H!TypeOK, H!Human, OthersMayRely
      <3>2. r.code[1] \in 0..acct.gen
        BY <1>5 DEF AuthRequestOK
      <3>3. QED
        BY <3>1, <3>2
    <2>3. (r.code[2] \in Steps /\ ~chals'[r.i].gone) => (acct'.mfa /\ acct'.secret = r.code[1])
      BY <1>5 DEF AuthRequestOK, OthersMayRely
    <2>4. QED
      BY <1>5, <2>1, <2>2, <2>3 DEF AuthRequestOK
  <1>6. CASE r.pc \notin {"rotate", "rotated", "reset", "resetting", "activate", "mfafail", "complete"}
    BY <1>6 DEF AuthRequestOK
  <1>7. QED
    BY <1>2, <1>3, <1>4, <1>5, <1>6

(* A handler that moves to a place it can justify disturbs nobody.          *)
LEMMA AuthRequestsMove ==
  ASSUME H!HumanAuthAssumption, AuthRequestsOK, H!TypeOK, H!TypeOK', NEW p \in Procs,
         NEW r \in AuthRequest, hReq' = [hReq EXCEPT ![p] = r], AuthRequestOK(p, r)', OthersMayRely(p)
  PROVE  AuthRequestsOK'
  <1>1. hReq \in [Procs -> AuthRequest] /\ \A q \in Procs : AuthRequestOK(q, hReq[q])
    BY DEF AuthRequestsOK
  <1>2. hReq' \in [Procs -> AuthRequest] /\ hReq'[p] = r /\ \A q \in Procs : q # p => hReq'[q] = hReq[q]
    BY <1>1
  <1>3. ASSUME NEW q \in Procs PROVE AuthRequestOK(q, hReq[q])'
    <2>1. CASE q = p
      <3>1. PICK s : s = hReq'[q]
        OBVIOUS
      <3>2. s = r
        BY <2>1, <3>1, <1>2
      <3>3. AuthRequestOK(q, s)'
        BY <2>1, <3>2
      <3>4. QED
        BY <3>1, <3>3 DEF AuthRequestOK
    <2>2. CASE q # p
      <3>1. PICK s \in AuthRequest : s = hReq[q]
        BY <1>1
      <3>2. AuthRequestOK(q, s)
        BY <1>1, <3>1
      <3>3. AuthRequestOK(q, s)'
        BY <2>2, <3>2, OtherRequestsStay
      <3>4. hReq'[q] = s
        BY <1>2, <2>2, <3>1
      <3>5. QED
        BY <3>3, <3>4 DEF AuthRequestOK
    <2>3. QED
      BY <2>1, <2>2
  <1>4. QED
    BY <1>2, <1>3 DEF AuthRequestsOK

(* At most every process guesses at once. *)
LEMMA GuessersAreFew ==
  ASSUME H!HumanAuthAssumption, NEW c
  PROVE  /\ IsFiniteSet(Guessers(c)) /\ Cardinality(Guessers(c)) \in Nat
         /\ Cardinality(Procs) \in Nat /\ Cardinality(Guessers(c)) <= Cardinality(Procs)
  <1>1. IsFiniteSet(Procs)
    BY DEF H!HumanAuthAssumption, H!IsFiniteSet, IsFiniteSet
  <1>2. Guessers(c) \subseteq Procs
    BY DEF Guessers
  <1>3. QED
    BY <1>1, <1>2, FS_Subset, FS_CardinalityType

(* What the type of the challenges says of one row.                         *)
LEMMA ChallengeRows ==
  ASSUME NEW rows \in Seq(H!MFAChallenge), NEW c \in DOMAIN rows
  PROVE  rows[c] \in H!MFAChallenge /\ rows[c].fails \in Nat /\ rows[c].used \in BOOLEAN
  <1>1. rows[c] \in H!MFAChallenge
    OBVIOUS
  <1>2. QED
    BY <1>1 DEF H!MFAChallenge

(* At most every handler is in the middle of guessing.                      *)
LEMMA GuessersAreFewNext ==
  ASSUME H!HumanAuthAssumption, NEW c
  PROVE  /\ IsFiniteSet(Guessers(c)') /\ Cardinality(Guessers(c)') \in Nat
         /\ Cardinality(Guessers(c)') <= Cardinality(Procs)
  <1>1. IsFiniteSet(Procs)
    BY DEF H!HumanAuthAssumption, H!IsFiniteSet, IsFiniteSet
  <1>2. Guessers(c)' \subseteq Procs
    BY DEF Guessers
  <1>3. QED
    BY <1>1, <1>2, FS_Subset, FS_CardinalityType

(* A guess that fails takes the place of a handler that was guessing.       *)
LEMMA GuessesKept ==
  ASSUME H!HumanAuthAssumption, H!TypeOK, H!TypeOK', AuthRequestsOK, GuessesLeft, NEW p \in Procs,
         NEW r \in AuthRequest, hReq' = [hReq EXCEPT ![p] = r], GuessesMove(p, r)
  PROVE  GuessesLeft'
  <1> SUFFICES ASSUME NEW c \in DOMAIN chals'
               PROVE  /\ chals'[c].fails + Cardinality(Guessers(c)') < MFAChallengeMaxAttempts + Cardinality(Procs)
                      /\ ~chals'[c].used => chals'[c].fails < MFAChallengeMaxAttempts
    BY DEF GuessesLeft
  <1>0. /\ Cardinality(Guessers(c)) \in Nat /\ Cardinality(Guessers(c)') \in Nat /\ Cardinality(Procs) \in Nat
        /\ Cardinality(Guessers(c)) <= Cardinality(Procs) /\ Cardinality(Guessers(c)') <= Cardinality(Procs)
    BY GuessersAreFew, GuessersAreFewNext
  <1>1. /\ hReq'[p] = r /\ \A q \in Procs : q # p => hReq'[q] = hReq[q]
    BY DEF AuthRequestsOK
  <1>2. chals'[c].fails \in Nat
    BY ChallengeRows DEF H!TypeOK
  <1>3. MFAChallengeMaxAttempts \in Nat /\ MFAChallengeMaxAttempts > 0
    BY DEF H!HumanAuthAssumption
  <1>4. CASE c \notin DOMAIN chals
    <2>1. chals'[c].fails = 0 /\ ~Guessing(r, c)
      BY <1>4 DEF GuessesMove
    <2>2. QED
      BY <2>1, <1>0, <1>3
  <1>5. CASE c \in DOMAIN chals
    <2>1. /\ chals'[c].fails = chals[c].fails
          /\ chals[c].used => chals'[c].used
          /\ Guessing(r, c) => (Guessing(hReq[p], c) \/ ~chals[c].used)
      BY <1>5 DEF GuessesMove
    <2>2. /\ chals[c].fails + Cardinality(Guessers(c)) < MFAChallengeMaxAttempts + Cardinality(Procs)
          /\ ~chals[c].used => chals[c].fails < MFAChallengeMaxAttempts
      BY <1>5 DEF GuessesLeft
    <2>3. CASE Guessing(r, c) /\ ~chals[c].used
      BY <1>0, <1>2, <1>3, <2>1, <2>2, <2>3
    <2>4. CASE Guessing(r, c) => Guessing(hReq[p], c)
      <3>1. Guessers(c)' \subseteq Guessers(c)
        <4>1. ASSUME NEW q \in Procs, Guessing(hReq[q], c)' PROVE Guessing(hReq[q], c)
          <5>1. CASE q = p
            BY <1>1, <2>4, <4>1, <5>1 DEF Guessing
          <5>2. CASE q # p
            BY <1>1, <4>1, <5>2 DEF Guessing
          <5>3. QED
            BY <5>1, <5>2
        <4>2. QED
          BY <4>1 DEF Guessers
      <3>2. Cardinality(Guessers(c)') <= Cardinality(Guessers(c))
        BY <3>1, GuessersAreFew, FS_Subset
      <3>3. QED
        BY <1>0, <1>2, <1>3, <2>1, <2>2, <3>2
    <2>5. QED
      BY <2>1, <2>3, <2>4
  <1>6. QED
    BY <1>4, <1>5

(* A counted wrong code is one guess less under way. *)
LEMMA GuessCounted ==
  ASSUME H!HumanAuthAssumption, H!TypeOK, AuthRequestsOK, GuessesLeft, NEW p \in Procs,
         hReq' = [hReq EXCEPT ![p] = H!Idle], NEW d \in DOMAIN chals, Guessing(hReq[p], d),
         DOMAIN chals' = DOMAIN chals,
         chals'[d].fails = chals[d].fails + 1,
         chals'[d].used \/ chals'[d].fails < MFAChallengeMaxAttempts,
         \A c \in DOMAIN chals : c # d => chals'[c] = chals[c]
  PROVE  GuessesLeft'
  <1> SUFFICES ASSUME NEW c \in DOMAIN chals
               PROVE  /\ chals'[c].fails + Cardinality(Guessers(c)') < MFAChallengeMaxAttempts + Cardinality(Procs)
                      /\ ~chals'[c].used => chals'[c].fails < MFAChallengeMaxAttempts
    BY DEF GuessesLeft
  <1>0. /\ Cardinality(Guessers(c)) \in Nat /\ Cardinality(Guessers(c)') \in Nat /\ Cardinality(Procs) \in Nat
        /\ Cardinality(Guessers(c)) <= Cardinality(Procs) /\ Cardinality(Guessers(c)') <= Cardinality(Procs)
    BY GuessersAreFew, GuessersAreFewNext
  <1>1. /\ hReq'[p] = H!Idle /\ \A q \in Procs : q # p => hReq'[q] = hReq[q]
    BY DEF AuthRequestsOK
  <1>2. chals[c].fails \in Nat /\ MFAChallengeMaxAttempts \in Nat
    BY ChallengeRows DEF H!TypeOK, H!HumanAuthAssumption
  <1>3. /\ chals[c].fails + Cardinality(Guessers(c)) < MFAChallengeMaxAttempts + Cardinality(Procs)
        /\ ~chals[c].used => chals[c].fails < MFAChallengeMaxAttempts
    BY DEF GuessesLeft
  <1>4. Guessers(c)' = Guessers(c) \ {p}
    <2>1. ASSUME NEW q \in Procs PROVE Guessing(hReq[q], c)' <=> (q # p /\ Guessing(hReq[q], c))
      <3>1. CASE q = p
        BY <1>1, <3>1, IdleAuthRequest DEF Guessing
      <3>2. CASE q # p
        BY <1>1, <3>2 DEF Guessing
      <3>3. QED
        BY <3>1, <3>2
    <2>2. QED
      BY <2>1 DEF Guessers
  <1>5. CASE c = d
    <2>1. p \in Guessers(c)
      BY <1>5 DEF Guessers
    <2>2. Cardinality(Guessers(c)') = Cardinality(Guessers(c)) - 1
      BY <1>4, <2>1, GuessersAreFew, FS_RemoveElement
    <2>3. QED
      BY <1>0, <1>2, <1>3, <1>5, <2>2
  <1>6. CASE c # d
    <2>1. Cardinality(Guessers(c)') <= Cardinality(Guessers(c))
      BY <1>4, GuessersAreFew, FS_Subset
    <2>2. QED
      BY <1>0, <1>2, <1>3, <1>6, <2>1
  <1>7. QED
    BY <1>5, <1>6

(* A handler that looked at the rows and changed none of them. *)
LEMMA OnlyAuthRequestMoves ==
  ASSUME H!HumanAuthAssumption, AuthInv, NEW p \in Procs, NEW r \in AuthRequest,
         hReq' = [hReq EXCEPT ![p] = r], UNCHANGED <<acct, rt, resets, chals, states, spent, doubled, proven>>,
         H!TypeOK', AuthRequestOK(p, r),
         \A c \in DOMAIN chals : Guessing(r, c) => (Guessing(hReq[p], c) \/ ~chals[c].used),
         Guessing(r, r.i) => r.i \in DOMAIN chals
  PROVE  AuthInv'
  <1>1. H!TypeOK /\ AuthRequestsOK /\ GuessesLeft /\ EnrollmentOK /\ SpentOK /\ H!SingleUse
    BY DEF AuthInv
  <1>2. OthersMayRely(p)
    <2>1. acct.gen \in Nat
      BY <1>1 DEF H!TypeOK, H!Human
    <2>2. QED
      BY <2>1 DEF OthersMayRely
  <1>3. AuthRequestOK(p, r)'
    BY DEF AuthRequestOK
  <1>4. GuessesMove(p, r)
    BY DEF GuessesMove
  <1>5. AuthRequestsOK'
    BY <1>1, <1>2, <1>3, AuthRequestsMove
  <1>6. GuessesLeft'
    BY <1>1, <1>4, GuessesKept
  <1>7. EnrollmentOK' /\ SpentOK' /\ H!SingleUse'
    BY <1>1 DEF EnrollmentOK, SpentOK, RefreshSpent, ResetSpent, ChallengeSpent, OAuthSpent, CodeSpent, H!SingleUse
  <1>8. QED
    BY <1>5, <1>6, <1>7 DEF AuthInv

(* The second factor is what it was. *)
SameFactor(a, b) ==
  /\ b.gen = a.gen /\ b.codes = a.codes /\ b.pend = a.pend
  /\ b.mfa = a.mfa /\ b.secret = a.secret /\ b.step = a.step

RefreshTokensMove(p) ==
  /\ DOMAIN rt \subseteq DOMAIN rt'
  /\ \A i \in DOMAIN rt :
       /\ rt[i].lock \notin {"-", p} => rt'[i].lock = rt[i].lock /\ rt'[i].revoked = rt[i].revoked
       /\ rt[i].revoked => rt'[i].revoked

AccountMoves(p) ==
  /\ SameFactor(acct, acct')
  /\ acct.lock \notin {"-", p} => acct'.lock = acct.lock

RowsGrow(old, new) == DOMAIN old \subseteq DOMAIN new /\ \A i \in DOMAIN old : new[i] = old[i]

(* Appending to a table is growth.                                          *)
LEMMA RowsGrowByOne ==
  ASSUME NEW S, NEW old \in Seq(S), NEW e \in S
  PROVE  /\ Append(old, e) \in Seq(S) /\ RowsGrow(old, Append(old, e))
         /\ \A c \in DOMAIN Append(old, e) : c \notin DOMAIN old => Append(old, e)[c] = e
  BY DEF RowsGrow

(* An unchanged table has grown.                                            *)
LEMMA RowsStay == \A rows : RowsGrow(rows, rows)
  BY DEF RowsGrow

(* An unchanged account row moved as it may.                                *)
LEMMA AccountStays == \A p : acct' = acct => AccountMoves(p)
  BY DEF AccountMoves, SameFactor

(* Unchanged refresh tokens moved as they may.                              *)
LEMMA TokensStay == \A p : rt' = rt => RefreshTokensMove(p)
  BY DEF RefreshTokensMove

(* A step that honours no credential and leaves the second factor alone. *)
LEMMA RowsMove ==
  ASSUME H!HumanAuthAssumption, AuthInv, NEW p \in Procs, NEW r \in AuthRequest,
         hReq' = [hReq EXCEPT ![p] = r], H!TypeOK', AuthRequestOK(p, r)', \A c : ~Guessing(r, c),
         AccountMoves(p), RefreshTokensMove(p), RowsGrow(resets, resets'), RowsGrow(chals, chals'),
         \A c \in DOMAIN chals' : c \notin DOMAIN chals => chals'[c].fails = 0,
         RowsGrow(states, states'), proven \subseteq proven', UNCHANGED <<spent, doubled>>
  PROVE  AuthInv'
  <1>1. H!TypeOK /\ AuthRequestsOK /\ GuessesLeft /\ EnrollmentOK /\ SpentOK /\ H!SingleUse
    BY DEF AuthInv
  <1>2. acct.gen \in Nat
    BY <1>1 DEF H!TypeOK, H!Human
  <1>3. OthersMayRely(p)
    BY <1>2 DEF OthersMayRely, AccountMoves, SameFactor, RefreshTokensMove, RowsGrow
  <1>4. GuessesMove(p, r)
    BY DEF GuessesMove, RowsGrow
  <1>5. AuthRequestsOK'
    BY <1>1, <1>3, AuthRequestsMove
  <1>6. GuessesLeft'
    BY <1>1, <1>4, GuessesKept
  <1>7. EnrollmentOK' /\ CodeSpent'
    BY <1>1 DEF EnrollmentOK, SpentOK, CodeSpent, AccountMoves, SameFactor
  <1>8. RefreshSpent' /\ ResetSpent' /\ ChallengeSpent' /\ OAuthSpent'
    BY <1>1 DEF SpentOK, RefreshSpent, ResetSpent, ChallengeSpent, OAuthSpent, RefreshTokensMove, RowsGrow
  <1>9. QED
    BY <1>1, <1>5, <1>6, <1>7, <1>8 DEF AuthInv, SpentOK, H!SingleUse

(* A handler that ends, whatever it did to the rows. *)
LEMMA DoneIsOne ==
  ASSUME NEW p \in Procs, H!Done(p)
  PROVE  /\ hReq' = [hReq EXCEPT ![p] = H!Idle] /\ H!Idle \in AuthRequest
         /\ AuthRequestOK(p, H!Idle)' /\ \A c : ~Guessing(H!Idle, c)
  BY IdleAuthRequest, IdleAuthOK DEF H!Done, Guessing

(* The types of the tables, each by itself.                                 *)
LEMMA AuthTypes ==
  ASSUME AuthInv
  PROVE  /\ acct \in H!Human /\ rt \in Seq(H!RefreshToken) /\ resets \in Seq(H!PasswordResetToken)
         /\ chals \in Seq(H!MFAChallenge) /\ states \in Seq({"open", "deleted"})
         /\ ident \in BOOLEAN /\ access \in BOOLEAN /\ clock \in Nat
         /\ hReq \in [Procs -> AuthRequest]
  BY DEF AuthInv, H!TypeOK, AuthRequestsOK

(* Goto as an assignment of a record. *)
LEMMA GotoIsOne ==
  ASSUME hReq \in [Procs -> AuthRequest], NEW p \in Procs, NEW i \in Nat, NEW v \in Nat,
         NEW pc \in {"mint", "challenge", "reuse", "rotate", "rotated", "reset", "enroll", "disable", "mfafail", "resolve"},
         H!Goto(p, pc, i, v)
  PROVE  \E r \in AuthRequest : hReq' = [hReq EXCEPT ![p] = r] /\ r.pc = pc /\ r.i = i /\ r.v = v
  <1>1. PICK r : r = [hReq[p] EXCEPT !.pc = pc, !.i = i, !.v = v]
    OBVIOUS
  <1>2. r \in AuthRequest /\ r.pc = pc /\ r.i = i /\ r.v = v
    <2>1. PICK o \in AuthRequest : o = hReq[p]
      OBVIOUS
    <2>2. r = [o EXCEPT !.pc = pc, !.i = i, !.v = v]
      BY <1>1, <2>1
    <2>3. QED
      BY <2>2 DEF AuthRequest
  <1>3. hReq' = [hReq EXCEPT ![p] = r]
    BY <1>1 DEF H!Goto
  <1>4. QED
    BY <1>2, <1>3

(* Steps that only read, or only take a snapshot, keep the invariant.       *)
LEMMA AuthReads ==
  ASSUME H!HumanAuthAssumption, AuthInv, NEW p \in Procs,
         \/ H!handleRefresh(p)
         \/ H!handleResetPassword(p)
         \/ H!handleMFAEnroll(p)
         \/ H!handleMFADisable(p)
         \/ H!ReuseSnapshot(p)
  PROVE  AuthInv'
  <1>1. UNCHANGED <<acct, rt, resets, chals, states, ident, access, clock, spent, doubled, proven>>
    BY DEF H!handleRefresh, H!handleResetPassword, H!handleMFAEnroll, H!handleMFADisable, H!ReuseSnapshot,
           H!tables, H!history
  <1>2. H!TypeOK'
    BY <1>1 DEF AuthInv, H!TypeOK
  <1>3. hReq \in [Procs -> AuthRequest] /\ DOMAIN rt \subseteq Nat /\ DOMAIN resets \subseteq Nat
    BY AuthTypes
  <1>4. \E r \in AuthRequest : /\ hReq' = [hReq EXCEPT ![p] = r] /\ AuthRequestOK(p, r)
                               /\ r.pc \notin {"mfafail", "complete"}
    <2>1. ASSUME H!Done(p) PROVE <1>4!:
      <3>1. H!Idle \in AuthRequest /\ H!Idle.pc = "idle" /\ hReq' = [hReq EXCEPT ![p] = H!Idle]
        BY <2>1, IdleAuthRequest DEF H!Done
      <3>2. QED
        BY <3>1 DEF AuthRequestOK
    <2>2. CASE H!handleRefresh(p)
      <3>1. PICK i \in DOMAIN rt : H!Refresh(p, i)
        BY <2>2 DEF H!handleRefresh
      <3>2. \/ H!Done(p)
            \/ H!Goto(p, "reuse", i, 0)
            \/ H!Goto(p, "rotate", i, 0)
        BY <3>1 DEF H!Refresh
      <3>3. CASE H!Goto(p, "reuse", i, 0) \/ H!Goto(p, "rotate", i, 0)
        BY <1>3, <3>3, GotoIsOne DEF AuthRequestOK
      <3>4. QED
        BY <2>1, <3>2, <3>3
    <2>3. CASE H!handleResetPassword(p)
      <3>1. PICK t \in DOMAIN resets : H!ResetPassword(p, t)
        BY <2>3 DEF H!handleResetPassword
      <3>2. H!Done(p) \/ H!Goto(p, "reset", t, 0)
        BY <3>1 DEF H!ResetPassword
      <3>3. CASE H!Goto(p, "reset", t, 0)
        BY <1>3, <3>3, GotoIsOne DEF AuthRequestOK
      <3>4. QED
        BY <2>1, <3>2, <3>3
    <2>4. CASE H!handleMFAEnroll(p) \/ H!handleMFADisable(p)
      <3>1. H!Done(p) \/ H!Goto(p, "enroll", 0, 0) \/ H!Goto(p, "disable", 0, 0)
        BY <2>4 DEF H!handleMFAEnroll, H!EnrollMFA, H!handleMFADisable, H!DisableMFA
      <3>2. CASE H!Goto(p, "enroll", 0, 0) \/ H!Goto(p, "disable", 0, 0)
        BY <1>3, <3>2, GotoIsOne DEF AuthRequestOK
      <3>3. QED
        BY <2>1, <3>1, <3>2
    <2>5. CASE H!ReuseSnapshot(p)
      <3>1. PICK r : r = [hReq[p] EXCEPT !.pc = "revoking", !.seen = H!Active]
        OBVIOUS
      <3>2. H!Active \in SUBSET Nat
        BY <1>3 DEF H!Active
      <3>3. r \in AuthRequest /\ r.pc = "revoking"
        <4>1. PICK o \in AuthRequest : o = hReq[p]
          BY <1>3
        <4>2. r = [o EXCEPT !.pc = "revoking", !.seen = H!Active]
          BY <3>1, <4>1
        <4>3. QED
          BY <3>2, <4>2 DEF AuthRequest
      <3>4. hReq' = [hReq EXCEPT ![p] = r]
        BY <2>5, <3>1 DEF H!ReuseSnapshot
      <3>5. QED
        BY <3>3, <3>4 DEF AuthRequestOK
    <2>6. QED
      BY <2>2, <2>3, <2>4, <2>5
  <1>5. PICK r \in AuthRequest : /\ hReq' = [hReq EXCEPT ![p] = r] /\ AuthRequestOK(p, r)
                                 /\ r.pc \notin {"mfafail", "complete"}
    BY <1>4
  <1>6. \A c : ~Guessing(r, c)
    BY <1>5 DEF Guessing
  <1>7. QED
    BY <1>1, <1>2, <1>5, <1>6, OnlyAuthRequestMoves

(* VerifyMFA admits a guess at a challenge only while it is unused, and a   *)
(* TOTP code only if it is one of the secret in force.                      *)
LEMMA AuthVerifyMFA ==
  ASSUME H!HumanAuthAssumption, AuthInv, NEW p \in Procs, H!handleMFAVerify(p)
  PROVE  AuthInv'
  <1>1. UNCHANGED <<acct, rt, resets, chals, states, ident, access, clock, spent, doubled, proven>>
    BY DEF H!handleMFAVerify, H!tables, H!history
  <1>2. H!TypeOK'
    BY <1>1 DEF AuthInv, H!TypeOK
  <1>3. PICK c \in DOMAIN chals, code \in H!Codes : H!VerifyMFA(p, c, code)
    BY DEF H!handleMFAVerify
  <1>4. /\ code \in Nat \X Nat /\ code[1] \in 0..acct.gen /\ code[2] \in {0} \cup Steps
    <2>1. acct.gen \in Nat
      BY AuthTypes DEF H!Human
    <2>2. PICK k \in 0..acct.gen, s \in {0} \cup Steps : code = <<k, s>>
      BY DEF H!Codes
    <2>3. k \in Nat /\ s \in Nat
      BY <2>1 DEF H!HumanAuthAssumption
    <2>4. QED
      BY <2>2, <2>3
  <1>5. c \in Nat /\ hReq \in [Procs -> AuthRequest]
    BY AuthTypes
  <1>6. CASE H!Done(p)
    <2>1. hReq' = [hReq EXCEPT ![p] = H!Idle]
      BY <1>6 DEF H!Done
    <2>2. AuthRequestOK(p, H!Idle) /\ \A d : ~Guessing(H!Idle, d)
      BY IdleAuthRequest DEF AuthRequestOK, Guessing
    <2>3. QED
      BY <1>1, <1>2, <2>1, <2>2, IdleAuthRequest, OnlyAuthRequestMoves
  <1>7. CASE ~H!Done(p)
    <2>1. /\ ~chals[c].gone /\ ~chals[c].used
          /\ code[2] \in Steps => acct.mfa
          /\ \/ hReq' = [hReq EXCEPT ![p] = [hReq[p] EXCEPT !.pc = "mfafail", !.i = c, !.code = code]]
             \/ /\ hReq' = [hReq EXCEPT ![p] = [hReq[p] EXCEPT !.pc = "complete", !.i = c, !.code = code]]
                /\ code[2] \in Steps => acct.secret = code[1]
      <3>1. CASE code[2] \in Steps
        BY <1>3, <1>7, <3>1 DEF H!VerifyMFA, H!GetMFAChallengeByHash, H!verifyTOTP
      <3>2. CASE code[2] \notin Steps
        BY <1>3, <1>7, <3>2 DEF H!VerifyMFA, H!GetMFAChallengeByHash, H!verifyTOTP
      <3>3. QED
        BY <3>1, <3>2
    <2>2. PICK pc \in {"mfafail", "complete"} :
            /\ hReq' = [hReq EXCEPT ![p] = [hReq[p] EXCEPT !.pc = pc, !.i = c, !.code = code]]
            /\ (pc = "complete" /\ code[2] \in Steps) => acct.secret = code[1]
      BY <2>1
    <2>3. PICK r : r = [hReq[p] EXCEPT !.pc = pc, !.i = c, !.code = code]
      OBVIOUS
    <2>4. r \in AuthRequest /\ r.pc = pc /\ r.i = c /\ r.code = code
      BY <1>4, <1>5, <2>3, ZenonT(60) DEF AuthRequest
    <2>5. hReq' = [hReq EXCEPT ![p] = r]
      BY <2>2, <2>3
    <2>6. AuthRequestOK(p, r)
      BY <1>4, <2>1, <2>2, <2>4 DEF AuthRequestOK
    <2>7. \A d \in DOMAIN chals : Guessing(r, d) => ~chals[d].used
      BY <2>1, <2>4 DEF Guessing
    <2>8. QED
      BY <1>1, <1>2, <2>4, <2>5, <2>6, <2>7, OnlyAuthRequestMoves
  <1>8. QED
    BY <1>6, <1>7

(* Locking, stamping or renewing the password leaves the second factor      *)
(* alone.                                                                   *)
LEMMA AccountPatched ==
  ASSUME NEW a \in H!Human, NEW w,
         \/ \E l \in Procs \cup {"-"} : w = [a EXCEPT !.lock = l]
         \/ (\E at \in Nat : w = [a EXCEPT !.last = at]) /\ w.lock = a.lock
         \/ (\E pw \in Nat : w = [a EXCEPT !.live = TRUE, !.pw = pw]) /\ w.lock = a.lock
  PROVE  w \in H!Human /\ SameFactor(a, w)
  <1>1. CASE \E l \in Procs \cup {"-"} : w = [a EXCEPT !.lock = l]
    BY <1>1 DEF H!Human, SameFactor
  <1>2. CASE \E at \in Nat : w = [a EXCEPT !.last = at]
    BY <1>2 DEF H!Human, SameFactor
  <1>3. CASE \E pw \in Nat : w = [a EXCEPT !.live = TRUE, !.pw = pw]
    BY <1>3 DEF H!Human, SameFactor
  <1>4. QED
    BY <1>1, <1>2, <1>3

(* A new refresh token is a refresh token.                                  *)
LEMMA NewTokenIsOne == H!NewToken \in H!RefreshToken
  BY DEF H!NewToken, H!RefreshToken

(* A new refresh token stands at the end and touches no other. *)
LEMMA TokenAppended ==
  ASSUME AuthInv, H!CreateRefreshToken
  PROVE  rt' \in Seq(H!RefreshToken) /\ \A p : RefreshTokensMove(p)
  <1>1. rt \in Seq(H!RefreshToken)
    BY AuthTypes
  <1>2. rt' = Append(rt, H!NewToken)
    BY DEF H!CreateRefreshToken
  <1>3. rt' \in Seq(H!RefreshToken) /\ RowsGrow(rt, rt')
    BY <1>1, <1>2, NewTokenIsOne, RowsGrowByOne
  <1>4. QED
    BY <1>3 DEF RowsGrow, RefreshTokensMove

(* mintSession, completeLogin, newMFAChallenge, ForgotPassword, StartOAuth. *)
LEMMA AuthRowsAppended ==
  ASSUME H!HumanAuthAssumption, AuthInv, NEW p \in Procs,
         \/ H!mintSession(p)
         \/ H!completeLogin(p)
         \/ H!newMFAChallenge(p)
         \/ H!handleForgotPassword(p)
         \/ H!handleOAuthStart(p)
  PROVE  AuthInv'
  <1>1. H!Done(p) /\ UNCHANGED <<spent, doubled, proven>>
    BY DEF H!mintSession, H!completeLogin, H!newMFAChallenge, H!handleForgotPassword, H!handleOAuthStart,
           H!StartOAuth, H!ForgotPassword, H!history
  <1>2. acct' \in H!Human /\ AccountMoves(p)
    <2>1. acct \in H!Human /\ hReq[p] \in AuthRequest
      BY AuthTypes
    <2>2. CASE H!completeLogin(p)
      <3>1. PICK at \in Nat : acct' = [acct EXCEPT !.last = at]
        <4>1. hReq[p].at \in Nat /\ acct.last \in Nat
          BY <2>1 DEF AuthRequest, H!Human
        <4>2. acct' = [acct EXCEPT !.last = IF acct.last < hReq[p].at THEN hReq[p].at ELSE acct.last]
          BY <2>2 DEF H!completeLogin, H!TouchLoginAndCreateRefreshToken
        <4>3. QED
          BY <4>1, <4>2
      <3>2. acct'.lock = acct.lock
        BY <2>1, <3>1 DEF H!Human
      <3>3. QED
        BY <2>1, <3>1, <3>2, AccountPatched DEF AccountMoves
    <2>3. CASE acct' = acct
      BY <2>1, <2>3, AccountStays
    <2>4. QED
      BY <2>2, <2>3 DEF H!mintSession, H!newMFAChallenge, H!handleForgotPassword, H!handleOAuthStart
  <1>3. rt' \in Seq(H!RefreshToken) /\ RefreshTokensMove(p)
    <2>1. CASE H!CreateRefreshToken
      BY <2>1, TokenAppended
    <2>2. CASE rt' = rt
      BY <2>2, TokensStay, AuthTypes
    <2>3. QED
      BY <2>1, <2>2 DEF H!mintSession, H!completeLogin, H!TouchLoginAndCreateRefreshToken,
                        H!newMFAChallenge, H!handleForgotPassword, H!handleOAuthStart
  <1>4. resets' \in Seq(H!PasswordResetToken) /\ RowsGrow(resets, resets')
    <2>1. CASE H!CreatePasswordResetToken
      <3>1. PICK e : e = [used |-> FALSE, old |-> FALSE]
        OBVIOUS
      <3>2. e \in H!PasswordResetToken /\ resets' = Append(resets, e)
        BY <2>1, <3>1 DEF H!CreatePasswordResetToken, H!PasswordResetToken
      <3>3. QED
        BY <3>2, AuthTypes, RowsGrowByOne
    <2>2. CASE resets' = resets
      BY <2>2, RowsStay, AuthTypes
    <2>3. QED
      BY <2>1, <2>2 DEF H!mintSession, H!completeLogin, H!newMFAChallenge, H!handleForgotPassword,
                        H!ForgotPassword, H!handleOAuthStart
  <1>5. /\ chals' \in Seq(H!MFAChallenge) /\ RowsGrow(chals, chals')
        /\ \A c \in DOMAIN chals' : c \notin DOMAIN chals => chals'[c].fails = 0
    <2>1. CASE H!newMFAChallenge(p)
      <3>1. PICK e : e = [used |-> FALSE, old |-> FALSE, fails |-> 0, gone |-> FALSE]
        OBVIOUS
      <3>2. e \in H!MFAChallenge /\ e.fails = 0 /\ chals' = Append(chals, e)
        BY <2>1, <3>1 DEF H!newMFAChallenge, H!MFAChallenge
      <3>3. QED
        BY <3>2, AuthTypes, RowsGrowByOne
    <2>2. CASE chals' = chals
      BY <2>2, RowsStay, AuthTypes
    <2>3. QED
      BY <2>1, <2>2 DEF H!mintSession, H!completeLogin, H!handleForgotPassword, H!handleOAuthStart
  <1>6. states' \in Seq({"open", "deleted"}) /\ RowsGrow(states, states')
    <2>1. CASE H!CreateOAuthState
      <3>1. states' = Append(states, "open") /\ "open" \in {"open", "deleted"}
        BY <2>1 DEF H!CreateOAuthState
      <3>2. QED
        BY <3>1, AuthTypes, RowsGrowByOne
    <2>2. CASE states' = states
      BY <2>2, RowsStay, AuthTypes
    <2>3. QED
      BY <2>1, <2>2 DEF H!mintSession, H!completeLogin, H!newMFAChallenge, H!handleForgotPassword,
                        H!handleOAuthStart, H!StartOAuth
  <1>7. ident' = ident /\ access' \in BOOLEAN /\ clock' = clock
    BY AuthTypes DEF H!mintSession, H!completeLogin, H!newMFAChallenge, H!handleForgotPassword, H!handleOAuthStart
  <1>8. H!TypeOK'
    BY <1>2, <1>3, <1>4, <1>5, <1>6, <1>7, AuthTypes DEF H!TypeOK
  <1>9. QED
    BY <1>1, <1>2, <1>3, <1>4, <1>5, <1>6, <1>8, DoneIsOne, RowsMove

(* A caller whose first factor was right goes on to a challenge or a        *)
(* session.                                                                 *)
LEMMA AuthenticatedIsOne ==
  ASSUME AuthInv, NEW p \in Procs, H!Authenticated(p)
  PROVE  /\ clock' \in Nat
         /\ \E r \in AuthRequest : hReq' = [hReq EXCEPT ![p] = r] /\ r.pc \in {"challenge", "session"}
  <1>1. clock \in Nat /\ hReq \in [Procs -> AuthRequest]
    BY AuthTypes
  <1>2. CASE H!Goto(p, "challenge", 0, 0) /\ UNCHANGED clock
    BY <1>1, <1>2, GotoIsOne
  <1>3. CASE /\ clock' = clock + 1
             /\ hReq' = [hReq EXCEPT ![p] = [hReq[p] EXCEPT !.pc = "session", !.at = clock + 1]]
    <2>1. PICK o \in AuthRequest : o = hReq[p]
      BY <1>1
    <2>2. PICK n \in Nat : n = clock + 1
      BY <1>1
    <2>3. PICK r : r = [o EXCEPT !.pc = "session", !.at = n]
      OBVIOUS
    <2>4. r \in AuthRequest /\ r.pc = "session"
      BY <2>3 DEF AuthRequest
    <2>5. hReq' = [hReq EXCEPT ![p] = r]
      BY <1>3, <2>1, <2>2, <2>3
    <2>6. clock' \in Nat
      BY <1>3, <2>2
    <2>7. QED
      BY <2>4, <2>5, <2>6
  <1>4. QED
    BY <1>2, <1>3 DEF H!Authenticated

(* SignUp, Login and ResolveOAuthHuman. *)
LEMMA AuthSignIn ==
  ASSUME H!HumanAuthAssumption, AuthInv, NEW p \in Procs,
         H!handleSignup(p) \/ H!handleLogin(p) \/ H!ResolveOAuthHuman(p)
  PROVE  AuthInv'
  <1>1. UNCHANGED <<rt, resets, chals, states, access, spent, doubled, proven>>
    BY DEF H!handleSignup, H!handleLogin, H!ResolveOAuthHuman, H!history
  <1>2. acct' \in H!Human /\ AccountMoves(p)
    <2>1. acct \in H!Human
      BY AuthTypes
    <2>2. CASE acct' = acct
      BY <2>1, <2>2, AccountStays
    <2>3. CASE H!CreateHuman(0) \/ H!CreateHuman(1)
      <3>1. PICK pw \in Nat : acct' = [acct EXCEPT !.live = TRUE, !.pw = pw]
        BY <2>3 DEF H!CreateHuman
      <3>2. acct'.lock = acct.lock
        BY <2>1, <3>1 DEF H!Human
      <3>3. QED
        BY <2>1, <3>1, <3>2, AccountPatched DEF AccountMoves
    <2>4. QED
      BY <2>2, <2>3 DEF H!handleSignup, H!SignUp, H!handleLogin, H!Login, H!ResolveOAuthHuman
  <1>3. ident' \in BOOLEAN
    BY AuthTypes DEF H!handleSignup, H!handleLogin, H!ResolveOAuthHuman
  <1>4. /\ clock' \in Nat
        /\ \E r \in AuthRequest : /\ hReq' = [hReq EXCEPT ![p] = r]
                                  /\ r.pc \in {"idle", "mint", "challenge", "session"}
    <2>1. clock \in Nat /\ hReq \in [Procs -> AuthRequest]
      BY AuthTypes
    <2>2. CASE H!Done(p) /\ UNCHANGED clock
      BY <2>1, <2>2, IdleAuthRequest, DoneIsOne
    <2>3. CASE H!Goto(p, "mint", 0, 0) /\ UNCHANGED clock
      BY <2>1, <2>3, GotoIsOne
    <2>4. CASE H!Authenticated(p)
      BY <2>4, AuthenticatedIsOne
    <2>5. QED
      BY <2>2, <2>3, <2>4 DEF H!handleSignup, H!SignUp, H!handleLogin, H!Login, H!ResolveOAuthHuman
  <1>5. H!TypeOK'
    BY <1>1, <1>2, <1>3, <1>4, AuthTypes DEF H!TypeOK
  <1>6. PICK r \in AuthRequest : /\ hReq' = [hReq EXCEPT ![p] = r]
                                 /\ r.pc \in {"idle", "mint", "challenge", "session"}
    BY <1>4
  <1>7. AuthRequestOK(p, r)' /\ \A c : ~Guessing(r, c)
    BY <1>6 DEF AuthRequestOK, Guessing
  <1>8. QED
    BY <1>1, <1>2, <1>5, <1>6, <1>7, TokensStay, RowsStay, RowsMove

(* A row is rewritten by the handler that holds it and never comes back     *)
(* from revoked.                                                            *)
LEMMA TokenReplaced ==
  ASSUME rt \in Seq(H!RefreshToken), NEW p, NEW i \in DOMAIN rt, NEW w \in H!RefreshToken,
         rt' = [rt EXCEPT ![i] = w], rt[i].lock \in {"-", p}, rt[i].revoked => w.revoked
  PROVE  rt' \in Seq(H!RefreshToken) /\ RefreshTokensMove(p) /\ DOMAIN rt' = DOMAIN rt /\ rt'[i] = w
  <1>1. rt' \in Seq(H!RefreshToken) /\ DOMAIN rt' = DOMAIN rt /\ rt'[i] = w
    OBVIOUS
  <1>2. \A j \in DOMAIN rt : j # i => rt'[j] = rt[j]
    OBVIOUS
  <1>3. QED
    BY <1>1, <1>2 DEF RefreshTokensMove

(* The UPDATE over a snapshot touches no row another transaction holds. *)
LEMMA SnapshotRevoked ==
  ASSUME rt \in Seq(H!RefreshToken), NEW p, NEW S, H!Unlocked(S), H!RevokeAllRefreshTokensForHuman(S)
  PROVE  rt' \in Seq(H!RefreshToken) /\ RefreshTokensMove(p) /\ DOMAIN rt' = DOMAIN rt
  <1>1. DOMAIN rt' = DOMAIN rt /\ DOMAIN rt = 1..Len(rt) /\ Len(rt) \in Nat
    BY DEF H!RevokeAllRefreshTokensForHuman
  <1>2. ASSUME NEW i \in DOMAIN rt
        PROVE  /\ rt'[i] \in H!RefreshToken
               /\ rt[i].lock \notin {"-", p} => rt'[i].lock = rt[i].lock /\ rt'[i].revoked = rt[i].revoked
               /\ rt[i].revoked => rt'[i].revoked
    <2>1. PICK t \in H!RefreshToken : t = rt[i]
      OBVIOUS
    <2>2. CASE i \in S
      <3>1. t.lock = "-"
        BY <2>1, <2>2 DEF H!Unlocked
      <3>2. rt'[i] = [t EXCEPT !.revoked = TRUE]
        BY <2>1, <2>2 DEF H!RevokeAllRefreshTokensForHuman
      <3>3. rt'[i] \in H!RefreshToken /\ rt'[i].revoked
        BY <3>2 DEF H!RefreshToken
      <3>4. QED
        BY <2>1, <3>1, <3>3
    <2>3. CASE i \notin S
      BY <2>3 DEF H!RevokeAllRefreshTokensForHuman
    <2>4. QED
      BY <2>2, <2>3
  <1>3. rt' \in Seq(H!RefreshToken)
    <2>1. rt' = [i \in 1..Len(rt) |-> rt'[i]]
      BY <1>1 DEF H!RevokeAllRefreshTokensForHuman
    <2>2. QED
      BY <1>1, <1>2, <2>1
  <1>4. QED
    BY <1>1, <1>2, <1>3 DEF RefreshTokensMove

(* RotateRefreshToken up to its lock, reuse detection and logout. *)
LEMMA AuthTokenSteps ==
  ASSUME H!HumanAuthAssumption, AuthInv, NEW p \in Procs,
         H!RotateRefreshToken(p) \/ H!ReuseRevokes(p) \/ H!handleLogout(p)
  PROVE  AuthInv'
  <1>1. UNCHANGED <<acct, resets, chals, states, ident, access, clock, spent, doubled, proven>>
    BY DEF H!RotateRefreshToken, H!ReuseRevokes, H!handleLogout, H!history
  <1>2. rt \in Seq(H!RefreshToken) /\ hReq \in [Procs -> AuthRequest]
    BY AuthTypes
  <1>3. \E r \in AuthRequest :
          /\ hReq' = [hReq EXCEPT ![p] = r]
          /\ AuthRequestOK(p, r)' /\ \A c : ~Guessing(r, c)
          /\ rt' \in Seq(H!RefreshToken) /\ RefreshTokensMove(p)
    <2>1. CASE H!RotateRefreshToken(p)
      <3>1. PICK i : i = hReq[p].i
        OBVIOUS
      <3>2. i \in DOMAIN rt /\ rt[i].lock = "-" /\ i \in Nat
        <4>1. hReq[p].pc = "rotate" /\ rt[i].lock = "-"
          BY <2>1, <3>1 DEF H!RotateRefreshToken
        <4>2. AuthRequestOK(p, hReq[p])
          BY DEF AuthInv, AuthRequestsOK
        <4>3. QED
          BY <1>2, <3>1, <4>1, <4>2 DEF AuthRequestOK
      <3>3. CASE H!Done(p) /\ UNCHANGED rt
        BY <1>2, <3>3, DoneIsOne, TokensStay
      <3>4. CASE /\ ~rt[i].revoked /\ rt' = [rt EXCEPT ![i].lock = p] /\ H!Goto(p, "rotated", i, 0)
        <4>1. PICK t \in H!RefreshToken : t = rt[i]
          BY <1>2, <3>2
        <4>2. PICK w : w = [t EXCEPT !.lock = p]
          OBVIOUS
        <4>3. w \in H!RefreshToken /\ w.lock = p /\ w.revoked = t.revoked
          BY <4>2 DEF H!RefreshToken
        <4>4. rt' = [rt EXCEPT ![i] = w]
          BY <3>4, <4>1, <4>2
        <4>5. rt' \in Seq(H!RefreshToken) /\ RefreshTokensMove(p) /\ DOMAIN rt' = DOMAIN rt /\ rt'[i] = w
          BY <1>2, <3>2, <4>1, <4>3, <4>4, TokenReplaced
        <4>6. PICK r \in AuthRequest : hReq' = [hReq EXCEPT ![p] = r] /\ r.pc = "rotated" /\ r.i = i
          BY <1>2, <3>2, <3>4, GotoIsOne
        <4>7. AuthRequestOK(p, r)' /\ \A c : ~Guessing(r, c)
          BY <3>2, <3>4, <4>1, <4>3, <4>5, <4>6 DEF AuthRequestOK, Guessing
        <4>8. QED
          BY <4>5, <4>6, <4>7
      <3>5. QED
        BY <2>1, <3>1, <3>3, <3>4 DEF H!RotateRefreshToken
    <2>2. CASE H!ReuseRevokes(p)
      <3>1. H!Unlocked(hReq[p].seen) /\ H!RevokeAllRefreshTokensForHuman(hReq[p].seen) /\ H!Done(p)
        BY <2>2 DEF H!ReuseRevokes
      <3>2. QED
        BY <1>2, <3>1, SnapshotRevoked, DoneIsOne
    <2>3. CASE H!handleLogout(p)
      <3>1. PICK i \in DOMAIN rt : rt[i].lock = "-" /\ rt' = [rt EXCEPT ![i].revoked = TRUE] /\ H!Done(p)
        BY <2>3 DEF H!handleLogout, H!Logout, H!RevokeRefreshToken
      <3>2. PICK t \in H!RefreshToken : t = rt[i]
        BY <1>2
      <3>3. PICK w : w = [t EXCEPT !.revoked = TRUE]
        OBVIOUS
      <3>4. w \in H!RefreshToken /\ w.revoked
        BY <3>3 DEF H!RefreshToken
      <3>5. rt' = [rt EXCEPT ![i] = w]
        BY <3>1, <3>2, <3>3
      <3>6. rt' \in Seq(H!RefreshToken) /\ RefreshTokensMove(p)
        BY <1>2, <3>1, <3>4, <3>5, TokenReplaced
      <3>7. QED
        BY <3>1, <3>6, DoneIsOne
    <2>4. QED
      BY <2>1, <2>2, <2>3
  <1>4. H!TypeOK'
    BY <1>1, <1>3, AuthTypes DEF H!TypeOK
  <1>5. QED
    BY <1>1, <1>3, <1>4, AccountStays, RowsStay, RowsMove

(* Taking the account row for a reset keeps the invariant.                  *)
LEMMA AuthBeginReset ==
  ASSUME H!HumanAuthAssumption, AuthInv, NEW p \in Procs, H!BeginReset(p)
  PROVE  AuthInv'
  <1>1. UNCHANGED <<rt, resets, chals, states, ident, access, clock, spent, doubled, proven>>
    BY DEF H!BeginReset, H!history
  <1>2. acct \in H!Human /\ rt \in Seq(H!RefreshToken) /\ hReq \in [Procs -> AuthRequest]
    BY AuthTypes
  <1>3. PICK o \in AuthRequest : o = hReq[p]
    BY <1>2
  <1>4. o.pc = "reset" /\ acct.lock = "-" /\ AuthRequestOK(p, o)
    BY <1>3 DEF H!BeginReset, AuthInv, AuthRequestsOK
  <1>5. CASE H!Done(p) /\ UNCHANGED acct
    <2>1. H!TypeOK'
      BY <1>1, <1>5 DEF AuthInv, H!TypeOK
    <2>2. QED
      BY <1>1, <1>5, <2>1, DoneIsOne, AccountStays, TokensStay, RowsStay, RowsMove
  <1>6. CASE /\ ~resets[o.i].used /\ acct' = [acct EXCEPT !.lock = p]
             /\ hReq' = [hReq EXCEPT ![p] = [hReq[p] EXCEPT !.pc = "resetting", !.seen = H!Active]]
    <2>1. acct' \in H!Human /\ SameFactor(acct, acct') /\ acct'.lock = p
      BY <1>2, <1>6 DEF H!Human, SameFactor
    <2>2. AccountMoves(p)
      BY <1>4, <2>1 DEF AccountMoves
    <2>3. H!TypeOK'
      BY <1>1, <2>1 DEF AuthInv, H!TypeOK
    <2>4. H!Active \in SUBSET Nat
      BY <1>2 DEF H!Active
    <2>5. PICK r : r = [o EXCEPT !.pc = "resetting", !.seen = H!Active]
      OBVIOUS
    <2>6. r \in AuthRequest /\ r.pc = "resetting" /\ r.i = o.i
      BY <2>4, <2>5 DEF AuthRequest
    <2>7. hReq' = [hReq EXCEPT ![p] = r]
      BY <1>3, <1>6, <2>5
    <2>8. AuthRequestOK(p, r)' /\ \A c : ~Guessing(r, c)
      BY <1>1, <1>4, <1>6, <2>1, <2>6 DEF AuthRequestOK, Guessing
    <2>9. QED
      BY <1>1, <2>2, <2>3, <2>6, <2>7, <2>8, TokensStay, RowsStay, RowsMove
  <1>7. QED
    BY <1>3, <1>5, <1>6 DEF H!BeginReset

(* Confirming enables the very secret whose code was checked.               *)
LEMMA AuthConfirmMFA ==
  ASSUME H!HumanAuthAssumption, AuthInv, NEW p \in Procs, H!handleMFAConfirm(p)
  PROVE  AuthInv'
  <1>1. UNCHANGED <<acct, rt, resets, chals, states, ident, access, clock, spent, doubled>>
    BY DEF H!handleMFAConfirm, H!NoSpend, H!tables
  <1>2. H!TypeOK'
    BY <1>1 DEF AuthInv, H!TypeOK
  <1>3. PICK code \in H!Codes : H!ConfirmMFA(p, code)
    BY DEF H!handleMFAConfirm
  <1>4. hReq \in [Procs -> AuthRequest] /\ acct.gen \in Nat /\ acct.pend \in Nat
    BY AuthTypes DEF H!Human
  <1>5. code \in Nat \X Nat
    <2>1. PICK k \in 0..acct.gen, s \in {0} \cup Steps : code = <<k, s>>
      BY DEF H!Codes
    <2>2. k \in Nat /\ s \in Nat
      BY <1>4 DEF H!HumanAuthAssumption
    <2>3. QED
      BY <2>1, <2>2
  <1>6. CASE H!Done(p) /\ UNCHANGED proven
    BY <1>1, <1>2, <1>6, DoneIsOne, AccountStays, TokensStay, RowsStay, RowsMove
  <1>7. CASE /\ acct.pend # 0 /\ H!verifyTOTP(acct.pend, code)
             /\ hReq' = [hReq EXCEPT ![p] = [hReq[p] EXCEPT !.pc = "activate", !.v = acct.pend, !.code = code]]
             /\ proven' = proven \cup {acct.pend}
    <2>1. PICK o \in AuthRequest : o = hReq[p]
      BY <1>4
    <2>2. PICK r : r = [o EXCEPT !.pc = "activate", !.v = acct.pend, !.code = code]
      OBVIOUS
    <2>3. r \in AuthRequest /\ r.pc = "activate" /\ r.v = acct.pend /\ r.code = code
      BY <1>4, <1>5, <2>2 DEF AuthRequest
    <2>4. hReq' = [hReq EXCEPT ![p] = r]
      BY <1>7, <2>1, <2>2
    <2>5. AuthRequestOK(p, r)' /\ \A c : ~Guessing(r, c)
      BY <1>7, <2>3 DEF AuthRequestOK, Guessing, H!verifyTOTP
    <2>6. QED
      BY <1>1, <1>2, <1>7, <2>3, <2>4, <2>5, AccountStays, TokensStay, RowsStay, RowsMove
  <1>8. QED
    BY <1>3, <1>6, <1>7 DEF H!ConfirmMFA

(* A handler that fails gives up its locks and nothing else.                *)
LEMMA AuthFail ==
  ASSUME H!HumanAuthAssumption, AuthInv, NEW p \in Procs, H!Fail(p)
  PROVE  AuthInv'
  <1>1. H!Done(p) /\ UNCHANGED <<resets, chals, states, ident, access, clock, spent, doubled, proven>>
    BY DEF H!Fail, H!history
  <1>2. acct \in H!Human /\ rt \in Seq(H!RefreshToken)
    BY AuthTypes
  <1>3. acct' \in H!Human /\ AccountMoves(p)
    <2>1. CASE acct' = acct
      BY <1>2, <2>1, AccountStays
    <2>2. CASE acct.lock = p /\ acct' = [acct EXCEPT !.lock = "-"]
      BY <1>2, <2>2 DEF AccountMoves, SameFactor, H!Human
    <2>3. QED
      BY <2>1, <2>2 DEF H!Fail
  <1>4. rt' \in Seq(H!RefreshToken) /\ RefreshTokensMove(p)
    <2>1. rt' = [i \in DOMAIN rt |-> IF rt[i].lock = p THEN [rt[i] EXCEPT !.lock = "-"] ELSE rt[i]]
      BY DEF H!Fail
    <2>2. DOMAIN rt' = DOMAIN rt /\ DOMAIN rt = 1..Len(rt) /\ Len(rt) \in Nat
      BY <1>2, <2>1
    <2>3. ASSUME NEW i \in DOMAIN rt
          PROVE  /\ rt'[i] \in H!RefreshToken
                 /\ rt[i].lock \notin {"-", p} => rt'[i].lock = rt[i].lock /\ rt'[i].revoked = rt[i].revoked
                 /\ rt[i].revoked => rt'[i].revoked
      <3>1. PICK t \in H!RefreshToken : t = rt[i]
        BY <1>2
      <3>2. CASE t.lock = p
        <4>1. rt'[i] = [t EXCEPT !.lock = "-"]
          BY <2>1, <3>1, <3>2
        <4>2. rt'[i] \in H!RefreshToken /\ rt'[i].revoked = t.revoked
          BY <4>1 DEF H!RefreshToken
        <4>3. QED
          BY <3>1, <3>2, <4>2
      <3>3. CASE t.lock # p
        BY <2>1, <3>1, <3>3
      <3>4. QED
        BY <3>2, <3>3
    <2>4. rt' = [i \in 1..Len(rt) |-> rt'[i]]
      BY <2>1, <2>2
    <2>5. rt' \in Seq(H!RefreshToken)
      BY <2>2, <2>3, <2>4
    <2>6. QED
      BY <2>2, <2>3, <2>5 DEF RefreshTokensMove
  <1>5. H!TypeOK'
    BY <1>1, <1>3, <1>4, AuthTypes DEF H!TypeOK
  <1>6. QED
    BY <1>1, <1>3, <1>4, <1>5, DoneIsOne, RowsStay, RowsMove

(* A step that honours a credential or changes the second factor. *)
LEMMA AuthStep ==
  ASSUME H!HumanAuthAssumption, AuthInv, NEW p \in Procs, NEW r \in AuthRequest,
         hReq' = [hReq EXCEPT ![p] = r], H!TypeOK', AuthRequestOK(p, r)', OthersMayRely(p), GuessesMove(p, r),
         EnrollmentOK', SpentOK', doubled' = {}
  PROVE  AuthInv'
  <1>1. AuthRequestsOK'
    BY AuthRequestsMove DEF AuthInv
  <1>2. GuessesLeft'
    BY GuessesKept DEF AuthInv
  <1>3. QED
    BY <1>1, <1>2 DEF AuthInv, H!SingleUse

(* The lock on the old row outlasts the check that it is not revoked. *)
LEMMA AuthCommitRotation ==
  ASSUME H!HumanAuthAssumption, AuthInv, NEW p \in Procs, H!CommitRotation(p)
  PROVE  AuthInv'
  <1>1. /\ H!Done(p) /\ UNCHANGED <<acct, resets, chals, states, ident, clock, proven>> /\ access' = TRUE
    BY DEF H!CommitRotation
  <1>2. rt \in Seq(H!RefreshToken) /\ acct.gen \in Nat
    BY AuthTypes DEF H!Human
  <1>3. PICK i : i = hReq[p].i
    OBVIOUS
  <1>4. i \in DOMAIN rt /\ rt[i].lock = p /\ ~rt[i].revoked
    <2>1. hReq[p].pc = "rotated" /\ AuthRequestOK(p, hReq[p])
      BY DEF H!CommitRotation, AuthInv, AuthRequestsOK
    <2>2. QED
      BY <1>3, <2>1 DEF AuthRequestOK
  <1>5. PICK t \in H!RefreshToken : t = rt[i]
    BY <1>2, <1>4
  <1>6. PICK w : w = [t EXCEPT !.revoked = TRUE, !.lock = "-"]
    OBVIOUS
  <1>7. w \in H!RefreshToken /\ w.revoked
    BY <1>6 DEF H!RefreshToken
  <1>8. PICK mid \in Seq(H!RefreshToken) : mid = [rt EXCEPT ![i] = w]
    <2>1. [rt EXCEPT ![i] = w] \in Seq(H!RefreshToken)
      BY <1>2, <1>4, <1>7
    <2>2. QED
      BY <2>1
  <1>9. rt' = Append(mid, H!NewToken)
    <2>1. rt' = Append([rt EXCEPT ![i].revoked = TRUE, ![i].lock = "-"], H!NewToken)
      BY <1>3 DEF H!CommitRotation
    <2>2. [rt EXCEPT ![i].revoked = TRUE, ![i].lock = "-"] = mid
      BY <1>2, <1>4, <1>5, <1>6, <1>8
    <2>3. QED
      BY <2>1, <2>2
  <1>10. rt' \in Seq(H!RefreshToken) /\ RowsGrow(mid, rt')
    BY <1>9, NewTokenIsOne, RowsGrowByOne
  <1>11. DOMAIN mid = DOMAIN rt /\ mid[i] = w /\ \A j \in DOMAIN rt : j # i => mid[j] = rt[j]
    BY <1>2, <1>4, <1>8
  <1>12. DOMAIN rt \subseteq DOMAIN rt' /\ rt'[i] = w /\ \A j \in DOMAIN rt : j # i => rt'[j] = rt[j]
    BY <1>4, <1>10, <1>11 DEF RowsGrow
  <1>13. OthersMayRely(p)
    BY <1>1, <1>2, <1>4, <1>12 DEF OthersMayRely
  <1>14. GuessesMove(p, H!Idle)
    BY <1>1, DoneIsOne DEF GuessesMove
  <1>15. spent' = spent \cup {<<"refresh", i>>} /\ doubled' = doubled \cup ({<<"refresh", i>>} \cap spent)
    BY <1>3 DEF H!CommitRotation, H!Spend
  <1>16. RefreshSpent /\ ResetSpent /\ ChallengeSpent /\ OAuthSpent /\ CodeSpent /\ EnrollmentOK /\ doubled = {}
    BY DEF AuthInv, SpentOK, H!SingleUse
  <1>17. doubled' = {}
    <2>1. <<"refresh", i>> \notin spent
      BY <1>4, <1>16 DEF RefreshSpent
    <2>2. QED
      BY <1>15, <1>16, <2>1
  <1>18. RefreshSpent'
    BY <1>7, <1>4, <1>12, <1>15, <1>16 DEF RefreshSpent
  <1>19. ResetSpent' /\ ChallengeSpent' /\ OAuthSpent'
    BY <1>1, <1>15, <1>16 DEF ResetSpent, ChallengeSpent, OAuthSpent
  <1>20. CodeSpent' /\ EnrollmentOK'
    BY <1>1, <1>15, <1>16 DEF CodeSpent, EnrollmentOK
  <1>21. H!TypeOK'
    BY <1>1, <1>10, AuthTypes DEF H!TypeOK
  <1>22. QED
    BY <1>1, <1>13, <1>14, <1>17, <1>18, <1>19, <1>20, <1>21, DoneIsOne, AuthStep DEF SpentOK

(* A reset holds the account from its check of the link to its commit, so   *)
(* no other reset can have consumed the link in between.                    *)
LEMMA AuthCommitReset ==
  ASSUME H!HumanAuthAssumption, AuthInv, NEW p \in Procs, H!CommitReset(p)
  PROVE  AuthInv'
  <1>1. H!Done(p) /\ UNCHANGED <<chals, states, ident, access, clock, proven>>
    BY DEF H!CommitReset
  <1>2. /\ acct \in H!Human /\ rt \in Seq(H!RefreshToken) /\ resets \in Seq(H!PasswordResetToken)
        /\ acct.gen \in Nat
    BY AuthTypes DEF H!Human
  <1>3. PICK t : t = hReq[p].i
    OBVIOUS
  <1>4. t \in DOMAIN resets /\ acct.lock = p /\ ~resets[t].used
    <2>1. hReq[p].pc = "resetting" /\ AuthRequestOK(p, hReq[p])
      BY DEF H!CommitReset, AuthInv, AuthRequestsOK
    <2>2. QED
      BY <1>3, <2>1 DEF AuthRequestOK
  <1>5. rt' \in Seq(H!RefreshToken) /\ RefreshTokensMove(p)
    BY <1>2, SnapshotRevoked DEF H!CommitReset
  <1>6. acct' \in H!Human /\ SameFactor(acct, acct')
    <2>1. PICK n \in Nat : n = acct.pw + 1
      BY <1>2 DEF H!Human
    <2>2. acct' = [acct EXCEPT !.pw = n, !.lock = "-"]
      BY <2>1 DEF H!CommitReset
    <2>3. QED
      BY <1>2, <2>2 DEF H!Human, SameFactor
  <1>7. PICK e \in H!PasswordResetToken : e = resets[t]
    BY <1>2, <1>4
  <1>8. PICK w : w = [e EXCEPT !.used = TRUE]
    OBVIOUS
  <1>9. w \in H!PasswordResetToken /\ w.used
    BY <1>8 DEF H!PasswordResetToken
  <1>10. resets' = [resets EXCEPT ![t] = w]
    BY <1>3, <1>7, <1>8 DEF H!CommitReset
  <1>11. /\ resets' \in Seq(H!PasswordResetToken) /\ DOMAIN resets' = DOMAIN resets
         /\ resets'[t] = w /\ \A j \in DOMAIN resets : j # t => resets'[j] = resets[j]
    BY <1>2, <1>4, <1>9, <1>10
  <1>12. OthersMayRely(p)
    BY <1>1, <1>2, <1>4, <1>5, <1>6, <1>11 DEF OthersMayRely, RefreshTokensMove, SameFactor
  <1>13. GuessesMove(p, H!Idle)
    BY <1>1, DoneIsOne DEF GuessesMove
  <1>14. spent' = spent \cup {<<"reset", t>>} /\ doubled' = doubled \cup ({<<"reset", t>>} \cap spent)
    BY <1>3 DEF H!CommitReset, H!Spend
  <1>15. RefreshSpent /\ ResetSpent /\ ChallengeSpent /\ OAuthSpent /\ CodeSpent /\ EnrollmentOK /\ doubled = {}
    BY DEF AuthInv, SpentOK, H!SingleUse
  <1>16. doubled' = {}
    <2>1. <<"reset", t>> \notin spent
      BY <1>4, <1>15 DEF ResetSpent
    <2>2. QED
      BY <1>14, <1>15, <2>1
  <1>17. ResetSpent'
    BY <1>4, <1>9, <1>11, <1>14, <1>15 DEF ResetSpent
  <1>18. RefreshSpent'
    BY <1>5, <1>14, <1>15 DEF RefreshSpent, RefreshTokensMove
  <1>19. ChallengeSpent' /\ OAuthSpent'
    BY <1>1, <1>14, <1>15 DEF ChallengeSpent, OAuthSpent
  <1>20. CodeSpent' /\ EnrollmentOK'
    BY <1>1, <1>6, <1>14, <1>15 DEF CodeSpent, EnrollmentOK, SameFactor
  <1>21. H!TypeOK'
    BY <1>1, <1>5, <1>6, <1>11, AuthTypes DEF H!TypeOK
  <1>22. QED
    BY <1>1, <1>12, <1>13, <1>16, <1>17, <1>18, <1>19, <1>20, <1>21, DoneIsOne, AuthStep DEF SpentOK

(* A callback deletes the state it was given, once.                         *)
LEMMA AuthOAuthCallback ==
  ASSUME H!HumanAuthAssumption, AuthInv, NEW p \in Procs, H!handleOAuthCallback(p)
  PROVE  AuthInv'
  <1>1. UNCHANGED <<acct, rt, resets, chals, ident, access, clock, proven>>
    BY DEF H!handleOAuthCallback
  <1>2. states \in Seq({"open", "deleted"}) /\ hReq \in [Procs -> AuthRequest] /\ acct.gen \in Nat
    BY AuthTypes DEF H!Human
  <1>3. PICK o \in DOMAIN states : H!CompleteOAuth(p, o)
    BY DEF H!handleOAuthCallback
  <1>4. PICK r \in AuthRequest : /\ hReq' = [hReq EXCEPT ![p] = r]
                                 /\ r.pc \in {"idle", "resolve"}
    <2>1. CASE H!Done(p)
      BY <2>1, IdleAuthRequest, DoneIsOne
    <2>2. CASE H!Goto(p, "resolve", 0, 0)
      BY <1>2, <2>2, GotoIsOne
    <2>3. QED
      BY <1>3, <2>1, <2>2 DEF H!CompleteOAuth, H!fetchUser
  <1>5. AuthRequestOK(p, r)' /\ \A c : ~Guessing(r, c)
    BY <1>4 DEF AuthRequestOK, Guessing
  <1>6. CASE UNCHANGED <<states, spent, doubled>>
    <2>1. H!TypeOK'
      BY <1>1, <1>6 DEF AuthInv, H!TypeOK
    <2>2. QED
      BY <1>1, <1>4, <1>5, <1>6, <2>1, AccountStays, TokensStay, RowsStay, RowsMove
  <1>7. CASE states[o] = "open" /\ H!ConsumeOAuthState(o) /\ H!Spend({<<"oauth", o>>})
    <2>1. states' = [states EXCEPT ![o] = "deleted"]
      BY <1>7 DEF H!ConsumeOAuthState
    <2>2. /\ states' \in Seq({"open", "deleted"}) /\ DOMAIN states' = DOMAIN states
          /\ states'[o] = "deleted" /\ \A j \in DOMAIN states : j # o => states'[j] = states[j]
      BY <1>2, <2>1
    <2>3. spent' = spent \cup {<<"oauth", o>>} /\ doubled' = doubled \cup ({<<"oauth", o>>} \cap spent)
      BY <1>7 DEF H!Spend
    <2>4. RefreshSpent /\ ResetSpent /\ ChallengeSpent /\ OAuthSpent /\ CodeSpent /\ EnrollmentOK /\ doubled = {}
      BY DEF AuthInv, SpentOK, H!SingleUse
    <2>5. doubled' = {}
      <3>1. <<"oauth", o>> \notin spent
        BY <1>7, <2>4 DEF OAuthSpent
      <3>2. QED
        BY <2>3, <2>4, <3>1
    <2>6. OAuthSpent'
      BY <2>2, <2>3, <2>4 DEF OAuthSpent
    <2>7. RefreshSpent' /\ ResetSpent' /\ ChallengeSpent'
      BY <1>1, <2>3, <2>4 DEF RefreshSpent, ResetSpent, ChallengeSpent
    <2>8. CodeSpent' /\ EnrollmentOK'
      BY <1>1, <2>3, <2>4 DEF CodeSpent, EnrollmentOK
    <2>9. H!TypeOK'
      BY <1>1, <2>2, AuthTypes DEF H!TypeOK
    <2>10. OthersMayRely(p)
      BY <1>1, <1>2 DEF OthersMayRely
    <2>11. GuessesMove(p, r)
      BY <1>1, <1>5 DEF GuessesMove
    <2>12. QED
      BY <1>4, <1>5, <2>5, <2>6, <2>7, <2>8, <2>9, <2>10, <2>11, AuthStep DEF SpentOK
  <1>8. QED
    BY <1>3, <1>6, <1>7 DEF H!CompleteOAuth, H!NoSpend

(* A new enrolment replaces the pending secret, never the enabled one.      *)
LEMMA AuthSetPending ==
  ASSUME H!HumanAuthAssumption, AuthInv, NEW p \in Procs, H!SetPendingMFA(p)
  PROVE  AuthInv'
  <1>1. H!Done(p) /\ UNCHANGED <<rt, resets, chals, states, ident, access, clock, spent, doubled, proven>>
    BY DEF H!SetPendingMFA, H!history
  <1>2. acct \in H!Human /\ acct.gen \in Nat
    BY AuthTypes DEF H!Human
  <1>3. CASE UNCHANGED acct
    <2>1. H!TypeOK'
      BY <1>1, <1>3 DEF AuthInv, H!TypeOK
    <2>2. QED
      BY <1>1, <1>3, <2>1, DoneIsOne, AccountStays, TokensStay, RowsStay, RowsMove
  <1>4. CASE /\ ~acct.mfa /\ acct.gen < MaxLinks
             /\ acct' = [acct EXCEPT !.gen = acct.gen + 1, !.pend = acct.gen + 1, !.codes = {acct.gen + 1}]
    <2>1. PICK n \in Nat : n = acct.gen + 1
      BY <1>2
    <2>2. n \in 1..MaxLinks /\ n > acct.gen /\ {n} \in SUBSET (1..MaxLinks)
      BY <1>2, <1>4, <2>1 DEF H!HumanAuthAssumption
    <2>3. acct' = [acct EXCEPT !.gen = n, !.pend = n, !.codes = {n}]
      BY <1>4, <2>1
    <2>4. /\ acct' \in H!Human /\ acct'.gen = n /\ acct'.pend = n /\ acct'.codes = {n}
          /\ ~acct'.mfa /\ acct'.secret = acct.secret /\ acct'.lock = acct.lock
      BY <1>2, <1>4, <2>2, <2>3 DEF H!Human
    <2>5. RefreshSpent /\ ResetSpent /\ ChallengeSpent /\ OAuthSpent /\ CodeSpent /\ EnrollmentOK /\ doubled = {}
      BY DEF AuthInv, SpentOK, H!SingleUse
    <2>6. RefreshSpent' /\ ResetSpent' /\ ChallengeSpent' /\ OAuthSpent'
      BY <1>1, <2>5 DEF RefreshSpent, ResetSpent, ChallengeSpent, OAuthSpent
    <2>7. CodeSpent'
      <3>1. SUFFICES ASSUME NEW k, NEW s, <<"totp", <<k, s>>>> \in spent
                     PROVE  /\ k \in 1..n /\ s \in {0} \cup Steps /\ k # n /\ k \notin {n}
        BY <1>1, <2>4 DEF CodeSpent
      <3>2. k \in 1..acct.gen /\ s \in {0} \cup Steps
        BY <2>5, <3>1 DEF CodeSpent
      <3>3. QED
        BY <1>2, <2>1, <3>2
    <2>8. EnrollmentOK'
      BY <2>2, <2>4 DEF EnrollmentOK
    <2>9. H!TypeOK'
      BY <1>1, <2>4, AuthTypes DEF H!TypeOK
    <2>10. OthersMayRely(p)
      BY <1>1, <1>2, <1>4, <2>2, <2>4 DEF OthersMayRely
    <2>11. GuessesMove(p, H!Idle)
      BY <1>1, DoneIsOne DEF GuessesMove
    <2>12. QED
      BY <1>1, <2>5, <2>6, <2>7, <2>8, <2>9, <2>10, <2>11, DoneIsOne, AuthStep DEF SpentOK
  <1>5. QED
    BY <1>3, <1>4 DEF H!SetPendingMFA

(* A confirmed enrollment is activated only while it is the pending one, so *)
(* its code was never honoured before.                                      *)
LEMMA AuthActivate ==
  ASSUME H!HumanAuthAssumption, AuthInv, NEW p \in Procs, H!ActivateMFA(p)
  PROVE  AuthInv'
  <1>1. H!Done(p) /\ UNCHANGED <<rt, resets, chals, states, ident, access, clock, proven>>
    BY DEF H!ActivateMFA
  <1>2. acct \in H!Human /\ acct.gen \in Nat /\ acct.pend \in Nat /\ acct.step \in {0} \cup Steps
    BY AuthTypes DEF H!Human
  <1>3. PICK o \in AuthRequest : o = hReq[p]
    BY AuthTypes
  <1>4. o.v \in proven /\ o.v # 0 /\ o.code[1] = o.v /\ o.code[2] \in Steps /\ o.code \in Nat \X Nat
    <2>1. o.pc = "activate" /\ AuthRequestOK(p, o)
      BY <1>3 DEF H!ActivateMFA, AuthInv, AuthRequestsOK
    <2>2. QED
      BY <2>1 DEF AuthRequestOK, AuthRequest
  <1>5. CASE UNCHANGED <<acct, spent, doubled>>
    <2>1. H!TypeOK'
      BY <1>1, <1>5 DEF AuthInv, H!TypeOK
    <2>2. QED
      BY <1>1, <1>5, <2>1, DoneIsOne, AccountStays, TokensStay, RowsStay, RowsMove
  <1>6. CASE /\ ~acct.mfa /\ acct.pend = o.v
             /\ acct' = [acct EXCEPT !.mfa = TRUE, !.secret = acct.pend, !.pend = 0, !.step = o.code[2]]
             /\ H!Spend({<<"totp", o.code>>})
    <2>1. PICK n \in Nat, u \in Steps : n = acct.pend /\ u = o.code[2]
      BY <1>2, <1>4
    <2>2. o.code = <<n, u>>
      BY <1>4, <1>6, <2>1
    <2>3. u \in Nat /\ u # 0 /\ u \in {0} \cup Steps
      BY DEF H!HumanAuthAssumption
    <2>4. acct' = [acct EXCEPT !.mfa = TRUE, !.secret = n, !.pend = 0, !.step = u]
      BY <1>6, <2>1
    <2>5. /\ acct' \in H!Human /\ acct'.mfa /\ acct'.secret = n /\ acct'.pend = 0 /\ acct'.step = u
          /\ acct'.gen = acct.gen /\ acct'.codes = acct.codes /\ acct'.lock = acct.lock
      BY <1>2, <2>3, <2>4 DEF H!Human
    <2>6. RefreshSpent /\ ResetSpent /\ ChallengeSpent /\ OAuthSpent /\ CodeSpent /\ EnrollmentOK /\ doubled = {}
      BY DEF AuthInv, SpentOK, H!SingleUse
    <2>7. n \in 1..acct.gen /\ n \in proven
      BY <1>2, <1>4, <1>6, <2>1, <2>6 DEF EnrollmentOK
    <2>8. /\ spent' = spent \cup {<<"totp", <<n, u>>>>}
          /\ doubled' = doubled \cup ({<<"totp", <<n, u>>>>} \cap spent)
      BY <1>6, <2>2 DEF H!Spend
    <2>9. doubled' = {}
      <3>1. <<"totp", <<n, u>>>> \notin spent
        BY <2>1, <2>6 DEF CodeSpent
      <3>2. QED
        BY <2>6, <2>8, <3>1
    <2>10. RefreshSpent' /\ ResetSpent' /\ ChallengeSpent' /\ OAuthSpent'
      BY <1>1, <2>6, <2>8 DEF RefreshSpent, ResetSpent, ChallengeSpent, OAuthSpent
    <2>11. CodeSpent'
      <3>1. SUFFICES ASSUME NEW k, NEW s, <<"totp", <<k, s>>>> \in spent'
                     PROVE  /\ k \in 1..acct.gen /\ s \in {0} \cup Steps
                            /\ s \in Steps => k # 0
                            /\ (s \in Steps /\ k = n) => s <= u
                            /\ s = 0 => k \notin acct.codes
        BY <2>5 DEF CodeSpent
      <3>2. CASE <<"totp", <<k, s>>>> \in spent
        <4>1. /\ k \in 1..acct.gen /\ s \in {0} \cup Steps
              /\ s \in Steps => k # n
              /\ s = 0 => k \notin acct.codes
          BY <2>1, <2>6, <3>2 DEF CodeSpent
        <4>2. k # 0
          BY <4>1, <1>2
        <4>3. QED
          BY <4>1, <4>2
      <3>3. CASE k = n /\ s = u
        BY <2>3, <2>7, <3>3
      <3>4. QED
        BY <2>8, <3>1, <3>2, <3>3
    <2>12. EnrollmentOK'
      BY <1>1, <1>2, <2>5, <2>6, <2>7 DEF EnrollmentOK
    <2>13. H!TypeOK'
      BY <1>1, <2>5, AuthTypes DEF H!TypeOK
    <2>14. OthersMayRely(p)
      BY <1>1, <1>2, <1>6, <2>5 DEF OthersMayRely
    <2>15. GuessesMove(p, H!Idle)
      BY <1>1, DoneIsOne DEF GuessesMove
    <2>16. QED
      BY <1>1, <2>9, <2>10, <2>11, <2>12, <2>13, <2>14, <2>15, DoneIsOne, AuthStep DEF SpentOK
  <1>7. QED
    BY <1>3, <1>5, <1>6 DEF H!ActivateMFA, H!NoSpend

(* Disabling MFA takes every challenge with it: a code checked against the  *)
(* old secret can no longer be honoured.                                    *)
LEMMA AuthDeleteMFA ==
  ASSUME H!HumanAuthAssumption, AuthInv, NEW p \in Procs, H!DeleteMFA(p)
  PROVE  AuthInv'
  <1>1. H!Done(p) /\ UNCHANGED <<rt, resets, states, ident, access, clock, spent, doubled, proven>>
    BY DEF H!DeleteMFA, H!history
  <1>2. acct \in H!Human /\ chals \in Seq(H!MFAChallenge) /\ acct.gen \in Nat
    BY AuthTypes DEF H!Human
  <1>3. acct' = [acct EXCEPT !.mfa = FALSE, !.secret = 0, !.pend = 0, !.step = 0, !.codes = {}]
    BY DEF H!DeleteMFA
  <1>4. /\ acct' \in H!Human /\ ~acct'.mfa /\ acct'.pend = 0 /\ acct'.codes = {}
        /\ acct'.gen = acct.gen /\ acct'.lock = acct.lock
    BY <1>2, <1>3 DEF H!Human
  <1>5. chals' = [c \in DOMAIN chals |-> [chals[c] EXCEPT !.gone = TRUE]]
    BY DEF H!DeleteMFA
  <1>6. DOMAIN chals' = DOMAIN chals /\ DOMAIN chals = 1..Len(chals) /\ Len(chals) \in Nat
    BY <1>2, <1>5
  <1>7. ASSUME NEW c \in DOMAIN chals
        PROVE  /\ chals'[c] \in H!MFAChallenge /\ chals'[c].gone
               /\ chals'[c].fails = chals[c].fails /\ chals'[c].used = chals[c].used
    <2>1. PICK t \in H!MFAChallenge : t = chals[c]
      BY <1>2
    <2>2. chals'[c] = [t EXCEPT !.gone = TRUE]
      BY <1>5, <2>1
    <2>3. QED
      BY <2>1, <2>2 DEF H!MFAChallenge
  <1>8. chals' \in Seq(H!MFAChallenge)
    <2>1. chals' = [c \in 1..Len(chals) |-> chals'[c]]
      BY <1>5, <1>6
    <2>2. QED
      BY <1>6, <1>7, <2>1
  <1>9. RefreshSpent /\ ResetSpent /\ ChallengeSpent /\ OAuthSpent /\ CodeSpent /\ EnrollmentOK /\ doubled = {}
    BY DEF AuthInv, SpentOK, H!SingleUse
  <1>10. RefreshSpent' /\ ResetSpent' /\ OAuthSpent'
    BY <1>1, <1>9 DEF RefreshSpent, ResetSpent, OAuthSpent
  <1>11. ChallengeSpent'
    BY <1>1, <1>6, <1>7, <1>9 DEF ChallengeSpent
  <1>12. CodeSpent'
    <2>1. SUFFICES ASSUME NEW k, NEW s, <<"totp", <<k, s>>>> \in spent
                   PROVE  /\ k \in 1..acct.gen /\ s \in {0} \cup Steps /\ k # 0
      BY <1>1, <1>4 DEF CodeSpent
    <2>2. QED
      BY <1>2, <1>9, <2>1 DEF CodeSpent
  <1>13. EnrollmentOK'
    BY <1>2, <1>4, <1>9 DEF EnrollmentOK
  <1>14. H!TypeOK'
    BY <1>1, <1>4, <1>8, AuthTypes DEF H!TypeOK
  <1>15. OthersMayRely(p)
    BY <1>1, <1>2, <1>4, <1>6, <1>7 DEF OthersMayRely
  <1>16. GuessesMove(p, H!Idle)
    BY <1>1, <1>6, <1>7, DoneIsOne DEF GuessesMove
  <1>17. QED
    BY <1>1, <1>9, <1>10, <1>11, <1>12, <1>13, <1>14, <1>15, <1>16, DoneIsOne, AuthStep DEF SpentOK

(* Time steps are numbers, the never-used one included.                     *)
LEMMA StepsAreNumbers == ASSUME H!HumanAuthAssumption PROVE \A s \in {0} \cup Steps : s \in Nat
  BY DEF H!HumanAuthAssumption

(* A challenge and its factor are consumed together.  The challenge is      *)
(* unused, the TOTP step is ahead of every one honoured for the secret in   *)
(* force, and that secret is the one the code was checked against.          *)
LEMMA AuthComplete ==
  ASSUME H!HumanAuthAssumption, AuthInv, NEW p \in Procs, H!CompleteMFAChallenge(p)
  PROVE  AuthInv'
  <1>1. UNCHANGED <<rt, resets, states, ident, access, proven>>
    BY DEF H!CompleteMFAChallenge
  <1>2. /\ acct \in H!Human /\ chals \in Seq(H!MFAChallenge) /\ acct.gen \in Nat /\ clock \in Nat
        /\ acct.step \in {0} \cup Steps /\ acct.codes \in SUBSET (1..MaxLinks)
        /\ hReq \in [Procs -> AuthRequest]
    BY AuthTypes DEF H!Human
  <1>3. PICK o \in AuthRequest : o = hReq[p]
    BY <1>2
  <1>4. o.pc = "complete" /\ AuthRequestOK(p, o)
    BY <1>3 DEF H!CompleteMFAChallenge, AuthInv, AuthRequestsOK
  <1>5. PICK c, k, s : c = o.i /\ k = o.code[1] /\ s = o.code[2]
    OBVIOUS
  <1>6. /\ c \in DOMAIN chals /\ k \in 0..acct.gen /\ s \in {0} \cup Steps
        /\ (s \in Steps /\ ~chals[c].gone) => (acct.mfa /\ acct.secret = k)
        /\ c \in Nat /\ k \in Nat /\ s \in Nat
    <2>1. /\ c \in DOMAIN chals /\ k \in 0..acct.gen /\ s \in {0} \cup Steps
          /\ (s \in Steps /\ ~chals[c].gone) => (acct.mfa /\ acct.secret = k)
      BY <1>4, <1>5 DEF AuthRequestOK
    <2>2. QED
      BY <1>2, <2>1 DEF H!HumanAuthAssumption
  <1>7. CASE H!Goto(p, "mfafail", c, 0) /\ UNCHANGED <<spent, doubled, acct, chals, clock>>
    <2>1. H!TypeOK'
      BY <1>1, <1>7 DEF AuthInv, H!TypeOK
    <2>2. PICK r \in AuthRequest : hReq' = [hReq EXCEPT ![p] = r] /\ r.pc = "mfafail" /\ r.i = c
      BY <1>2, <1>6, <1>7, GotoIsOne
    <2>3. AuthRequestOK(p, r)
      BY <1>6, <2>2 DEF AuthRequestOK
    <2>4. \A d \in DOMAIN chals : Guessing(r, d) => Guessing(hReq[p], d)
      BY <1>3, <1>4, <1>5, <2>2 DEF Guessing
    <2>5. QED
      BY <1>1, <1>6, <1>7, <2>1, <2>2, <2>3, <2>4, OnlyAuthRequestMoves
  <1>8. CASE /\ H!Challengeable(c)
             /\ IF s \in Steps THEN acct.mfa /\ acct.step < s ELSE k \in acct.codes
             /\ chals' = [chals EXCEPT ![c].used = TRUE]
             /\ acct' = IF s \in Steps THEN [acct EXCEPT !.step = s]
                        ELSE [acct EXCEPT !.codes = acct.codes \ {k}]
             /\ H!Spend({<<"mfa", c>>, <<"totp", <<k, s>>>>})
             /\ clock' = clock + 1
             /\ hReq' = [hReq EXCEPT ![p] = [hReq[p] EXCEPT !.pc = "session", !.at = clock + 1]]
    <2>1. ~chals[c].gone /\ ~chals[c].used
      BY <1>8 DEF H!Challengeable
    <2>2. PICK t \in H!MFAChallenge : t = chals[c]
      BY <1>2, <1>6
    <2>3. PICK w : w = [t EXCEPT !.used = TRUE]
      OBVIOUS
    <2>4. w \in H!MFAChallenge /\ w.used /\ w.fails = t.fails /\ w.gone = t.gone
      BY <2>3 DEF H!MFAChallenge
    <2>5. chals' = [chals EXCEPT ![c] = w]
      BY <1>8, <2>2, <2>3
    <2>6. /\ chals' \in Seq(H!MFAChallenge) /\ DOMAIN chals' = DOMAIN chals
          /\ chals'[c] = w /\ \A j \in DOMAIN chals : j # c => chals'[j] = chals[j]
      BY <1>2, <1>6, <2>4, <2>5
    <2>7. /\ acct' \in H!Human
          /\ acct'.gen = acct.gen /\ acct'.pend = acct.pend /\ acct'.mfa = acct.mfa
          /\ acct'.secret = acct.secret /\ acct'.lock = acct.lock
          /\ s \in Steps => acct'.step = s /\ acct'.codes = acct.codes
          /\ s \notin Steps => acct'.step = acct.step /\ acct'.codes = acct.codes \ {k}
      <3>1. CASE s \in Steps
        <4>1. acct' = [acct EXCEPT !.step = s]
          BY <1>8, <3>1
        <4>2. QED
          BY <1>2, <3>1, <4>1 DEF H!Human
      <3>2. CASE s \notin Steps
        <4>1. PICK left \in SUBSET (1..MaxLinks) : left = acct.codes \ {k}
          BY <1>2
        <4>2. acct' = [acct EXCEPT !.codes = left]
          BY <1>8, <3>2, <4>1
        <4>3. QED
          BY <1>2, <3>2, <4>1, <4>2 DEF H!Human
      <3>3. QED
        BY <3>1, <3>2
    <2>8. RefreshSpent /\ ResetSpent /\ ChallengeSpent /\ OAuthSpent /\ CodeSpent /\ EnrollmentOK /\ doubled = {}
      BY DEF AuthInv, SpentOK, H!SingleUse
    <2>9. /\ spent' = spent \cup {<<"mfa", c>>, <<"totp", <<k, s>>>>}
          /\ doubled' = doubled \cup ({<<"mfa", c>>, <<"totp", <<k, s>>>>} \cap spent)
      BY <1>8 DEF H!Spend
    <2>10. /\ s \in Steps => acct.mfa /\ acct.secret = k /\ acct.step < s
           /\ s \notin Steps => s = 0 /\ k \in acct.codes
      BY <1>6, <1>8, <2>1
    <2>11. k \in 1..acct.gen
      BY <2>8, <2>10 DEF EnrollmentOK
    <2>12. doubled' = {}
      <3>1. <<"mfa", c>> \notin spent
        BY <2>1, <2>8 DEF ChallengeSpent
      <3>2. <<"totp", <<k, s>>>> \notin spent
        <4>1. ASSUME <<"totp", <<k, s>>>> \in spent PROVE FALSE
          <5>1. /\ (s \in Steps /\ acct.mfa /\ k = acct.secret) => s <= acct.step
                /\ s = 0 => k \notin acct.codes
            BY <2>8, <4>1 DEF CodeSpent
          <5>2. acct.step \in Nat
            BY <1>2, StepsAreNumbers
          <5>3. QED
            BY <1>6, <2>10, <5>1, <5>2
        <4>2. QED
          BY <4>1
      <3>3. QED
        BY <2>8, <2>9, <3>1, <3>2
    <2>13. RefreshSpent' /\ ResetSpent' /\ OAuthSpent'
      BY <1>1, <2>8, <2>9 DEF RefreshSpent, ResetSpent, OAuthSpent
    <2>14. ChallengeSpent'
      <3>1. ASSUME NEW d, <<"mfa", d>> \in spent' PROVE d \in DOMAIN chals' /\ chals'[d].used
        <4>1. CASE d = c
          BY <1>6, <2>4, <2>6, <4>1
        <4>2. CASE d # c
          <5>1. <<"mfa", d>> \in spent
            BY <2>9, <3>1, <4>2
          <5>2. QED
            BY <2>6, <2>8, <4>2, <5>1 DEF ChallengeSpent
        <4>3. QED
          BY <4>1, <4>2
      <3>2. QED
        BY <3>1 DEF ChallengeSpent
    <2>15. CodeSpent'
      <3>1. SUFFICES ASSUME NEW k2, NEW s2, <<"totp", <<k2, s2>>>> \in spent'
                     PROVE  /\ k2 \in 1..acct.gen /\ s2 \in {0} \cup Steps
                            /\ s2 \in Steps => k2 # acct.pend
                            /\ (s2 \in Steps /\ acct.mfa /\ k2 = acct.secret) => s2 <= acct'.step
                            /\ s2 = 0 => k2 \notin acct'.codes
        BY <2>7 DEF CodeSpent
      <3>2. acct'.codes \subseteq acct.codes /\ acct.step <= acct'.step /\ acct'.step \in Nat /\ acct.step \in Nat
        <4>1. acct.step \in Nat /\ acct'.step \in Nat
          <5>1. acct'.step \in {0} \cup Steps
            BY <1>2, <1>6, <2>7
          <5>2. QED
            BY <1>2, <5>1, StepsAreNumbers
        <4>2. acct.step <= acct'.step
          BY <1>6, <2>7, <2>10, <4>1
        <4>3. acct'.codes \subseteq acct.codes
          BY <2>7
        <4>4. QED
          BY <4>1, <4>2, <4>3
      <3>3. CASE <<"totp", <<k2, s2>>>> \in spent
        <4>1. /\ k2 \in 1..acct.gen /\ s2 \in {0} \cup Steps
              /\ s2 \in Steps => k2 # acct.pend
              /\ (s2 \in Steps /\ acct.mfa /\ k2 = acct.secret) => s2 <= acct.step
              /\ s2 = 0 => k2 \notin acct.codes
          BY <2>8, <3>3 DEF CodeSpent
        <4>2. s2 \in Nat
          BY <4>1, StepsAreNumbers
        <4>3. QED
          BY <3>2, <4>1, <4>2
      <3>4. CASE k2 = k /\ s2 = s
        <4>1. 0 \notin Steps
          BY DEF H!HumanAuthAssumption
        <4>2. CASE s \in Steps
          <5>1. acct.pend = 0 /\ k # 0
            BY <1>2, <2>8, <2>10, <2>11, <4>2 DEF EnrollmentOK
          <5>2. QED
            BY <1>6, <2>7, <2>11, <3>4, <4>1, <4>2, <5>1
        <4>3. CASE s \notin Steps
          BY <1>6, <2>7, <2>11, <3>4, <4>3
        <4>4. QED
          BY <4>2, <4>3
      <3>5. QED
        BY <2>9, <3>1, <3>3, <3>4
    <2>16. EnrollmentOK'
      BY <1>1, <2>7, <2>8 DEF EnrollmentOK
    <2>17. PICK n \in Nat : n = clock + 1
      BY <1>2
    <2>18. PICK r : r = [o EXCEPT !.pc = "session", !.at = n]
      OBVIOUS
    <2>19. r \in AuthRequest /\ r.pc = "session"
      BY <2>18 DEF AuthRequest
    <2>20. hReq' = [hReq EXCEPT ![p] = r] /\ clock' = n
      BY <1>3, <1>8, <2>17, <2>18
    <2>21. AuthRequestOK(p, r)' /\ \A d : ~Guessing(r, d)
      BY <2>19 DEF AuthRequestOK, Guessing
    <2>22. H!TypeOK'
      BY <1>1, <2>6, <2>7, <2>17, <2>20, AuthTypes DEF H!TypeOK
    <2>23. OthersMayRely(p)
      BY <1>1, <1>2, <2>2, <2>4, <2>6, <2>7 DEF OthersMayRely
    <2>24. GuessesMove(p, r)
      BY <2>2, <2>4, <2>6, <2>21 DEF GuessesMove
    <2>25. QED
      BY <2>12, <2>13, <2>14, <2>15, <2>16, <2>19, <2>20, <2>21, <2>22, <2>23, <2>24, <2>8, AuthStep DEF SpentOK
  <1>9. QED
    <2>1. \/ H!Goto(p, "mfafail", c, 0) /\ H!NoSpend /\ UNCHANGED <<acct, chals, clock>>
          \/ <1>8!1
      BY <1>3, <1>5 DEF H!CompleteMFAChallenge
    <2>2. QED
      BY <1>7, <1>8, <2>1 DEF H!NoSpend

(* Recording a wrong code uses up one of the guesses that were left.        *)
LEMMA AuthGuessFails ==
  ASSUME H!HumanAuthAssumption, AuthInv, NEW p \in Procs, H!RecordMFAChallengeFailure(p)
  PROVE  AuthInv'
  <1>1. H!Done(p) /\ UNCHANGED <<acct, rt, resets, states, ident, access, clock, spent, doubled, proven>>
    BY DEF H!RecordMFAChallengeFailure, H!history
  <1>2. chals \in Seq(H!MFAChallenge) /\ acct.gen \in Nat /\ MFAChallengeMaxAttempts \in Nat
    BY AuthTypes DEF H!Human, H!HumanAuthAssumption
  <1>3. PICK c : c = hReq[p].i
    OBVIOUS
  <1>4. c \in DOMAIN chals /\ Guessing(hReq[p], c)
    <2>1. hReq[p].pc = "mfafail" /\ AuthRequestOK(p, hReq[p])
      BY DEF H!RecordMFAChallengeFailure, AuthInv, AuthRequestsOK
    <2>2. QED
      BY <1>3, <2>1 DEF AuthRequestOK, Guessing
  <1>5. PICK t \in H!MFAChallenge : t = chals[c]
    BY <1>2, <1>4
  <1>6. PICK n \in Nat, u \in BOOLEAN : n = t.fails + 1 /\ u = (t.used \/ n >= MFAChallengeMaxAttempts)
    <2>1. t.fails \in Nat
      BY DEF H!MFAChallenge
    <2>2. PICK n \in Nat : n = t.fails + 1
      BY <2>1
    <2>3. (t.used \/ n >= MFAChallengeMaxAttempts) \in BOOLEAN
      BY Zenon
    <2>4. QED
      BY <2>2, <2>3
  <1>7. PICK w : w = [t EXCEPT !.fails = n, !.used = u]
    OBVIOUS
  <1>8. w \in H!MFAChallenge /\ w.fails = n /\ w.used = u /\ w.gone = t.gone
    BY <1>7 DEF H!MFAChallenge
  <1>9. chals' = [chals EXCEPT ![c] = w]
    <2>1. chals' = [chals EXCEPT ![c].fails = chals[c].fails + 1,
                                 ![c].used = chals[c].used \/ chals[c].fails + 1 >= MFAChallengeMaxAttempts]
      BY <1>2, <1>3, <1>4 DEF H!RecordMFAChallengeFailure
    <2>2. QED
      BY <1>2, <1>4, <1>5, <1>6, <1>7, <2>1
  <1>10. /\ chals' \in Seq(H!MFAChallenge) /\ DOMAIN chals' = DOMAIN chals
         /\ chals'[c] = w /\ \A j \in DOMAIN chals : j # c => chals'[j] = chals[j]
    BY <1>2, <1>4, <1>8, <1>9
  <1>11. H!TypeOK'
    BY <1>1, <1>10, AuthTypes DEF H!TypeOK
  <1>12. GuessesLeft'
    <2>1. chals'[c].fails = chals[c].fails + 1 /\ (chals'[c].used \/ chals'[c].fails < MFAChallengeMaxAttempts)
      <3>1. n >= MFAChallengeMaxAttempts \/ n < MFAChallengeMaxAttempts
        BY <1>2
      <3>2. u \/ n < MFAChallengeMaxAttempts
        BY <1>6, <3>1, Zenon
      <3>3. QED
        BY <1>5, <1>6, <1>8, <1>10, <3>2
    <2>2. hReq' = [hReq EXCEPT ![p] = H!Idle]
      BY <1>1 DEF H!Done
    <2>3. QED
      BY <1>4, <1>10, <2>1, <2>2, GuessCounted DEF AuthInv
  <1>13. OthersMayRely(p)
    BY <1>1, <1>2, <1>5, <1>8, <1>10 DEF OthersMayRely
  <1>14. AuthRequestsOK'
    BY <1>1, <1>11, <1>13, DoneIsOne, AuthRequestsMove DEF AuthInv
  <1>15. RefreshSpent /\ ResetSpent /\ ChallengeSpent /\ OAuthSpent /\ CodeSpent /\ EnrollmentOK /\ doubled = {}
    BY DEF AuthInv, SpentOK, H!SingleUse
  <1>16. RefreshSpent' /\ ResetSpent' /\ OAuthSpent' /\ CodeSpent' /\ EnrollmentOK'
    BY <1>1, <1>15 DEF RefreshSpent, ResetSpent, OAuthSpent, CodeSpent, EnrollmentOK
  <1>17. ChallengeSpent'
    BY <1>1, <1>5, <1>6, <1>8, <1>10, <1>15 DEF ChallengeSpent
  <1>18. QED
    BY <1>1, <1>11, <1>12, <1>14, <1>15, <1>16, <1>17 DEF AuthInv, SpentOK, H!SingleUse

(* A TTL running out changes nothing a handler or a spent credential        *)
(* depends on.                                                              *)
LEMMA AuthExpire ==
  ASSUME H!HumanAuthAssumption, AuthInv, H!Expire
  PROVE  AuthInv'
  <1>1. UNCHANGED <<acct, ident, hReq, clock, spent, doubled, proven>>
    BY DEF H!Expire, H!history
  <1>2. /\ rt \in Seq(H!RefreshToken) /\ resets \in Seq(H!PasswordResetToken)
        /\ chals \in Seq(H!MFAChallenge) /\ states \in Seq({"open", "deleted"}) /\ access \in BOOLEAN
    BY AuthTypes
  <1>3. /\ rt' \in Seq(H!RefreshToken) /\ DOMAIN rt' = DOMAIN rt
        /\ \A i \in DOMAIN rt : rt'[i].lock = rt[i].lock /\ rt'[i].revoked = rt[i].revoked
    <2>1. CASE rt' = rt
      BY <1>2, <2>1
    <2>2. CASE \E i \in DOMAIN rt : rt' = [rt EXCEPT ![i].old = TRUE]
      <3>1. PICK i \in DOMAIN rt : rt' = [rt EXCEPT ![i].old = TRUE]
        BY <2>2
      <3>2. PICK t \in H!RefreshToken : t = rt[i]
        BY <1>2
      <3>3. PICK w : w = [t EXCEPT !.old = TRUE]
        OBVIOUS
      <3>4. w \in H!RefreshToken /\ w.lock = t.lock /\ w.revoked = t.revoked
        BY <3>3 DEF H!RefreshToken
      <3>5. rt' = [rt EXCEPT ![i] = w]
        BY <3>1, <3>2, <3>3
      <3>6. rt' \in Seq(H!RefreshToken) /\ DOMAIN rt' = DOMAIN rt /\ rt'[i] = w
            /\ \A j \in DOMAIN rt : j # i => rt'[j] = rt[j]
        BY <1>2, <3>4, <3>5
      <3>7. QED
        BY <3>2, <3>4, <3>6
    <2>3. QED
      BY <2>1, <2>2 DEF H!Expire
  <1>4. /\ resets' \in Seq(H!PasswordResetToken) /\ DOMAIN resets' = DOMAIN resets
        /\ \A i \in DOMAIN resets : resets'[i].used = resets[i].used
    <2>1. CASE resets' = resets
      BY <1>2, <2>1
    <2>2. CASE \E i \in DOMAIN resets : resets' = [resets EXCEPT ![i].old = TRUE]
      <3>1. PICK i \in DOMAIN resets : resets' = [resets EXCEPT ![i].old = TRUE]
        BY <2>2
      <3>2. PICK t \in H!PasswordResetToken : t = resets[i]
        BY <1>2
      <3>3. PICK w : w = [t EXCEPT !.old = TRUE]
        OBVIOUS
      <3>4. w \in H!PasswordResetToken /\ w.used = t.used
        BY <3>3 DEF H!PasswordResetToken
      <3>5. resets' = [resets EXCEPT ![i] = w]
        BY <3>1, <3>2, <3>3
      <3>6. resets' \in Seq(H!PasswordResetToken) /\ DOMAIN resets' = DOMAIN resets /\ resets'[i] = w
            /\ \A j \in DOMAIN resets : j # i => resets'[j] = resets[j]
        BY <1>2, <3>4, <3>5
      <3>7. QED
        BY <3>2, <3>4, <3>6
    <2>3. QED
      BY <2>1, <2>2 DEF H!Expire
  <1>5. /\ chals' \in Seq(H!MFAChallenge) /\ DOMAIN chals' = DOMAIN chals
        /\ \A i \in DOMAIN chals : /\ chals'[i].used = chals[i].used /\ chals'[i].gone = chals[i].gone
                                   /\ chals'[i].fails = chals[i].fails
    <2>1. CASE chals' = chals
      BY <1>2, <2>1
    <2>2. CASE \E i \in DOMAIN chals : chals' = [chals EXCEPT ![i].old = TRUE]
      <3>1. PICK i \in DOMAIN chals : chals' = [chals EXCEPT ![i].old = TRUE]
        BY <2>2
      <3>2. PICK t \in H!MFAChallenge : t = chals[i]
        BY <1>2
      <3>3. PICK w : w = [t EXCEPT !.old = TRUE]
        OBVIOUS
      <3>4. w \in H!MFAChallenge /\ w.used = t.used /\ w.gone = t.gone /\ w.fails = t.fails
        BY <3>3 DEF H!MFAChallenge
      <3>5. chals' = [chals EXCEPT ![i] = w]
        BY <3>1, <3>2, <3>3
      <3>6. chals' \in Seq(H!MFAChallenge) /\ DOMAIN chals' = DOMAIN chals /\ chals'[i] = w
            /\ \A j \in DOMAIN chals : j # i => chals'[j] = chals[j]
        BY <1>2, <3>4, <3>5
      <3>7. QED
        BY <3>2, <3>4, <3>6
    <2>3. QED
      BY <2>1, <2>2 DEF H!Expire
  <1>6. /\ states' \in Seq({"open", "deleted"}) /\ DOMAIN states' = DOMAIN states
        /\ \A i \in DOMAIN states : states[i] = "deleted" => states'[i] = "deleted"
    <2>1. CASE states' = states
      BY <1>2, <2>1
    <2>2. CASE \E i \in DOMAIN states : states' = [states EXCEPT ![i] = "deleted"]
      BY <1>2, <2>2
    <2>3. QED
      BY <2>1, <2>2 DEF H!Expire
  <1>7. H!TypeOK'
    <2>1. access' \in BOOLEAN
      BY <1>2 DEF H!Expire
    <2>2. QED
      BY <1>1, <1>3, <1>4, <1>5, <1>6, <2>1, AuthTypes DEF H!TypeOK
  <1>8. AuthRequestsOK'
    <2>1. hReq \in [Procs -> AuthRequest] /\ \A p \in Procs : AuthRequestOK(p, hReq[p])
      BY DEF AuthInv, AuthRequestsOK
    <2>2. ASSUME NEW p \in Procs, NEW r, AuthRequestOK(p, r) PROVE AuthRequestOK(p, r)'
      BY <1>1, <1>3, <1>4, <1>5, <2>2 DEF AuthRequestOK
    <2>3. ASSUME NEW p \in Procs PROVE AuthRequestOK(p, hReq[p])'
      <3>1. PICK r : r = hReq[p]
        OBVIOUS
      <3>2. AuthRequestOK(p, r)'
        BY <2>1, <2>2, <3>1
      <3>3. r = hReq'[p]
        BY <1>1, <3>1
      <3>4. QED
        BY <3>2, <3>3 DEF AuthRequestOK
    <2>4. QED
      BY <1>1, <2>1, <2>3 DEF AuthRequestsOK
  <1>9. GuessesLeft'
    <2>1. \A c : Guessers(c)' = Guessers(c)
      BY <1>1 DEF Guessers, Guessing
    <2>2. GuessesLeft
      BY DEF AuthInv
    <2>3. QED
      BY <1>5, <2>1, <2>2 DEF GuessesLeft
  <1>10. RefreshSpent /\ ResetSpent /\ ChallengeSpent /\ OAuthSpent /\ CodeSpent /\ EnrollmentOK /\ doubled = {}
    BY DEF AuthInv, SpentOK, H!SingleUse
  <1>11. RefreshSpent' /\ ResetSpent' /\ ChallengeSpent' /\ OAuthSpent'
    BY <1>1, <1>3, <1>4, <1>5, <1>6, <1>10 DEF RefreshSpent, ResetSpent, ChallengeSpent, OAuthSpent
  <1>12. CodeSpent' /\ EnrollmentOK'
    BY <1>1, <1>10 DEF CodeSpent, EnrollmentOK
  <1>13. QED
    BY <1>1, <1>7, <1>8, <1>9, <1>10, <1>11, <1>12 DEF AuthInv, SpentOK, H!SingleUse

(* The invariant holds of a fresh account.                                  *)
LEMMA AuthInit == ASSUME H!HumanAuthAssumption PROVE H!Init => AuthInv
  <1> SUFFICES ASSUME H!Init PROVE AuthInv
    OBVIOUS
  <1>1. /\ resets = <<>> /\ chals = <<>> /\ states = <<>> /\ ident = FALSE
        /\ hReq = [p \in Procs |-> H!Idle] /\ clock = 0 /\ doubled = {}
    BY DEF H!Init
  <1>2. rt \in Seq(H!RefreshToken) /\ access \in BOOLEAN
    <2>1. rt \in {<<>>, <<H!NewToken>>} /\ access \in BOOLEAN
      BY DEF H!Init
    <2>2. <<>> \in Seq(H!RefreshToken) /\ <<H!NewToken>> \in Seq(H!RefreshToken)
      BY NewTokenIsOne
    <2>3. QED
      BY <2>1, <2>2
  <1>3. H!NoHuman \in H!Human /\ H!NoHuman.gen = 0 /\ H!NoHuman.codes = {} /\ H!NoHuman.pend = 0 /\ ~H!NoHuman.mfa
    BY DEF H!NoHuman, H!Human
  <1>4. /\ H!SignedUp \in H!Human /\ H!SignedUp.gen = 0 /\ H!SignedUp.codes = {} /\ H!SignedUp.pend = 0
        /\ ~H!SignedUp.mfa
    BY <1>3 DEF H!SignedUp, H!Human
  <1>5. \/ /\ acct \in {H!NoHuman, H!SignedUp} /\ spent = {}
        \/ \E s \in Steps :
             /\ acct = [H!SignedUp EXCEPT !.mfa = TRUE, !.secret = 1, !.gen = 1, !.codes = {1}, !.step = s]
             /\ spent = {<<"totp", <<1, s>>>>} /\ proven = {1}
    BY DEF H!Init
  <1>6. /\ acct \in H!Human /\ EnrollmentOK /\ CodeSpent
        /\ \A i : /\ <<"refresh", i>> \notin spent /\ <<"reset", i>> \notin spent
                  /\ <<"mfa", i>> \notin spent /\ <<"oauth", i>> \notin spent
    <2>1. CASE acct \in {H!NoHuman, H!SignedUp} /\ spent = {}
      <3>1. acct \in H!Human /\ acct.gen = 0 /\ acct.codes = {} /\ acct.pend = 0 /\ ~acct.mfa
        BY <1>3, <1>4, <2>1
      <3>2. QED
        BY <2>1, <3>1 DEF EnrollmentOK, CodeSpent, H!HumanAuthAssumption
    <2>2. ASSUME NEW s \in Steps,
                 acct = [H!SignedUp EXCEPT !.mfa = TRUE, !.secret = 1, !.gen = 1, !.codes = {1}, !.step = s],
                 spent = {<<"totp", <<1, s>>>>}, proven = {1}
          PROVE  <1>6!:
      <3>1. {1} \in SUBSET (1..MaxLinks) /\ s \in {0} \cup Steps /\ s \in Nat /\ s # 0
        BY DEF H!HumanAuthAssumption
      <3>2. /\ acct \in H!Human /\ acct.mfa /\ acct.secret = 1 /\ acct.gen = 1 /\ acct.codes = {1}
            /\ acct.step = s /\ acct.pend = 0
        BY <1>4, <2>2, <3>1 DEF H!Human
      <3>3. EnrollmentOK
        BY <2>2, <3>1, <3>2 DEF EnrollmentOK, H!HumanAuthAssumption
      <3>4. CodeSpent
        BY <2>2, <3>1, <3>2 DEF CodeSpent
      <3>5. QED
        BY <2>2, <3>2, <3>3, <3>4
    <2>3. QED
      BY <1>5, <2>1, <2>2
  <1>7. SpentOK
    BY <1>6 DEF SpentOK, RefreshSpent, ResetSpent, ChallengeSpent, OAuthSpent
  <1>8. H!TypeOK
    <2>1. /\ resets \in Seq(H!PasswordResetToken) /\ chals \in Seq(H!MFAChallenge)
          /\ states \in Seq({"open", "deleted"})
      BY <1>1
    <2>2. ident \in BOOLEAN /\ clock \in Nat
      BY <1>1
    <2>3. QED
      BY <1>2, <1>6, <2>1, <2>2 DEF H!TypeOK
  <1>9. AuthRequestsOK
    BY <1>1, IdleAuthRequest DEF AuthRequestsOK, AuthRequestOK
  <1>10. GuessesLeft
    BY <1>1 DEF GuessesLeft
  <1>11. QED
    BY <1>1, <1>6, <1>7, <1>8, <1>9, <1>10 DEF AuthInv, H!SingleUse

(* Every step of the authentication handlers keeps the invariant.           *)
LEMMA AuthNext == ASSUME H!HumanAuthAssumption PROVE AuthInv /\ [H!Next]_(H!vars) => AuthInv'
  <1> SUFFICES ASSUME AuthInv, [H!Next]_(H!vars) PROVE AuthInv'
    OBVIOUS
  <1>1. CASE UNCHANGED H!vars
    <2>1. UNCHANGED <<acct, rt, resets, chals, states, ident, access, hReq, clock, spent, doubled, proven>>
      BY <1>1 DEF H!vars
    <2>2. H!TypeOK' /\ H!SingleUse'
      BY <2>1 DEF AuthInv, H!TypeOK, H!SingleUse
    <2>3. AuthRequestsOK'
      BY <2>1 DEF AuthInv, AuthRequestsOK, AuthRequestOK
    <2>4. EnrollmentOK' /\ SpentOK'
      BY <2>1 DEF AuthInv, EnrollmentOK, SpentOK, RefreshSpent, ResetSpent, ChallengeSpent, OAuthSpent, CodeSpent
    <2>5. GuessesLeft'
      BY <2>1 DEF AuthInv, GuessesLeft, Guessers, Guessing
    <2>6. QED
      BY <2>2, <2>3, <2>4, <2>5 DEF AuthInv
  <1>2. CASE H!Expire
    BY <1>2, AuthExpire
  <1>3. ASSUME NEW p \in Procs,
               H!handleSignup(p) \/ H!handleLogin(p) \/ H!ResolveOAuthHuman(p)
        PROVE  AuthInv'
    BY <1>3, AuthSignIn
  <1>4. ASSUME NEW p \in Procs,
               \/ H!mintSession(p)
               \/ H!completeLogin(p)
               \/ H!newMFAChallenge(p)
               \/ H!handleForgotPassword(p)
               \/ H!handleOAuthStart(p)
        PROVE  AuthInv'
    BY <1>4, AuthRowsAppended
  <1>5. ASSUME NEW p \in Procs,
               \/ H!handleRefresh(p)
               \/ H!handleResetPassword(p)
               \/ H!handleMFAEnroll(p)
               \/ H!handleMFADisable(p)
               \/ H!ReuseSnapshot(p)
        PROVE  AuthInv'
    BY <1>5, AuthReads
  <1>6. ASSUME NEW p \in Procs, H!RotateRefreshToken(p) \/ H!ReuseRevokes(p) \/ H!handleLogout(p)
        PROVE  AuthInv'
    BY <1>6, AuthTokenSteps
  <1>7. ASSUME NEW p \in Procs, H!CommitRotation(p) PROVE AuthInv'
    BY <1>7, AuthCommitRotation
  <1>8. ASSUME NEW p \in Procs, H!BeginReset(p) PROVE AuthInv'
    BY <1>8, AuthBeginReset
  <1>9. ASSUME NEW p \in Procs, H!CommitReset(p) PROVE AuthInv'
    BY <1>9, AuthCommitReset
  <1>10. ASSUME NEW p \in Procs, H!SetPendingMFA(p) PROVE AuthInv'
    BY <1>10, AuthSetPending
  <1>11. ASSUME NEW p \in Procs, H!handleMFAConfirm(p) PROVE AuthInv'
    BY <1>11, AuthConfirmMFA
  <1>12. ASSUME NEW p \in Procs, H!ActivateMFA(p) PROVE AuthInv'
    BY <1>12, AuthActivate
  <1>13. ASSUME NEW p \in Procs, H!DeleteMFA(p) PROVE AuthInv'
    BY <1>13, AuthDeleteMFA
  <1>14. ASSUME NEW p \in Procs, H!handleMFAVerify(p) PROVE AuthInv'
    BY <1>14, AuthVerifyMFA
  <1>15. ASSUME NEW p \in Procs, H!CompleteMFAChallenge(p) PROVE AuthInv'
    BY <1>15, AuthComplete
  <1>16. ASSUME NEW p \in Procs, H!RecordMFAChallengeFailure(p) PROVE AuthInv'
    BY <1>16, AuthGuessFails
  <1>17. ASSUME NEW p \in Procs, H!handleOAuthCallback(p) PROVE AuthInv'
    BY <1>17, AuthOAuthCallback
  <1>18. ASSUME NEW p \in Procs, H!Fail(p) PROVE AuthInv'
    BY <1>18, AuthFail
  <1>19. QED
    BY <1>1, <1>2, <1>3, <1>4, <1>5, <1>6, <1>7, <1>8, <1>9, <1>10, <1>11, <1>12, <1>13, <1>14, <1>15,
       <1>16, <1>17, <1>18 DEF H!Next

(* A sign-in that spends a one-time credential (a refresh token, a reset    *)
(* link, an MFA challenge, a TOTP or backup code, an OAuth state) is the    *)
(* only one that ever does, whatever handlers race and wherever they fail;  *)
(* the enabled secret was proven by its owner and a challenge takes at most *)
(* MaxAttempts - 1 + |Procs| wrong codes.                                   *)
LEMMA CredentialsAlone == ASSUME H!HumanAuthAssumption PROVE H!Spec => []H!CredentialsAreSound
  <1>1. H!Init => AuthInv
    BY AuthInit
  <1>2. AuthInv /\ [H!Next]_(H!vars) => AuthInv'
    BY AuthNext
  <1>3. AuthInv => H!CredentialsAreSound
    <2> SUFFICES ASSUME AuthInv PROVE H!CredentialsAreSound
      OBVIOUS
    <2>1. H!EnabledSecretWasProven
      BY DEF AuthInv, EnrollmentOK, H!EnabledSecretWasProven
    <2>2. H!GuessesAreBounded
      <3>1. ASSUME NEW c \in DOMAIN chals PROVE chals[c].fails < MFAChallengeMaxAttempts + Cardinality(Procs)
        <4>1. chals[c].fails + Cardinality(Guessers(c)) < MFAChallengeMaxAttempts + Cardinality(Procs)
          BY DEF AuthInv, GuessesLeft
        <4>2. chals[c].fails \in Nat /\ MFAChallengeMaxAttempts \in Nat
          BY AuthTypes, ChallengeRows DEF H!HumanAuthAssumption
        <4>3. QED
          BY <4>1, <4>2, GuessersAreFew
      <3>2. QED
        BY <3>1, AuthCardinality DEF H!GuessesAreBounded
    <2>3. QED
      BY <2>1, <2>2 DEF AuthInv, H!CredentialsAreSound
  <1>4. QED
    BY <1>1, <1>2, <1>3, PTL DEF H!Spec

-----------------------------------------------------------------------------
(* Lists.  First, what a page is, for any finite set of keys.               *)

Key == [at: Nat, id: Nat]

(* The keys of S that sort before k. *)
Ahead(S, k, o) == {l \in S : U!Sorts(o, l, k)}

(* The instance counts the way FiniteSets does.                             *)
LEMMA RowCount == \A X : U!Cardinality(X) = Cardinality(X)
  BY DEF U!Cardinality, Cardinality

(* A function into the naturals takes its least value somewhere.             *)
LEMMA LeastValue ==
  ASSUME NEW X, X # {}, NEW f \in [X -> Nat]
  PROVE  \E x \in X : \A y \in X : f[x] <= f[y]
  <1> DEFINE R == {f[x] : x \in X}
  <1>1. R \subseteq Nat /\ R # {}
    OBVIOUS
  <1>2. PICK n \in R : \A m \in R : ~(<<m, n>> \in OpToRel(<, Nat))
    <2> HIDE DEF R
    <2> QED
      BY <1>1, NatLessThanWellFounded, WFMin
  <1>3. \A m \in R : ~(m < n)
    BY <1>1, <1>2 DEF OpToRel
  <1>4. PICK x \in X : f[x] = n
    BY <1>2
  <1>5. ASSUME NEW y \in X PROVE f[x] <= f[y]
    <2>1. ~(f[y] < f[x])
      BY <1>3, <1>4
    <2>2. f[x] \in Nat /\ f[y] \in Nat
      OBVIOUS
    <2> QED
      BY <2>1, <2>2
  <1> QED
    BY <1>5

(* Rows are ordered by time and then by id: a strict total order.            *)
LEMMA SortsIsTotal ==
  ASSUME NEW o, NEW k \in Key, NEW l \in Key
  PROVE  /\ ~U!Sorts(o, k, k)
         /\ U!Sorts(o, k, l) => ~U!Sorts(o, l, k)
         /\ k = l \/ U!Sorts(o, k, l) \/ U!Sorts(o, l, k)
         /\ \A m \in Key : U!Sorts(o, k, l) /\ U!Sorts(o, l, m) => U!Sorts(o, k, m)
  BY SMTT(30) DEF Key, U!Sorts, U!Before

(* A key has more keys ahead of it than any key ahead of it has.             *)
LEMMA RankGrows ==
  ASSUME NEW S \in SUBSET Key, IsFiniteSet(S), NEW o, NEW k \in S, NEW l \in S, U!Sorts(o, l, k)
  PROVE  Cardinality(Ahead(S, l, o)) < Cardinality(Ahead(S, k, o))
  <1>1. Ahead(S, l, o) \subseteq Ahead(S, k, o)
    BY SortsIsTotal DEF Ahead
  <1>2. l \in Ahead(S, k, o) /\ l \notin Ahead(S, l, o)
    BY SortsIsTotal DEF Ahead
  <1>3. Ahead(S, k, o) \in SUBSET S
    BY DEF Ahead
  <1>4. IsFiniteSet(Ahead(S, k, o))
    BY <1>3, FS_Subset
  <1>5. IsFiniteSet(Ahead(S, l, o)) /\ Cardinality(Ahead(S, l, o)) <= Cardinality(Ahead(S, k, o))
        /\ Cardinality(Ahead(S, l, o)) # Cardinality(Ahead(S, k, o))
    BY <1>1, <1>2, <1>4, FS_Subset
  <1>6. Cardinality(Ahead(S, l, o)) \in Nat /\ Cardinality(Ahead(S, k, o)) \in Nat
    BY <1>4, <1>5, FS_CardinalityType
  <1> QED
    BY <1>5, <1>6

(* Ranks are natural numbers. *)
LEMMA RankType ==
  ASSUME NEW S, IsFiniteSet(S), NEW o, NEW k
  PROVE  IsFiniteSet(Ahead(S, k, o)) /\ Cardinality(Ahead(S, k, o)) \in Nat
         /\ Cardinality(Ahead(S, k, o)) <= Cardinality(S) /\ Cardinality(S) \in Nat
  <1>1. Ahead(S, k, o) \in SUBSET S
    BY DEF Ahead
  <1> QED
    BY <1>1, FS_Subset, FS_CardinalityType

(* A page is the keys with fewer than n keys ahead. *)
LEMMA FirstByRank ==
  ASSUME NEW S, NEW n, NEW o
  PROVE  U!First(S, n, o) = {k \in S : Cardinality(Ahead(S, k, o)) < n}
  BY RowCount DEF U!First, Ahead

(* A page has, with a row, every row that sorts before it.                   *)
LEMMA FirstIsPrefix ==
  ASSUME NEW S \in SUBSET Key, IsFiniteSet(S), NEW n \in Nat, NEW o,
         NEW k \in U!First(S, n, o), NEW l \in S, U!Sorts(o, l, k)
  PROVE  l \in U!First(S, n, o)
  <1>1. k \in S /\ Cardinality(Ahead(S, k, o)) < n
    BY FirstByRank
  <1>2. Cardinality(Ahead(S, l, o)) < Cardinality(Ahead(S, k, o))
    BY <1>1, RankGrows
  <1>3. Cardinality(Ahead(S, l, o)) < n
    BY <1>1, <1>2, RankType
  <1> QED
    BY <1>3, FirstByRank

(* A page that is not full has every row.                                    *)
LEMMA FirstIsAll ==
  ASSUME NEW S \in SUBSET Key, IsFiniteSet(S), NEW n \in Nat, NEW o, Cardinality(U!First(S, n, o)) < n
  PROVE  U!First(S, n, o) = S
  <1> DEFINE F == U!First(S, n, o)
             X == S \ F
             f == [k \in X |-> Cardinality(Ahead(S, k, o))]
  <1>1. F \in SUBSET S
    BY FirstByRank
  <1>2. IsFiniteSet(F) /\ Cardinality(F) \in Nat
    BY <1>1, FS_Subset, FS_CardinalityType
  <1>3. SUFFICES ASSUME X # {} PROVE FALSE
    BY <1>1
  <1>4. f \in [X -> Nat]
    BY RankType
  <1>5. PICK k \in X : \A l \in X : f[k] <= f[l]
    <2> HIDE DEF f, X
    <2> QED
      BY <1>3, <1>4, LeastValue
  <1>6. Cardinality(Ahead(S, k, o)) >= n
    <2>1. ~(Cardinality(Ahead(S, k, o)) < n) /\ Cardinality(Ahead(S, k, o)) \in Nat
      BY FirstByRank, RankType
    <2> QED
      BY <2>1
  <1>7. ASSUME NEW l \in Ahead(S, k, o) PROVE l \in F
    <2>1. l \in S /\ U!Sorts(o, l, k) /\ k \in S
      BY DEF Ahead
    <2>2. Cardinality(Ahead(S, l, o)) < Cardinality(Ahead(S, k, o))
      BY <2>1, RankGrows
    <2>3. Cardinality(Ahead(S, l, o)) \in Nat /\ Cardinality(Ahead(S, k, o)) \in Nat
      BY RankType
    <2>4. l \notin X
      <3> SUFFICES ASSUME l \in X PROVE FALSE
        OBVIOUS
      <3>1. Cardinality(Ahead(S, k, o)) <= Cardinality(Ahead(S, l, o))
        BY <1>5
      <3> QED
        BY <3>1, <2>2, <2>3
    <2> QED
      BY <2>1, <2>4
  <1>8. Cardinality(Ahead(S, k, o)) <= Cardinality(F)
    <2> HIDE DEF F
    <2> QED
      BY <1>7, <1>2, FS_Subset
  <1>9. Cardinality(Ahead(S, k, o)) \in Nat
    BY RankType
  <1> QED
    BY <1>2, <1>6, <1>8, <1>9

(* A finite set of keys that is not empty has a last one, and a first one.   *)
LEMMA LastKey ==
  ASSUME NEW S \in SUBSET Key, IsFiniteSet(S), S # {}, NEW o
  PROVE  \E k \in S : \A l \in S : l = k \/ U!Sorts(o, l, k)
  <1> DEFINE f == [k \in S |-> Cardinality(S) - Cardinality(Ahead(S, k, o))]
  <1>1. f \in [S -> Nat]
    <2> SUFFICES ASSUME NEW k \in S PROVE Cardinality(S) - Cardinality(Ahead(S, k, o)) \in Nat
      OBVIOUS
    <2> QED
      BY RankType
  <1>2. PICK k \in S : \A l \in S : f[k] <= f[l]
    <2> HIDE DEF f
    <2> QED
      BY <1>1, LeastValue
  <1>3. ASSUME NEW l \in S PROVE l = k \/ U!Sorts(o, l, k)
    <2>1. ASSUME U!Sorts(o, k, l) PROVE FALSE
      <3>1. Cardinality(Ahead(S, k, o)) < Cardinality(Ahead(S, l, o))
        BY <2>1, RankGrows
      <3>2. Cardinality(S) - Cardinality(Ahead(S, k, o)) <= Cardinality(S) - Cardinality(Ahead(S, l, o))
        BY <1>2
      <3>3. Cardinality(S) \in Nat /\ Cardinality(Ahead(S, k, o)) \in Nat /\ Cardinality(Ahead(S, l, o)) \in Nat
        BY RankType
      <3> QED
        BY <3>1, <3>2, <3>3
    <2> QED
      BY <2>1, SortsIsTotal
  <1> QED
    BY <1>3

(* A page has at most as many rows as were asked for.                        *)
LEMMA FirstIsBounded ==
  ASSUME NEW S \in SUBSET Key, IsFiniteSet(S), NEW n \in Nat, NEW o
  PROVE  IsFiniteSet(U!First(S, n, o)) /\ Cardinality(U!First(S, n, o)) <= n
  <1> DEFINE F == U!First(S, n, o)
  <1>1. F \in SUBSET S
    BY FirstByRank
  <1>2. IsFiniteSet(F)
    BY <1>1, FS_Subset
  <1>3. CASE F = {}
    BY <1>3, FS_EmptySet
  <1>4. CASE F # {}
    <2>1. PICK k \in F : \A l \in F : l = k \/ U!Sorts(o, l, k)
      <3> HIDE DEF F
      <3> QED
        BY <1>1, <1>2, <1>4, LastKey
    <2>2. k \in S /\ Cardinality(Ahead(S, k, o)) < n
      BY FirstByRank
    <2>3. F \in SUBSET (Ahead(S, k, o) \cup {k})
      BY <1>1, <2>1 DEF Ahead
    <2>4. k \notin Ahead(S, k, o)
      BY <2>2, SortsIsTotal DEF Ahead
    <2>5. IsFiniteSet(Ahead(S, k, o)) /\ Cardinality(Ahead(S, k, o)) \in Nat
      BY RankType
    <2>6. IsFiniteSet(Ahead(S, k, o) \cup {k})
          /\ Cardinality(Ahead(S, k, o) \cup {k}) = Cardinality(Ahead(S, k, o)) + 1
      BY <2>4, <2>5, FS_AddElement
    <2>7. Cardinality(F) <= Cardinality(Ahead(S, k, o) \cup {k})
      <3> HIDE DEF F
      <3> QED
        BY <2>3, <2>6, FS_Subset
    <2>8. Cardinality(F) \in Nat
      BY <1>2, FS_CardinalityType
    <2> QED
      BY <1>2, <2>2, <2>5, <2>6, <2>7, <2>8
  <1> QED
    BY <1>3, <1>4

(* What is shown of the rows that a request for n of S selects: all of S    *)
(* when there are fewer than n, and otherwise a prefix that ends with the   *)
(* row of the next cursor.                                                 *)
LEMMA PageIsPrefix ==
  ASSUME limit \in Nat \ {0}, NEW S \in SUBSET Key, IsFiniteSet(S), NEW n \in {limit, limit + 1}, NEW o,
         NEW rows, rows = U!First(S, n, o), NEW page, page = U!First(rows, limit, o)
  PROVE  /\ page \subseteq S /\ IsFiniteSet(rows) /\ Cardinality(rows) \in Nat /\ Cardinality(rows) <= n
         /\ Cardinality(rows) < n => page = S
         /\ rows # {} =>
              /\ U!LastRow(rows, o) \in page
              /\ \A k \in page : ~U!Sorts(o, U!LastRow(rows, o), k)
              /\ \A k \in S : k \in page \/ U!Sorts(o, U!LastRow(rows, o), k)
  <1>1. n \in Nat /\ n <= limit + 1 /\ limit \in Nat /\ limit > 0
    OBVIOUS
  <1>2. rows \in SUBSET S /\ rows \in SUBSET Key
    BY FirstByRank
  <1>3. IsFiniteSet(rows) /\ Cardinality(rows) \in Nat /\ Cardinality(rows) <= n
    BY <1>1, FirstIsBounded, FS_CardinalityType
  <1>4. page \in SUBSET rows /\ page \in SUBSET Key
    BY <1>2, FirstByRank
  <1>5. IsFiniteSet(page) /\ Cardinality(page) \in Nat
    BY <1>3, <1>4, FS_Subset, FS_CardinalityType
  <1>6. Cardinality(page) < limit => page = rows
    BY <1>1, <1>2, <1>3, FirstIsAll
  <1>7. ASSUME Cardinality(rows) < n PROVE page = S
    <2>1. rows = S
      BY <1>1, <1>7, FirstIsAll
    <2>2. CASE Cardinality(page) < limit
      BY <2>1, <2>2, <1>6
    <2>3. CASE ~(Cardinality(page) < limit)
      <3>1. Cardinality(page) <= Cardinality(rows) /\ (Cardinality(rows) = Cardinality(page) => rows = page)
        BY <1>3, <1>4, FS_Subset
      <3>2. Cardinality(rows) = Cardinality(page)
        BY <3>1, <2>3, <1>1, <1>3, <1>5, <1>7
      <3> QED
        BY <3>1, <3>2, <2>1
    <2> QED
      BY <2>2, <2>3
  <1>8. ASSUME rows # {}
        PROVE  /\ U!LastRow(rows, o) \in page
               /\ \A k \in page : ~U!Sorts(o, U!LastRow(rows, o), k)
               /\ \A k \in S : k \in page \/ U!Sorts(o, U!LastRow(rows, o), k)
    <2> DEFINE last == U!LastRow(rows, o)
    <2>1. page # {}
      <3> SUFFICES ASSUME page = {} PROVE FALSE
        OBVIOUS
      <3>1. Cardinality(page) = 0
        BY FS_EmptySet
      <3> QED
        BY <3>1, <1>1, <1>6, <1>8
    <2>2. last \in page /\ \A l \in page : l = last \/ U!Sorts(o, l, last)
      <3>1. \E k \in page : \A l \in page : l = k \/ U!Sorts(o, l, k)
        BY <2>1, <1>4, <1>5, LastKey
      <3>2. last = CHOOSE k \in page : \A l \in page : l = k \/ U!Sorts(o, l, k)
        BY DEF U!LastRow
      <3> HIDE DEF last
      <3> QED
        BY <3>1, <3>2
    <2> HIDE DEF last
    <2>3. ASSUME NEW k \in page PROVE ~U!Sorts(o, last, k)
      BY <2>2, <1>4, SortsIsTotal
    <2>4. ASSUME NEW k \in S, ~U!Sorts(o, last, k) PROVE k \in page
      <3>1. last \in Key /\ k \in Key /\ last \in rows
        BY <2>2, <1>4
      <3>2. CASE k = last
        BY <3>2, <2>2
      <3>3. CASE U!Sorts(o, k, last)
        <4>1. k \in rows
          BY <3>1, <3>3, <1>1, FirstIsPrefix
        <4> QED
          BY <4>1, <3>3, <2>2, <1>1, <1>2, <1>3, FirstIsPrefix
      <3> QED
        BY <3>1, <3>2, <3>3, <2>4, SortsIsTotal
    <2> QED
      BY <2>2, <2>3, <2>4 DEF last
  <1> QED
    BY <1>2, <1>3, <1>4, <1>7, <1>8

-----------------------------------------------------------------------------
(* The tables and the walk.                                                 *)

(* The rows of a list with their times, the order it is shown in, and a     *)
(* row's key.  Memberships are left out: their cursor is not a row's key.   *)
PlainLists == U!Lists \ {"members"}
TableOf(list) ==
  IF list = "contacts" THEN U!Stamps(contacts) ELSE IF list = "audiences" THEN audiences ELSE uTables[list]
OrderOf(list) == IF list = "recipients" THEN "asc" ELSE "desc"
KeyIn(table, i) == [at |-> table[i], id |-> i]

(* The rows a request with this cursor selects from. *)
Selected(table, after, o) == {k \in U!Keys(table) : after = U!NoCursor \/ U!Sorts(o, after, k)}

StampsOK(table) ==
  /\ IsFiniteSet(DOMAIN table) /\ DOMAIN table \subseteq Ids
  /\ \A i \in DOMAIN table : table[i] \in 0..ListsHorizon

ContactsOK == \A i \in DOMAIN contacts : contacts[i] \in U!Contact

TablesOK ==
  /\ contacts = [i \in DOMAIN contacts |-> contacts[i]]
  /\ IsFiniteSet(DOMAIN contacts) /\ DOMAIN contacts \subseteq Ids /\ ContactsOK
  /\ StampsOK(audiences)
  /\ DOMAIN uTables = U!Tables /\ \A l \in U!Tables : StampsOK(uTables[l])

MembersOK == \A m \in DOMAIN members : m[1] \in DOMAIN audiences /\ m[2] \in DOMAIN contacts

WalkRecord(w) ==
  w = [list |-> w.list, of |-> w.of, after |-> w.after, got |-> w.got, again |-> w.again,
       kept |-> w.kept, more |-> w.more]

(* While a walk goes on the cursor parts the table: a row that was shown is *)
(* not behind it, and a row that stayed and is not behind it was shown.     *)
CursorOK(w, table, o) ==
  IF w.after = U!NoCursor THEN w.got = {}
  ELSE /\ w.after \in Key
       /\ \A i \in DOMAIN table \cap w.got : ~U!Sorts(o, w.after, KeyIn(table, i))
       /\ \A i \in w.kept : i \in w.got \/ U!Sorts(o, w.after, KeyIn(table, i))

(* What a walk over a table has shown.  An id is never used again, so a row *)
(* added later was not shown before.                                        *)
WalkOver(w, table, deleted, o) ==
  /\ w.again = FALSE /\ w.more \in BOOLEAN
  /\ w.kept \subseteq DOMAIN table /\ w.got \subseteq DOMAIN table \cup deleted
  /\ IF w.more THEN CursorOK(w, table, o) ELSE w.kept \subseteq w.got

WalkOK ==
  /\ WalkRecord(walk) /\ walk.list \in U!Lists \cup {"none"}
  /\ walk.list = "none" => walk = U!NoWalk
  /\ walk.list \in PlainLists => WalkOver(walk, TableOf(walk.list), gone, OrderOf(walk.list))

ListsInv ==
  /\ uNow \in 0..ListsHorizon /\ uMade \in 0..MaxListRequests
  /\ TablesOK /\ MembersOK /\ WalkOK

(* A row's time and id make a key.                                           *)
LEMMA RowKey ==
  ASSUME U!AudiencesAssumption, NEW T, StampsOK(T), NEW i \in DOMAIN T
  PROVE  KeyIn(T, i) \in Key
  <1>1. i \in Nat
    BY DEF StampsOK, U!AudiencesAssumption
  <1>2. T[i] \in Nat
    BY DEF StampsOK, U!AudiencesAssumption
  <1> QED
    BY <1>1, <1>2 DEF KeyIn, Key

(* The rows a request selects from are a finite set of keys.                 *)
LEMMA SelectedKeys ==
  ASSUME U!AudiencesAssumption, NEW T, StampsOK(T), NEW after, NEW o
  PROVE  Selected(T, after, o) \in SUBSET Key /\ IsFiniteSet(Selected(T, after, o))
  <1>1. \A i \in DOMAIN T : KeyIn(T, i) \in Key
    BY RowKey
  <1>2. U!Keys(T) = {KeyIn(T, i) : i \in DOMAIN T}
    BY DEF U!Keys, KeyIn
  <1>3. IsFiniteSet(U!Keys(T))
    <2> DEFINE f == [i \in DOMAIN T |-> KeyIn(T, i)]
    <2>1. f \in Surjection(DOMAIN T, U!Keys(T))
      BY <1>2 DEF Surjection
    <2> HIDE DEF f
    <2> QED
      BY <2>1, FS_Surjection DEF StampsOK
  <1>4. Selected(T, after, o) \in SUBSET U!Keys(T)
    BY DEF Selected
  <1>5. U!Keys(T) \in SUBSET Key
    BY <1>1, <1>2
  <1> QED
    BY <1>3, <1>4, <1>5, FS_Subset

(* A cursor comes back from its token as it was.                             *)
LEMMA CursorRoundTrip ==
  ASSUME NEW k \in Key
  PROVE  U!decodeCursor(U!encodeCursor(k)) = k /\ k # U!NoCursor
  BY DEF U!decodeCursor, U!encodeCursor, U!NoCursor, Key

(* A page shows no row again, and leaves the cursor where the rows shown    *)
(* end; the last page leaves nothing that stayed unshown.                   *)
LEMMA PageShown ==
  ASSUME U!AudiencesAssumption, NEW T, StampsOK(T), NEW D, NEW o,
         NEW w, w.more, WalkOver(w, T, D, o),
         NEW n \in {limit, limit + 1}, NEW rows, rows = U!First(Selected(T, w.after, o), n, o),
         NEW more \in BOOLEAN, more <=> Cardinality(rows) = n,
         NEW last, rows # {} => last = U!LastRow(rows, o),
         NEW page, page = {k.id : k \in U!First(rows, limit, o)},
         NEW v, v.kept = w.kept, v.got = w.got \cup page, w.got \cap page = {} => v.again = w.again, v.more = more,
         v.after = IF more THEN U!decodeCursor(U!encodeCursor(last)) ELSE U!NoCursor
  PROVE  WalkOver(v, T, D, o)
  <1> DEFINE S == Selected(T, w.after, o)
             shown == U!First(rows, limit, o)
  <1>1. S \in SUBSET Key /\ IsFiniteSet(S)
    BY SelectedKeys
  <1>2. limit \in Nat \ {0}
    BY DEF U!AudiencesAssumption
  <1> HIDE DEF S
  <1>3. /\ shown \subseteq S /\ IsFiniteSet(rows) /\ Cardinality(rows) \in Nat /\ Cardinality(rows) <= n
        /\ Cardinality(rows) < n => shown = S
        /\ rows # {} =>
             /\ U!LastRow(rows, o) \in shown
             /\ \A k \in shown : ~U!Sorts(o, U!LastRow(rows, o), k)
             /\ \A k \in S : k \in shown \/ U!Sorts(o, U!LastRow(rows, o), k)
    BY <1>1, <1>2, PageIsPrefix DEF S
  <1>4. \A k \in S : k.id \in DOMAIN T /\ k = KeyIn(T, k.id) /\ (w.after = U!NoCursor \/ U!Sorts(o, w.after, k))
    BY DEF S, Selected, U!Keys, KeyIn
  <1>5. \A i \in DOMAIN T : (w.after = U!NoCursor \/ U!Sorts(o, w.after, KeyIn(T, i))) => KeyIn(T, i) \in S
    BY DEF S, Selected, U!Keys, KeyIn
  <1>6. \A i : KeyIn(T, i).id = i
    BY DEF KeyIn
  <1>7. page = {k.id : k \in shown} /\ page \subseteq DOMAIN T
    BY <1>3, <1>4
  <1>8. CursorOK(w, T, o)
    BY DEF WalkOver
  <1> HIDE DEF shown
  <1>9. w.got \cap page = {}
    <2>1. CASE w.after = U!NoCursor
      BY <2>1, <1>8 DEF CursorOK
    <2>2. CASE w.after # U!NoCursor
      BY <2>2, <1>3, <1>4, <1>7, <1>8 DEF CursorOK
    <2> QED
      BY <2>1, <2>2
  <1>10. /\ v.kept = w.kept /\ v.got = w.got \cup page /\ v.more = more
         /\ v.after = IF more THEN U!decodeCursor(U!encodeCursor(last)) ELSE U!NoCursor
    OBVIOUS
  <1>11. v.again = FALSE
    BY <1>9 DEF WalkOver
  <1>12. \A i \in w.kept : i \in w.got \/ KeyIn(T, i) \in S
    <2>1. w.kept \subseteq DOMAIN T
      BY DEF WalkOver
    <2> QED
      BY <2>1, <1>5, <1>8 DEF CursorOK
  <1>13. CASE more
    <2>0. Cardinality(rows) = n
      BY <1>13, Zenon
    <2>1. rows # {}
      <3> SUFFICES ASSUME rows = {} PROVE FALSE
        OBVIOUS
      <3>1. Cardinality(rows) = 0
        BY FS_EmptySet
      <3> QED
        BY <3>1, <2>0, <1>2
    <2>2. last \in S /\ last \in Key /\ last \in shown
      BY <2>1, <1>1, <1>3
    <2>3. v.after = last /\ last # U!NoCursor
      BY <2>2, <1>10, <1>13, CursorRoundTrip
    <2>4. ASSUME NEW i \in DOMAIN T, i \in v.got PROVE ~U!Sorts(o, last, KeyIn(T, i))
      <3>1. CASE i \in page
        <4>1. PICK k \in shown : k.id = i
          BY <3>1, <1>7
        <4>2. k = KeyIn(T, i)
          BY <4>1, <1>3, <1>4
        <4> QED
          BY <4>1, <4>2, <2>1, <1>3
      <3>2. CASE i \in w.got
        <4>1. w.after # U!NoCursor
          BY <3>2, <1>8 DEF CursorOK
        <4>2. ~U!Sorts(o, w.after, KeyIn(T, i)) /\ w.after \in Key
          BY <4>1, <3>2, <1>8 DEF CursorOK
        <4>3. U!Sorts(o, w.after, last)
          BY <4>1, <2>2, <1>4
        <4>4. KeyIn(T, i) \in Key
          BY RowKey
        <4> QED
          BY <4>2, <4>3, <4>4, <2>2, SortsIsTotal
      <3> QED
        BY <2>4, <3>1, <3>2, <1>10
    <2>5. ASSUME NEW i \in w.kept PROVE i \in v.got \/ U!Sorts(o, last, KeyIn(T, i))
      <3>1. CASE KeyIn(T, i) \in S
        <4>1. KeyIn(T, i) \in shown \/ U!Sorts(o, last, KeyIn(T, i))
          BY <3>1, <2>1, <1>3
        <4> QED
          BY <4>1, <1>6, <1>7, <1>10
      <3> QED
        BY <3>1, <1>10, <1>12
    <2>6. CursorOK(v, T, o)
      BY <2>2, <2>3, <2>4, <2>5, <1>10 DEF CursorOK
    <2> QED
      BY <2>6, <1>7, <1>10, <1>11, <1>13 DEF WalkOver
  <1>14. CASE ~more
    <2>0. Cardinality(rows) # n
      BY <1>14, Zenon
    <2>1. shown = S
      BY <2>0, <1>2, <1>3
    <2>2. w.kept \subseteq v.got
      BY <2>1, <1>6, <1>7, <1>10, <1>12
    <2> QED
      BY <2>2, <1>7, <1>10, <1>11, <1>14 DEF WalkOver
  <1> QED
    BY <1>13, <1>14

(* A table that only gains rows with new ids and loses rows to gone.         *)
TableMoves(T, T2, D, D2) ==
  /\ \A i \in DOMAIN T \cap DOMAIN T2 : T2[i] = T[i]
  /\ D \subseteq D2 /\ DOMAIN T \subseteq DOMAIN T2 \cup D2 /\ D \cap DOMAIN T2 \subseteq DOMAIN T

(* Such a move takes nothing from what a walk has shown.                     *)
LEMMA WalkGoesOn ==
  ASSUME NEW w, WalkRecord(w), NEW owed, owed \subseteq w.kept, NEW T, NEW T2, NEW D, NEW D2, NEW o,
         WalkOver(w, T, D, o), TableMoves(T, T2, D, D2), owed \subseteq DOMAIN T2
  PROVE  WalkOver([w EXCEPT !.kept = owed], T2, D2, o)
  <1> DEFINE v == [w EXCEPT !.kept = owed]
  <1>1. /\ v.again = w.again /\ v.more = w.more /\ v.got = w.got /\ v.after = w.after /\ v.kept = owed
    BY DEF WalkRecord
  <1> HIDE DEF v
  <1>2. v.again = FALSE /\ v.more \in BOOLEAN
    BY <1>1 DEF WalkOver
  <1>3. v.got \subseteq DOMAIN T2 \cup D2
    BY <1>1 DEF WalkOver, TableMoves
  <1>4. CASE w.more
    <2>1. CursorOK(w, T, o)
      BY <1>4 DEF WalkOver
    <2>2. \A i \in DOMAIN T \cap DOMAIN T2 : KeyIn(T2, i) = KeyIn(T, i)
      BY DEF TableMoves, KeyIn
    <2>3. \A i \in DOMAIN T2 \cap w.got : i \in DOMAIN T
      BY DEF TableMoves, WalkOver
    <2>4. \A i \in owed : i \in DOMAIN T /\ i \in DOMAIN T2 /\ i \in w.kept
      BY DEF WalkOver
    <2>5. CursorOK(v, T2, o)
      BY <2>1, <2>2, <2>3, <2>4, <1>1 DEF CursorOK
    <2> QED
      BY <2>5, <1>1, <1>2, <1>3, <1>4 DEF WalkOver, v
  <1>5. CASE ~w.more
    <2>1. w.kept \subseteq w.got
      BY <1>5 DEF WalkOver
    <2> QED
      BY <2>1, <1>1, <1>2, <1>3, <1>5 DEF WalkOver, v
  <1> QED
    BY <1>4, <1>5

(* Every list but memberships is a table of times.                           *)
LEMMA PlainTables == ASSUME TablesOK, NEW l \in PlainLists PROVE StampsOK(TableOf(l))
  <1>1. CASE l = "contacts"
    <2>1. TableOf(l) = [i \in DOMAIN contacts |-> contacts[i].at]
      BY <1>1 DEF TableOf, U!Stamps
    <2>2. \A i \in DOMAIN contacts : contacts[i].at \in 0..ListsHorizon
      BY DEF TablesOK, ContactsOK, U!Contact
    <2> QED
      BY <2>1, <2>2 DEF TablesOK, StampsOK
  <1>2. CASE l = "audiences"
    BY <1>2 DEF TablesOK, TableOf
  <1>3. CASE l \in U!Tables
    BY <1>3 DEF TablesOK, TableOf, U!Tables
  <1> QED
    BY <1>1, <1>2, <1>3 DEF PlainLists, U!Lists

(* What a step that leaves the walk's pages alone does to the tables.        *)
TablesMove == \A l \in PlainLists : TableMoves(TableOf(l), TableOf(l)', gone, gone')

(* A walk over a table that moves loses at most rows that are gone.          *)
LEMMA WalkStays ==
  ASSUME WalkOK, TablesMove, NEW owed, walk' = [walk EXCEPT !.kept = owed], owed \subseteq walk.kept,
         \A l \in PlainLists : walk.list = l => owed \subseteq DOMAIN (TableOf(l)')
  PROVE  WalkOK'
  <1>1. WalkRecord(walk) /\ walk.list \in U!Lists \cup {"none"}
    BY DEF WalkOK
  <1>2. WalkRecord(walk') /\ walk'.list = walk.list
    BY <1>1 DEF WalkRecord
  <1>3. ASSUME walk'.list = "none" PROVE walk' = U!NoWalk
    <2>1. walk = U!NoWalk
      BY <1>2, <1>3 DEF WalkOK
    <2>2. owed = {}
      BY <2>1 DEF U!NoWalk
    <2> QED
      BY <2>1, <2>2 DEF U!NoWalk
  <1>4. ASSUME NEW l \in PlainLists, walk.list = l PROVE WalkOver(walk', TableOf(l)', gone', OrderOf(l))
    <2>1. WalkOver(walk, TableOf(l), gone, OrderOf(l))
      BY <1>4 DEF WalkOK
    <2>2. TableMoves(TableOf(l), TableOf(l)', gone, gone') /\ owed \subseteq DOMAIN (TableOf(l)')
      BY <1>4 DEF TablesMove
    <2> QED
      BY <2>1, <2>2, <1>1, WalkGoesOn
  <1>5. ASSUME walk'.list \in PlainLists PROVE WalkOver(walk', TableOf(walk.list)', gone', OrderOf(walk.list)')
    <2>1. PICK l \in PlainLists : l = walk.list /\ l = walk'.list
      BY <1>2, <1>5
    <2>2. WalkOver(walk', TableOf(l)', gone', OrderOf(l))
      BY <2>1, <1>4
    <2>3. TableOf(walk.list)' = TableOf(l)' /\ OrderOf(walk.list)' = OrderOf(l)
      BY <2>1 DEF TableOf, OrderOf
    <2> QED
      BY <2>2, <2>3
  <1> QED
    BY <1>1, <1>2, <1>3, <1>5 DEF WalkOK, WalkRecord, WalkOver, CursorOK, KeyIn

(* A request on the tables: what remains to show.                            *)
LEMMA ListsChange ==
  ASSUME U!AudiencesAssumption, ListsInv, U!Request, uNow' = uNow, TablesOK', MembersOK', TablesMove,
         NEW owed, walk' = [walk EXCEPT !.kept = owed], owed \subseteq walk.kept,
         \A l \in PlainLists : walk.list = l => owed \subseteq DOMAIN (TableOf(l)')
  PROVE  ListsInv'
  <1>1. WalkOK'
    BY WalkStays DEF ListsInv
  <1>2. uMade' \in 0..MaxListRequests
    BY DEF ListsInv, U!Request, U!AudiencesAssumption
  <1> QED
    BY <1>1, <1>2 DEF ListsInv

(* The same when the walk is owed what it was.                               *)
LEMMA ListsGrow ==
  ASSUME U!AudiencesAssumption, ListsInv, U!Request, uNow' = uNow, TablesOK', MembersOK', TablesMove,
         walk' = walk, \A l \in PlainLists : DOMAIN TableOf(l) \subseteq DOMAIN (TableOf(l)')
  PROVE  ListsInv'
  <1>1. walk' = [walk EXCEPT !.kept = walk.kept]
    BY DEF ListsInv, WalkOK, WalkRecord
  <1>2. ASSUME NEW l \in PlainLists, walk.list = l PROVE walk.kept \subseteq DOMAIN (TableOf(l)')
    <2>1. walk.kept \subseteq DOMAIN TableOf(l)
      BY <1>2 DEF ListsInv, WalkOK, WalkOver
    <2> QED
      BY <2>1
  <1> QED
    BY <1>1, <1>2, ListsChange

(* A step of one page.                                                      *)
LEMMA PageStep ==
  ASSUME U!AudiencesAssumption, ListsInv, NEW l \in PlainLists, U!Asking(l), NEW n \in {limit, limit + 1},
         NEW rows, rows = U!First(Selected(TableOf(l), walk.after, OrderOf(l)), n, OrderOf(l)),
         NEW more \in BOOLEAN, more <=> Cardinality(rows) = n, U!Page(rows, more, OrderOf(l))
  PROVE  ListsInv'
  <1> DEFINE last == IF rows = {} THEN U!NoCursor ELSE U!LastRow(rows, OrderOf(l))
             page == {k.id : k \in U!First(rows, limit, OrderOf(l))}
  <1>1. walk' = [walk EXCEPT !.got = @ \cup page, !.again = @ \/ walk.got \cap page # {}, !.more = more,
                             !.after = IF more THEN U!decodeCursor(U!encodeCursor(last)) ELSE U!NoCursor]
    BY DEF U!Page, U!Respond
  <1>2. UNCHANGED <<contacts, audiences, members, uTables, gone, uNow, uMade>>
    BY DEF U!Page, U!Unchanged
  <1>3. WalkRecord(walk) /\ walk.list = l /\ walk.more /\ WalkOver(walk, TableOf(l), gone, OrderOf(l))
    BY DEF ListsInv, WalkOK, U!Asking
  <1>4. StampsOK(TableOf(l))
    BY PlainTables DEF ListsInv
  <1>5. rows # {} => last = U!LastRow(rows, OrderOf(l))
    OBVIOUS
  <1> HIDE DEF last, page
  <1>6. /\ WalkRecord(walk') /\ walk'.list = l /\ walk'.kept = walk.kept /\ walk'.got = walk.got \cup page
        /\ walk'.more = more
        /\ walk'.after = IF more THEN U!decodeCursor(U!encodeCursor(last)) ELSE U!NoCursor
    BY <1>1, <1>3 DEF WalkRecord
  <1>7. walk.got \cap page = {} => walk'.again = walk.again
    <2>1. walk.again = FALSE
      BY <1>3 DEF WalkOver
    <2>2. walk'.again = (walk.again \/ walk.got \cap page # {})
      BY <1>1, <1>3 DEF WalkRecord
    <2> QED
      BY <2>1, <2>2
  <1>8. page = {k.id : k \in U!First(rows, limit, OrderOf(l))}
    BY DEF page
  <1>9. WalkOver(walk', TableOf(l), gone, OrderOf(l))
    BY <1>6, <1>7, <1>8, <1>3, <1>4, <1>5, PageShown
  <1>10. WalkOK'
    <2>1. l \in U!Lists /\ l # "none"
      BY DEF PlainLists, U!Lists, U!Tables
    <2>2. TableOf(walk.list)' = TableOf(l) /\ OrderOf(walk.list)' = OrderOf(l)
      BY <1>2, <1>6 DEF TableOf, OrderOf, U!Stamps
    <2>3. WalkOver(walk, TableOf(walk.list), gone, OrderOf(walk.list))'
      BY <2>2, <1>2, <1>9 DEF WalkOver, CursorOK, KeyIn
    <2> QED
      BY <2>1, <2>3, <1>6 DEF WalkOK, WalkRecord
  <1>11. (TablesOK /\ MembersOK)'
    BY <1>2 DEF ListsInv, TablesOK, MembersOK, ContactsOK, StampsOK
  <1> QED
    BY <1>2, <1>10, <1>11 DEF ListsInv

(* The pages of the handlers that ask for one row more than they show.       *)
LEMMA HandlerPage ==
  ASSUME U!AudiencesAssumption, ListsInv, NEW l \in PlainLists, U!Asking(l), NEW rows,
         rows = U!First(Selected(TableOf(l), walk.after, OrderOf(l)), limit + 1, OrderOf(l)),
         U!PageOf(rows, OrderOf(l))
  PROVE  ListsInv'
  <1>1. StampsOK(TableOf(l)) /\ limit \in Nat
    BY PlainTables DEF ListsInv, U!AudiencesAssumption
  <1>2. Cardinality(rows) \in Nat /\ Cardinality(rows) <= limit + 1
    BY <1>1, SelectedKeys, FirstIsBounded, FS_CardinalityType
  <1> DEFINE more == U!Cardinality(rows) > limit
  <1>3. more \in BOOLEAN /\ (more <=> Cardinality(rows) = limit + 1)
    BY <1>1, <1>2, RowCount
  <1>4. U!Page(rows, more, OrderOf(l))
    BY DEF U!PageOf
  <1> HIDE DEF more
  <1> QED
    BY <1>3, <1>4, PageStep

(* The queries select and order rows as keyset pages do.                     *)
LEMMA QueriesArePages ==
  ASSUME NEW after, NEW n
  PROVE  /\ U!ListContacts(after, n) = U!First(Selected(TableOf("contacts"), after, "desc"), n, "desc")
         /\ U!ListAudiences(after, n) = U!First(Selected(TableOf("audiences"), after, "desc"), n, "desc")
         /\ \A l \in U!Tables : U!ListOf(l, after, n) = U!First(Selected(TableOf(l), after, "desc"), n, "desc")
         /\ U!ListBroadcastRecipients(after, n) =
              U!First(Selected(TableOf("recipients"), after, "asc"), n, "asc")
  <1>1. \A T : U!Newest(U!Behind(U!Keys(T), after), n) = U!First(Selected(T, after, "desc"), n, "desc")
    <2> SUFFICES ASSUME NEW T
                 PROVE  U!Newest(U!Behind(U!Keys(T), after), n) = U!First(Selected(T, after, "desc"), n, "desc")
      OBVIOUS
    <2>1. U!Behind(U!Keys(T), after) = Selected(T, after, "desc")
      BY DEF U!Behind, Selected, U!Sorts
    <2> QED
      BY <2>1 DEF U!Newest
  <1>2. {k \in U!Keys(uTables["recipients"]) : after = U!NoCursor \/ U!Before(after, k)}
          = Selected(TableOf("recipients"), after, "asc")
    BY DEF TableOf, Selected, U!Sorts
  <1>3. TableOf("contacts") = U!Stamps(contacts) /\ TableOf("audiences") = audiences
        /\ \A l \in U!Tables : TableOf(l) = uTables[l]
    BY DEF TableOf, U!Tables
  <1> QED
    BY <1>1, <1>2, <1>3 DEF U!ListContacts, U!ListAudiences, U!ListOf, U!ListBroadcastRecipients, U!Oldest

(* The lists that are walked. *)
LEMMA PagesStep ==
  ASSUME U!AudiencesAssumption, ListsInv,
         \/ U!handleListContacts \/ U!handleListAudiences \/ U!handleListSuppressions
         \/ U!handleListBroadcasts \/ U!handleListRecipients \/ U!handleListTemplates
         \/ U!handleListDomains \/ U!handleListWebhooks \/ U!handleDeliveries \/ U!handleEvents
  PROVE  ListsInv'
  <1> DEFINE Rows(l) == U!First(Selected(TableOf(l), walk.after, OrderOf(l)), limit + 1, OrderOf(l))
  <1>1. SUFFICES \E l \in PlainLists : U!Asking(l) /\ U!PageOf(Rows(l), OrderOf(l))
    BY HandlerPage
  <1>2. /\ "contacts" \in PlainLists /\ "audiences" \in PlainLists /\ U!Tables \subseteq PlainLists
        /\ \A l \in {"suppressions", "broadcasts", "recipients", "templates", "domains", "webhooks",
                     "deliveries", "events"} : l \in U!Tables
    BY DEF PlainLists, U!Lists, U!Tables
  <1>3. OrderOf("recipients") = "asc" /\ \A l : l # "recipients" => OrderOf(l) = "desc"
    BY DEF OrderOf
  <1>4. U!Asked = limit + 1
    BY DEF U!Asked
  <1>5. /\ U!ListContacts(walk.after, U!Asked) = Rows("contacts")
        /\ U!ListAudiences(walk.after, U!Asked) = Rows("audiences")
        /\ U!ListBroadcastRecipients(walk.after, U!Asked) = Rows("recipients")
        /\ \A l \in U!Tables : l # "recipients" => U!ListOf(l, walk.after, U!Asked) = Rows(l)
    BY <1>3, <1>4, QueriesArePages
  <1> HIDE DEF Rows
  <1>6. CASE U!handleListContacts
    BY <1>2, <1>3, <1>5, <1>6 DEF U!handleListContacts
  <1>7. CASE U!handleListAudiences
    BY <1>2, <1>3, <1>5, <1>7 DEF U!handleListAudiences
  <1>8. CASE U!handleListSuppressions
    BY <1>2, <1>3, <1>5, <1>8 DEF U!handleListSuppressions, U!ListSuppressions
  <1>9. CASE U!handleListBroadcasts
    BY <1>2, <1>3, <1>5, <1>9 DEF U!handleListBroadcasts, U!ListBroadcasts
  <1>10. CASE U!handleListRecipients
    BY <1>2, <1>3, <1>5, <1>10 DEF U!handleListRecipients
  <1>11. CASE U!handleListTemplates
    BY <1>2, <1>3, <1>5, <1>11 DEF U!handleListTemplates, U!ListTemplates
  <1>12. CASE U!handleListDomains
    BY <1>2, <1>3, <1>5, <1>12 DEF U!handleListDomains, U!ListDomains
  <1>13. CASE U!handleListWebhooks
    BY <1>2, <1>3, <1>5, <1>13 DEF U!handleListWebhooks, U!ListWebhookSubscriptions
  <1>14. CASE U!handleDeliveries
    BY <1>2, <1>3, <1>5, <1>14 DEF U!handleDeliveries, U!ListWebhookDeliveriesPage
  <1>15. CASE U!handleEvents
    BY <1>2, <1>3, <1>5, <1>15 DEF U!handleEvents, U!ListTenantPublicEvents
  <1> QED
    BY <1>6, <1>7, <1>8, <1>9, <1>10, <1>11, <1>12, <1>13, <1>14, <1>15

(* The list of messages asks for no extra row: a full page is followed by    *)
(* another, which may be empty.                                             *)
LEMMA EmailsStep == ASSUME U!AudiencesAssumption, ListsInv, U!handleListEmails PROVE ListsInv'
  <1> DEFINE rows == U!ListMessages(walk.after, limit)
             more == U!Cardinality(rows) = limit
  <1>1. "emails" \in PlainLists /\ "emails" \in U!Tables /\ OrderOf("emails") = "desc"
    BY DEF PlainLists, U!Lists, U!Tables, OrderOf
  <1>2. rows = U!First(Selected(TableOf("emails"), walk.after, OrderOf("emails")), limit, OrderOf("emails"))
    BY <1>1, QueriesArePages DEF U!ListMessages
  <1>3. U!Asking("emails") /\ U!Page(rows, more, OrderOf("emails"))
    BY <1>1 DEF U!handleListEmails
  <1>4. more \in BOOLEAN /\ (more <=> Cardinality(rows) = limit)
    BY RowCount
  <1> HIDE DEF more, rows
  <1> QED
    BY <1>1, <1>2, <1>3, <1>4, PageStep

(* Steps that touch only the walk: its first request, and a page of members, *)
(* of which nothing is promised.                                            *)
LEMMA WalkStep ==
  ASSUME ListsInv, U!StartWalk \/ U!handleListMembers
  PROVE  ListsInv'
  <1>1. UNCHANGED <<contacts, audiences, members, uTables, gone, uNow, uMade>>
    BY DEF U!StartWalk, U!handleListMembers, U!Unchanged
  <1>2. (TablesOK /\ MembersOK)'
    BY <1>1 DEF ListsInv, TablesOK, MembersOK, ContactsOK, StampsOK
  <1>3. CASE U!StartWalk
    <2>1. PICK l \in U!Lists, a \in DOMAIN audiences :
            walk' = [U!NoWalk EXCEPT !.list = l, !.of = a, !.kept = U!Rows(l, a), !.more = TRUE]
      BY <1>3 DEF U!StartWalk
    <2>2. /\ WalkRecord(walk') /\ walk'.list = l /\ walk'.again = FALSE /\ walk'.more = TRUE /\ walk'.got = {}
          /\ walk'.after = U!NoCursor /\ walk'.kept = U!Rows(l, a)
      BY <2>1 DEF U!NoWalk, WalkRecord
    <2>3. l # "none"
      BY DEF U!Lists, U!Tables
    <2>4. ASSUME l \in PlainLists PROVE WalkOver(walk', TableOf(l), gone, OrderOf(l))
      <3>1. U!Rows(l, a) = DOMAIN TableOf(l)
        BY <2>4 DEF U!Rows, TableOf, U!Stamps, PlainLists
      <3> QED
        BY <3>1, <2>2 DEF WalkOver, CursorOK
    <2>5. TableOf(walk.list)' = TableOf(l) /\ OrderOf(walk.list)' = OrderOf(l)
      BY <2>2, <1>1 DEF TableOf, OrderOf, U!Stamps
    <2>6. l \in PlainLists => WalkOver(walk, TableOf(walk.list), gone, OrderOf(walk.list))'
      BY <2>4, <2>5, <1>1 DEF WalkOver, CursorOK, KeyIn
    <2>7. WalkOK'
      BY <2>2, <2>3, <2>6 DEF WalkOK, WalkRecord
    <2> QED
      BY <2>7, <1>1, <1>2 DEF ListsInv
  <1>4. CASE U!handleListMembers
    <2>1. walk.list = "members" /\ WalkRecord(walk)
      BY <1>4 DEF U!handleListMembers, U!Asking, ListsInv, WalkOK
    <2>2. walk'.list = walk.list /\ WalkRecord(walk')
      BY <2>1, <1>4 DEF U!handleListMembers, U!Respond, WalkRecord
    <2>3. WalkOK'
      BY <2>1, <2>2 DEF WalkOK, WalkRecord, PlainLists, U!Lists
    <2> QED
      BY <2>3, <1>1, <1>2 DEF ListsInv
  <1> QED
    BY <1>3, <1>4

(* A new row has an id that is not in use and was not, and a past time.      *)
LEMMA RowInserted ==
  ASSUME NEW T, StampsOK(T), NEW D, NEW i \in Ids \ (DOMAIN T \cup D), NEW t \in 0..ListsHorizon
  PROVE  /\ StampsOK(U!With(T, i, t)) /\ TableMoves(T, U!With(T, i, t), D, D)
         /\ DOMAIN T \subseteq DOMAIN U!With(T, i, t)
  <1>1. DOMAIN U!With(T, i, t) = DOMAIN T \cup {i}
        /\ \A j \in DOMAIN T \cup {i} : U!With(T, i, t)[j] = IF j = i THEN t ELSE T[j]
    BY DEF U!With
  <1>2. IsFiniteSet(DOMAIN T \cup {i})
    BY FS_AddElement DEF StampsOK
  <1> QED
    BY <1>1, <1>2 DEF StampsOK, TableMoves

(* A deleted row's id is never used again.                                   *)
LEMMA RowDeleted ==
  ASSUME NEW T, StampsOK(T), NEW D, NEW i
  PROVE  /\ StampsOK(U!Without(T, {i})) /\ TableMoves(T, U!Without(T, {i}), D, D \cup {i})
         /\ DOMAIN U!Without(T, {i}) = DOMAIN T \ {i}
  <1>1. DOMAIN U!Without(T, {i}) = DOMAIN T \ {i}
        /\ \A j \in DOMAIN T \ {i} : U!Without(T, {i})[j] = T[j]
    BY DEF U!Without
  <1>2. IsFiniteSet(DOMAIN T \ {i})
    BY FS_RemoveElement DEF StampsOK
  <1> QED
    BY <1>1, <1>2 DEF StampsOK, TableMoves

LEMMA TableStays == ASSUME NEW T, NEW D, NEW D2, D \subseteq D2 PROVE TableMoves(T, T, D, D2)
  BY DEF TableMoves

LEMMA TimesPass == ASSUME U!AudiencesAssumption, ListsInv PROVE U!CreatedAt \subseteq 0..ListsHorizon
  BY DEF ListsInv, U!CreatedAt, U!AudiencesAssumption

(* One of the tables that rows are only added to and deleted from.           *)
LEMMA OtherTables ==
  ASSUME TablesOK, NEW list \in U!Tables, NEW T, uTables' = [uTables EXCEPT ![list] = T],
         UNCHANGED <<contacts, audiences, members>>, StampsOK(T), ListsInv
  PROVE  /\ TablesOK' /\ MembersOK'
         /\ \A l \in PlainLists : TableOf(l)' = IF l = list THEN T ELSE TableOf(l)
  <1>1. DOMAIN uTables = U!Tables
    BY DEF TablesOK
  <1>2. \A l \in U!Tables : uTables'[l] = IF l = list THEN T ELSE uTables[l]
    BY <1>1
  <1>3. DOMAIN uTables' = U!Tables
    BY <1>1
  <1>4. TablesOK'
    BY <1>2, <1>3 DEF TablesOK, ContactsOK, StampsOK
  <1>5. MembersOK'
    BY DEF ListsInv, MembersOK
  <1>6. ASSUME NEW l \in PlainLists PROVE TableOf(l)' = IF l = list THEN T ELSE TableOf(l)
    <2>1. list # "contacts" /\ list # "audiences"
      BY DEF U!Tables
    <2>2. CASE l \in U!Tables
      BY <2>1, <2>2, <1>2 DEF TableOf, U!Stamps, U!Tables
    <2>3. CASE l \in {"contacts", "audiences"}
      BY <2>1, <2>3 DEF TableOf, U!Stamps
    <2> QED
      BY <2>2, <2>3 DEF PlainLists, U!Lists
  <1> QED
    BY <1>4, <1>5, <1>6

LEMMA InsertStep ==
  ASSUME U!AudiencesAssumption, ListsInv, NEW list \in U!Tables, U!Insert(list)
  PROVE  ListsInv'
  <1>1. PICK i \in U!newID(uTables[list]), t \in U!CreatedAt :
          uTables' = [uTables EXCEPT ![list] = U!With(uTables[list], i, t)]
    BY DEF U!Insert
  <1> DEFINE T == U!With(uTables[list], i, t)
  <1>2. /\ U!Request /\ UNCHANGED <<contacts, audiences, members, gone, uNow, walk>>
    BY DEF U!Insert
  <1>3. i \in Ids \ (DOMAIN uTables[list] \cup gone) /\ t \in 0..ListsHorizon
    BY TimesPass DEF U!newID
  <1>4. TablesOK /\ StampsOK(uTables[list])
    BY DEF ListsInv, TablesOK
  <1>5. StampsOK(T) /\ TableMoves(uTables[list], T, gone, gone) /\ DOMAIN uTables[list] \subseteq DOMAIN T
    BY <1>3, <1>4, RowInserted
  <1>6. list \in PlainLists /\ TableOf(list) = uTables[list]
    BY DEF PlainLists, U!Lists, U!Tables, TableOf
  <1>7. uTables' = [uTables EXCEPT ![list] = T]
    BY <1>1
  <1> HIDE DEF T
  <1>8. /\ TablesOK' /\ MembersOK'
        /\ \A l \in PlainLists : TableOf(l)' = IF l = list THEN T ELSE TableOf(l)
    BY <1>2, <1>4, <1>5, <1>7, OtherTables
  <1>9. TablesMove
    BY <1>2, <1>5, <1>6, <1>8, TableStays DEF TablesMove
  <1>10. \A l \in PlainLists : DOMAIN TableOf(l) \subseteq DOMAIN (TableOf(l)')
    BY <1>5, <1>6, <1>8
  <1> QED
    BY <1>2, <1>8, <1>9, <1>10, ListsGrow

(* A deletion takes the row out of its table and of what the walk is owed.   *)
LEMMA DeleteStep ==
  ASSUME U!AudiencesAssumption, ListsInv, U!Request, NEW list \in U!Tables, NEW i,
         uTables' = [uTables EXCEPT ![list] = U!Without(uTables[list], {i})], gone' = gone \cup {i},
         U!Gone(list, {i}), UNCHANGED <<contacts, audiences, members, uNow>>
  PROVE  ListsInv'
  <1> DEFINE T == U!Without(uTables[list], {i})
             owed == IF walk.list = list THEN walk.kept \ {i} ELSE walk.kept
  <1>1. TablesOK /\ StampsOK(uTables[list])
    BY DEF ListsInv, TablesOK
  <1>2. /\ StampsOK(T) /\ TableMoves(uTables[list], T, gone, gone \cup {i})
        /\ DOMAIN T = DOMAIN uTables[list] \ {i}
    BY <1>1, RowDeleted
  <1>3. list \in PlainLists /\ TableOf(list) = uTables[list]
    BY DEF PlainLists, U!Lists, U!Tables, TableOf
  <1>4. walk' = [walk EXCEPT !.kept = owed]
    BY DEF U!Gone, ListsInv, WalkOK, WalkRecord
  <1>5. uTables' = [uTables EXCEPT ![list] = T]
    OBVIOUS
  <1> HIDE DEF T
  <1>6. /\ TablesOK' /\ MembersOK'
        /\ \A l \in PlainLists : TableOf(l)' = IF l = list THEN T ELSE TableOf(l)
    BY <1>1, <1>2, <1>5, OtherTables
  <1>7. TablesMove
    BY <1>2, <1>3, <1>6, TableStays DEF TablesMove
  <1>8. ASSUME NEW l \in PlainLists, walk.list = l PROVE owed \subseteq DOMAIN (TableOf(l)')
    <2>1. walk.kept \subseteq DOMAIN TableOf(l)
      BY <1>8 DEF ListsInv, WalkOK, WalkOver
    <2> QED
      BY <2>1, <1>2, <1>3, <1>6, <1>8
  <1>9. owed \subseteq walk.kept
    OBVIOUS
  <1> HIDE DEF owed
  <1> QED
    BY <1>4, <1>6, <1>7, <1>8, <1>9, ListsChange

(* Lists other than contacts when those change. *)
LEMMA OnlyContacts ==
  ASSUME UNCHANGED <<audiences, uTables>>, NEW l \in PlainLists
  PROVE  TableOf(l)' = IF l = "contacts" THEN U!Stamps(contacts)' ELSE TableOf(l)
  BY DEF TableOf

LEMMA OnlyAudiences ==
  ASSUME UNCHANGED <<contacts, uTables>>, NEW l \in PlainLists
  PROVE  TableOf(l)' = IF l = "audiences" THEN audiences' ELSE TableOf(l)
  BY DEF TableOf, U!Stamps

LEMMA CreateContactStep == ASSUME U!AudiencesAssumption, ListsInv, U!handleCreateContact PROVE ListsInv'
  <1>1. PICK i \in U!newID(contacts), e \in Emails, t \in U!CreatedAt : U!CreateContact(i, e, t)
    BY DEF U!handleCreateContact
  <1> DEFINE row == [at |-> t, key |-> U!Normalize(e)]
  <1>2. U!Request /\ UNCHANGED <<audiences, members, uTables, gone, uNow, walk>>
    BY DEF U!handleCreateContact
  <1>3. contacts' = U!With(contacts, i, row)
    BY <1>1 DEF U!CreateContact
  <1>4. i \in Ids \ (DOMAIN contacts \cup gone) /\ t \in 0..ListsHorizon
    BY TimesPass DEF U!newID
  <1>5. row \in U!Contact /\ row.at = t
    BY <1>4 DEF U!Contact
  <1> HIDE DEF row
  <1>6. /\ contacts' = [j \in DOMAIN contacts' |-> contacts'[j]] /\ DOMAIN contacts' = DOMAIN contacts \cup {i}
        /\ \A j \in DOMAIN contacts' : contacts'[j] = IF j = i THEN row ELSE contacts[j]
    BY <1>3 DEF U!With
  <1>7. TablesOK /\ "contacts" \in PlainLists /\ TableOf("contacts") = U!Stamps(contacts)
    BY DEF ListsInv, PlainLists, U!Lists, TableOf
  <1>8. U!Stamps(contacts)' = U!With(U!Stamps(contacts), i, t)
    BY <1>5, <1>6 DEF U!Stamps, U!With
  <1>9. DOMAIN U!Stamps(contacts) = DOMAIN contacts /\ StampsOK(U!Stamps(contacts))
    BY <1>7, PlainTables DEF U!Stamps
  <1>10. /\ TableMoves(U!Stamps(contacts), U!Stamps(contacts)', gone, gone)
         /\ DOMAIN U!Stamps(contacts) \subseteq DOMAIN (U!Stamps(contacts)')
    BY <1>4, <1>8, <1>9, RowInserted
  <1>11. TablesMove /\ \A l \in PlainLists : DOMAIN TableOf(l) \subseteq DOMAIN (TableOf(l)')
    BY <1>2, <1>7, <1>10, OnlyContacts, TableStays DEF TablesMove
  <1>12. TablesOK'
    <2>1. IsFiniteSet(DOMAIN contacts') /\ DOMAIN contacts' \subseteq Ids
      BY <1>4, <1>6, <1>7, FS_AddElement DEF TablesOK
    <2>2. ContactsOK'
      BY <1>5, <1>6, <1>7 DEF TablesOK, ContactsOK, U!Contact
    <2> QED
      BY <2>1, <2>2, <1>2, <1>6, <1>7 DEF TablesOK, StampsOK
  <1>13. MembersOK'
    BY <1>2, <1>6 DEF ListsInv, MembersOK
  <1> QED
    BY <1>2, <1>11, <1>12, <1>13, ListsGrow

LEMMA UpdateContactStep == ASSUME U!AudiencesAssumption, ListsInv, U!handleUpdateContact PROVE ListsInv'
  <1>1. PICK i \in DOMAIN contacts, e \in Emails : contacts' = [contacts EXCEPT ![i].key = U!Normalize(e)]
    BY DEF U!handleUpdateContact, U!UpdateContact
  <1>2. U!Request /\ UNCHANGED <<audiences, members, uTables, gone, uNow, walk>>
    BY DEF U!handleUpdateContact
  <1>3. TablesOK /\ "contacts" \in PlainLists /\ TableOf("contacts") = U!Stamps(contacts)
    BY DEF ListsInv, PlainLists, U!Lists, TableOf
  <1>4. /\ contacts' = [j \in DOMAIN contacts |-> contacts'[j]] /\ DOMAIN contacts' = DOMAIN contacts
        /\ \A j \in DOMAIN contacts : contacts'[j] \in U!Contact /\ contacts'[j].at = contacts[j].at
    BY <1>1, <1>3 DEF TablesOK, ContactsOK, U!Contact
  <1>5. U!Stamps(contacts)' = U!Stamps(contacts)
    BY <1>4 DEF U!Stamps
  <1>6. \A l \in PlainLists : TableOf(l)' = TableOf(l)
    BY <1>2, <1>3, <1>5, OnlyContacts
  <1>7. TablesMove
    BY <1>2, <1>6, TableStays DEF TablesMove
  <1>8. TablesOK'
    BY <1>2, <1>3, <1>4 DEF TablesOK, StampsOK, ContactsOK, U!Contact
  <1>9. MembersOK'
    BY <1>2, <1>4 DEF ListsInv, MembersOK
  <1> QED
    BY <1>2, <1>6, <1>7, <1>8, <1>9, ListsGrow

LEMMA DeleteContactStep == ASSUME U!AudiencesAssumption, ListsInv, U!handleDeleteContact PROVE ListsInv'
  <1>1. PICK i \in DOMAIN contacts : U!DeleteContact(i)
    BY DEF U!handleDeleteContact
  <1> DEFINE owed == IF walk.list \in {"contacts", "members"} THEN walk.kept \ {i} ELSE walk.kept
  <1>2. U!Request /\ UNCHANGED <<audiences, uTables, uNow>>
    BY DEF U!handleDeleteContact
  <1>3. contacts' = U!Without(contacts, {i}) /\ gone' = gone \cup {i}
    BY <1>1 DEF U!DeleteContact
  <1>4. /\ contacts' = [j \in DOMAIN contacts' |-> contacts'[j]] /\ DOMAIN contacts' = DOMAIN contacts \ {i}
        /\ \A j \in DOMAIN contacts' : contacts'[j] = contacts[j]
    BY <1>3 DEF U!Without
  <1>5. TablesOK /\ "contacts" \in PlainLists /\ TableOf("contacts") = U!Stamps(contacts)
    BY DEF ListsInv, PlainLists, U!Lists, TableOf
  <1>6. U!Stamps(contacts)' = U!Without(U!Stamps(contacts), {i})
    BY <1>4 DEF U!Stamps, U!Without
  <1>7. StampsOK(U!Stamps(contacts))
    BY <1>5, PlainTables
  <1>8. /\ TableMoves(U!Stamps(contacts), U!Stamps(contacts)', gone, gone')
        /\ DOMAIN (U!Stamps(contacts)') = DOMAIN U!Stamps(contacts) \ {i}
    <2>1. /\ TableMoves(U!Stamps(contacts), U!Without(U!Stamps(contacts), {i}), gone, gone \cup {i})
          /\ DOMAIN U!Without(U!Stamps(contacts), {i}) = DOMAIN U!Stamps(contacts) \ {i}
      BY <1>7, RowDeleted
    <2> QED
      BY <2>1, <1>3, <1>6
  <1>9. TablesMove
    BY <1>2, <1>3, <1>5, <1>8, OnlyContacts, TableStays DEF TablesMove
  <1>10. walk' = [walk EXCEPT !.kept = owed]
    BY <1>1 DEF U!DeleteContact, ListsInv, WalkOK, WalkRecord
  <1>11. ASSUME NEW l \in PlainLists, walk.list = l PROVE owed \subseteq DOMAIN (TableOf(l)')
    <2>1. walk.kept \subseteq DOMAIN TableOf(l)
      BY <1>11 DEF ListsInv, WalkOK, WalkOver
    <2>2. TableOf(l)' = IF l = "contacts" THEN U!Stamps(contacts)' ELSE TableOf(l)
      BY <1>2, OnlyContacts
    <2> QED
      BY <2>1, <2>2, <1>5, <1>8, <1>11
  <1>12. TablesOK'
    <2>1. IsFiniteSet(DOMAIN contacts') /\ DOMAIN contacts' \subseteq Ids
      BY <1>4, <1>5, FS_RemoveElement DEF TablesOK
    <2>2. ContactsOK'
      BY <1>4, <1>5 DEF TablesOK, ContactsOK, U!Contact
    <2> QED
      BY <2>1, <2>2, <1>2, <1>4, <1>5 DEF TablesOK, StampsOK
  <1>13. MembersOK'
    <2>1. members' = U!Without(members, {m \in DOMAIN members : m[2] = i})
      BY <1>1 DEF U!DeleteContact
    <2>2. \A m \in DOMAIN members' : m \in DOMAIN members /\ m[2] # i
      BY <2>1 DEF U!Without
    <2> QED
      BY <2>2, <1>2, <1>4 DEF ListsInv, MembersOK
  <1>14. owed \subseteq walk.kept
    OBVIOUS
  <1> HIDE DEF owed
  <1> QED
    BY <1>2, <1>9, <1>10, <1>11, <1>12, <1>13, <1>14, ListsChange

LEMMA CreateAudienceStep == ASSUME U!AudiencesAssumption, ListsInv, U!handleCreateAudience PROVE ListsInv'
  <1>1. PICK i \in U!newID(audiences), t \in U!CreatedAt : audiences' = U!With(audiences, i, t)
    BY DEF U!handleCreateAudience, U!CreateAudience
  <1>2. U!Request /\ UNCHANGED <<contacts, members, uTables, gone, uNow, walk>>
    BY DEF U!handleCreateAudience
  <1>3. i \in Ids \ (DOMAIN audiences \cup gone) /\ t \in 0..ListsHorizon
    BY TimesPass DEF U!newID
  <1>4. TablesOK /\ StampsOK(audiences) /\ "audiences" \in PlainLists /\ TableOf("audiences") = audiences
    BY DEF ListsInv, TablesOK, PlainLists, U!Lists, TableOf
  <1>5. /\ StampsOK(audiences') /\ TableMoves(audiences, audiences', gone, gone)
        /\ DOMAIN audiences \subseteq DOMAIN audiences'
    BY <1>1, <1>3, <1>4, RowInserted
  <1>6. TablesMove /\ \A l \in PlainLists : DOMAIN TableOf(l) \subseteq DOMAIN (TableOf(l)')
    BY <1>2, <1>4, <1>5, OnlyAudiences, TableStays DEF TablesMove
  <1>7. TablesOK'
    BY <1>2, <1>4, <1>5 DEF TablesOK, StampsOK, ContactsOK
  <1>8. MembersOK'
    BY <1>2, <1>5 DEF ListsInv, MembersOK
  <1> QED
    BY <1>2, <1>6, <1>7, <1>8, ListsGrow

LEMMA DeleteAudienceStep == ASSUME U!AudiencesAssumption, ListsInv, U!handleDeleteAudience PROVE ListsInv'
  <1>1. PICK i \in DOMAIN audiences : U!DeleteAudience(i)
    BY DEF U!handleDeleteAudience
  <1> DEFINE owed == IF walk.list = "members" /\ walk.of = i THEN {}
                  ELSE IF walk.list = "audiences" THEN walk.kept \ {i} ELSE walk.kept
  <1>2. U!Request /\ UNCHANGED <<contacts, uTables, uNow>>
    BY DEF U!handleDeleteAudience
  <1>3. audiences' = U!Without(audiences, {i}) /\ gone' = gone \cup {i}
    BY <1>1 DEF U!DeleteAudience
  <1>4. TablesOK /\ StampsOK(audiences) /\ "audiences" \in PlainLists /\ TableOf("audiences") = audiences
    BY DEF ListsInv, TablesOK, PlainLists, U!Lists, TableOf
  <1>5. /\ StampsOK(audiences') /\ TableMoves(audiences, audiences', gone, gone')
        /\ DOMAIN audiences' = DOMAIN audiences \ {i}
    BY <1>3, <1>4, RowDeleted
  <1>6. TablesMove
    BY <1>2, <1>3, <1>4, <1>5, OnlyAudiences, TableStays DEF TablesMove
  <1>7. walk' = [walk EXCEPT !.kept = owed]
    BY <1>1 DEF U!DeleteAudience, ListsInv, WalkOK, WalkRecord
  <1>8. ASSUME NEW l \in PlainLists, walk.list = l PROVE owed \subseteq DOMAIN (TableOf(l)')
    <2>1. walk.kept \subseteq DOMAIN TableOf(l)
      BY <1>8 DEF ListsInv, WalkOK, WalkOver
    <2>2. TableOf(l)' = IF l = "audiences" THEN audiences' ELSE TableOf(l)
      BY <1>2, OnlyAudiences
    <2> QED
      BY <2>1, <2>2, <1>4, <1>5, <1>8
  <1>9. TablesOK'
    BY <1>2, <1>4, <1>5 DEF TablesOK, StampsOK, ContactsOK
  <1>10. MembersOK'
    <2>1. members' = U!Without(members, {m \in DOMAIN members : m[1] = i})
      BY <1>1 DEF U!DeleteAudience
    <2>2. \A m \in DOMAIN members' : m \in DOMAIN members /\ m[1] # i
      BY <2>1 DEF U!Without
    <2> QED
      BY <2>2, <1>2, <1>5 DEF ListsInv, MembersOK
  <1>11. owed \subseteq walk.kept
    OBVIOUS
  <1> HIDE DEF owed
  <1> QED
    BY <1>2, <1>6, <1>7, <1>8, <1>9, <1>10, <1>11, ListsChange

(* Memberships come and go with rows that exist; no other list moves.        *)
LEMMA MembershipStep ==
  ASSUME U!AudiencesAssumption, ListsInv, U!handleAddMember \/ U!handleRemoveMember
  PROVE  ListsInv'
  <1>1. U!Request /\ UNCHANGED <<contacts, audiences, uTables, gone, uNow>>
    BY DEF U!handleAddMember, U!handleRemoveMember
  <1>2. \A l \in PlainLists : TableOf(l)' = TableOf(l)
    BY <1>1 DEF TableOf, U!Stamps
  <1>3. TablesMove
    BY <1>1, <1>2, TableStays DEF TablesMove
  <1>4. TablesOK'
    BY <1>1 DEF ListsInv, TablesOK, StampsOK, ContactsOK
  <1>5. CASE U!handleAddMember
    <2>1. PICK a \in DOMAIN audiences, c \in DOMAIN contacts, t \in U!CreatedAt : U!AddAudienceMember(a, c, t)
      BY <1>5 DEF U!handleAddMember
    <2>2. \A m \in DOMAIN members' : m \in DOMAIN members \/ m = <<a, c>>
      BY <2>1 DEF U!AddAudienceMember, U!With
    <2>3. MembersOK'
      BY <2>2, <1>1 DEF ListsInv, MembersOK
    <2>4. walk' = walk
      BY <1>5 DEF U!handleAddMember
    <2> QED
      BY <2>3, <2>4, <1>1, <1>2, <1>3, <1>4, ListsGrow
  <1>6. CASE U!handleRemoveMember
    <2>1. PICK m \in DOMAIN members :
            /\ members' = U!Without(members, {m})
            /\ walk' = IF walk.list = "members" /\ walk.of = m[1]
                       THEN [walk EXCEPT !.kept = walk.kept \ {m[2]}] ELSE walk
      BY <1>6 DEF U!handleRemoveMember, U!RemoveAudienceMember
    <2> DEFINE owed == IF walk.list = "members" /\ walk.of = m[1] THEN walk.kept \ {m[2]} ELSE walk.kept
    <2>2. \A x \in DOMAIN members' : x \in DOMAIN members
      BY <2>1 DEF U!Without
    <2>3. MembersOK'
      BY <2>2, <1>1 DEF ListsInv, MembersOK
    <2>4. walk' = [walk EXCEPT !.kept = owed] /\ owed \subseteq walk.kept
      BY <2>1 DEF ListsInv, WalkOK, WalkRecord
    <2>5. ASSUME NEW l \in PlainLists, walk.list = l PROVE owed \subseteq DOMAIN (TableOf(l)')
      <3>1. walk.kept \subseteq DOMAIN TableOf(l)
        BY <2>5 DEF ListsInv, WalkOK, WalkOver
      <3> QED
        BY <3>1, <2>4, <1>2
    <2> HIDE DEF owed
    <2> QED
      BY <2>3, <2>4, <2>5, <1>1, <1>3, <1>4, ListsChange
  <1> QED
    BY <1>5, <1>6

LEMMA ListsTick == ASSUME U!AudiencesAssumption, ListsInv, U!Tick \/ UNCHANGED U!vars PROVE ListsInv'
  <1>1. UNCHANGED <<contacts, audiences, members, uTables, gone, uMade, walk>>
    BY DEF U!Tick, U!vars
  <1>2. uNow' \in 0..ListsHorizon
    BY DEF U!Tick, U!vars, ListsInv, U!AudiencesAssumption
  <1>3. (TablesOK /\ MembersOK)'
    BY <1>1 DEF ListsInv, TablesOK, MembersOK, ContactsOK, StampsOK
  <1>4. WalkOK'
    BY <1>1 DEF ListsInv, WalkOK, WalkRecord, WalkOver, CursorOK, KeyIn, TableOf, OrderOf, U!Stamps
  <1> QED
    BY <1>1, <1>2, <1>3, <1>4 DEF ListsInv

LEMMA ListsInit == ASSUME U!AudiencesAssumption PROVE U!Init => ListsInv
  <1> SUFFICES ASSUME U!Init PROVE ListsInv
    OBVIOUS
  <1>1. PICK t \in {<<0, 0>>, <<0, 1>>} :
          /\ contacts \in {[i \in {1, 2} |-> [at |-> t[i], key |-> k[i]]] :
               k \in {s \in [{1, 2} -> {U!Normalize(e) : e \in Emails}] : s[1] # s[2]}}
          /\ uTables = [l \in U!Tables |-> t]
    BY DEF U!Init
  <1>2. DOMAIN t = {1, 2} /\ \A i \in {1, 2} : t[i] \in 0..ListsHorizon
    BY DEF U!AudiencesAssumption
  <1>3. IsFiniteSet({1, 2}) /\ IsFiniteSet({1}) /\ {1, 2} \subseteq Ids
    <2>1. IsFiniteSet({1} \cup {2}) /\ IsFiniteSet({1})
      BY FS_Singleton, FS_AddElement
    <2>2. {1} \cup {2} = {1, 2}
      OBVIOUS
    <2> QED
      BY <2>1, <2>2 DEF U!AudiencesAssumption
  <1>4. PICK k \in [{1, 2} -> {U!Normalize(e) : e \in Emails}] :
          contacts = [i \in {1, 2} |-> [at |-> t[i], key |-> k[i]]]
    BY <1>1
  <1>5. ContactsOK
    BY <1>2, <1>4 DEF ContactsOK, U!Contact
  <1>6. StampsOK(t)
    BY <1>2, <1>3 DEF StampsOK
  <1>7. StampsOK(audiences)
    BY <1>3 DEF U!Init, StampsOK, U!AudiencesAssumption
  <1>8. TablesOK
    BY <1>1, <1>3, <1>4, <1>5, <1>6, <1>7 DEF TablesOK
  <1>9. MembersOK
    BY DEF U!Init, MembersOK
  <1>10. WalkOK
    BY DEF U!Init, WalkOK, WalkRecord, U!NoWalk, PlainLists, U!Lists, U!Tables
  <1> QED
    BY <1>8, <1>9, <1>10 DEF ListsInv, U!Init, U!AudiencesAssumption

LEMMA ListsStep == ASSUME U!AudiencesAssumption PROVE ListsInv /\ [U!Next]_U!vars => ListsInv'
  <1> SUFFICES ASSUME ListsInv, [U!Next]_U!vars PROVE ListsInv'
    OBVIOUS
  <1>1. CASE U!CreateBroadcast \/ U!Snapshot \/ U!Others \/ U!handleCreateSuppression
    <2>1. \E l \in U!Tables : U!Insert(l)
      BY <1>1 DEF U!CreateBroadcast, U!Snapshot, U!Others, U!handleCreateSuppression, U!Tables
    <2> QED
      BY <2>1, InsertStep
  <1>2. CASE U!handleDeleteSuppression
    <2>1. PICK i \in DOMAIN uTables["suppressions"] : U!DeleteSuppression(i)
      BY <1>2 DEF U!handleDeleteSuppression
    <2>2. "suppressions" \in U!Tables /\ U!Request /\ UNCHANGED <<contacts, audiences, members, uNow>>
      BY <1>2 DEF U!handleDeleteSuppression, U!Tables
    <2> QED
      BY <2>1, <2>2, DeleteStep DEF U!DeleteSuppression
  <1>3. CASE U!MadeAndDeleted
    <2>1. PICK l \in {"templates", "domains", "webhooks"} :
            \/ U!Insert(l)
            \/ /\ U!Request
               /\ \E i \in DOMAIN uTables[l] :
                    /\ uTables' = [uTables EXCEPT ![l] = U!Without(uTables[l], {i})] /\ gone' = gone \cup {i}
                    /\ U!Gone(l, {i})
               /\ UNCHANGED <<contacts, audiences, members, uNow>>
      BY <1>3 DEF U!MadeAndDeleted
    <2>2. l \in U!Tables
      BY DEF U!Tables
    <2> QED
      BY <2>1, <2>2, InsertStep, DeleteStep
  <1> QED
    BY <1>1, <1>2, <1>3, PagesStep, EmailsStep, WalkStep, CreateContactStep, UpdateContactStep, DeleteContactStep,
       CreateAudienceStep, DeleteAudienceStep, MembershipStep, ListsTick DEF U!Next

(* A walk over any list but audience members shows no row twice and, when it *)
(* ends, has shown every row that stayed, for any page size and any number   *)
(* of rows and requests, with rows committed behind the clock.               *)
LEMMA WalksAlone == ASSUME U!AudiencesAssumption PROVE U!Spec => [](U!TypeOK /\ U!WalksAreExact)
  <1>1. ListsInv => U!TypeOK /\ U!WalksAreExact
    <2> SUFFICES ASSUME ListsInv PROVE U!TypeOK /\ U!WalksAreExact
      OBVIOUS
    <2>1. U!TypeOK
      BY DEF ListsInv, TablesOK, ContactsOK, MembersOK, U!TypeOK
    <2>2. CASE walk.list = "none"
      <3>1. walk.again = FALSE
        BY <2>2 DEF ListsInv, WalkOK, U!NoWalk
      <3> QED
        BY <3>1, <2>1, <2>2 DEF U!WalksAreExact, U!Exact
    <2>3. CASE walk.list \in PlainLists
      <3>1. WalkOver(walk, TableOf(walk.list), gone, OrderOf(walk.list))
        BY <2>3 DEF ListsInv, WalkOK
      <3>2. walk.again = FALSE /\ (~walk.more => walk.kept \subseteq walk.got)
        BY <3>1 DEF WalkOver
      <3> QED
        BY <3>2, <2>1 DEF U!WalksAreExact, U!Exact
    <2> QED
      BY <2>1, <2>2, <2>3 DEF ListsInv, WalkOK, PlainLists, U!WalksAreExact
  <1>2. QED
    BY <1>1, ListsInit, ListsStep, PTL DEF U!Spec

-----------------------------------------------------------------------------
(* The composition.                                                         *)

(* A step of Accounts is a step of one component and leaves the others       *)
(* alone, so each component runs as specified.                              *)
LEMMA AccountsAreComposed == AccountsSpec => H!Spec /\ L!Spec /\ B!Spec /\ K!Spec /\ U!Spec
  <1> USE DEF accountsVars, hVars, lVars, bVars, kVars, uVars, AccountsNext, StepOfSessions, StepOfLinks,
              StepOfBilling, StepOfKeys, StepOfLists
  <1>1. [AccountsNext]_accountsVars => [H!Next]_H!vars
    BY DEF H!vars
  <1>2. [AccountsNext]_accountsVars => [L!Next]_L!vars
    BY DEF L!vars
  <1>3. [AccountsNext]_accountsVars => [B!Next]_B!vars
    BY DEF B!vars
  <1>4. [AccountsNext]_accountsVars => [K!Next]_K!vars
    BY DEF K!vars
  <1>5. [AccountsNext]_accountsVars => [U!Next]_U!vars
    BY DEF U!vars
  <1>6. AccountsInit => H!Init /\ L!Init /\ B!Init /\ K!Init /\ U!Init
    BY DEF AccountsInit
  <1>7. QED
    BY <1>1, <1>2, <1>3, <1>4, <1>5, <1>6, PTL DEF AccountsSpec, H!Spec, L!Spec, B!Spec, K!Spec, U!Spec

(* No refresh token, reset link, challenge, code or OAuth state is honoured  *)
(* twice, the second factor in force was proven, wrong codes are bounded,    *)
(* and of racing rotations of an API key one succeeds, with any number of    *)
(* handlers that stop anywhere (VerifyMFA, RotateRefreshToken, RotateAPIKey). *)
THEOREM CredentialsWorkOnce == AccountsSpec => []CredentialsAreSound
  BY AccountsAreComposed, CredentialsAlone, KeysAlone, AccountsAssumption, PTL
  DEF AccountsAssumption, CredentialsAreSound

(* A new link leaves an address with one that works, and the organization    *)
(* never exceeds its plan's cap, however sends and acceptances race          *)
(* (SupersedeOtherPendingOrgInvitations, lockMemberCap).                   *)
THEOREM InvitationsStaySound == AccountsSpec => []InvitationsAreSound
  BY AccountsAreComposed, LinksAlone, AccountsAssumption, PTL DEF AccountsAssumption, InvitationsAreSound

(* The saved card is charged once per period and no charge is written off,   *)
(* with any number of replicas that die or lose answers anywhere             *)
(* (ClaimRenewalAttempt, settle, reconcilePending).                        *)
THEOREM ChargesStayAccounted == AccountsSpec => []ChargesAreAccounted
  BY AccountsAreComposed, ChargesAlone, AccountsAssumption, PTL DEF AccountsAssumption, ChargesAreAccounted

(* The paid period moves only with a payment not seen before, and a lapse    *)
(* never shortens how long mail is kept (ApplyPlanPayment,                 *)
(* DowngradeLapsedPlans).                                                  *)
THEOREM PlansChangeFairly == AccountsSpec => PlanStepsAreFair
  BY AccountsAreComposed, PlanAlone, AccountsAssumption, PTL DEF AccountsAssumption, PlanStepsAreFair

(* A walk over any list but audience members shows no row twice and, once it *)
(* ends, has shown every row that was there throughout, for any page size,   *)
(* any number of rows, and rows added, deleted or committed late meanwhile   *)
(* (ListContacts, ListMessages, decodeCursor).                             *)
THEOREM WalksStayExact == AccountsSpec => []WalksAreExact
  BY AccountsAreComposed, WalksAlone, AccountsAssumption, PTL DEF AccountsAssumption, WalksAreExact
=============================================================================
