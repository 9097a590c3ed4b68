------------------------------ MODULE HumanAuth ------------------------------
(***************************************************************************)
(* Sessions of one human account: signup, password and OAuth login, TOTP    *)
(* second factor, refresh-token rotation, logout and password reset.       *)
(*                                                                         *)
(* Handlers run concurrently, one per process.  A handler reads rows,      *)
(* checks what it read outside any transaction and then runs one           *)
(* transaction, so a handler is a first step (reads and checks) and one    *)
(* step per later transaction.  PostgreSQL runs READ COMMITTED: a          *)
(* transaction that locks a row others wait for (rotation, reset) is two    *)
(* steps, and an UPDATE over many rows acts on the rows its snapshot saw    *)
(* once their locks are free.  Every other transaction is one step.        *)
(* Tokens are numbered in order of creation; a password is its version,    *)
(* 0 being unusablePasswordHash; a TOTP secret is its enrollment's number. *)
(* One backup code per enrollment stands for the ten.                      *)
(***************************************************************************)
EXTENDS Integers, Sequences, FiniteSets

CONSTANTS
  Procs,        \* handlers in flight
  Steps,        \* TOTP steps inside the skew window
  MaxAttempts,  \* MFAChallengeMaxAttempts
  MaxRequests,  \* bound: requests
  MaxTokens,    \* bound: refresh tokens
  MaxLinks      \* bound: reset tokens, challenges, OAuth states, enrollments

(* Token and enrollment numbers and TOTP steps start at 1; "-" marks an     *)
(* unlocked row.                                                           *)
HumanAuthAssumption ==
  /\ IsFiniteSet(Procs) /\ "-" \notin Procs
  /\ Steps \subseteq Nat \ {0}
  /\ MaxAttempts \in Nat \ {0} /\ MaxLinks \in Nat \ {0}

VARIABLES
  acct,     \* the humans row and its backup codes
  rt,       \* refresh_tokens
  resets,   \* password_reset_tokens
  chals,    \* mfa_challenges
  states,   \* oauth_states
  ident,    \* whether a human_oauth_identities row links the provider account
  access,   \* whether an unexpired access token is in a client's hands
  req,      \* process -> the handler it runs
  clock,    \* logins so far, the order of their timestamps
  made,     \* history: requests so far
  spent,    \* history: one-time credentials that were honoured
  doubled,  \* history: those honoured twice
  proven    \* history: enrollments whose code was checked by ConfirmMFA

tables == <<acct, rt, resets, chals, states, ident>>
history == <<spent, doubled, proven>>
vars == <<acct, rt, resets, chals, states, ident, access, req, clock, made,
          spent, doubled, proven>>

Human == [live: BOOLEAN, pw: Nat, mfa: BOOLEAN, secret: Nat, pend: Nat,
          gen: Nat, codes: SUBSET (1..MaxLinks), step: {0} \cup Steps, last: Nat,
          lock: Procs \cup {"-"}]
RefreshToken == [revoked: BOOLEAN, old: BOOLEAN, lock: Procs \cup {"-"}]
PasswordResetToken == [used: BOOLEAN, old: BOOLEAN]
MFAChallenge == [used: BOOLEAN, old: BOOLEAN, fails: Nat, gone: BOOLEAN]

Idle == [pc |-> "idle", i |-> 0, v |-> 0, at |-> 0, seen |-> {}, code |-> <<0, 0>>]
NoHuman == [live |-> FALSE, pw |-> 0, mfa |-> FALSE, secret |-> 0, pend |-> 0,
            gen |-> 0, codes |-> {}, step |-> 0, last |-> 0, lock |-> "-"]
NewToken == [revoked |-> FALSE, old |-> FALSE, lock |-> "-"]

SignedUp == [NoHuman EXCEPT !.live = TRUE, !.pw = 1]

(* No account yet, one whose SignUp has just answered, or one that has     *)
(* confirmed its first enrollment since.                                   *)
Init ==
  /\ \/ acct = NoHuman /\ rt = <<>> /\ access = FALSE /\ proven = {} /\ spent = {}
     \/ /\ acct = SignedUp /\ rt = <<NewToken>> /\ access = TRUE
        /\ proven = {} /\ spent = {}
     \/ /\ \E s \in Steps :
             /\ acct = [SignedUp EXCEPT !.mfa = TRUE, !.secret = 1, !.gen = 1, !.codes = {1}, !.step = s]
             /\ spent = {<<"totp", <<1, s>>>>}
        /\ rt = <<NewToken>> /\ access = TRUE /\ proven = {1}
  /\ resets = <<>> /\ chals = <<>> /\ states = <<>> /\ ident = FALSE
  /\ req = [p \in Procs |-> Idle] /\ clock = 0 /\ made = 0
  /\ doubled = {}

Goto(p, pc, i, v) ==
  req' = [req EXCEPT ![p] = [@ EXCEPT !.pc = pc, !.i = i, !.v = v]]
Done(p) == req' = [req EXCEPT ![p] = Idle]

(* A request body that decodes; one that does not changes nothing. *)
decodeHumanJSON(p) ==
  /\ req[p].pc = "idle" /\ made < MaxRequests /\ made' = made + 1

VerifyAccessToken == access

(* Routes behind humanAuthMiddleware need an unexpired access token. *)
humanAuthMiddleware(p) == decodeHumanJSON(p) /\ VerifyAccessToken

Spend(c) == spent' = spent \cup c /\ doubled' = doubled \cup (c \cap spent)
NoSpend == UNCHANGED <<spent, doubled>>
Active == {i \in DOMAIN rt : ~rt[i].revoked}

-----------------------------------------------------------------------------
(* Sessions: issueAccessToken and the refresh token rows. *)

CreateRefreshToken == Len(rt) < MaxTokens /\ rt' = Append(rt, NewToken)

mintSession(p) ==
  /\ req[p].pc = "mint"
  /\ CreateRefreshToken /\ access' = TRUE
  /\ Done(p)
  /\ UNCHANGED <<acct, resets, chals, states, ident, clock, made, history>>

CreateHuman(pw) == acct' = [acct EXCEPT !.live = TRUE, !.pw = pw]

SignUp(p) ==
  \/ acct.live /\ Done(p) /\ UNCHANGED acct            \* ErrEmailTaken
  \/ ~acct.live /\ CreateHuman(1) /\ Goto(p, "mint", 0, 0)

handleSignup(p) ==
  /\ decodeHumanJSON(p) /\ SignUp(p)
  /\ UNCHANGED <<rt, resets, chals, states, ident, access, clock, history>>

newMFAChallenge(p) ==
  /\ req[p].pc = "challenge" /\ Len(chals) < MaxLinks
  /\ chals' = Append(chals, [used |-> FALSE, old |-> FALSE, fails |-> 0, gone |-> FALSE])
  /\ Done(p)
  /\ UNCHANGED <<acct, rt, resets, states, ident, access, clock, made, history>>

(* A first factor was checked: ask for the second one or go on to          *)
(* completeLogin, which reads the clock before its transaction.            *)
Authenticated(p) ==
  \/ acct'.mfa /\ Goto(p, "challenge", 0, 0) /\ UNCHANGED clock
  \/ /\ ~acct'.mfa /\ clock' = clock + 1
     /\ req' = [req EXCEPT ![p] = [@ EXCEPT !.pc = "session", !.at = clock + 1]]

Login(p, pw) ==
  /\ UNCHANGED acct
  /\ IF acct.live /\ acct.pw > 0 /\ pw = acct.pw
     THEN Authenticated(p)
     ELSE Done(p) /\ UNCHANGED clock                   \* ErrInvalidCredentials

handleLogin(p) ==
  /\ decodeHumanJSON(p) /\ \E pw \in 0..acct.pw : Login(p, pw)
  /\ UNCHANGED <<rt, resets, chals, states, ident, access, history>>

TouchLoginAndCreateRefreshToken(at) ==
  /\ acct.lock = "-"
  /\ acct' = [acct EXCEPT !.last = IF @ < at THEN at ELSE @]
  /\ CreateRefreshToken

completeLogin(p) ==
  /\ req[p].pc = "session"
  /\ TouchLoginAndCreateRefreshToken(req[p].at) /\ access' = TRUE
  /\ Done(p)
  /\ UNCHANGED <<resets, chals, states, ident, clock, made, history>>

-----------------------------------------------------------------------------
(* Rotation, logout and reuse. *)

(* A revoked token is a compromise signal, an expired one is refused, any  *)
(* other goes on to RotateRefreshToken.                                    *)
Refresh(p, i) ==
  \/ rt[i].revoked /\ Goto(p, "reuse", i, 0)
  \/ ~rt[i].revoked /\ rt[i].old /\ Done(p)
  \/ ~rt[i].revoked /\ ~rt[i].old /\ Goto(p, "rotate", i, 0)

handleRefresh(p) ==
  /\ decodeHumanJSON(p) /\ \E i \in DOMAIN rt : Refresh(p, i)
  /\ UNCHANGED <<tables, access, clock, history>>

(* Mutant: the UPDATE's affected-row count is not looked at. *)
RotateRefreshToken_Blind(p) ==
  /\ req[p].pc = "rotate" /\ rt[req[p].i].lock = "-"
  /\ rt' = [rt EXCEPT ![req[p].i].lock = p]
  /\ Goto(p, "rotated", req[p].i, 0)
  /\ UNCHANGED <<acct, resets, chals, states, ident, access, clock, made, history>>

(* The transaction's UPDATE of the old row: it waits for the row's lock    *)
(* and is lost when the row is revoked by then.                            *)
RotateRefreshToken(p) ==
  /\ req[p].pc = "rotate" /\ rt[req[p].i].lock = "-"
  /\ \/ rt[req[p].i].revoked /\ Done(p) /\ UNCHANGED rt  \* ErrRefreshTokenRotationLost
     \/ /\ ~rt[req[p].i].revoked
        /\ rt' = [rt EXCEPT ![req[p].i].lock = p]
        /\ Goto(p, "rotated", req[p].i, 0)
  /\ UNCHANGED <<acct, resets, chals, states, ident, access, clock, made, history>>

(* Its INSERT and COMMIT: only now do others see either change. *)
CommitRotation(p) ==
  /\ req[p].pc = "rotated" /\ Len(rt) < MaxTokens
  /\ rt' = Append([rt EXCEPT ![req[p].i].revoked = TRUE, ![req[p].i].lock = "-"],
                  NewToken)
  /\ Spend({<<"refresh", req[p].i>>}) /\ access' = TRUE
  /\ Done(p)
  /\ UNCHANGED <<acct, resets, chals, states, ident, clock, made, proven>>

(* UPDATE ... WHERE human_id = $1 AND revoked_at IS NULL acts on the rows   *)
(* of its snapshot, each once its lock is free.                            *)
Unlocked(S) == \A i \in S : rt[i].lock = "-"
RevokeAllRefreshTokensForHuman(S) ==
  rt' = [i \in DOMAIN rt |-> IF i \in S THEN [rt[i] EXCEPT !.revoked = TRUE] ELSE rt[i]]

ReuseSnapshot(p) ==
  /\ req[p].pc = "reuse"
  /\ req' = [req EXCEPT ![p] = [@ EXCEPT !.pc = "revoking", !.seen = Active]]
  /\ UNCHANGED <<tables, access, clock, made, history>>

ReuseRevokes(p) ==
  /\ req[p].pc = "revoking" /\ Unlocked(req[p].seen)
  /\ RevokeAllRefreshTokensForHuman(req[p].seen)
  /\ Done(p)
  /\ UNCHANGED <<acct, resets, chals, states, ident, access, clock, made, history>>

RevokeRefreshToken(i) ==
  rt[i].lock = "-" /\ rt' = [rt EXCEPT ![i].revoked = TRUE]

Logout(p, i) == RevokeRefreshToken(i) /\ Done(p)

handleLogout(p) ==
  /\ decodeHumanJSON(p) /\ \E i \in DOMAIN rt : Logout(p, i)
  /\ UNCHANGED <<acct, resets, chals, states, ident, access, clock, history>>

-----------------------------------------------------------------------------
(* Password reset. *)

CreatePasswordResetToken ==
  Len(resets) < MaxLinks /\ resets' = Append(resets, [used |-> FALSE, old |-> FALSE])

(* The same answer whether or not the address is known. *)
ForgotPassword(p) ==
  /\ IF acct.live THEN CreatePasswordResetToken ELSE UNCHANGED resets
  /\ Done(p)

handleForgotPassword(p) ==
  /\ decodeHumanJSON(p) /\ ForgotPassword(p)
  /\ UNCHANGED <<acct, rt, chals, states, ident, access, clock, history>>

GetPasswordResetTokenByHash(t) == resets[t]

ResetPassword(p, t) ==
  LET rec == GetPasswordResetTokenByHash(t) IN
  IF rec.used \/ rec.old THEN Done(p) ELSE Goto(p, "reset", t, 0)

handleResetPassword(p) ==
  /\ decodeHumanJSON(p) /\ \E t \in DOMAIN resets : ResetPassword(p, t)
  /\ UNCHANGED <<tables, access, clock, history>>

(* The transaction's first three statements: consume the token, update and *)
(* lock the humans row, start the UPDATE of the refresh tokens.            *)
BeginReset(p) ==
  /\ req[p].pc = "reset" /\ acct.lock = "-"
  /\ \/ resets[req[p].i].used /\ Done(p) /\ UNCHANGED acct \* ErrPasswordResetTokenConsumed
     \/ /\ ~resets[req[p].i].used
        /\ acct' = [acct EXCEPT !.lock = p]
        /\ req' = [req EXCEPT ![p] = [@ EXCEPT !.pc = "resetting", !.seen = Active]]
  /\ UNCHANGED <<rt, resets, chals, states, ident, access, clock, made, history>>

CommitReset(p) ==
  /\ req[p].pc = "resetting" /\ Unlocked(req[p].seen)
  /\ resets' = [resets EXCEPT ![req[p].i].used = TRUE]
  /\ acct' = [acct EXCEPT !.pw = @ + 1, !.lock = "-"]
  /\ RevokeAllRefreshTokensForHuman(req[p].seen)
  /\ Spend({<<"reset", req[p].i>>})
  /\ Done(p)
  /\ UNCHANGED <<chals, states, ident, access, clock, made, proven>>

-----------------------------------------------------------------------------
(* The second factor.  A code <<k, s>> is the TOTP of enrollment k at step  *)
(* s, <<k, 0>> its backup code, <<0, s>> a wrong or malformed one.          *)

Codes == {<<k, s>> : k \in 0..acct.gen, s \in {0} \cup Steps}
verifyTOTP(key, code) == code[2] \in Steps /\ code[1] = key

EnrollMFA(p) == IF acct.mfa THEN Done(p) ELSE Goto(p, "enroll", 0, 0)

handleMFAEnroll(p) ==
  /\ humanAuthMiddleware(p) /\ acct.live /\ EnrollMFA(p)
  /\ UNCHANGED <<tables, access, clock, history>>

SetPendingMFA(p) ==
  /\ req[p].pc = "enroll" /\ acct.lock = "-"
  /\ \/ acct.mfa /\ UNCHANGED acct                      \* ErrConflict
     \/ /\ ~acct.mfa /\ acct.gen < MaxLinks
        /\ acct' = [acct EXCEPT !.gen = @ + 1, !.pend = acct.gen + 1,
                                !.codes = {acct.gen + 1}]
  /\ Done(p)
  /\ UNCHANGED <<rt, resets, chals, states, ident, access, clock, made, history>>

ConfirmMFA(p, code) ==
  IF acct.mfa \/ acct.pend = 0 \/ ~verifyTOTP(acct.pend, code)
  THEN Done(p) /\ UNCHANGED proven
  ELSE /\ req' = [req EXCEPT ![p] = [@ EXCEPT !.pc = "activate", !.v = acct.pend, !.code = code]]
       /\ proven' = proven \cup {acct.pend}

handleMFAConfirm(p) ==
  /\ humanAuthMiddleware(p) /\ acct.live
  /\ \E code \in Codes : ConfirmMFA(p, code)
  /\ NoSpend /\ UNCHANGED <<tables, access, clock>>

(* Mutant: whichever secret is pending by now is activated. *)
ActivateMFA_AnyPending(p) ==
  /\ req[p].pc = "activate" /\ acct.lock = "-"
  /\ IF ~acct.mfa /\ acct.pend # 0
     THEN /\ acct' = [acct EXCEPT !.mfa = TRUE, !.secret = acct.pend, !.pend = 0,
                                  !.step = req[p].code[2]]
          /\ Spend({<<"totp", req[p].code>>})
     ELSE UNCHANGED acct /\ NoSpend
  /\ Done(p)
  /\ UNCHANGED <<rt, resets, chals, states, ident, access, clock, made, proven>>

ActivateMFA(p) ==
  /\ req[p].pc = "activate" /\ acct.lock = "-"
  /\ IF ~acct.mfa /\ acct.pend = req[p].v
     THEN /\ acct' = [acct EXCEPT !.mfa = TRUE, !.secret = acct.pend, !.pend = 0,
                                  !.step = req[p].code[2]]
          /\ Spend({<<"totp", req[p].code>>})
     ELSE UNCHANGED acct /\ NoSpend                     \* ErrMFAConsumed
  /\ Done(p)
  /\ UNCHANGED <<rt, resets, chals, states, ident, access, clock, made, proven>>

DisableMFA(p, pw) ==
  IF acct.pw > 0 /\ pw = acct.pw THEN Goto(p, "disable", 0, 0) ELSE Done(p)

handleMFADisable(p) ==
  /\ humanAuthMiddleware(p) /\ acct.live /\ \E pw \in 0..acct.pw : DisableMFA(p, pw)
  /\ UNCHANGED <<tables, access, clock, history>>

DeleteMFA(p) ==
  /\ req[p].pc = "disable" /\ acct.lock = "-"
  /\ acct' = [acct EXCEPT !.mfa = FALSE, !.secret = 0, !.pend = 0, !.step = 0, !.codes = {}]
  /\ chals' = [c \in DOMAIN chals |-> [chals[c] EXCEPT !.gone = TRUE]]
  /\ Done(p)
  /\ UNCHANGED <<rt, resets, states, ident, access, clock, made, history>>

GetMFAChallengeByHash(c) == chals[c]

(* A used, expired or deleted challenge and one of an account whose MFA is  *)
(* off by now are refused; a wrong code counts as a failure.               *)
VerifyMFA(p, c, code) ==
  LET rec == GetMFAChallengeByHash(c)
      totp == code[2] \in Steps
      next(pc) == req' = [req EXCEPT ![p] = [@ EXCEPT !.pc = pc, !.i = c, !.code = code]]
      checked == IF totp THEN verifyTOTP(acct.secret, code) ELSE code[1] # 0
  IN IF rec.gone \/ rec.used \/ rec.old \/ (totp /\ ~acct.mfa)
     THEN Done(p)
     ELSE next(IF checked THEN "complete" ELSE "mfafail")

handleMFAVerify(p) ==
  /\ decodeHumanJSON(p)
  /\ \E c \in DOMAIN chals, code \in Codes : VerifyMFA(p, c, code)
  /\ UNCHANGED <<tables, access, clock, history>>

Challengeable(c) == ~chals[c].gone /\ ~chals[c].used /\ ~chals[c].old

(* One transaction consumes the challenge and the factor, or neither. *)
CompleteMFAChallenge(p) ==
  LET c == req[p].i
      k == req[p].code[1]
      s == req[p].code[2]
      ok == /\ Challengeable(c)
            /\ IF s \in Steps THEN acct.mfa /\ acct.step < s ELSE k \in acct.codes
  IN /\ req[p].pc = "complete" /\ acct.lock = "-"
     /\ IF ok
        THEN /\ chals' = [chals EXCEPT ![c].used = TRUE]
             /\ acct' = IF s \in Steps THEN [acct EXCEPT !.step = s]
                        ELSE [acct EXCEPT !.codes = @ \ {k}]
             /\ Spend({<<"mfa", c>>, <<"totp", <<k, s>>>>})
             /\ clock' = clock + 1
             /\ req' = [req EXCEPT ![p] = [@ EXCEPT !.pc = "session", !.at = clock + 1]]
        ELSE /\ Goto(p, "mfafail", c, 0)
             /\ NoSpend /\ UNCHANGED <<acct, chals, clock>>
     /\ UNCHANGED <<rt, resets, states, ident, access, made, proven>>

(* Mutant: the challenge is burned one wrong code too late. *)
RecordMFAChallengeFailure_OneLate(p) ==
  LET c == req[p].i IN
  /\ req[p].pc = "mfafail"
  /\ chals' = [chals EXCEPT ![c].fails = @ + 1,
                            ![c].used = @ \/ chals[c].fails + 1 > MaxAttempts]
  /\ Done(p)
  /\ UNCHANGED <<acct, rt, resets, states, ident, access, clock, made, history>>

RecordMFAChallengeFailure(p) ==
  LET c == req[p].i IN
  /\ req[p].pc = "mfafail"
  /\ chals' = [chals EXCEPT ![c].fails = @ + 1,
                            ![c].used = @ \/ chals[c].fails + 1 >= MaxAttempts]
  /\ Done(p)
  /\ UNCHANGED <<acct, rt, resets, states, ident, access, clock, made, history>>

-----------------------------------------------------------------------------
(* OAuth sign-in. *)

CreateOAuthState == Len(states) < MaxLinks /\ states' = Append(states, "open")

StartOAuth(p) == CreateOAuthState /\ Done(p)

handleOAuthStart(p) ==
  /\ decodeHumanJSON(p) /\ StartOAuth(p)
  /\ UNCHANGED <<acct, rt, resets, chals, ident, access, clock, history>>

ConsumeOAuthState(st) == states' = [states EXCEPT ![st] = "deleted"]

(* exchange and fetchUser ask the provider, which may refuse or know no     *)
(* verified address.                                                       *)
fetchUser(p) == Done(p) \/ Goto(p, "resolve", 0, 0)

(* The state is deleted before the provider is asked.                       *)
CompleteOAuth(p, st) ==
  \/ states[st] # "open" /\ Done(p) /\ NoSpend /\ UNCHANGED states \* ErrOAuthStateInvalid
  \/ /\ states[st] = "open" /\ ConsumeOAuthState(st) /\ Spend({<<"oauth", st>>})
     /\ fetchUser(p)

handleOAuthCallback(p) ==
  /\ decodeHumanJSON(p) /\ \E st \in DOMAIN states : CompleteOAuth(p, st)
  /\ UNCHANGED <<acct, rt, resets, chals, ident, access, clock, proven>>

(* An identity row, an account without a password, or a new account;       *)
(* never an account that has one.                                          *)
ResolveOAuthHuman(p) ==
  /\ req[p].pc = "resolve"
  /\ \/ /\ ~ident /\ acct.live /\ acct.pw > 0
        /\ Done(p) /\ UNCHANGED <<acct, ident, clock>> \* ErrOAuthAccountRequiresPasswordLogin
     \/ /\ ident \/ ~acct.live \/ acct.pw = 0
        /\ IF acct.live THEN UNCHANGED acct ELSE CreateHuman(0)
        /\ ident' = TRUE
        /\ Authenticated(p)
  /\ UNCHANGED <<rt, resets, chals, states, access, made, history>>

-----------------------------------------------------------------------------
(* Time and failures. *)

(* A TTL runs out. *)
Expire ==
  /\ \/ \E i \in DOMAIN rt : ~rt[i].old /\ rt' = [rt EXCEPT ![i].old = TRUE]
        /\ UNCHANGED <<resets, chals, states, access>>
     \/ \E t \in DOMAIN resets : ~resets[t].old /\ resets' = [resets EXCEPT ![t].old = TRUE]
        /\ UNCHANGED <<rt, chals, states, access>>
     \/ \E c \in DOMAIN chals : ~chals[c].old /\ chals' = [chals EXCEPT ![c].old = TRUE]
        /\ UNCHANGED <<rt, resets, states, access>>
     \/ \E st \in DOMAIN states : states[st] = "open" /\ states' = [states EXCEPT ![st] = "deleted"]
        /\ UNCHANGED <<rt, resets, chals, access>>
     \/ access /\ access' = FALSE /\ UNCHANGED <<rt, resets, chals, states>>
  /\ UNCHANGED <<acct, ident, req, clock, made, history>>

(* A failing call, a cancelled request or a crash rolls the transaction    *)
(* back and ends the handler.                                              *)
Fail(p) ==
  /\ req[p].pc # "idle"
  /\ rt' = [i \in DOMAIN rt |-> IF rt[i].lock = p THEN [rt[i] EXCEPT !.lock = "-"] ELSE rt[i]]
  /\ acct' = IF acct.lock = p THEN [acct EXCEPT !.lock = "-"] ELSE acct
  /\ Done(p)
  /\ UNCHANGED <<resets, chals, states, ident, access, clock, made, history>>

Next ==
  \/ Expire
  \/ \E p \in Procs :
       \/ handleSignup(p) \/ mintSession(p) \/ handleLogin(p) \/ completeLogin(p)
       \/ newMFAChallenge(p) \/ handleRefresh(p) \/ RotateRefreshToken(p)
       \/ CommitRotation(p) \/ ReuseSnapshot(p) \/ ReuseRevokes(p) \/ handleLogout(p)
       \/ handleForgotPassword(p) \/ handleResetPassword(p) \/ BeginReset(p)
       \/ CommitReset(p) \/ handleMFAEnroll(p) \/ SetPendingMFA(p)
       \/ handleMFAConfirm(p) \/ ActivateMFA(p) \/ handleMFADisable(p) \/ DeleteMFA(p)
       \/ handleMFAVerify(p) \/ CompleteMFAChallenge(p) \/ RecordMFAChallengeFailure(p)
       \/ handleOAuthStart(p) \/ handleOAuthCallback(p) \/ ResolveOAuthHuman(p)
       \/ Fail(p)

Spec == Init /\ [][Next]_vars

-----------------------------------------------------------------------------

TypeOK ==
  /\ acct \in Human /\ rt \in Seq(RefreshToken) /\ resets \in Seq(PasswordResetToken)
  /\ chals \in Seq(MFAChallenge) /\ states \in Seq({"open", "deleted"})
  /\ ident \in BOOLEAN /\ access \in BOOLEAN /\ clock \in Nat

(* No one-time credential is honoured twice, however requests race: a       *)
(* refresh token has one successor, a reset link changes one password, an   *)
(* MFA challenge, a TOTP code and a backup code log in once, an OAuth state *)
(* is consumed once.                                                        *)
SingleUse == doubled = {}

(* The second factor an account demands is one whose code its owner has     *)
(* shown to the server, even when enrollments and confirmations race.       *)
EnabledSecretWasProven == acct.mfa => acct.secret \in proven

(* A challenge takes no more wrong codes than MaxAttempts and those that     *)
(* were being looked at when the last of them was counted                   *)
(* (RecordMFAChallengeFailure).                                             *)
GuessesAreBounded ==
  \A c \in DOMAIN chals : chals[c].fails < MaxAttempts + Cardinality(Procs)

(* Sign-in is sound however requests race: no credential is honoured twice, *)
(* the second factor is one its owner has proven and cannot be guessed at   *)
(* for long.                                                               *)
CredentialsAreSound == TypeOK /\ SingleUse /\ EnabledSecretWasProven /\ GuessesAreBounded
=============================================================================
