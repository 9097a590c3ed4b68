----------------------------- MODULE SmtpServer -----------------------------
(***************************************************************************)
(* The SMTP receiver and the authenticated submission listener: the accept  *)
(* loop with its connection slots, the command loop of each session, and    *)
(* the sink that turns an accepted submission into a message request.       *)
(*                                                                         *)
(* A client sends any command in any state.  Reply wording is left out:     *)
(* a refused command is a step that changes nothing but the client's        *)
(* knowledge.  The bytes of DATA are the subject of SmtpData; here a DATA    *)
(* ends in one of the verdicts readData, ParseMessage and the sink give.    *)
(***************************************************************************)
EXTENDS Integers, Sequences, FiniteSets, SequencesExt

CONSTANTS
  Conns,           \* clients that may connect
  Boxes,           \* mailboxes
  Tenants,         \* owners of API keys with the emails:send scope
  RequireAuth,     \* the submission listener's configuration
  MaxConnections,  \* slots
  MaxRecipients

SmtpServerAssumption == MaxConnections \in Nat /\ "none" \notin Tenants

VARIABLES
  slots,    \* tokens in the slots channel
  sess,     \* connection -> Session
  told,     \* connection -> the envelope and the tenant its client was confirmed
  sunk      \* the message the last step handed to the sink and the sink kept

vars == <<slots, sess, told, sunk>>

(* A mailbox as written: a path in brackets, in lower or upper case, a bare *)
(* header address or one with a display name.                              *)
Paths == {"path", "PATH"}
Forms == Paths \cup {"bare", "named"}
Address == [box: Boxes, form: Forms]

NoFrom == "none"
ReversePaths == {NoFrom, "<>"} \cup {"<s>"}
Envelope == [from: ReversePaths, rcpt: Seq(Address)]
NoEnvelope == [from |-> NoFrom, rcpt |-> <<>>]
Session == [state: {"closed", "connected", "greeted", "mailReceived"},
            env: Envelope, tenant: Tenants \cup {"none"}]
NewSession == [state |-> "connected", env |-> NoEnvelope, tenant |-> "none"]
NoSession == [NewSession EXCEPT !.state = "closed"]
ToldNothing == [env |-> NoEnvelope, tenant |-> "none"]
NoMessage == [env |-> NoEnvelope, tenant |-> "none", told |-> ToldNothing,
              visible |-> {}, bcc |-> <<>>]

Init ==
  /\ slots = 0
  /\ sess = [c \in Conns |-> NoSession]
  /\ told = [c \in Conns |-> ToldNothing]
  /\ sunk = NoMessage

Open(c) == sess[c].state # "closed"

-----------------------------------------------------------------------------
(* The accept loop.  A connection beyond MaxConnections is closed at once.  *)

tryAcquire == slots < MaxConnections /\ slots' = slots + 1

Serve(c) ==
  /\ ~Open(c) /\ tryAcquire
  /\ sess' = [sess EXCEPT ![c] = NewSession]
  /\ sunk' = NoMessage /\ UNCHANGED told

(* The deferred release of handle runs however serve returned: QUIT, a line *)
(* too long, a read or write error, a deadline.                            *)
handle(c) ==
  /\ slots' = slots - 1
  /\ sess' = [sess EXCEPT ![c] = NoSession]
  /\ told' = [told EXCEPT ![c] = ToldNothing]

HandleConnectionWithConfig(c) == Open(c) /\ handle(c) /\ sunk' = NoMessage

-----------------------------------------------------------------------------
(* The command loop. *)

(* Mutant: the recipients of the last transaction stay. *)
resetTransaction_KeepsRcpt(s) ==
  [s EXCEPT !.env.from = NoFrom, !.state = IF @ = "mailReceived" THEN "greeted" ELSE @]

resetTransaction(s) ==
  [s EXCEPT !.env = NoEnvelope, !.state = IF @ = "mailReceived" THEN "greeted" ELSE @]

Forget(c) == told' = [told EXCEPT ![c].env = NoEnvelope]

EHLO(c) ==
  /\ Open(c)
  /\ sess' = [sess EXCEPT ![c] = [resetTransaction(@) EXCEPT !.state = "greeted"]]
  /\ Forget(c) /\ sunk' = NoMessage /\ UNCHANGED slots

RSET(c) ==
  /\ Open(c)
  /\ sess' = [sess EXCEPT ![c] = resetTransaction(@)]
  /\ Forget(c) /\ sunk' = NoMessage /\ UNCHANGED slots

(* The authenticator answers for a live key with the send scope; any other  *)
(* credential changes nothing.  Accepted in every state, kept by EHLO and   *)
(* RSET.                                                                   *)
AUTH(c) ==
  /\ Open(c) /\ RequireAuth
  /\ \E t \in Tenants : /\ sess' = [sess EXCEPT ![c].tenant = t]
                        /\ told' = [told EXCEPT ![c].tenant = t]
  /\ sunk' = NoMessage /\ UNCHANGED slots

MAIL(c) ==
  /\ Open(c)
  /\ RequireAuth => sess[c].tenant # "none"
  /\ sess[c].state = "greeted"
  /\ \E f \in ReversePaths \ {NoFrom} :
       /\ sess' = [sess EXCEPT ![c].env.from = f, ![c].state = "mailReceived"]
       /\ told' = [told EXCEPT ![c].env = [from |-> f, rcpt |-> <<>>]]
  /\ sunk' = NoMessage /\ UNCHANGED slots

RCPT(c) ==
  /\ Open(c) /\ sess[c].state = "mailReceived"
  /\ Len(sess[c].env.rcpt) < MaxRecipients
  /\ \E a \in [box: Boxes, form: Paths] :
       /\ sess' = [sess EXCEPT ![c].env.rcpt = Append(@, a)]
       /\ told' = [told EXCEPT ![c].env.rcpt = Append(@, a)]
  /\ sunk' = NoMessage /\ UNCHANGED slots

normalizeMailboxKey(a) == a.box

(* The visible recipients come from the headers; each envelope recipient    *)
(* that is in neither To nor Cc is appended to the hidden ones.  Their list *)
(* is written with the places its members have in the envelope's.           *)
submissionEnvelope(env, visible) ==
  [i \in {n \in DOMAIN env.rcpt :
          \A v \in visible : normalizeMailboxKey(v) # normalizeMailboxKey(env.rcpt[n])} |->
     env.rcpt[i]]

HeaderAddresses == {V \in SUBSET {a \in Address : a.form \notin Paths} : Cardinality(V) <= 1}

(* validate wants a visible recipient; UNIQUE (message_id, address,          *)
(* header_kind) fails the insert when an address is hidden twice, compared   *)
(* as written: a mailbox in two spellings is stored twice.                  *)
Storable(visible, bcc) ==
  visible # {} /\ \A i, j \in DOMAIN bcc : bcc[i] = bcc[j] => i = j

Sink(c, visible) ==
  LET bcc == submissionEnvelope(sess[c].env, visible) IN
  /\ Storable(visible, bcc)
  /\ sunk' = [env |-> sess[c].env, tenant |-> sess[c].tenant, told |-> told[c],
              visible |-> visible, bcc |-> bcc]

(* Every verdict ends the transaction; only an accepted message reached the *)
(* sink and was kept (the sink refuses what acceptOne refuses).            *)
DATA(c) ==
  /\ Open(c) /\ sess[c].state = "mailReceived" /\ sess[c].env.rcpt # <<>>
  /\ \/ \E visible \in HeaderAddresses : Sink(c, visible)    \* 250
     \/ sunk' = NoMessage                                    \* 451, 552, 554
  /\ sess' = [sess EXCEPT ![c] = resetTransaction(@)]
  /\ Forget(c) /\ UNCHANGED slots

Next ==
  \E c \in Conns :
    \/ Serve(c) \/ HandleConnectionWithConfig(c) \/ EHLO(c) \/ RSET(c)
    \/ AUTH(c) \/ MAIL(c) \/ RCPT(c) \/ DATA(c)

Spec == Init /\ [][Next]_vars

-----------------------------------------------------------------------------

TypeOK ==
  /\ slots \in 0..MaxConnections /\ sess \in [Conns -> Session]
  /\ told \in [Conns -> [env: Envelope, tenant: Tenants \cup {"none"}]]

(* A message goes out with the sender and the recipients its client was     *)
(* told were accepted since the transaction began, in that order, and under *)
(* the tenant whose key that client last gave: nothing of an earlier        *)
(* message, refused, oversized or abandoned, of an earlier session on the   *)
(* listener or of one open beside it comes along.                          *)
MessageIsTheDialogue ==
  /\ sunk.env = sunk.told.env /\ sunk.tenant = sunk.told.tenant
  /\ RequireAuth /\ sunk # NoMessage => sunk.tenant \in Tenants

Shown == {a.box : a \in sunk.visible}
Hidden == {sunk.bcc[i].box : i \in DOMAIN sunk.bcc}

(* Every recipient the client named is among those of the message, a        *)
(* mailbox shown in To or Cc is not added again as Bcc, whatever form it    *)
(* was written in, and none is hidden twice in one spelling.               *)
RecipientsAreReached ==
  /\ Shown \cap Hidden = {}
  /\ \A i \in DOMAIN sunk.env.rcpt : sunk.env.rcpt[i].box \in Shown \cup Hidden
  /\ \A i, j \in DOMAIN sunk.bcc : sunk.bcc[i] = sunk.bcc[j] => i = j

(* The slots channel holds one token per open session: a session that ends  *)
(* in any way gives its slot back and none takes two.                      *)
SlotsMatchSessions == slots = Cardinality({c \in Conns : Open(c)})

(* Sessions do not leak into one another: not their envelopes, their        *)
(* tenants, their recipients, nor their slots.                             *)
SessionsAreSeparate ==
  /\ TypeOK /\ MessageIsTheDialogue /\ RecipientsAreReached /\ SlotsMatchSessions
=============================================================================
