----------------------------- MODULE OutboundSmtp ----------------------------
(***************************************************************************)
(* One delivery operation: MX lookup, the order of the candidates, the SMTP *)
(* client's session with each (STARTTLS and AUTH included) and the fallback *)
(* to the next.                                                            *)
(*                                                                         *)
(* A server's reply is its class: "ok" (the code the client waits for),    *)
(* "4xx", "5xx" or "other"; "lost" stands for a timeout, a dropped          *)
(* connection or a malformed reply, whatever the server did before it.     *)
(***************************************************************************)
EXTENDS Integers, Sequences, FiniteSets, Functions

CONSTANTS
  Hosts,          \* host names; "." is the null MX, "bad" an unsafe one
  Prefs,          \* MX preferences
  MaxRecords,     \* bound: MX records of the domain
  MaxCandidates,
  Rcpts           \* recipients of the envelope

VARIABLES
  config,   \* [relay, creds, tls]: trusted relay, its credentials, TLS policy
  pc,       \* the stage the operation is in
  todo,     \* candidates not yet tried
  conn,     \* the session with the current candidate
  attempts, \* candidates tried, in order
  result,   \* [kind, temporary] of the operation
  canceled, \* the caller's context
  wire,     \* history: hosts that saw MAIL FROM, hosts that took the message
  leaked    \* history: whether credentials or mail went out unprotected

vars == <<config, pc, todo, conn, attempts, result, canceled, wire, leaked>>

MX == [host: Hosts, pref: Prefs]
hostSafe(h) == h \notin {".", "bad"}

OutboundSmtpAssumption ==
  /\ Prefs \subseteq Nat /\ 0 \in Prefs /\ (\E h \in Hosts : hostSafe(h))
  /\ MaxRecords \in Nat /\ MaxCandidates \in Nat \ {0}

Replies == {"ok", "4xx", "5xx", "other", "lost"}
TLSPolicy == {"opportunistic", "required"}
Stages == {"lookup", "dial", "greeting", "ehlo", "helo", "starttls", "tls_handshake",
           "ehlo_tls", "auth", "mail_from", "rcpt_to", "data", "message_transfer",
           "data_response", "quit", "done"}
Kinds == {"none", "accepted", "invalid_request", "dns_null_mx", "dns_not_found", "dns_temporary",
          "dns_failure", "context", "transfer_temporary", "transfer_permanent"}

NoConn == [tls |-> FALSE, caps |-> {}, rcpts |-> 0]
Running == [kind |-> "none", temporary |-> FALSE]

Init ==
  /\ config \in {[relay |-> r, creds |-> c, tls |-> p] : r, c \in BOOLEAN, p \in TLSPolicy}
  /\ config.creds => config.relay
  /\ pc = "lookup" /\ todo = <<>> /\ conn = NoConn /\ attempts = <<>>
  /\ result = Running /\ canceled = FALSE
  /\ wire = [mail |-> {}, took |-> {}] /\ leaked = FALSE

-----------------------------------------------------------------------------
(* DNS. *)

isNullMXRecord(r) == r.host = "." /\ r.pref = 0

(* The positions among ps of the first of equal records. *)
Firsts(records, ps) == {i \in ps : \A j \in ps : j < i => records[j] # records[i]}

(* Stable order by preference. *)
Precedes(records, i, j) ==
  records[i].pref < records[j].pref \/ (records[i].pref = records[j].pref /\ i < j)

(* The position among ps that k others precede. *)
Place(records, ps, k) ==
  CHOOSE i \in ps : Cardinality({j \in ps : Precedes(records, j, i)}) = k

(* Mutant: the records stay in the order the resolver gave them. *)
sortAndDedup_AsGiven(records, ps) ==
  LET first == Firsts(records, ps) IN
  [k \in 1..Cardinality(first) |-> records[CHOOSE i \in first : Cardinality({j \in first : j < i}) = k - 1]]

(* The records at ps, sorted, without the later of equal ones. *)
sortAndDedup(records, ps) ==
  LET first == Firsts(records, ps) IN
  [k \in 1..Cardinality(first) |-> records[Place(records, first, k - 1)]]

Take(s, n) == SubSeq(s, 1, IF Len(s) < n THEN Len(s) ELSE n)

Lookup(kind) == [kind |-> kind, mx |-> <<>>]

(* No MX record: the domain's own address, when it has one. *)
implicitFallback(own) ==
  {Lookup("not_found"), Lookup("temporary"), Lookup("resolver_failure"),
   [kind |-> "found", mx |-> <<[host |-> own, pref |-> 0]>>]}

LookupMX(records) ==
  LET safe == {i \in DOMAIN records : hostSafe(records[i].host)} IN
  CASE records = <<>> -> implicitFallback(CHOOSE h \in Hosts : hostSafe(h))
    [] Len(records) = 1 /\ isNullMXRecord(records[1]) -> {Lookup("null_mx")}
    [] Len(records) > 1 /\ (\E i \in DOMAIN records : isNullMXRecord(records[i])) ->
         {Lookup("resolver_failure")}
    [] OTHER -> IF safe = {} THEN {Lookup("resolver_failure")}
                ELSE {[kind |-> "found", mx |-> Take(sortAndDedup(records, safe), MaxCandidates)]}

(* Equal preferences in any order. *)
orderCandidates(in) ==
  {out \in [DOMAIN in -> Range(in)] :
     /\ Range(out) = Range(in)
     /\ \A i \in DOMAIN in : out[i].pref = in[i].pref}

finishDNS(kind) ==
  [kind |-> CASE kind = "null_mx" -> "dns_null_mx" [] kind = "not_found" -> "dns_not_found"
              [] kind = "temporary" -> "dns_temporary" [] OTHER -> "dns_failure",
   temporary |-> kind = "temporary"]

(* A relay is the only candidate and no lookup is made. *)
Resolve ==
  /\ pc = "lookup"
  /\ \/ /\ config.relay
        /\ todo' = <<[host |-> CHOOSE h \in Hosts : hostSafe(h), pref |-> 0]>>
        /\ pc' = "next" /\ UNCHANGED result
     \/ /\ ~config.relay
        /\ \E n \in 0..MaxRecords : \E records \in [1..n -> MX] : \E l \in LookupMX(records) :
             IF l.kind = "found"
             THEN todo' \in orderCandidates(l.mx) /\ pc' = "next" /\ UNCHANGED result
             ELSE result' = finishDNS(l.kind) /\ pc' = "done" /\ UNCHANGED todo
  /\ UNCHANGED <<config, conn, attempts, canceled, wire, leaked>>

-----------------------------------------------------------------------------
(* Fallback policy and the end of an operation. *)

(* Mutant: a temporary refusal of the envelope tries the next server. *)
decideFallback_Greedy(stage, temporary) ==
  CASE stage \in {"dial", "greeting", "ehlo", "helo", "starttls", "tls_handshake", "ehlo_tls"} -> "tryNext"
    [] stage \in {"mail_from", "rcpt_to", "data", "message_transfer", "data_response"} ->
         IF temporary THEN "tryNext" ELSE "stopPermanent"
    [] OTHER -> "stopTemporary"

(* Before MAIL FROM the next candidate is tried; after it the server's      *)
(* answer stands, and a relay's refusal of AUTH is a matter of             *)
(* configuration.                                                          *)
decideFallback(stage, temporary) ==
  CASE stage \in {"dial", "greeting", "ehlo", "helo", "starttls", "tls_handshake", "ehlo_tls"} -> "tryNext"
    [] stage \in {"mail_from", "rcpt_to", "data", "message_transfer", "data_response"} ->
         IF temporary THEN "stopTemporary" ELSE "stopPermanent"
    [] OTHER -> "stopTemporary"

classifyFinal(decision) ==
  IF decision = "stopPermanent" THEN [kind |-> "transfer_permanent", temporary |-> FALSE]
  ELSE [kind |-> "transfer_temporary", temporary |-> TRUE]

finishContext == [kind |-> "context", temporary |-> TRUE]

(* A reply's class decides Temporary; a read that failed has none. *)
replyError(reply) == reply = "4xx"
deliveryErrorFromRead == FALSE
Temporary(reply) == IF reply = "lost" THEN deliveryErrorFromRead ELSE replyError(reply)

(* The session ends with an error at stage: the next candidate or the end. *)
Fails(stage, temporary) ==
  LET d == decideFallback(stage, temporary) IN
  /\ IF d = "tryNext" /\ todo # <<>> THEN pc' = "next" /\ UNCHANGED result
     ELSE /\ pc' = "done"
          /\ result' = IF canceled THEN finishContext ELSE classifyFinal(d)
  /\ conn' = NoConn

(* The loop of Deliver: the context is looked at before every candidate. *)
Deliver ==
  /\ pc = "next"
  /\ IF canceled
     THEN pc' = "done" /\ result' = finishContext /\ UNCHANGED <<todo, attempts>>
     ELSE /\ attempts' = Append(attempts, Head(todo)) /\ todo' = Tail(todo)
          /\ pc' = "dial" /\ UNCHANGED result
  /\ UNCHANGED <<config, conn, canceled, wire, leaked>>

-----------------------------------------------------------------------------
(* The session.  Exchange sends a command at a stage and reads its reply.   *)

Host == attempts[Len(attempts)].host

Exchange(stage, reply) ==
  pc = stage /\ reply \in Replies

Rejected(stage, reply) == reply # "ok" /\ Fails(stage, Temporary(reply))

Send ==
  /\ pc = "dial"
  /\ \/ pc' = "greeting" /\ UNCHANGED <<conn, result>>
     \/ Fails("dial", FALSE)
  /\ UNCHANGED <<config, todo, attempts, canceled, wire, leaked>>

Greeting(reply) ==
  /\ Exchange("greeting", reply)
  /\ \/ reply = "ok" /\ pc' = "ehlo" /\ UNCHANGED <<conn, result>>
     \/ Rejected("greeting", reply)
  /\ UNCHANGED <<config, todo, attempts, canceled, wire, leaked>>

parseCapabilities == SUBSET {"STARTTLS", "AUTH"}

(* Only a 5xx to EHLO falls back to HELO, which offers nothing. *)
hello(reply) ==
  /\ \/ /\ Exchange("ehlo", reply)
        /\ \/ reply = "ok" /\ pc' = "secure" /\ UNCHANGED result
              /\ \E caps \in parseCapabilities : conn' = [conn EXCEPT !.caps = caps]
           \/ reply = "5xx" /\ pc' = "helo" /\ UNCHANGED <<conn, result>>
           \/ reply # "5xx" /\ Rejected("ehlo", reply)
     \/ /\ Exchange("helo", reply)
        /\ \/ reply = "ok" /\ pc' = "secure" /\ UNCHANGED <<conn, result>>
           \/ Rejected("helo", reply)
  /\ UNCHANGED <<config, todo, attempts, canceled, wire, leaked>>

(* Every failure of a TLS stage is temporary. *)
tlsFail(stage) == Fails(stage, TRUE)

(* Mutant: a server without STARTTLS is used as it is. *)
secure_Opportunistic ==
  /\ pc = "secure"
  /\ \/ "STARTTLS" \in conn.caps /\ pc' = "starttls" /\ UNCHANGED <<conn, result>>
     \/ "STARTTLS" \notin conn.caps /\ pc' = "authenticate" /\ UNCHANGED <<conn, result>>
  /\ UNCHANGED <<config, todo, attempts, canceled, wire, leaked>>

secure ==
  /\ pc = "secure"
  /\ \/ "STARTTLS" \in conn.caps /\ pc' = "starttls" /\ UNCHANGED <<conn, result>>
     \/ /\ "STARTTLS" \notin conn.caps /\ (config.tls = "required" \/ config.creds)
        /\ tlsFail("starttls")
     \/ /\ "STARTTLS" \notin conn.caps /\ config.tls # "required" /\ ~config.creds
        /\ pc' = "authenticate" /\ UNCHANGED <<conn, result>>
  /\ UNCHANGED <<config, todo, attempts, canceled, wire, leaked>>

(* The reply, no byte after it, then the handshake: what the server said    *)
(* before is forgotten.                                                    *)
StartTLS(reply) ==
  /\ Exchange("starttls", reply)
  /\ \/ /\ reply = "ok" /\ pc' = "tls_handshake"
        /\ conn' = [conn EXCEPT !.caps = {}] /\ UNCHANGED result
     \/ tlsFail("starttls")
  /\ UNCHANGED <<config, todo, attempts, canceled, wire, leaked>>

Handshake ==
  /\ pc = "tls_handshake"
  /\ \/ conn' = [conn EXCEPT !.tls = TRUE] /\ pc' = "ehlo_tls" /\ UNCHANGED result
     \/ tlsFail("tls_handshake")
  /\ UNCHANGED <<config, todo, attempts, canceled, wire, leaked>>

EhloTLS(reply) ==
  /\ Exchange("ehlo_tls", reply)
  /\ \/ /\ reply = "ok" /\ pc' = "authenticate" /\ UNCHANGED result
        /\ \E caps \in parseCapabilities : conn' = [conn EXCEPT !.caps = caps]
     \/ reply # "ok" /\ tlsFail("ehlo_tls")
  /\ UNCHANGED <<config, todo, attempts, canceled, wire, leaked>>

(* PLAIN or LOGIN when the server offers one of them. *)
chooseMechanism(caps) == "AUTH" \in caps

authFail(temporary) == Fails("auth", temporary)

authenticate ==
  /\ pc = "authenticate"
  /\ \/ ~config.creds /\ pc' = "mail_from" /\ UNCHANGED <<conn, result>>
     \/ /\ config.creds /\ (~conn.tls \/ ~chooseMechanism(conn.caps)) /\ authFail(FALSE)
     \/ /\ config.creds /\ conn.tls /\ chooseMechanism(conn.caps)
        /\ pc' = "auth" /\ UNCHANGED <<conn, result>>
  /\ UNCHANGED <<config, todo, attempts, canceled, wire, leaked>>

(* The rounds of authPlain and authLogin up to authFinish. *)
authFinish(reply) ==
  /\ Exchange("auth", reply)
  /\ leaked' = (leaked \/ ~conn.tls)
  /\ \/ reply = "ok" /\ pc' = "mail_from" /\ UNCHANGED <<conn, result>>
     \/ reply # "ok" /\ authFail(reply \in {"4xx", "lost"})
  /\ UNCHANGED <<config, todo, attempts, canceled, wire>>

MailFrom(reply) ==
  /\ Exchange("mail_from", reply)
  /\ wire' = [wire EXCEPT !.mail = @ \cup {attempts[Len(attempts)]}]
  /\ leaked' = (leaked \/ (config.tls = "required" /\ ~conn.tls))
  /\ \/ reply = "ok" /\ pc' = "rcpt_to" /\ UNCHANGED <<conn, result>>
     \/ Rejected("mail_from", reply)
  /\ UNCHANGED <<config, todo, attempts, canceled>>

(* The first refused recipient ends the session. *)
RcptTo(reply) ==
  /\ Exchange("rcpt_to", reply)
  /\ \/ /\ reply = "ok" /\ conn' = [conn EXCEPT !.rcpts = @ + 1] /\ UNCHANGED result
        /\ pc' = IF conn.rcpts + 1 = Cardinality(Rcpts) THEN "data" ELSE "rcpt_to"
     \/ Rejected("rcpt_to", reply)
  /\ UNCHANGED <<config, todo, attempts, canceled, wire, leaked>>

Data(reply) ==
  /\ Exchange("data", reply)
  /\ \/ reply = "ok" /\ pc' = "message_transfer" /\ UNCHANGED <<conn, result>>
     \/ Rejected("data", reply)
  /\ UNCHANGED <<config, todo, attempts, canceled, wire, leaked>>

(* A write that fails ends the session before the final dot. *)
WriteMessage ==
  /\ pc = "message_transfer"
  /\ \/ pc' = "data_response" /\ UNCHANGED <<conn, result>>
     \/ Fails("message_transfer", FALSE)
  /\ UNCHANGED <<config, todo, attempts, canceled, wire, leaked>>

(* A server may take the message although its reply is lost. *)
DataResponse(reply) ==
  /\ Exchange("data_response", reply)
  /\ \/ /\ reply = "ok" /\ pc' = "quit" /\ UNCHANGED conn
        /\ result' = [kind |-> "accepted", temporary |-> FALSE]
        /\ wire' = [wire EXCEPT !.took = @ \cup {Host}]
     \/ /\ Rejected("data_response", reply)
        /\ wire' \in {wire} \cup (IF reply = "lost" THEN {[wire EXCEPT !.took = @ \cup {Host}]} ELSE {})
  /\ UNCHANGED <<config, todo, attempts, canceled, leaked>>

(* What QUIT answers never changes an acceptance. *)
Quit(reply) ==
  /\ Exchange("quit", reply) /\ pc' = "done" /\ conn' = NoConn
  /\ UNCHANGED <<config, todo, attempts, result, canceled, wire, leaked>>

(* watchContext: every later read and write fails. *)
Cancel ==
  /\ ~canceled /\ pc # "done" /\ canceled' = TRUE
  /\ UNCHANGED <<config, pc, todo, conn, attempts, result, wire, leaked>>

Next ==
  \/ Resolve \/ Deliver \/ Send \/ secure \/ Handshake \/ authenticate \/ WriteMessage \/ Cancel
  \/ \E reply \in (IF canceled THEN {"lost"} ELSE Replies) :
       \/ Greeting(reply) \/ hello(reply) \/ StartTLS(reply) \/ EhloTLS(reply)
       \/ authFinish(reply) \/ MailFrom(reply) \/ RcptTo(reply) \/ Data(reply)
       \/ DataResponse(reply) \/ Quit(reply)

Spec == Init /\ [][Next]_vars

-----------------------------------------------------------------------------

TypeOK ==
  /\ config.tls \in TLSPolicy /\ todo \in Seq(MX) /\ attempts \in Seq(MX)
  /\ pc \in Stages \cup {"next", "secure", "authenticate"} /\ result.kind \in Kinds

(* Credentials leave only inside TLS, and under TLSRequired the mail too,   *)
(* whatever a server offered before the handshake.                         *)
NothingInTheClear == ~leaked

(* Within one operation at most one server is offered the message, so MX    *)
(* fallback alone never delivers it twice, and what is reported accepted    *)
(* was taken by it.                                                        *)
OneServerIsOffered ==
  /\ Cardinality(wire.mail) <= 1
  /\ result.kind = "accepted" => Cardinality(wire.took) = 1

(* Candidates are contacted in order of preference, none twice, never the   *)
(* null MX nor a host name that is not safe.                               *)
CandidatesInOrder ==
  \A i, j \in DOMAIN attempts :
    /\ hostSafe(attempts[i].host)
    /\ i < j => attempts[i].pref <= attempts[j].pref /\ attempts[i] # attempts[j]

(* One operation keeps its secrets, offers the message to one server and    *)
(* goes through the candidates in order.                                   *)
OperationIsSound == TypeOK /\ NothingInTheClear /\ OneServerIsOffered /\ CandidatesInOrder
=============================================================================
