-------------------------------- MODULE Spf --------------------------------
(***************************************************************************)
(* SPF guidance (internal/spf): MailX reads a domain's TXT records, says     *)
(* whether they authorize the addresses it sends from, and if not gives the *)
(* record to publish instead.  The owner edits records and follows the      *)
(* advice, in any order.                                                    *)
(*                                                                          *)
(* A record is a sequence of terms.  An ip4 or ip6 term carries the set of   *)
(* sending addresses inside its prefix; how a token is spelled is abstracted *)
(* to whether parseTerm accepts it and whether it has more than MaxTermBytes *)
(* bytes.  Lengths of records are counted in terms.                        *)
(***************************************************************************)
EXTENDS Integers, Sequences, FiniteSets

CONSTANTS
  IPs,              \* the sending addresses, in order
  Tokens,           \* terms an owner may write
  MaxTXTRecords,    \* TXT records Analyze accepts
  MaxTerms,         \* terms Parse accepts
  MaxRecordBytes,   \* length bound of a record, in terms
  MaxEdits

(* "a" stands for a, mx and exists, "other" for other modifiers and for      *)
(* names that are none.                                                    *)
Terms == [q: {"+", "-", "~", "?"}, arg: SUBSET Nat, ok: BOOLEAN, long: BOOLEAN,
          name: {"ip", "include", "all", "a", "ptr", "redirect", "exp", "other"}]

(* MaxSendingIPs and the length of an address are such that a record of      *)
(* MailX's own has few enough terms and bytes for Parse.                   *)
SpfAssumption ==
  /\ IPs \in Seq(Nat) /\ IPs # <<>>
  /\ Tokens \subseteq Terms
  /\ MaxTXTRecords \in Nat /\ MaxTerms \in Nat /\ MaxRecordBytes \in Nat /\ MaxEdits \in Nat
  /\ Len(IPs) + 1 <= MaxTerms /\ Len(IPs) + 1 <= MaxRecordBytes

VARIABLES
  mode,             \* Config.Mode and what it lacks or makes of its terms
  records,          \* the domain's TXT records: <<is it SPF, terms>>
  res,              \* the last Result
  followed,         \* the records are what the last advice said
  edits

vars == <<mode, records, res, followed, edits>>

-----------------------------------------------------------------------------
(* Records. *)

Mechanism(i) == [q |-> "+", name |-> "ip", arg |-> {i}, ok |-> TRUE, long |-> FALSE]
Include(long) == [q |-> "+", name |-> "include", arg |-> {0}, ok |-> TRUE, long |-> long]  \* 0: the relay
All(q) == [q |-> q, name |-> "all", arg |-> {}, ok |-> TRUE, long |-> FALSE]
Modifiers == {"redirect", "exp"}

IsSPF(r) == r.spf
parseTerm(t) == ~t.long /\ t.ok     \* with the bound on its bytes

(* The terms, or a reason. *)
Parse(r) ==
  LET twice == \E i, j \in DOMAIN r.terms :
                 i # j /\ r.terms[i].name \in Modifiers /\ r.terms[i].name = r.terms[j].name
      long == Len(r.terms) > MaxRecordBytes
  IN CASE long -> [ok |-> FALSE, reason |-> "record_too_long", terms |-> <<>>]
       [] ~long /\ Len(r.terms) > MaxTerms ->
            [ok |-> FALSE, reason |-> "too_many_terms", terms |-> <<>>]
       [] ~long /\ Len(r.terms) <= MaxTerms /\ (twice \/ \E i \in DOMAIN r.terms : ~parseTerm(r.terms[i])) ->
            [ok |-> FALSE, reason |-> "bad_term", terms |-> <<>>]
       [] OTHER -> [ok |-> TRUE, reason |-> "", terms |-> r.terms]

(* The places before the first all, which is where evaluation stops. *)
Reached(ts) == {i \in DOMAIN ts : \A j \in 1..i : ts[j].name # "all"}

(* The first literal mechanism that contains the address decides. *)
Hits(ts, ip) == {i \in Reached(ts) : ts[i].name = "ip" /\ ip \in ts[i].arg}
Covers(ts, ip) ==
  IF Hits(ts, ip) = {} THEN "NotListed"
  ELSE IF \E i \in Hits(ts, ip) : ts[i].q = "+" /\ \A j \in Hits(ts, ip) : i <= j
  THEN "Authorized" ELSE "Denied"

Resolved == {"include", "a", "ptr"}        \* mechanisms that MailX does not evaluate
Unevaluated(ts) ==
  \/ \E i \in Reached(ts) : ts[i].name \in Resolved
  \/ Reached(ts) = DOMAIN ts /\ \E i \in DOMAIN ts : ts[i].name = "redirect"

DNSTerms(ts) == Cardinality({i \in DOMAIN ts : ts[i].name \in Resolved \cup {"redirect"}})

Includes(ts, include) == \E i \in Reached(ts) : ts[i] = include

(* The first all. *)
PermitsAll(ts) ==
  \E i \in DOMAIN ts : ts[i].name = "all" /\ ts[i].q = "+" /\ \A j \in 1..(i - 1) : ts[j].name # "all"

(* Mutant: the new mechanisms go behind the terms already there. *)
Merge_Behind(add, ts) == ts \o add

(* The new mechanisms go in front. *)
Merge(add, ts) == add \o ts

-----------------------------------------------------------------------------
(* The analysis. *)

(* A server is told no addresses, or no name to include, or one so long that *)
(* its include is above MaxTermBytes.                                      *)
Modes == {"direct", "direct_unset", "relay", "relay_long", "relay_unset"}
Ready == mode \in {"direct", "relay", "relay_long"}
Relayed == mode \in {"relay", "relay_long", "relay_unset"}
RelayInclude == Include(mode = "relay_long")
Mechanisms == IF Relayed THEN <<RelayInclude>> ELSE [i \in DOMAIN IPs |-> Mechanism(IPs[i])]

NoAdvice(action) == [action |-> action, value |-> <<>>]
createExpected == [action |-> "create", value |-> Mechanisms \o <<All("~")>>]
unknownExpected == NoAdvice(IF Relayed THEN "follow_relay_provider" ELSE "declare_sending_ips")
Result(status, reason, expected) ==
  [status |-> status, reason |-> reason, expected |-> expected, warnings |-> {}]
notConfigured == Result("not_configured", "", createExpected)

(* The mechanisms that are missing: of a relay its include, else one for     *)
(* each address that the record does not authorize.                        *)
assess(ts) ==
  LET missing[k \in 0..Len(IPs)] ==
        IF k = 0 THEN <<>>
        ELSE IF Covers(ts, IPs[k]) = "Authorized" THEN missing[k - 1]
        ELSE Append(missing[k - 1], Mechanism(IPs[k]))
  IN IF ~Relayed THEN missing[Len(IPs)]
     ELSE IF Includes(ts, RelayInclude) THEN <<>> ELSE Mechanisms

warnings(ts) ==
  {w \in {"unevaluated_mechanisms", "permits_all", "deprecated_ptr", "dns_lookup_limit_risk"} :
     CASE w = "unevaluated_mechanisms" -> Unevaluated(ts)
       [] w = "permits_all" -> PermitsAll(ts)
       [] w = "deprecated_ptr" -> \E i \in DOMAIN ts : ts[i].name = "ptr"
       [] OTHER -> DNSTerms(ts) + (IF Relayed /\ ~Includes(ts, RelayInclude) THEN 1 ELSE 0) >= 8}

Mismatch(ts, missing) ==
  IF Len(Merge(missing, ts)) > MaxRecordBytes
  THEN Result("mismatch", "merged_record_too_long", NoAdvice("fix_record"))
  ELSE Result("mismatch",
              CASE Relayed -> "relay_include_missing"
                [] ~Relayed /\ \E i \in DOMAIN IPs : Covers(ts, IPs[i]) = "Denied" ->
                     "sending_address_not_passed"
                [] OTHER -> "sending_address_not_listed",
              [action |-> "update_existing", value |-> Merge(missing, ts)])

Assessed(ts) ==
  LET missing == assess(ts)
  IN [(IF missing = <<>> THEN Result("verified", "", [action |-> "none", value |-> ts])
       ELSE Mismatch(ts, missing)) EXCEPT !.warnings = warnings(ts)]

(* Too many TXT records say nothing, more than one SPF record is a conflict, *)
(* none means create one.                                                  *)
Published == {i \in DOMAIN records : IsSPF(records[i])}
Analyze ==
  CASE Len(records) > MaxTXTRecords ->
         Result("invalid", "too_many_txt_records", NoAdvice("fix_record"))
    [] Len(records) <= MaxTXTRecords /\ Published = {} -> notConfigured
    [] Len(records) <= MaxTXTRecords /\ (\E i, j \in Published : i # j) ->
         Result("conflict", "multiple_spf_records", NoAdvice("merge_records"))
    [] OTHER -> LET rec == Parse(records[CHOOSE i \in Published : TRUE])
                IN IF rec.ok THEN Assessed(rec.terms)
                   ELSE Result("invalid", rec.reason, NoAdvice("fix_record"))

unchecked == IF Ready THEN Result("unchecked", "", createExpected)
             ELSE Result("sending_infrastructure_unknown", "", unknownExpected)

-----------------------------------------------------------------------------

Init ==
  /\ mode \in Modes /\ records = <<>> /\ followed = FALSE /\ edits = 0
  /\ res = [status |-> "none", reason |-> "", expected |-> NoAdvice("none"), warnings |-> {}]

Describe == res' = unchecked /\ UNCHANGED <<mode, records, followed, edits>>

(* A lookup that fails says nothing. *)
Verify ==
  /\ \/ ~Ready /\ res' = unchecked
     \/ Ready /\ res' = Analyze
     \/ Ready /\ res' = Result("temporary_error", "dns_error", NoAdvice("none"))
  /\ UNCHANGED <<mode, records, followed, edits>>

(* The owner adds a term to a record, or a record (not MailX). *)
Edit ==
  /\ edits < MaxEdits /\ edits' = edits + 1 /\ followed' = FALSE
  /\ \/ \E t \in Tokens, i \in DOMAIN records :
          records' = [records EXCEPT ![i] = [spf |-> records[i].spf, terms |-> Append(records[i].terms, t)]]
     \/ \E spf \in BOOLEAN : records' = Append(records, [spf |-> spf, terms |-> <<>>])
  /\ UNCHANGED <<mode, res>>

(* The owner publishes the advised record, in place of the one there is      *)
(* (not MailX).                                                            *)
Follow ==
  /\ \/ /\ res.expected.action = "create" /\ Published = {}
        /\ records' = Append(records, [spf |-> TRUE, terms |-> res.expected.value])
     \/ /\ res.expected.action = "update_existing" /\ res = Analyze
        /\ \E i \in Published : records' = [records EXCEPT ![i] = [spf |-> TRUE, terms |-> res.expected.value]]
  /\ followed' = TRUE /\ UNCHANGED <<mode, res, edits>>

Next == Describe \/ Verify \/ Edit \/ Follow

Spec == Init /\ [][Next]_vars

-----------------------------------------------------------------------------

(* Types. *)
TypeOK == edits \in 0..MaxEdits /\ followed \in BOOLEAN /\ Ready \in BOOLEAN

(* Whoever publishes the record MailX advised, and checks it again, is       *)
(* verified, whatever the record before it said: the mechanisms of Merge    *)
(* match before any term that would deny them.  The advice overlooks three   *)
(* limits of the check: the record it creates may be one TXT record too     *)
(* many, the one it extends may grow past MaxTerms (Merge bounds only its   *)
(* bytes), and the include of a relay may be longer than MaxTermBytes.      *)
AdviceVerifies ==
  followed /\ Ready =>
    \/ Analyze.status = "verified"
    \/ Len(records) > MaxTXTRecords
    \/ mode = "relay_long"
    \/ \E i \in DOMAIN records : IsSPF(records[i]) /\ Len(records[i].terms) > MaxTerms
=============================================================================
