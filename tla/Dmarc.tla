------------------------------- MODULE Dmarc -------------------------------
(***************************************************************************)
(* The DMARC check of a sender domain (internal/dmarc): a record is parsed   *)
(* tag by tag, the tree walk of RFC 9989 queries the domain and names above *)
(* it, and the result says whether mail would pass.                        *)
(*                                                                          *)
(* All names lie on one branch of the DNS tree, so a name is its number of  *)
(* labels: 1 is the top level, start the domain itself.  A TXT record is a   *)
(* sequence of tags [name, val].  What a name publishes is decided when it  *)
(* is first queried and then stays; at most MaxPublished names publish.     *)
(***************************************************************************)
EXTENDS Integers, Sequences, FiniteSets

CONSTANTS
  Labels,           \* label counts of the domains that are checked
  Answers,          \* what a name may publish: sets of TXT records
  Tags,             \* the tags a domain's owner writes
  MaxTags,          \* tags Parse accepts
  MaxReportURIs,    \* addresses of one rua or ruf tag
  MaxTXTRecords,    \* TXT records classify accepts
  MaxWritten, MaxPublished   \* bounds

DmarcAssumption ==
  /\ Labels \subseteq Nat \ {0} /\ Answers \subseteq SUBSET Seq(Tags)
  /\ MaxTags \in Nat /\ MaxReportURIs \in Nat /\ MaxTXTRecords \in Nat
  /\ MaxWritten \in Nat /\ MaxPublished \in Nat

VARIABLES
  txt,              \* a record its owner is writing
  zone,             \* name -> the records it was found to publish
  pc, start,
  names, entries,   \* of the walk: names still to query, what was found
  walks,            \* walks: name -> its organizational domain
  identity,         \* the signing domain
  finding,          \* dnsFinding
  res               \* Result

vars == <<txt, zone, pc, start, names, entries, walks, identity, finding, res>>

-----------------------------------------------------------------------------
(* Records. *)

knownTags == {"v", "p", "sp", "np", "adkim", "aspf", "t", "psd", "rua", "ruf", "fo"} \cup {"pct", "rf", "ri"}
toPolicy == {"none", "quarantine", "reject"}
Version == [name |-> "v", val |-> "DMARC1"]

First(S) == CHOOSE i \in S : \A j \in S : i <= j
Final(S) == CHOOSE i \in S : \A j \in S : j <= i

(* The valid addresses of a list; an invalid one is skipped with a warning.  *)
reportURIs(list) == SelectSeq(list, LAMBDA host : host # "bad")

IsDMARC(t) == t # <<>> /\ t[1] = Version

Record == [p |-> "unset", sp |-> "unset", adkim |-> "r", psd |-> "u", rua |-> <<>>, ruf |-> 0,
           warnings |-> {}, seen |-> {}, err |-> "nil"]

(* Mutant: a tag may come twice, and the last one counts. *)
Take_Last(rec, tag) ==
  CASE tag.name = "p" -> IF tag.val \in toPolicy THEN [rec EXCEPT !.p = tag.val]
                         ELSE [rec EXCEPT !.err = "bad_policy"]
    [] tag.name = "psd" -> IF tag.val \in {"y", "n", "u"} THEN [rec EXCEPT !.psd = tag.val]
                           ELSE [rec EXCEPT !.err = "bad_value"]
    [] tag.name = "rua" -> [rec EXCEPT !.rua = reportURIs(tag.val)]
    [] OTHER -> rec

BadValue(tag) ==
  \/ tag.name \in {"p", "sp", "np"} /\ tag.val \notin toPolicy
  \/ tag.name \in {"adkim", "aspf"} /\ tag.val \notin {"r", "s"}
  \/ tag.name = "t" /\ tag.val \notin {"y", "n"}
  \/ tag.name = "psd" /\ tag.val \notin {"y", "n", "u"}
  \/ tag.name \in {"rua", "ruf"} /\ Len(tag.val) > MaxReportURIs

(* One known tag of the loop of Parse; np, aspf and t are kept by the code   *)
(* and read by nothing that is modelled.                                   *)
Take(rec, tag) ==
  LET set(name, old) == IF tag.name = name THEN tag.val ELSE old
  IN IF tag.name \in rec.seen THEN [rec EXCEPT !.err = "duplicate_tag"]
     ELSE IF BadValue(tag) THEN [rec EXCEPT !.err = "bad_value"]
     ELSE [p |-> set("p", rec.p), sp |-> set("sp", rec.sp),
           adkim |-> set("adkim", rec.adkim), psd |-> set("psd", rec.psd),
           rua |-> IF tag.name = "rua" THEN reportURIs(tag.val) ELSE rec.rua,
           ruf |-> IF tag.name = "ruf" THEN Len(reportURIs(tag.val)) ELSE rec.ruf,
           warnings |-> rec.warnings \cup (IF tag.name \in {"pct", "rf", "ri"} THEN {"deprecated_tag"} ELSE {}),
           seen |-> rec.seen \cup {tag.name}, err |-> "nil"]

ParseTag(rec, tag) ==
  IF rec.err # "nil" \/ tag.name \notin knownTags THEN rec ELSE Take(rec, tag)

(* The loop; the first tag has to be the version, and there is a last one. *)
Readable(t) == IsDMARC(t) /\ Len(t) <= MaxTags
ParseTags(t) ==
  LET rec[k \in 0..Len(t)] == IF k = 0 THEN Record ELSE ParseTag(rec[k - 1], t[k])
  IN IF Readable(t) THEN rec[Len(t)] ELSE [Record EXCEPT !.err = "unreadable"]

(* A record without p acts as p=none when it names a report address. *)
Parse(t) ==
  LET rec == ParseTags(t)
  IN IF rec.err # "nil" \/ rec.p # "unset" THEN rec
     ELSE IF rec.rua = <<>> THEN [rec EXCEPT !.err = "missing_policy"]
     ELSE [rec EXCEPT !.p = "none", !.warnings = rec.warnings \cup {"policy_defaulted_from_rua"}]

(* The first psd tag, read even from a record that does not parse. *)
scanPSD(t) ==
  LET at == {i \in DOMAIN t : t[i].name = "psd"}
      first == t[First(at)].val
  IN IF at # {} /\ first \in {"y", "n"} THEN first ELSE "u"

-----------------------------------------------------------------------------
(* The tree walk. *)

(* The domain, then names of at most seven labels, longest first. *)
target(d, i) == IF i = 1 THEN d ELSE (IF d >= 8 THEN 7 ELSE d - 1) + 2 - i
targets(d) == [i \in 1..(IF d >= 8 THEN 8 ELSE d) |-> target(d, i)]

NoEntry(name) == [name |-> name, kind |-> "none", psd |-> "u", rec |-> Record]

(* Several DMARC records are all discarded; one that does not parse is kept *)
(* as invalid, and so are too many TXT records of whatever kind.           *)
classify(name, records) ==
  LET cands == {t \in records : IsDMARC(t)}
      t == CHOOSE x \in cands : TRUE
      rec == Parse(t)
      many == Cardinality(records) > MaxTXTRecords
  IN CASE many -> [name |-> name, kind |-> "record", psd |-> "u",
                   rec |-> [Record EXCEPT !.err = "too_many_txt_records"]]
       [] ~many /\ cands = {} -> NoEntry(name)
       [] ~many /\ (\E x, y \in cands : x # y) -> [NoEntry(name) EXCEPT !.kind = "multiple"]
       [] OTHER -> [name |-> name, kind |-> "record", rec |-> rec,
                    psd |-> IF rec.err = "nil" THEN rec.psd ELSE scanPSD(t)]

oneLabelBelow(d, ancestor) == IF ancestor + 1 > d THEN d ELSE ancestor + 1

Records(es) == {i \in DOMAIN es : es[i].kind = "record"}

(* Mutant: a public suffix is its own organizational domain. *)
resolve_AtSuffix(d, es) ==
  LET marked == {i \in Records(es) : es[i].psd \in {"n", "y"}}
  IN IF marked # {} THEN es[First(marked)].name
     ELSE IF Records(es) # {} THEN es[Final(Records(es))].name ELSE d

(* The organizational domain: the name marked psd=n, the name below one      *)
(* marked psd=y, else the shortest name with a record.                     *)
resolve(d, es) ==
  LET marked == {i \in Records(es) : es[i].psd = "n" \/ (es[i].psd = "y" /\ es[i].name # d)}
      e == es[First(marked)]
  IN IF marked # {} THEN IF e.psd = "n" THEN e.name ELSE oneLabelBelow(d, e.name)
     ELSE IF Records(es) # {} THEN es[Final(Records(es))].name ELSE d

(* The record of the domain, else of its organizational domain, else of a   *)
(* public suffix above it.                                                *)
pickPolicy(d, org, es) ==
  LET at(name) == {i \in Records(es) : es[i].name = name}
      psd == {i \in Records(es) : es[i].psd = "y" /\ es[i].name # d}
      of(S, source) == [source |-> source, name |-> es[First(S)].name, rec |-> es[First(S)].rec]
  IN CASE at(d) # {} -> of(at(d), "domain")
       [] at(d) = {} /\ at(org) # {} -> of(at(org), "organizational_domain")
       [] at(d) = {} /\ at(org) = {} /\ psd # {} -> of(psd, "public_suffix_domain")
       [] OTHER -> [source |-> "none", name |-> 0, rec |-> Record]

(* A conflict at the domain itself decides; one above it only when nothing   *)
(* else was found.                                                         *)
findingFrom(d, es) ==
  LET conflicts == {e.name : e \in {es[i] : i \in {j \in DOMAIN es : es[j].kind = "multiple"}}}
      policy == pickPolicy(d, resolve(d, es), es)
  IN [status |-> CASE d \in conflicts \/ (policy.source = "none" /\ conflicts # {}) -> "conflict"
                   [] policy.source = "none" -> "not_configured"
                   [] policy.rec.err # "nil" -> "invalid"
                   [] OTHER -> "monitoring",
      org |-> resolve(d, es), source |-> policy.source, rec |-> policy.rec]

-----------------------------------------------------------------------------
(* The assessment. *)

(* Equal names align; others in relaxed mode when both have the same        *)
(* organizational domain, which may be unknown after a DNS failure.         *)
Aligned(from, id, mode, org) ==
  CASE from = id -> "aligned"
    [] from # id /\ mode = "s" -> "not"
    [] from # id /\ mode = "r" /\ ~({from, id} \subseteq DOMAIN org) -> "unknown"
    [] OTHER -> IF org[from] = org[id] THEN "aligned" ELSE "not"

(* input: the states of DKIM and SPF; MAIL FROM is the domain itself, but a  *)
(* relay may rewrite it.                                                   *)
inputs == [dkim: {"error", "inactive", "active"},
           spf: {"error", "relay", "temporary_error", "verified", "mismatch"}]

paths(in, adkim) ==
  LET a == Aligned(start, identity, adkim, walks)
  IN [dkim |-> CASE in.dkim = "error" \/ (in.dkim # "error" /\ a = "unknown") -> "unknown"
                 [] in.dkim # "error" /\ a = "not" -> "not_aligned"
                 [] in.dkim = "inactive" /\ a = "aligned" -> "not_configured"
                 [] in.dkim = "active" /\ a = "aligned" -> "ready",
      spf |-> CASE in.spf \in {"error", "relay", "temporary_error"} -> "unknown"
                [] in.spf = "verified" -> "ready"
                [] in.spf = "mismatch" -> "not_configured"]

readiness(status, path) ==
  CASE status = "temporary_error" -> "unknown"
    [] status \in {"not_configured", "invalid", "conflict"} -> "dns_action_required"
    [] OTHER -> IF path.dkim = "ready" \/ path.spf = "ready" THEN "ready"
                ELSE IF path.dkim = "unknown" \/ path.spf = "unknown" THEN "unknown"
                ELSE "authentication_incomplete"

(* sp replaces p for a record found above the domain. *)
assess(in) ==
  LET rec == finding.rec
      effective == IF finding.source # "domain" /\ rec.sp # "unset" THEN rec.sp ELSE rec.p
      status == IF finding.status = "monitoring" /\ effective # "none" THEN "enforcing"
                ELSE finding.status
      path == paths(in, IF finding.status = "monitoring" THEN rec.adkim ELSE "r")
  IN [status |-> status, path |-> path, readiness |-> readiness(status, path)]

-----------------------------------------------------------------------------

NoFinding == [status |-> "temporary_error", org |-> 0, source |-> "none", rec |-> Record]
NoResult == [status |-> "unchecked", path |-> [dkim |-> "unchecked", spf |-> "unchecked"], readiness |-> "unchecked"]

Init ==
  /\ txt = <<>> /\ zone = <<>> /\ pc = "idle" /\ start = 0 /\ names = <<>> /\ entries = <<>>
  /\ walks = <<>> /\ identity = 0
  /\ finding = NoFinding /\ res = NoResult

(* The owner writes one more tag (not MailX). *)
AddTag ==
  /\ pc = "idle" /\ Len(txt) < MaxWritten
  /\ \E t \in Tags : txt' = Append(txt, t)
  /\ UNCHANGED <<zone, pc, start, names, entries, walks, identity, finding, res>>

(* The first walk begins.  What DKIM and SPF report is read before it, and   *)
(* is a choice of Assess here.                                             *)
Verify ==
  /\ pc = "idle" /\ txt = <<>>
  /\ \E d \in Labels : start' = d /\ identity' = d /\ names' = targets(d)
  /\ pc' = "walk"
  /\ UNCHANGED <<txt, zone, entries, walks, finding, res>>

Published == Cardinality({n \in DOMAIN zone : zone[n] # {}})
MayAnswer(name) ==
  IF name \in DOMAIN zone THEN {zone[name]}
  ELSE {a \in Answers : a = {} \/ Published < MaxPublished}

(* One query of the walk; a record with psd=y or psd=n ends it. *)
Lookup ==
  /\ pc \in {"walk", "walkid"} /\ names # <<>>
  /\ \E a \in MayAnswer(Head(names)) :
       LET e == classify(Head(names), a) IN
       /\ zone' = [n \in DOMAIN zone \cup {Head(names)} |-> IF n = Head(names) THEN a ELSE zone[n]]
       /\ entries' = Append(entries, e)
       /\ names' = IF e.kind = "record" /\ e.psd # "u" THEN <<>> ELSE Tail(names)
  /\ UNCHANGED <<txt, pc, start, walks, identity, finding, res>>

(* A timeout or server failure ends the walk with nothing concluded. *)
LookupFails ==
  /\ pc \in {"walk", "walkid"} /\ names # <<>>
  /\ names' = <<>> /\ entries' = <<>> /\ pc' = "assess"
  /\ UNCHANGED <<txt, zone, start, walks, identity, finding, res>>

(* treeWalk returns.  The identity is what ActiveSigningDomain reported      *)
(* (DKIMState is an interface): the domain, or a name above it up to its    *)
(* organizational domain.                                                  *)
WalkEnds ==
  /\ pc = "walk" /\ names = <<>>
  /\ finding' = findingFrom(start, entries)
  /\ walks' = [n \in {start} |-> resolve(start, entries)]
  /\ \E id \in {n \in DOMAIN zone \cup {resolve(start, entries)} : n >= resolve(start, entries)} :
       /\ identity' = id
       /\ pc' = IF id = start THEN "assess" ELSE "walkid"
       /\ names' = IF id = start THEN <<>> ELSE targets(id)
  /\ entries' = <<>> /\ UNCHANGED <<txt, zone, start, res>>

(* orgOf of the identity, for a relaxed comparison. *)
IdentityWalkEnds ==
  /\ pc = "walkid" /\ names = <<>>
  /\ walks' = [n \in {start, identity} |->
                 IF n = start THEN walks[n] ELSE resolve(identity, entries)]
  /\ pc' = "assess" /\ entries' = <<>>
  /\ UNCHANGED <<txt, zone, start, names, identity, finding, res>>

Assess ==
  /\ pc = "assess" /\ pc' = "done" /\ \E in \in inputs : res' = assess(in)
  /\ UNCHANGED <<txt, zone, start, names, entries, walks, identity, finding>>

Next == AddTag \/ Verify \/ Lookup \/ LookupFails \/ WalkEnds \/ IdentityWalkEnds \/ Assess

Spec == Init /\ [][Next]_vars

-----------------------------------------------------------------------------

(* Types; a walk asks at most eight names. *)
TypeOK ==
  /\ pc \in {"idle", "walk", "walkid", "assess", "done"}
  /\ Len(names) + Len(entries) <= 8 /\ DOMAIN walks \subseteq {start, identity}

Found(n) == classify(n, zone[n])

(* The walk finds the organization, for names of any number of labels, of   *)
(* which it skips some: above the organizational domain only public suffixes *)
(* publish a record, at or below it none does but the domain itself, and     *)
(* every name the walk passed on the way aligns with the domain, for its own *)
(* walk ends at the same place (targets, resolve, Aligned).                *)
OrgIsTheOrganization ==
  /\ \A d \in DOMAIN walks \cap {start} : \A n \in DOMAIN zone \ {d} :
       (\E i \in DOMAIN targets(d) : targets(d)[i] = n) /\ Found(n).kind = "record" =>
         IF n < walks[d] THEN Found(n).psd = "y" /\ n = walks[d] - 1 ELSE Found(n).psd # "y"
  /\ {start, identity} \subseteq DOMAIN walks
       => Aligned(start, identity, "r", walks) = "aligned"

Meaning(t) == LET r == Parse(t) IN IF r.err # "nil" THEN <<>> ELSE <<r>>

(* What a record means does not depend on the order of its tags behind v,   *)
(* and the psd tag read from a record that parses is the one scanPSD reads.  *)
OrderOfTagsIsFree ==
  txt # <<>> =>
    /\ \A i \in 2..(Len(txt) - 1) :
         Meaning([txt EXCEPT ![i] = txt[i + 1], ![i + 1] = txt[i]]) = Meaning(txt)
    /\ Parse(txt).err = "nil" => Parse(txt).psd = scanPSD(txt)

(* Discovery and parsing are exact: the walk ends at the organization, and   *)
(* a record means the same in any order of its tags.                        *)
PolicyIsFound == TypeOK /\ OrgIsTheOrganization /\ OrderOfTagsIsFree
=============================================================================
