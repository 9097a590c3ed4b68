------------------------------ MODULE DkimSign ------------------------------
(***************************************************************************)
(* The DKIM signature of a message and what may happen to the message after *)
(* it: relays re-fold headers, change white space, pad the body and put     *)
(* their own fields on top.                                                 *)
(*                                                                          *)
(* A header field is its name and its value, a body its lines as Split      *)
(* leaves them.  Text is a sequence over "a", "b" (characters), " " and     *)
(* "t" (space and tab) and "n" (a line break, of a fold); a hash is the     *)
(* text it is taken of, and a signature the hashes with the names in h=.    *)
(***************************************************************************)
EXTENDS Integers, Sequences, FiniteSets

CONSTANTS
  Chars, Names,     \* characters of text, names of header fields
  Messages,         \* messages the client submits
  MaxChanges        \* bound: changes in transit

Fields == [name : Names, value : Seq(Chars)]
Mails == [fields : Seq(Fields), lines : Seq(Seq(Chars)), from : {"d", "e"}]
DkimSignAssumption ==
  /\ {"b", " ", "t", "n"} \subseteq Chars /\ {"received", "subject"} \subseteq Names
  /\ Messages \subseteq Mails /\ MaxChanges \in Nat

VARIABLES msg, sig, outcome, changes

vars == <<msg, sig, outcome, changes>>

-----------------------------------------------------------------------------
(* Canonical forms. *)

WSP == {" ", "t"}

(* The positions of X among the first n, in order, and what stands there. *)
InOrder(X, n) ==
  LET upTo[i \in 0..n] ==
        IF i = 0 THEN <<>> ELSE IF i \in X THEN Append(upTo[i - 1], i) ELSE upTo[i - 1]
  IN upTo[n]
Kept(s, X) == LET at == InOrder(X, Len(s)) IN [j \in DOMAIN at |-> s[at[j]]]

(* A run of white space becomes one space. *)
Begins(s) == {i \in DOMAIN s : s[i] \notin WSP \/ i = 1 \/ s[i - 1] \notin WSP}
collapseWSP(s) == Kept([i \in DOMAIN s |-> IF s[i] \in WSP THEN " " ELSE s[i]], Begins(s))

Text(s) == {i \in DOMAIN s : s[i] \notin WSP}
TrimRight(s) ==
  IF Text(s) = {} THEN <<>> ELSE SubSeq(s, 1, CHOOSE i \in Text(s) : \A j \in Text(s) : j <= i)
TrimLeft(s) ==
  IF Text(s) = {} THEN <<>> ELSE SubSeq(s, CHOOSE i \in Text(s) : \A j \in Text(s) : i <= j, Len(s))

(* Folds are joined before white space is collapsed. *)
relaxedHeader(f) ==
  [name |-> f.name,
   value |-> collapseWSP(TrimLeft(TrimRight(Kept(f.value, {i \in DOMAIN f.value : f.value[i] # "n"}))))]

(* Mutant: blank lines are dropped before their white space is. *)
relaxedBody_BlankFirst(lines) ==
  LET used == {i \in DOMAIN lines : lines[i] # <<>>}
      n == IF used = {} THEN 0 ELSE CHOOSE i \in used : \A j \in used : j <= i
  IN [i \in 1..n |-> collapseWSP(TrimRight(lines[i]))]

(* Empty lines at the end do not count. *)
relaxedBody(lines) ==
  LET out == [i \in DOMAIN lines |-> collapseWSP(TrimRight(lines[i]))]
      used == {i \in DOMAIN out : out[i] # <<>>}
      n == IF used = {} THEN 0 ELSE CHOOSE i \in used : \A j \in used : j <= i
  IN SubSeq(out, 1, n)

-----------------------------------------------------------------------------
(* Signing. *)

signedHeaders == <<"from", "subject">>
Named(fields, name) == {i \in DOMAIN fields : fields[i].name = name}

(* A line is a field of its own unless it continues the one above it. *)
parseHeaders(fields) == \A i \in DOMAIN fields : fields[i].name # ""

(* One From, of the signing domain. *)
checkFrom(m) == Cardinality(Named(m.fields, "from")) = 1 /\ m.from = "d"

(* Mutant: the instances of a name are taken from the top. *)
Instances_TopDown(fields, name) ==
  InOrder(Named(fields, name), Len(fields))

(* All instances of a name, the last in the message first. *)
Instances(fields, name) ==
  LET down == InOrder(Named(fields, name), Len(fields))
  IN [k \in DOMAIN down |-> down[Len(down) + 1 - k]]

selectHeaders(fields) ==
  LET from == Instances(fields, signedHeaders[1])
      rest == Instances(fields, signedHeaders[2])
  IN from \o rest

buildSignatureHeader(m, chosen) ==
  [h |-> [k \in DOMAIN chosen |-> m.fields[chosen[k]].name],
   bh |-> relaxedBody(m.lines),
   b |-> [k \in DOMAIN chosen |-> relaxedHeader(m.fields[chosen[k]])]]

Sign(m) ==
  IF ~parseHeaders(m.fields) \/ ~checkFrom(m) THEN {}
  ELSE {buildSignatureHeader(m, selectHeaders(m.fields))}

(* Any trouble with an active key refuses the message; a domain without one *)
(* sends unsigned.                                                         *)
SignMessage(key, m) ==
  CASE key = "none" -> [outcome |-> "unsigned", sig |-> {}]
    [] key \in {"unavailable", "undecryptable", "invalid"} -> [outcome |-> "refused", sig |-> {}]
    [] key = "usable" /\ Sign(m) = {} -> [outcome |-> "refused", sig |-> {}]
    [] OTHER -> [outcome |-> "signed", sig |-> Sign(m)]

KeyStates == {"none", "unavailable", "undecryptable", "invalid", "usable"}

Init ==
  /\ msg \in Messages /\ changes = 0
  /\ \E key \in KeyStates : sig = SignMessage(key, msg).sig /\ outcome = SignMessage(key, msg).outcome

-----------------------------------------------------------------------------
(* In transit (external): what relaxed canonicalization is meant to bear. *)

Insert(s, i, c) == SubSeq(s, 1, i) \o <<c>> \o SubSeq(s, i + 1, Len(s))
Spaces(s) == {i \in DOMAIN s : s[i] \in WSP}
WithValue(i, v) == [msg EXCEPT !.fields = [msg.fields EXCEPT ![i] = [msg.fields[i] EXCEPT !.value = v]]]
WithLine(i, l) == [msg EXCEPT !.lines = [msg.lines EXCEPT ![i] = l]]

RelayChanges ==
  /\ outcome = "signed" /\ changes < MaxChanges /\ changes' = changes + 1
  /\ \/ \E name \in {"received", "subject"} :           \* a field on top
          msg' = [msg EXCEPT !.fields = <<[name |-> name, value |-> <<"b">>]>> \o msg.fields]
     \/ \E i \in DOMAIN msg.fields : \E j \in Spaces(msg.fields[i].value) : \E c \in {" ", "t", "n"} :
          msg' = WithValue(i, Insert(msg.fields[i].value, j - (IF c = "n" THEN 1 ELSE 0), c))
     \/ \E i \in DOMAIN msg.lines : \E c \in WSP :
          /\ i < Len(msg.lines)                         \* a line that ends
          /\ msg' = WithLine(i, Append(msg.lines[i], c))
     \/ \E i \in DOMAIN msg.lines : \E j \in Spaces(msg.lines[i]) : \E c \in WSP :
          msg' = WithLine(i, Insert(msg.lines[i], j, c))
     \/ msg' = [msg EXCEPT !.lines = Append(msg.lines, <<>>)]   \* a line break at the end
  /\ UNCHANGED <<sig, outcome>>

Next == RelayChanges
Spec == Init /\ [][Next]_vars

-----------------------------------------------------------------------------

(* A verifier takes, for every name in h=, the lowest field of that name    *)
(* it has not taken yet.                                                   *)
Verifies(s, m) ==
  /\ s.bh = relaxedBody(m.lines)
  /\ \A k \in DOMAIN s.h :
       LET nth == Cardinality({j \in 1..k : s.h[j] = s.h[k]})
           at == Named(m.fields, s.h[k])
       IN /\ Cardinality(at) >= nth
          /\ \E i \in at : /\ Cardinality({j \in at : j >= i}) = nth
                           /\ relaxedHeader(m.fields[i]) = s.b[k]

(* What MailX signs still verifies after relays have folded, spaced and     *)
(* padded the message and put fields on top: relaxedHeader, relaxedBody and *)
(* selectHeaders agree with a verifier that reads the fields from below.    *)
SignatureSurvives == \A s \in sig : Verifies(s, msg)

(* Types. *)
TypeOK == outcome \in {"signed", "unsigned", "refused"} /\ changes \in 0..MaxChanges
=============================================================================
