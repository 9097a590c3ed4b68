------------------------------ MODULE MCMail --------------------------------
(***************************************************************************)
(* Model checking of the components on the way of a message: its admission *)
(* (Admission), the templates and broadcasts it comes from                 *)
(* (BroadcastRequests), the SMTP client (OutboundSmtp) and server          *)
(* (SmtpServer, SmtpData), its files (FileStore), the permits and the      *)
(* route of an attempt (Permits, Routing), the retry delays (Backoff), the *)
(* signature (DkimSign), bounces and complaints (Feedback), the DNS side   *)
(* of a sender domain (SenderDomains, Spf, Dmarc), and the life of the     *)
(* processes that do it all (Lifecycle). They share no state in the model, *)
(* so a behaviour runs one of them, the initial area, while the others     *)
(* keep one initial state: the states checked are the sum of the           *)
(* components' states, not their product.                                  *)
(***************************************************************************)
EXTENDS Mail, TLC

VARIABLE area

ToDomain == [i |-> "d", j |-> "e"]
OneMessage == <<1>>
TwoRoles == [p |-> {"smtp", "submission"}, q |-> {"api", "observability", "worker"}]

Rates == [tenant |-> 1, key |-> 2, rcpt |-> 1]
Sizes == [tenant |-> 3, key |-> 2, rcpt |-> 3]

(* The configured schedule, and doublings around the second, the cap and the *)
(* range of a duration.                                                    *)
Delays(s, b, m, j) == [schedule |-> s, base |-> b, max |-> m, jitter |-> j]
Schedule == Delays(<<5, 300>>, 0, 0, 20)
RetryPolicies ==
  {Schedule, Delays(<<5, 0>>, 0, 0, 20), Delays(<<>>, 0, 7, 20)}
             \cup {Delays(<<>>, b, m, j) : b \in {1, 3, 150, 5000}, m \in {1, 7, 200, 16000}, j \in {0, 20, 80}}
             \cup {Delays(<<>>, b, 2^23 - 1, 0) : b \in {1, 3, 5000}}
HalfRange == 2^23
Extremes == {-1000, -1, 0, 1, 1000}

(* Mails with spaces to fold, repeated and foreign From fields, a field      *)
(* without a name, and bodies that end in blank lines or in none.           *)
Characters == {"a", "b", " ", "t", "n"}
FieldNames == {"from", "subject", "received", ""}
Field(n, v) == [name |-> n, value |-> v]
Mails ==
  LET heads == {<<Field("from", <<" ", "a">>), Field("subject", <<"a", " ", "b">>)>>,
                <<Field("subject", <<"a">>), Field("from", <<"a">>), Field("subject", <<"b">>)>>,
                <<Field("from", <<"a">>), Field("from", <<"b">>)>>,
                <<Field("", <<"a">>)>>}
      bodies == {<<<<>>>>, <<<<"a">>, <<>>>>, <<<<" ">>, <<>>>>,
                 <<<<"a", " ", "a">>, <<>>, <<"a">>, <<>>>>}
  IN {[fields |-> h, lines |-> b, from |-> d] : h \in heads, b \in bodies, d \in {"d", "e"}}
Unsigned == [fields |-> <<Field("", <<"a">>)>>, lines |-> <<<<>>>>, from |-> "d"]

(* Groups of reports of other mail systems, of mail to two recipients. *)
Reported == <<"a", "b">>
Report(a, s, b, form) == [action |-> a, status |-> s, to |-> [box |-> b, form |-> form]]
Reports == {Report("failed", <<5, 1, 1>>, "a", "bare"), Report("failed", <<5, 7, 1>>, "a", "bare"),
            Report("delayed", <<4, 2, 2>>, "b", "bare"), Report("failed", <<5, 1, 1>>, "none", "named")}

(* SPF terms of a sender: an address, a network, an include, all, and what   *)
(* Parse refuses.                                                          *)
Addresses == <<1, 2>>
Term(q, n, a, ok) == [q |-> q, name |-> n, arg |-> a, ok |-> ok, long |-> FALSE]
Terms ==
  {Term(q, "all", {}, TRUE) : q \in {"-", "+"}} \cup {Term(q, "include", {0}, TRUE) : q \in {"-", "+"}}
    \cup {Term("+", "ip", {1}, TRUE), Term("-", "ip", {1, 2}, TRUE),
          Term("+", "redirect", {}, TRUE), Term("+", "ptr", {}, TRUE), Term("+", "other", {}, FALSE)}

(* DMARC tags, good and bad, and what a name in the tree may answer. *)
Tag(n, v) == [name |-> n, val |-> v]
Version == Tag("v", "DMARC1")
DmarcTags ==
  {Version, Tag("sp", "reject"), Tag("adkim", "s"), Tag("pct", "1"), Tag("x", "1"), Tag("ruf", <<"a", "b">>)}
    \cup {Tag("p", v) : v \in {"none", "reject", "bad"}} \cup {Tag("psd", v) : v \in {"y", "n", "bad"}}
    \cup {Tag("rua", <<v>>) : v \in {"a", "bad"}}
Plain == <<Version, Tag("p", "none")>>
Answered ==
  {{}, {<<Tag("x", "1")>>}, {Plain}, {Plain, <<Version, Tag("p", "reject")>>},
   {Append(Plain, Tag("sp", "reject"))}, {<<Version, Tag("p", "reject"), Tag("psd", "y")>>},
   {<<Version, Tag("psd", "n"), Tag("p", "none"), Tag("adkim", "s")>>},
   {Plain, <<Version, Tag("psd", "y")>>, <<Tag("x", "1")>>}, {<<Version, Tag("psd", "y")>>}, {<<Version, Tag("psd", "n"), Tag("p", "bad")>>}}

InitArea ==
  /\ area \in {"admission", "broadcasts", "client", "server", "data", "files", "permits", "route", "backoff",
              "signature", "feedback", "domains", "spf", "dmarc", "lifecycle"}
  /\ area # "client" => config = [relay |-> FALSE, creds |-> FALSE, tls |-> "required"]
  /\ area # "backoff" => policy = Schedule
  /\ area # "data" => dSent = <<>> /\ dLimit = 0 /\ dWild = FALSE
  /\ area # "signature" => kMsg = Unsigned /\ kOutcome = "unsigned"
  /\ area # "spf" => eMode = "direct_unset"
  /\ Init

NextOfArea ==
  /\ UNCHANGED area
  /\ \/ area = "admission" /\ StepOfAdmission
     \/ area = "broadcasts" /\ StepOfBroadcasts
     \/ area = "server" /\ StepOfServer
     \/ area = "files" /\ StepOfFiles
     \/ area = "permits" /\ StepOfPermits
     \/ area = "route" /\ StepOfRoute
     \/ area = "domains" /\ StepOfDomains
     \/ area = "lifecycle" /\ StepOfLifecycle
     \/ area = "client" /\ StepOfClient
     \/ area = "feedback" /\ StepOfFeedback
     \/ area = "backoff" /\ StepOfBackoff
     \/ area = "spf" /\ StepOfSpf
     \/ area = "dmarc" /\ StepOfDmarc
     \/ area = "data" /\ StepOfData
     \/ area = "signature" /\ StepOfSignature

SpecOfAreas == InitArea /\ [][NextOfArea]_<<area, vars>>

(* Processes are interchangeable.                                          *)
Interchangeable == Permutations(Procs)
=============================================================================
