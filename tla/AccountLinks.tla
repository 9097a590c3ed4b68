---------------------------- MODULE AccountLinks -----------------------------
(***************************************************************************)
(* Links sent by email: the verification of a signup's address and the     *)
(* invitations to an organization, with the membership an accepted one      *)
(* gives and the member cap of the organization's plan.                    *)
(*                                                                         *)
(* A person is an address.  Sending a link is four steps: checks, the row's *)
(* INSERT, the mail, and the UPDATE that supersedes older links; requests   *)
(* for one address interleave anywhere between them.  The INSERTs for one   *)
(* address are serialized (an advisory lock for invitations, the humans row *)
(* for verification), so a link's number is its place in (created_at, id).  *)
(***************************************************************************)
EXTENDS Integers, Sequences, FiniteSets

CONSTANTS
  People,       \* normalized addresses
  Owner,        \* the person who creates the organization
  Procs,        \* requests in flight
  MemberCap,    \* billing.Plan.Members of the organization's plan
  MaxSends,     \* bound: links of each kind
  MaxRequests   \* bound: requests

(* Every plan has room for the owner; "none" is a caller without an account. *)
AccountLinksAssumption == MemberCap \in Nat \ {0} /\ Owner \in People /\ "none" \notin People

VARIABLES
  humans,    \* people with an account
  verified,  \* those with email_verified_at
  org,       \* members of the organization, {} before it exists
  inv,       \* org_invitations in creation order
  tok,       \* email_verification_tokens in creation order
  req,       \* process -> the request it runs
  made       \* history: requests so far

vars == <<humans, verified, org, inv, tok, req, made>>

(* state: "pending", "used" (accepted_at or used_at by its own link),       *)
(* "superseded" or "expired"; sent: the mail was accepted for delivery;    *)
(* swept: its request superseded the older ones.                           *)
LinkState == {"pending", "used", "superseded", "expired"}
OrgInvitation == [to: People, state: LinkState, sent: BOOLEAN, swept: BOOLEAN]
EmailVerificationToken == OrgInvitation
NewLink(a) == [to |-> a, state |-> "pending", sent |-> FALSE, swept |-> FALSE]

Idle == [pc |-> "idle", a |-> Owner, i |-> 0]

(* No organization yet, or one whose owner has invited two people. *)
Init ==
  /\ humans \in {{Owner}, People} /\ verified = {}
  /\ \/ org = {} /\ inv = <<>>
     \/ /\ org = {Owner}
        /\ \E a, b \in People \ {Owner} :
             a # b /\ inv = [i \in 1..2 |-> [NewLink(IF i = 1 THEN a ELSE b)
                                             EXCEPT !.sent = TRUE, !.swept = TRUE]]
  /\ tok = <<>> /\ made = 0
  /\ req = [p \in Procs |-> Idle]

Goto(p, pc, a, i) == req' = [req EXCEPT ![p] = [pc |-> pc, a |-> a, i |-> i]]
Done(p) == req' = [req EXCEPT ![p] = Idle]
Begin(p) == req[p].pc = "idle" /\ made < MaxRequests /\ made' = made + 1

(* The rows an UPDATE ... (created_at, id) < (keep) AND pending covers. *)
Older(links, keep) ==
  {j \in 1..(keep - 1) : links[j].to = links[keep].to /\ links[j].state = "pending"}
(* Mutant: every other pending link, newer ones too. *)
Supersede_Others(links, keep) ==
  [j \in DOMAIN links |->
     IF j # keep /\ links[j].to = links[keep].to /\ links[j].state = "pending"
     THEN [links[j] EXCEPT !.state = "superseded"]
     ELSE IF j = keep THEN [links[j] EXCEPT !.swept = TRUE] ELSE links[j]]

Supersede(links, keep) ==
  [j \in DOMAIN links |->
     IF j \in Older(links, keep) THEN [links[j] EXCEPT !.state = "superseded"]
     ELSE IF j = keep THEN [links[j] EXCEPT !.swept = TRUE] ELSE links[j]]
Sent(links, i) == [links EXCEPT ![i].sent = TRUE]

-----------------------------------------------------------------------------
(* Email verification. *)

ResendVerification(p, a) ==
  IF a \in humans \ verified THEN Goto(p, "vcreate", a, 0) ELSE Done(p)

handleResendVerification(p) ==
  /\ Begin(p) /\ \E a \in People : ResendVerification(p, a)
  /\ UNCHANGED <<humans, verified, org, inv, tok>>

(* SignUp creates the account, then sends the first link on its way out. *)
handleSignup(p) ==
  /\ Begin(p)
  /\ \E a \in People \ humans : humans' = humans \cup {a} /\ Goto(p, "vcreate", a, 0)
  /\ UNCHANGED <<verified, org, inv, tok>>

CreateEmailVerificationToken(p) ==
  /\ req[p].pc = "vcreate" /\ Len(tok) < MaxSends
  /\ IF req[p].a \in verified THEN Done(p) /\ UNCHANGED tok   \* ErrEmailAlreadyVerified
     ELSE tok' = Append(tok, NewLink(req[p].a)) /\ Goto(p, "vsend", req[p].a, Len(tok) + 1)
  /\ UNCHANGED <<humans, verified, org, inv, made>>

sendVerificationEmail(p) ==
  /\ req[p].pc = "vsend"
  /\ \/ tok' = Sent(tok, req[p].i) /\ Goto(p, "vsweep", req[p].a, req[p].i)
     \/ Done(p) /\ UNCHANGED tok
  /\ UNCHANGED <<humans, verified, org, inv, made>>

SupersedeOtherEmailVerificationTokens(p) ==
  /\ req[p].pc = "vsweep" /\ tok' = Supersede(tok, req[p].i) /\ Done(p)
  /\ UNCHANGED <<humans, verified, org, inv, made>>

VerifyEmail(p, i) == IF tok[i].state = "pending" THEN Goto(p, "verify", tok[i].to, i) ELSE Done(p)

handleVerifyEmail(p) ==
  /\ Begin(p) /\ \E i \in DOMAIN tok : VerifyEmail(p, i)
  /\ UNCHANGED <<humans, verified, org, inv, tok>>

(* One transaction under the humans row's lock. *)
ConsumeVerification(p) ==
  /\ req[p].pc = "verify"
  /\ IF tok[req[p].i].state = "pending"
     THEN /\ tok' = [tok EXCEPT ![req[p].i].state = "used"]
          /\ verified' = verified \cup {req[p].a}
     ELSE UNCHANGED <<tok, verified>>             \* ErrEmailVerificationTokenConsumed
  /\ Done(p)
  /\ UNCHANGED <<humans, org, inv, made>>

-----------------------------------------------------------------------------
(* Organizations and invitations. *)

CreateOrganization(a) == org' = {a}

handleCreateOrg(p) ==
  /\ Begin(p) /\ org = {} /\ CreateOrganization(Owner)
  /\ UNCHANGED <<humans, verified, inv, tok, req>>

IsTenantOwner(a) == org # {} /\ a = Owner
CheckMemberLimit == Cardinality(org) < MemberCap

(* The owner is checked and the cap looked at before anything is written.  *)
InviteToOrganization(p, by, a) ==
  IF IsTenantOwner(by) /\ CheckMemberLimit THEN Goto(p, "icreate", a, 0) ELSE Done(p)

handleCreateInvite(p) ==
  /\ Begin(p) /\ \E by \in humans, a \in People : InviteToOrganization(p, by, a)
  /\ UNCHANGED <<humans, verified, org, inv, tok>>

CreateOrgInvitation(p) ==
  /\ req[p].pc = "icreate" /\ Len(inv) < MaxSends
  /\ inv' = Append(inv, NewLink(req[p].a)) /\ Goto(p, "isend", req[p].a, Len(inv) + 1)
  /\ UNCHANGED <<humans, verified, org, tok, made>>

SendInvitation(p) ==
  /\ req[p].pc = "isend"
  /\ \/ inv' = Sent(inv, req[p].i) /\ Goto(p, "isweep", req[p].a, req[p].i)
     \/ Done(p) /\ UNCHANGED inv
  /\ UNCHANGED <<humans, verified, org, tok, made>>

SupersedeOtherPendingOrgInvitations(p) ==
  /\ req[p].pc = "isweep" /\ inv' = Supersede(inv, req[p].i) /\ Done(p)
  /\ UNCHANGED <<humans, verified, org, tok, made>>

(* A logged-in caller must own the invited address, any other signs up      *)
(* with it.                                                                *)
AcceptOrgInvitation(p, i, caller) ==
  \/ inv[i].state # "pending" /\ Done(p)                      \* ErrOrgInvitationInvalid
  \/ inv[i].state = "pending" /\ caller \in People \ {inv[i].to} /\ Done(p)
  \/ inv[i].state = "pending" /\ caller = inv[i].to /\ Goto(p, "join", caller, i)
  \/ inv[i].state = "pending" /\ caller = "none" /\ Goto(p, "signup", inv[i].to, i)

handleAcceptInvite(p) ==
  /\ Begin(p)
  /\ \E i \in DOMAIN inv, caller \in humans \cup {"none"} : AcceptOrgInvitation(p, i, caller)
  /\ UNCHANGED <<humans, verified, org, inv, tok>>

(* Mutant: the cap is only looked at when the invitation is sent. *)
lockMemberCap_None(a) == TRUE

(* FOR UPDATE of the tenants row serializes the accepts of one tenant.      *)
lockMemberCap(a) == a \in org \/ Cardinality(org) < MemberCap

Accept(p, i) ==
  /\ inv' = [inv EXCEPT ![i].state = "used"]
  /\ org' = org \cup {req[p].a}

AcceptOrgInvitationForExistingHuman(p) ==
  /\ req[p].pc = "join"
  /\ IF inv[req[p].i].state = "pending" /\ lockMemberCap(req[p].a)
     THEN Accept(p, req[p].i)
     ELSE UNCHANGED <<inv, org>>                \* ErrOrgInvitationConsumed, ErrPlanLimit
  /\ Done(p)
  /\ UNCHANGED <<humans, verified, tok, made>>

AcceptOrgInvitationWithSignup(p) ==
  /\ req[p].pc = "signup"
  /\ IF inv[req[p].i].state = "pending" /\ lockMemberCap("none") /\ req[p].a \notin humans
     THEN Accept(p, req[p].i) /\ humans' = humans \cup {req[p].a}
     ELSE UNCHANGED <<inv, org, humans>>        \* the above, or ErrEmailTaken
  /\ Done(p)
  /\ UNCHANGED <<verified, tok, made>>

-----------------------------------------------------------------------------

Expire ==
  /\ \/ \E i \in DOMAIN inv : inv[i].state = "pending" /\ inv' = [inv EXCEPT ![i].state = "expired"]
        /\ UNCHANGED tok
     \/ \E i \in DOMAIN tok : tok[i].state = "pending" /\ tok' = [tok EXCEPT ![i].state = "expired"]
        /\ UNCHANGED inv
  /\ UNCHANGED <<humans, verified, org, req, made>>

(* A failing call or a crash ends the request between two steps. *)
Fail(p) == req[p].pc # "idle" /\ Done(p) /\ UNCHANGED <<humans, verified, org, inv, tok, made>>

Next ==
  \/ Expire
  \/ \E p \in Procs :
       \/ handleSignup(p) \/ handleResendVerification(p) \/ CreateEmailVerificationToken(p)
       \/ sendVerificationEmail(p) \/ SupersedeOtherEmailVerificationTokens(p)
       \/ handleVerifyEmail(p) \/ ConsumeVerification(p) \/ handleCreateOrg(p)
       \/ handleCreateInvite(p) \/ CreateOrgInvitation(p) \/ SendInvitation(p)
       \/ SupersedeOtherPendingOrgInvitations(p) \/ handleAcceptInvite(p)
       \/ AcceptOrgInvitationForExistingHuman(p) \/ AcceptOrgInvitationWithSignup(p)
       \/ Fail(p)

Spec == Init /\ [][Next]_vars

-----------------------------------------------------------------------------

TypeOK ==
  /\ humans \subseteq People /\ verified \subseteq humans /\ org \subseteq People
  /\ inv \in Seq(OrgInvitation) /\ tok \in Seq(EmailVerificationToken)

Of(links, a) == {i \in DOMAIN links : links[i].to = a /\ links[i].sent}
Alive(links, a) == {i \in Of(links, a) : links[i].state = "pending"}

(* Requests that send links to one address at the same time never kill each *)
(* other's links (some delivered link is never superseded), and once every  *)
(* delivered link's request has finished at most one of them still works.   *)
LinksSupersedeCleanly ==
  \A links \in {inv, tok} : \A a \in People :
    /\ Of(links, a) # {} => \E i \in Of(links, a) : links[i].state # "superseded"
    /\ (\A i \in Of(links, a) : links[i].swept) => Cardinality(Alive(links, a)) <= 1

(* Invitations pass the member check when they are sent and may be accepted *)
(* at the same time; the organization still never exceeds its plan's cap.   *)
MembersWithinCap == Cardinality(org) <= MemberCap

(* Links and memberships stay sound when requests race: no link kills its   *)
(* rival, and no acceptance passes the cap.                                *)
InvitationsAreSound == TypeOK /\ LinksSupersedeCleanly /\ MembersWithinCap
=============================================================================
