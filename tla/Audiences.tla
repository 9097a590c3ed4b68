----------------------------- MODULE Audiences -----------------------------
(***************************************************************************)
(* The lists of one tenant: contacts, audiences, memberships, suppressions,  *)
(* broadcasts, messages, webhooks and so on, and a client that walks one of *)
(* them page by page while other requests add and delete rows.              *)
(*                                                                          *)
(* A list is keyset-paginated: a page is the first limit + 1 rows behind    *)
(* the cursor, the cursor of the next page is the last row of this one, and *)
(* the extra row only says that there is a next page.  Rows are keyed by    *)
(* (created_at, id); created_at is the start of the inserting transaction,  *)
(* so a row may appear with a time before that of rows already listed, and  *)
(* the random id orders rows of one instant.  The time of a transaction     *)
(* lags the clock by at most MaxLag.                                        *)
(***************************************************************************)
EXTENDS Integers, Sequences, FiniteSets

CONSTANTS
  Ids,              \* row ids, ordered
  Emails,           \* addresses as a client writes them: [local, domain]
  limit,            \* the page size the client asks for
  MaxLag, MaxTime,
  MaxRequests       \* bound on the requests that change a table

(* A page has at least one row: handlers refuse a limit below 1. *)
AudiencesAssumption ==
  /\ Ids \subseteq Nat /\ {1, 2} \subseteq Ids /\ limit \in Nat \ {0}
  /\ MaxLag \in Nat /\ MaxTime \in Nat \ {0} /\ MaxRequests \in Nat

VARIABLES
  contacts,         \* contacts: id -> [at, key]
  audiences,        \* audiences: id -> created_at
  members,          \* audience_members: <<audience, contact>> -> created_at
  tables,           \* every other listed table: name -> (id -> created_at)
  gone,             \* ids of deleted rows; newID never gives one out again
  now, made,
  walk              \* the client's walk

vars == <<contacts, audiences, members, tables, gone, now, made, walk>>

-----------------------------------------------------------------------------

Lower == [d \in {"EX", "ex"} |-> "ex"]

(* Only the domain is folded; the local part keeps its case. *)
Normalize(email) == [email EXCEPT !.domain = Lower[@]]

Contact == [at: 0..MaxTime, key: {Normalize(e) : e \in Emails}]

With(table, k, row) == [x \in DOMAIN table \cup {k} |-> IF x = k THEN row ELSE table[x]]
Without(table, ks) == [x \in DOMAIN table \ ks |-> table[x]]

(* now() of a transaction that commits at this moment. *)
CreatedAt == {t \in (now - MaxLag)..now : t >= 0}

NoCursor == [at |-> -1, id |-> 0]
Tables == {"suppressions", "broadcasts", "recipients", "templates", "domains", "emails",
           "webhooks", "deliveries", "events"}
Lists == Tables \cup {"contacts", "audiences", "members"}
NoWalk == [list |-> "none", of |-> 0, after |-> NoCursor, got |-> {}, again |-> FALSE,
           kept |-> {}, more |-> FALSE]

Init ==
  /\ \E t \in {<<0, 0>>, <<0, 1>>} :
       /\ contacts \in {[i \in {1, 2} |-> [at |-> t[i], key |-> k[i]]] :
            k \in {s \in [{1, 2} -> {Normalize(e) : e \in Emails}] : s[1] # s[2]}}
       /\ tables = [l \in Tables |-> t]
  /\ audiences = [i \in {1} |-> 0] /\ members = <<>>
  /\ gone = {} /\ now = 1 /\ made = 0 /\ walk = NoWalk

-----------------------------------------------------------------------------
(* Pages.  A key is a pair (created_at, id). *)

Before(k, l) == k.at < l.at \/ (k.at = l.at /\ k.id < l.id)
Keys(table) == {[at |-> table[i], id |-> i] : i \in DOMAIN table}

(* ORDER BY created_at, id, both "asc" or both "desc". *)
Sorts(order, k, l) == IF order = "asc" THEN Before(k, l) ELSE Before(l, k)

(* The first n keys of S in that order. *)
First(S, n, order) == {k \in S : Cardinality({l \in S : Sorts(order, l, k)}) < n}
Newest(S, n) == First(S, n, "desc")
Oldest(S, n) == First(S, n, "asc")

(* Mutant: the row of the cursor is compared with <= and listed again. *)
Behind_OrEqual(S, after) == {k \in S : after = NoCursor \/ ~Before(after, k)}

(* The rows behind the cursor of a list that is newest first. *)
Behind(S, after) == {k \in S : after = NoCursor \/ Before(k, after)}

Stamps(table) == [i \in DOMAIN table |-> table[i].at]
ListContacts(after, n) == Newest(Behind(Keys(Stamps(contacts)), after), n)
ListAudiences(after, n) == Newest(Behind(Keys(audiences), after), n)
ListOf(list, after, n) == Newest(Behind(Keys(tables[list]), after), n)
ListSuppressions(after, n) == ListOf("suppressions", after, n)
ListBroadcasts(after, n) == ListOf("broadcasts", after, n)
ListTemplates(after, n) == ListOf("templates", after, n)
ListDomains(after, n) == ListOf("domains", after, n)              \* not deleted
ListMessages(after, n) == ListOf("emails", after, n)              \* no status filter
ListWebhookSubscriptions(after, n) == ListOf("webhooks", after, n)   \* not disabled
ListWebhookDeliveriesPage(after, n) == ListOf("deliveries", after, n)
ListTenantPublicEvents(after, n) == ListOf("events", after, n)

(* Oldest first. *)
ListBroadcastRecipients(after, n) ==
  Oldest({k \in Keys(tables["recipients"]) : after = NoCursor \/ Before(after, k)}, n)

Memberships(a) == {[at |-> members[m], id |-> m[2]] : m \in {x \in DOMAIN members : x[1] = a}}

(* Keyed by the membership row. *)
ListAudienceMembers(a, after, n) ==
  Oldest({k \in Memberships(a) : after = NoCursor \/ Before(after, k)}, n)

(* The token holds the time and the id; a token that does not split into    *)
(* the two is refused.                                                     *)
encodeCursor(k) == <<k.at, "|", k.id>>
decodeCursor(token) ==
  IF Len(token) = 3 /\ token[2] = "|" THEN [at |-> token[1], id |-> token[3]] ELSE NoCursor

(* The last of the first limit rows. *)
LastRow(rows, order) ==
  LET page == First(rows, limit, order)
  IN CHOOSE k \in page : \A l \in page : l = k \/ Sorts(order, l, k)

(* A page of rows, of which at most limit are returned; more says that     *)
(* the response has a next_cursor, for the row last.                       *)
Respond(rows, more, last, order) ==
  LET page == {k.id : k \in First(rows, limit, order)} IN
  walk' = [walk EXCEPT !.got = @ \cup page, !.again = @ \/ walk.got \cap page # {},
                       !.more = more,
                       !.after = IF more THEN decodeCursor(encodeCursor(last)) ELSE NoCursor]

Unchanged == UNCHANGED <<contacts, audiences, members, tables, gone, now, made>>
Page(rows, more, order) ==
  Respond(rows, more, IF rows = {} THEN NoCursor ELSE LastRow(rows, order), order) /\ Unchanged

(* The handlers ask for one row more than they show; that row only says     *)
(* that there is a next page.                                              *)
PageOf(rows, order) == Page(rows, Cardinality(rows) > limit, order)

Asking(list) == walk.list = list /\ walk.more
Asked == limit + 1

handleListContacts == Asking("contacts") /\ PageOf(ListContacts(walk.after, Asked), "desc")
handleListAudiences == Asking("audiences") /\ PageOf(ListAudiences(walk.after, Asked), "desc")
handleListSuppressions ==
  Asking("suppressions") /\ PageOf(ListSuppressions(walk.after, Asked), "desc")
handleListBroadcasts ==
  Asking("broadcasts") /\ PageOf(ListBroadcasts(walk.after, Asked), "desc")
handleListRecipients ==
  Asking("recipients") /\ PageOf(ListBroadcastRecipients(walk.after, Asked), "asc")
handleListTemplates == Asking("templates") /\ PageOf(ListTemplates(walk.after, Asked), "desc")
handleListDomains == Asking("domains") /\ PageOf(ListDomains(walk.after, Asked), "desc")
handleListWebhooks ==
  Asking("webhooks") /\ PageOf(ListWebhookSubscriptions(walk.after, Asked), "desc")
handleDeliveries ==
  Asking("deliveries") /\ PageOf(ListWebhookDeliveriesPage(walk.after, Asked), "desc")
handleEvents == Asking("events") /\ PageOf(ListTenantPublicEvents(walk.after, Asked), "desc")

(* Asks for limit rows, and takes a full page to mean that there are more.  *)
handleListEmails ==
  /\ Asking("emails")
  /\ LET rows == ListMessages(walk.after, limit) IN Page(rows, Cardinality(rows) = limit, "desc")

(* The cursor takes the time of the CONTACT: ListAudienceMembers returns    *)
(* Contact rows, and the handler reads their CreatedAt.                    *)
handleListMembers ==
  /\ Asking("members") /\ walk.of \in DOMAIN audiences
  /\ LET rows == ListAudienceMembers(walk.of, walk.after, limit + 1)
         last == IF rows = {} THEN NoCursor ELSE LastRow(rows, "asc")
     IN Respond(rows, Cardinality(rows) > limit,
                IF rows = {} THEN NoCursor ELSE [last EXCEPT !.at = contacts[last.id].at], "asc")
  /\ Unchanged

Rows(list, a) ==
  CASE list = "contacts" -> DOMAIN contacts
    [] list = "audiences" -> DOMAIN audiences
    [] list = "members" -> {k.id : k \in Memberships(a)}
    [] OTHER -> DOMAIN tables[list]

(* The client's first request has no cursor. *)
StartWalk ==
  /\ walk = NoWalk
  /\ \E l \in Lists : \E a \in DOMAIN audiences :
       /\ l # "members" => a = CHOOSE x \in DOMAIN audiences : TRUE
       /\ walk' = [NoWalk EXCEPT !.list = l, !.of = a, !.kept = Rows(l, a), !.more = TRUE]
  /\ Unchanged

-----------------------------------------------------------------------------
(* Requests that change the tables. *)

Request == made < MaxRequests /\ made' = made + 1
newID(table) == Ids \ (DOMAIN table \cup gone)

(* A row that goes away is no longer owed to the walk. *)
Gone(list, ids) ==
  walk' = IF walk.list = list THEN [walk EXCEPT !.kept = @ \ ids] ELSE walk

(* UNIQUE (tenant_id, normalized_email). *)
CreateContact(i, email, t) ==
  /\ \A j \in DOMAIN contacts : contacts[j].key # Normalize(email)
  /\ contacts' = With(contacts, i, [at |-> t, key |-> Normalize(email)])

handleCreateContact ==
  /\ Request
  /\ \E i \in newID(contacts), e \in Emails, t \in CreatedAt : CreateContact(i, e, t)
  /\ UNCHANGED <<audiences, members, tables, gone, now, walk>>

UpdateContact(i, email) ==
  /\ \A j \in DOMAIN contacts \ {i} : contacts[j].key # Normalize(email)
  /\ contacts' = [contacts EXCEPT ![i].key = Normalize(email)]

handleUpdateContact ==
  /\ Request /\ \E i \in DOMAIN contacts, e \in Emails : UpdateContact(i, e)
  /\ UNCHANGED <<audiences, members, tables, gone, now, walk>>

(* The memberships go with the contact, by ON DELETE CASCADE. *)
DeleteContact(i) ==
  /\ contacts' = Without(contacts, {i}) /\ gone' = gone \cup {i}
  /\ members' = Without(members, {m \in DOMAIN members : m[2] = i})
  /\ walk' = IF walk.list \in {"contacts", "members"} THEN [walk EXCEPT !.kept = @ \ {i}] ELSE walk

handleDeleteContact ==
  /\ Request /\ \E i \in DOMAIN contacts : DeleteContact(i)
  /\ UNCHANGED <<audiences, tables, now>>

CreateAudience(i, t) == audiences' = With(audiences, i, t)

handleCreateAudience ==
  /\ Request /\ \E i \in newID(audiences), t \in CreatedAt : CreateAudience(i, t)
  /\ UNCHANGED <<contacts, members, tables, gone, now, walk>>

DeleteAudience(i) ==
  /\ audiences' = Without(audiences, {i}) /\ gone' = gone \cup {i}
  /\ members' = Without(members, {m \in DOMAIN members : m[1] = i})
  /\ walk' = IF walk.list = "members" /\ walk.of = i THEN [walk EXCEPT !.kept = {}]
             ELSE IF walk.list = "audiences" THEN [walk EXCEPT !.kept = @ \ {i}] ELSE walk

handleDeleteAudience ==
  /\ Request /\ \E i \in DOMAIN audiences : DeleteAudience(i)
  /\ UNCHANGED <<contacts, tables, now>>

(* Both rows are checked in the transaction; a membership that exists stays. *)
AddAudienceMember(a, c, t) ==
  members' = IF <<a, c>> \in DOMAIN members THEN members ELSE With(members, <<a, c>>, t)

handleAddMember ==
  /\ Request
  /\ \E a \in DOMAIN audiences, c \in DOMAIN contacts, t \in CreatedAt :
       t >= contacts[c].at /\ t >= audiences[a] /\ AddAudienceMember(a, c, t)
  /\ UNCHANGED <<contacts, audiences, tables, gone, now, walk>>

RemoveAudienceMember(m) == members' = Without(members, {m})

handleRemoveMember ==
  /\ Request
  /\ \E m \in DOMAIN members :
       /\ RemoveAudienceMember(m)
       /\ walk' = IF walk.list = "members" /\ walk.of = m[1]
                  THEN [walk EXCEPT !.kept = @ \ {m[2]}] ELSE walk
  /\ UNCHANGED <<contacts, audiences, tables, gone, now>>

Insert(list) ==
  /\ Request
  /\ \E i \in newID(tables[list]), t \in CreatedAt : tables' = [tables EXCEPT ![list] = With(@, i, t)]
  /\ UNCHANGED <<contacts, audiences, members, gone, now, walk>>

handleCreateSuppression == Insert("suppressions")

DeleteSuppression(i) ==
  /\ tables' = [tables EXCEPT !["suppressions"] = Without(@, {i})] /\ gone' = gone \cup {i}
  /\ Gone("suppressions", {i})

handleDeleteSuppression ==
  /\ Request /\ \E i \in DOMAIN tables["suppressions"] : DeleteSuppression(i)
  /\ UNCHANGED <<contacts, audiences, members, now>>

(* A broadcast is accepted, and later its recipients are snapshotted. *)
CreateBroadcast == Insert("broadcasts")
Snapshot == Insert("recipients")

(* Rows that other components make: messages, their events, deliveries. *)
Others == \E list \in {"emails", "deliveries", "events"} : Insert(list)

(* Rows of these lists are made, and deleted or marked, by their handlers.   *)
MadeAndDeleted ==
  \E list \in {"templates", "domains", "webhooks"} :
    \/ Insert(list)
    \/ /\ Request
       /\ \E i \in DOMAIN tables[list] :
            /\ tables' = [tables EXCEPT ![list] = Without(@, {i})] /\ gone' = gone \cup {i}
            /\ Gone(list, {i})
       /\ UNCHANGED <<contacts, audiences, members, now>>

Tick ==
  /\ now < MaxTime /\ now' = now + 1
  /\ UNCHANGED <<contacts, audiences, members, tables, gone, made, walk>>

-----------------------------------------------------------------------------

Next ==
  \/ StartWalk \/ handleListContacts \/ handleListAudiences \/ handleListSuppressions
  \/ handleListBroadcasts \/ handleListRecipients \/ handleListMembers
  \/ handleListTemplates \/ handleListDomains \/ handleListWebhooks \/ handleDeliveries
  \/ handleEvents \/ handleListEmails
  \/ handleCreateContact \/ handleUpdateContact \/ handleDeleteContact
  \/ handleCreateAudience \/ handleDeleteAudience \/ handleAddMember \/ handleRemoveMember
  \/ handleCreateSuppression \/ handleDeleteSuppression
  \/ CreateBroadcast \/ Snapshot \/ Others \/ MadeAndDeleted \/ Tick

Spec == Init /\ [][Next]_vars

-----------------------------------------------------------------------------

(* Types: memberships join rows that exist. *)
TypeOK ==
  /\ \A i \in DOMAIN contacts : contacts[i] \in Contact
  /\ \A m \in DOMAIN members : m[1] \in DOMAIN audiences /\ m[2] \in DOMAIN contacts
  /\ now \in 0..MaxTime /\ made \in 0..MaxRequests

Exact == ~walk.again /\ (walk.list # "none" /\ ~walk.more => walk.kept \subseteq walk.got)

(* A walk over any list but audience members returns no row twice and, once *)
(* it ends, has returned every row that was there throughout, whatever is    *)
(* added and deleted meanwhile: ListContacts and the like compare            *)
(* (created_at, id) strictly with the last row shown.                       *)
WalksAreExact == walk.list # "members" => Exact

(* The same of audience members, which are "keyed by the membership row's   *)
(* own created_at/contact_id (not the contact's)"                          *)
(* (src/internal/database/audiences.go:30-31).                             *)
MemberWalksAreExact == walk.list = "members" => Exact
=============================================================================
