---------------------------------- MODULE OptOut ----------------------------------
(***************************************************************************)
(* The suppression list and the people who meet it: the public page and    *)
(* the one-click address behind each mail's unsubscribe link               *)
(* (app/unsubscribe, app/api/unsubscribe), and the admin's page of         *)
(* suppressed addresses (SuppressionsClient.tsx, app/api/suppressions).    *)
(*                                                                         *)
(* Neither page locks anything: the list and the recipients change between *)
(* two statements of a request and between an answer and the next click.   *)
(* What a suppression takes out of the queues is in SendQueue.             *)
(***************************************************************************)
EXTENDS Naturals, FiniteSets

CONSTANTS
  Emails,
  Visitors,    \* addresses that have been mailed an unsubscribe link
  Searches,    \* what can be searched for: a search is the set of addresses it finds
  RowsPerPage, \* pageSize
  ReadSlots,   \* bound of the model: requests of the admin's page under way at the same time
  MaxRevision  \* bound of the model: changes of the list

ASSUME OptOutAssumption ==
  /\ Visitors \subseteq Emails /\ Searches \subseteq SUBSET Emails /\ Emails \in Searches
  /\ RowsPerPage \in Nat \ {0} /\ IsFiniteSet(Emails)

VARIABLES
  optOuts,  \* since when each address is suppressed, 0 if it is not; the recipients there are; how often the list changed
  visits,  \* the public page of each visitor
  posts,   \* the requests to unsubscribe: one of the page and one of the mail client
  admin,   \* the state of SuppressionsClient
  reads,   \* the requests of the admin's page
  lifted,  \* history: visitors an admin took off the list since they last got on it
  heard     \* history: the newest change this admin's page was told it made

optOutVars == <<optOuts, visits, posts, admin, reads, lifted, heard>>

Posts == Visitors \X {"page", "client"}

\* address: of a change, a set of one.
Request(kind, page, search, address) ==
  [kind |-> kind, at |-> "sent", cancelled |-> FALSE, page |-> page, search |-> search, address |-> address,
   revision |-> 0, rows |-> {}, total |-> 0]

NoRead == Request("none", 1, Emails, {})

LoadOf(page, search) == Request("load", page, search, {})

OptOutStart(known, shown) ==
  /\ optOuts = [since |-> [a \in Emails |-> 0], known |-> known, revision |-> 0]
  /\ visits = [a \in Visitors |-> [page |-> "away", busy |-> FALSE, failed |-> FALSE]]
  /\ posts = [p \in Posts |-> "none"]
  /\ admin = [shown |-> shown, page |-> 1, typed |-> Emails, search |-> Emails, rows |-> {}, total |-> 0,
              of |-> <<1, Emails>>, revision |-> 0, failed |-> FALSE, busy |-> FALSE]
  /\ reads = [s \in ReadSlots |-> IF shown /\ s = CHOOSE t \in ReadSlots : TRUE THEN LoadOf(1, Emails) ELSE NoRead]
  /\ lifted = {}
  /\ heard = 0

OptOutInit == OptOutStart(Visitors, TRUE)

-----------------------------------------------------------------------------
(* The list. *)

Suppressed(a) == optOuts.since[a] # 0

ListWith(a, since) ==
  [since |-> [optOuts.since EXCEPT ![a] = since], known |-> optOuts.known, revision |-> optOuts.revision + 1]

\* The insert of suppressEmail: an address that is on the list keeps its row.
PutOnList(a) ==
  IF Suppressed(a) THEN UNCHANGED <<optOuts, lifted>>
  ELSE /\ optOuts.revision < MaxRevision
       /\ optOuts' = ListWith(a, optOuts.revision + 1)
       /\ lifted' = lifted \ {a}

\* DELETE: by address, whichever row that is by now.
TakeOffList(a) ==
  IF ~Suppressed(a) THEN UNCHANGED <<optOuts, lifted>>
  ELSE /\ optOuts.revision < MaxRevision
       /\ optOuts' = ListWith(a, 0)
       /\ lifted' = lifted \cup ({a} \cap Visitors)

(* Another admin. *)
OthersChangeList ==
  /\ \E a \in Emails : (PutOnList(a) \/ TakeOffList(a)) /\ optOuts' # optOuts
  /\ UNCHANGED <<visits, posts, admin, reads, heard>>

(* A campaign is deleted with its recipients: its links lead nowhere. *)
ForgetRecipient(a) ==
  /\ a \in optOuts.known
  /\ optOuts' = [optOuts EXCEPT !.known = @ \ {a}]
  /\ UNCHANGED <<visits, posts, admin, reads, lifted, heard>>

-----------------------------------------------------------------------------
(* The public page and the one-click address. *)

(* UnsubscribePage: the recipient is looked up .. (Not opened again while its request is under way:
   a bound of the model.) *)
OpenLink(a) ==
  /\ visits[a].page # "looking" /\ posts[<<a, "page">>] = "none"
  /\ LET page == IF a \in optOuts.known THEN "looking" ELSE "invalid"
     IN visits' = [visits EXCEPT ![a] = [page |-> page, busy |-> FALSE, failed |-> FALSE]]
  /\ UNCHANGED <<optOuts, posts, admin, reads, lifted, heard>>

(* .. and then whether the address is suppressed already. *)
ShowLink(a) ==
  /\ visits[a].page = "looking"
  /\ visits' = [visits EXCEPT ![a].page = IF Suppressed(a) THEN "done" ELSE "form"]
  /\ UNCHANGED <<optOuts, posts, admin, reads, lifted, heard>>

(* The button of UnsubscribeForm. *)
PressUnsubscribe(a) ==
  /\ visits[a].page = "form" /\ ~visits[a].busy
  /\ visits' = [visits EXCEPT ![a].busy = TRUE, ![a].failed = FALSE]
  /\ posts' = [posts EXCEPT ![<<a, "page">>] = "sent"]
  /\ UNCHANGED <<optOuts, admin, reads, lifted, heard>>

(* The mail client's own button: List-Unsubscribe-Post. *)
OneClick(a) ==
  /\ posts[<<a, "client">>] = "none"
  /\ posts' = [posts EXCEPT ![<<a, "client">>] = "sent"]
  /\ UNCHANGED <<optOuts, visits, admin, reads, lifted, heard>>

(* unsubscribe: whose token it is. *)
FindRecipient(p) ==
  /\ posts[p] = "sent"
  /\ posts' = [posts EXCEPT ![p] = IF p[1] \in optOuts.known THEN "found" ELSE "unknown"]
  /\ UNCHANGED <<optOuts, visits, admin, reads, lifted, heard>>

InsertSuppression(p) ==
  /\ posts[p] = "found"
  /\ PutOnList(p[1])
  /\ posts' = [posts EXCEPT ![p] = "ok"]
  /\ UNCHANGED <<visits, admin, reads, heard>>

\* What the page shows once its request has ended.
VisitEnds(p, page, failed) ==
  visits' = IF p[2] = "page" THEN [visits EXCEPT ![p[1]] = [page |-> page, busy |-> FALSE, failed |-> failed]] ELSE visits

PostAnsweredEarly(p) ==
  /\ posts[p] \in {"found", "ok", "unknown"}
  /\ VisitEnds(p, "done", FALSE)
  /\ posts' = [posts EXCEPT ![p] = "none"]
  /\ UNCHANGED <<optOuts, admin, reads, lifted, heard>>

(* The answer is 200 for a token nobody has too: it reveals nothing. *)
PostAnswered(p) ==
  /\ posts[p] \in {"ok", "unknown"}
  /\ VisitEnds(p, "done", FALSE)
  /\ posts' = [posts EXCEPT ![p] = "none"]
  /\ UNCHANGED <<optOuts, admin, reads, lifted, heard>>

(* The network or a statement fails, before or after the insert. *)
PostFails(p) ==
  /\ posts[p] # "none"
  /\ VisitEnds(p, "form", TRUE)
  /\ posts' = [posts EXCEPT ![p] = "none"]
  /\ UNCHANGED <<optOuts, admin, reads, lifted, heard>>

-----------------------------------------------------------------------------
(* The admin's page: its requests on the server. *)

Found(search) == {a \in search : Suppressed(a)}

\* One page of what a search finds, the newest first.
Listed(search, page) ==
  {a \in Found(search) :
     LET newer == Cardinality({n \in Found(search) : optOuts.since[n] > optOuts.since[a]})
     IN newer >= (page - 1) * RowsPerPage /\ newer < page * RowsPerPage}

(* GET reads the rows .. *)
ReadListRows(s) ==
  /\ reads[s].kind = "load" /\ reads[s].at = "sent"
  /\ reads' = [reads EXCEPT ![s].at = "counting", ![s].rows = Listed(reads[s].search, reads[s].page),
                            ![s].revision = optOuts.revision]
  /\ UNCHANGED <<optOuts, visits, posts, admin, lifted, heard>>

(* .. and counts them, on the list as it is by then. *)
CountListRows(s) ==
  /\ reads[s].kind = "load" /\ reads[s].at = "counting"
  /\ reads' = [reads EXCEPT ![s].at = "ok", ![s].total = Cardinality(Found(reads[s].search))]
  /\ UNCHANGED <<optOuts, visits, posts, admin, lifted, heard>>

(* POST and DELETE. *)
ChangeList(s) ==
  /\ reads[s].kind \in {"add", "remove"} /\ reads[s].at = "sent"
  /\ \E a \in reads[s].address : IF reads[s].kind = "add" THEN PutOnList(a) ELSE TakeOffList(a)
  /\ reads' = [reads EXCEPT ![s].at = "ok", ![s].revision = optOuts'.revision]
  /\ UNCHANGED <<visits, posts, admin, heard>>

-----------------------------------------------------------------------------
(* The admin's page itself. *)

Cancelled(held) == [s \in ReadSlots |-> IF held[s].kind = "load" THEN [held[s] EXCEPT !.cancelled = TRUE] ELSE held[s]]

\* useLoader: a new load supersedes those under way.
LoadList(held, page, search) ==
  \E s \in ReadSlots : held[s].kind = "none" /\ reads' = [Cancelled(held) EXCEPT ![s] = LoadOf(page, search)]

ReadOver(s) == [reads EXCEPT ![s] = NoRead]

LatestLoadArrives(s) ==
  /\ admin.shown /\ reads[s].kind = "load" /\ reads[s].at = "ok"
  /\ admin' = [admin EXCEPT !.rows = reads[s].rows, !.total = reads[s].total, !.revision = reads[s].revision,
                            !.of = <<reads[s].page, reads[s].search>>, !.failed = FALSE]
  /\ reads' = ReadOver(s)
  /\ UNCHANGED <<optOuts, visits, posts, lifted, heard>>

(* A load that has been superseded changes nothing any more. *)
ListLoadArrives(s) ==
  /\ admin.shown /\ reads[s].kind = "load" /\ reads[s].at = "ok"
  /\ admin' = IF reads[s].cancelled THEN admin
              ELSE [admin EXCEPT !.rows = reads[s].rows, !.total = reads[s].total, !.revision = reads[s].revision,
                                 !.of = <<reads[s].page, reads[s].search>>, !.failed = FALSE]
  /\ reads' = ReadOver(s)
  /\ UNCHANGED <<optOuts, visits, posts, lifted, heard>>

(* The search field: the first page at once, what is typed only when it has rested. *)
TypeSearch(search) ==
  /\ admin.shown /\ search # admin.typed
  /\ admin' = [admin EXCEPT !.typed = search, !.page = 1]
  /\ IF admin.page = 1 THEN UNCHANGED reads ELSE LoadList(reads, 1, admin.search)
  /\ UNCHANGED <<optOuts, visits, posts, lifted, heard>>

(* useDebounced. *)
SearchRests ==
  /\ admin.shown /\ admin.search # admin.typed
  /\ admin' = [admin EXCEPT !.search = admin.typed]
  /\ LoadList(reads, admin.page, admin.typed)
  /\ UNCHANGED <<optOuts, visits, posts, lifted, heard>>

(* The buttons below the table. *)
TurnListPage(page) ==
  /\ admin.shown /\ page \in {admin.page - 1, admin.page + 1} /\ page >= 1
  /\ admin.total > RowsPerPage
  /\ page > admin.page => admin.page * RowsPerPage < admin.total
  /\ admin' = [admin EXCEPT !.page = page]
  /\ LoadList(reads, page, admin.search)
  /\ UNCHANGED <<optOuts, visits, posts, lifted, heard>>

\* A change leaves.
AskFor(kind, a) ==
  \E s \in ReadSlots : reads[s].kind = "none" /\ reads' = [reads EXCEPT ![s] = Request(kind, 1, Emails, {a})]

(* add; whatever was said of a failure goes. *)
AddSuppression(a) ==
  /\ admin.shown /\ ~admin.busy
  /\ admin' = [admin EXCEPT !.busy = TRUE, !.failed = FALSE]
  /\ AskFor("add", a)
  /\ UNCHANGED <<optOuts, visits, posts, lifted, heard>>

(* remove, confirmed: of a row on screen, also while something else is under way. *)
RemoveSuppression(a) ==
  /\ admin.shown /\ a \in admin.rows
  /\ AskFor("remove", a)
  /\ UNCHANGED <<optOuts, visits, posts, admin, lifted, heard>>

ListChangedWithoutReload(s) ==
  /\ admin.shown /\ reads[s].kind \in {"add", "remove"} /\ reads[s].at = "ok"
  /\ heard' = IF reads[s].revision > heard THEN reads[s].revision ELSE heard
  /\ admin' = [admin EXCEPT !.busy = @ /\ reads[s].kind # "add"]
  /\ reads' = ReadOver(s)
  /\ UNCHANGED <<optOuts, visits, posts, lifted>>

(* A change has its answer: the table is loaded again. *)
ListChanged(s) ==
  /\ admin.shown /\ reads[s].kind \in {"add", "remove"} /\ reads[s].at = "ok"
  /\ heard' = IF reads[s].revision > heard THEN reads[s].revision ELSE heard
  /\ admin' = [admin EXCEPT !.busy = @ /\ reads[s].kind # "add"]
  /\ LoadList(ReadOver(s), admin.page, admin.search)
  /\ UNCHANGED <<optOuts, visits, posts, lifted>>

(* A request fails, or its answer is lost: only a superseded load says nothing of it. *)
ListRequestFails(s) ==
  /\ admin.shown /\ reads[s].kind # "none"
  /\ admin' = [admin EXCEPT !.failed = @ \/ ~reads[s].cancelled, !.busy = @ /\ reads[s].kind # "add"]
  /\ reads' = ReadOver(s)
  /\ UNCHANGED <<optOuts, visits, posts, lifted, heard>>

(* api: a 401 leaves for the sign-in page, and all that the page knew goes with it. *)
SessionIsOver(s) ==
  /\ admin.shown /\ reads[s].kind # "none" /\ reads[s].at = "sent"
  /\ admin' = [admin EXCEPT !.shown = FALSE, !.rows = {}]
  /\ reads' = [u \in ReadSlots |-> NoRead]
  /\ UNCHANGED <<optOuts, visits, posts, lifted, heard>>

\* What the people with a link do, and what an admin does; the list changes under both.
LinkNext ==
  \/ OthersChangeList
  \/ \E a \in Visitors : ForgetRecipient(a) \/ OpenLink(a) \/ ShowLink(a) \/ PressUnsubscribe(a) \/ OneClick(a)
  \/ \E p \in Posts : FindRecipient(p) \/ InsertSuppression(p) \/ PostAnswered(p) \/ PostFails(p)

SuppressionsNext ==
  \/ OthersChangeList
  \/ \E s \in ReadSlots :
       \/ ReadListRows(s) \/ CountListRows(s) \/ ChangeList(s)
       \/ ListLoadArrives(s) \/ ListChanged(s) \/ ListRequestFails(s) \/ SessionIsOver(s)
  \/ \E search \in Searches : TypeSearch(search)
  \/ SearchRests
  \/ \E page \in {admin.page - 1, admin.page + 1} : TurnListPage(page)
  \/ \E a \in Emails : AddSuppression(a) \/ RemoveSuppression(a)

OptOutNext == LinkNext \/ SuppressionsNext

OptOutSpec == OptOutInit /\ [][OptOutNext]_optOutVars

-----------------------------------------------------------------------------
(* Properties. *)

\* Whoever is told that it is done gets no more mail: the address is on the list, unless an admin
\* took it off again or the mail's campaign, and with it the link, is gone.
DoneIsSuppressed ==
  \A a \in Visitors : visits[a].page = "done" => Suppressed(a) \/ a \in lifted \/ a \notin optOuts.known

\* The button of the public page is disabled only while its request is under way.
FormComesBack == \A a \in Visitors : visits[a].busy = (posts[<<a, "page">>] # "none")

Settled == admin.shown /\ ~admin.failed /\ ~admin.busy /\ \A s \in ReadSlots : reads[s].kind = "load" => reads[s].cancelled

\* Once nothing is being loaded and nothing failed, the table is of the page and of the search that
\* are set, and shows every change this page was told it made: although loads overtake each other and
\* the search is set later than it is typed.
ListIsAsAsked == Settled => admin.of = <<admin.page, admin.search>> /\ admin.revision >= heard

\* "Add" is disabled only while its request is under way.
AddComesBack == admin.shown /\ admin.busy => \E s \in ReadSlots : reads[s].kind = "add"

\* An opt-out is kept and shown: "done" means suppressed, and the admin's table is as new as what the
\* admin was told.
OptOutsKept == DoneIsSuppressed /\ FormComesBack /\ ListIsAsAsked /\ AddComesBack
================================================================================
