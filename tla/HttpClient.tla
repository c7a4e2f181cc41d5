------------------------------ MODULE HttpClient ------------------------------
(***************************************************************************)
(* A client of a downstream MCP server reached over HTTP (downstream.py,   *)
(* HttpClient): it opens a session, lists the tools of the server page by  *)
(* page and calls one.  One thread uses it, a request at a time, and each  *)
(* request is one POST whose answer is taken in one step here.  Closing it *)
(* does nothing, so a shutdown waits for the deadline of a request.        *)
(***************************************************************************)
EXTENDS Naturals, Sequences, SequencesExt

CONSTANTS Tools,        \* names of tools
          Cursors,      \* pagination cursors
          Sessions,     \* session identifiers
          Nothing,      \* no cursor, no session, no tool
          Invalid,      \* a cursor or session of the wrong form
          MaxPages      \* pages of a listing, 100

(* Assumed by the module that composes the clients.                        *)
ListingAssumption == MaxPages \in Nat \ {0} /\ Nothing \notin Cursors

VARIABLES step,         \* where the client is
          session,      \* session_id
          wanted,       \* the tool list_tools stops at
          cursor,       \* the cursor of the next page
          seen,         \* cursors already followed
          found,        \* the tools listed so far
          asked,        \* history: the pages this listing asked for
          given         \* history: the pages the server gave

listing == <<wanted, cursor, seen, found, asked, given>>
vars == <<step, session, listing>>

Init ==
    /\ step = "new"
    /\ session = Nothing
    /\ wanted = Nothing
    /\ cursor = Nothing
    /\ seen = {}
    /\ found = << >>
    /\ asked = << >>
    /\ given = << >>

-----------------------------------------------------------------------------
(* _post: the answer to a frame.  A refused status ("error"; a redirect is *)
(* one) and a request that fails or times out leave the session alone.     *)
Answers ==
    [status : {"ok", "accepted", "error"}, session : Sessions \cup {Nothing, Invalid},
     body : {"result", "other", "unreadable"}]

(* The identifier the server sends is kept whatever the body turns out to  *)
(* be.                                                                     *)
Keep(a) ==
    session' = IF a.status = "error" \/ a.session \in {Nothing, Invalid} THEN session
               ELSE a.session

(* A body within the frame limit that is a JSON-RPC document; an answer to *)
(* a notification may do without.                                          *)
Arrived(a, notification) ==
    /\ a.status # "error" /\ a.session # Invalid
    /\ a.body # "unreadable" \/ (notification /\ a.status = "accepted")

(* request: the document has the id of the request and a result.           *)
Result(a) == Arrived(a, FALSE) /\ a.body = "result"

Go(next) == step' = next

(* initialize: the server's version may not be a supported one.            *)
Initialize ==
    /\ step = "new"
    /\ \E a \in Answers, supported \in BOOLEAN :
           /\ Keep(a)
           /\ IF Result(a) /\ supported THEN Go("initialized") ELSE Go("failed")
    /\ UNCHANGED listing

(* The notification that follows; its answer is not looked at.             *)
Notify ==
    /\ step = "initialized"
    /\ \E a \in Answers :
           /\ Keep(a)
           /\ IF Arrived(a, TRUE) THEN Go("ready") ELSE Go("failed")
    /\ UNCHANGED listing

-----------------------------------------------------------------------------
(* list_tools.                                                             *)

BeginListing ==
    /\ step = "ready"
    /\ wanted' \in Tools \cup {Nothing}
    /\ cursor' = Nothing
    /\ seen' = {}
    /\ found' = << >>
    /\ asked' = << >>
    /\ given' = << >>
    /\ Go("listing")
    /\ UNCHANGED session

Pages == [tools : {<< >>} \cup {<<t>> : t \in Tools}, next : Cursors \cup {Nothing, Invalid}]

(* The request for a page carries its cursor and the session.              *)
Ask == asked' = Append(asked, [cursor |-> cursor, session |-> session])

FollowAgain(page) ==
    /\ page.next \in Cursors
    /\ seen' = {page.next}
    /\ cursor' = page.next
    /\ step' = IF Len(asked) + 1 < MaxPages THEN "listing" ELSE "failed"

(* The next page is followed, once; after the last page allowed the        *)
(* listing fails.                                                          *)
Follow(page) ==
    /\ page.next \in Cursors \ seen
    /\ seen' = seen \cup {page.next}
    /\ cursor' = page.next
    /\ step' = IF Len(asked) + 1 < MaxPages THEN "listing" ELSE "failed"

(* The wanted tool is on the page, or the page is the last one.            *)
Enough(page) == wanted \in ToSet(page.tools) \/ page.next = Nothing

Return(page) == Enough(page) /\ Go("listed") /\ UNCHANGED <<cursor, seen>>

(* A cursor that is no string, or was followed before.                     *)
Reject(page) == page.next \in seen \cup {Invalid} /\ Go("failed") /\ UNCHANGED <<cursor, seen>>

ListPage ==
    /\ step = "listing"
    /\ Ask
    /\ \E a \in Answers, page \in Pages :
           /\ Result(a) /\ Keep(a)
           /\ found' = found \o page.tools
           /\ given' = Append(given, [tools |-> page.tools, next |-> page.next,
                                      session |-> a.session])
           /\ Return(page) \/ (~Enough(page) /\ (Follow(page) \/ Reject(page)))
    /\ UNCHANGED wanted

(* No result, or one whose tools are no list of objects.                   *)
ListFails ==
    /\ step = "listing"
    /\ Ask
    /\ \E a \in Answers : Keep(a)
    /\ Go("failed")
    /\ UNCHANGED <<wanted, cursor, seen, found, given>>

UseListing ==
    /\ step = "listed"
    /\ Go("ready")
    /\ UNCHANGED <<session, listing>>

-----------------------------------------------------------------------------
(* call_tool; and the end of the client's use.                             *)

CallTool ==
    /\ step = "ready"
    /\ \E a \in Answers, shaped \in BOOLEAN :
           /\ Keep(a)
           /\ IF Result(a) /\ shaped THEN Go("called") ELSE Go("failed")
    /\ UNCHANGED listing

Close ==
    /\ step \in {"ready", "called", "failed"}
    /\ Go("closed")
    /\ UNCHANGED <<session, listing>>

Next == Initialize \/ Notify \/ BeginListing \/ ListPage \/ ListFails \/ UseListing
            \/ CallTool \/ Close

Spec == Init /\ [][Next]_vars

-----------------------------------------------------------------------------
(* A listing is one walk along the server's pages: at most MaxPages of     *)
(* them, none asked for twice, each with the cursor and the session the    *)
(* page before it gave.  What list_tools returns is every tool of those    *)
(* pages, and the walk stopped at the last page or at the wanted tool      *)
(* (list_tools).                                                           *)
ListingIsWhole ==
    /\ Len(asked) <= MaxPages
    /\ \A i, j \in DOMAIN asked : asked[i].cursor = asked[j].cursor => i = j
    /\ \A i \in DOMAIN asked \ {1} :
           /\ asked[i].cursor = given[i - 1].next
           /\ asked[i].session = IF given[i - 1].session = Nothing THEN asked[i - 1].session
                                 ELSE given[i - 1].session
    /\ step = "listed" =>
           /\ found = FlattenSeq([i \in DOMAIN given |-> given[i].tools])
           /\ Last(given).next = Nothing \/ wanted \in ToSet(Last(given).tools)
=============================================================================
