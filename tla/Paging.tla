------------------------------- MODULE Paging -------------------------------
(* Reading an HTTP API page by page: the REST source (rest.rs: page, offset,*)
(* cursor and link pagination) and the GraphQL source (graphql.rs: relay    *)
(* and offset). The API's list may change while it is read, the API may cap *)
(* a page below what was asked, and may answer with cursors that never end. *)
(* A read that stops early must not look like a complete one.               *)
EXTENDS Integers, Sequences, FiniteSets, SequencesExt

CONSTANTS
    RowCount,    \* rows the API's list starts with
    PageSize,    \* page_size, where it is set
    MaxPages,    \* max_pages
    MaxChurn     \* changes to the list during one read

VARIABLES
    style,     \* the source and its pagination setting
    size,      \* page_size as the node has it; 0 where it is not set
    sent,      \* whether the API is told page_size
    limit,     \* the most rows the API puts on a page
    api,       \* "good", or how its cursors are wrong
    list,      \* the API's rows, in its order
    stayed,    \* rows that were there all the time
    churn,     \* changes so far
    mark,      \* the page's number or offset
    current,   \* the cursor sent last; 0 for none
    pages, got, pc, said

vars == <<style, size, sent, limit, api, list, stayed, churn, mark, current, pages, got, pc, said>>

RestStyles == {"none", "page", "offset", "cursor", "link"}
GraphqlStyles == {"bare", "slice", "relay"}    \* none, offset and relay
Counting == {"page", "offset", "slice"}
Following == {"cursor", "link", "relay"}

-----------------------------------------------------------------------------
(* The API                                                                  *)

(* Rows on a page: what was asked, where it was asked, and never above the  *)
(* API's own limit.                                                         *)
PerPage == IF sent /\ size < limit THEN size ELSE limit

(* A cursor and a link name the row they stand behind, so rows that come or *)
(* go before it do not move what follows; a number and an offset count.     *)
Behind(c) == Cardinality({i \in DOMAIN list : list[i] <= c})

(* Pagination::query, Paging::bind: what the request says of the page.      *)
Query == IF style = "page" THEN mark * PerPage ELSE IF style = "offset" THEN mark ELSE Behind(current)
Bind == IF style = "slice" THEN mark ELSE Behind(current)
From == IF style \in RestStyles THEN Query ELSE Bind

Page == SubSeq(list, From + 1, IF From + PerPage < Len(list) THEN From + PerPage ELSE Len(list))

More == From + PerPage < Len(list)

(* The next cursor of the answer; 0 where it has none. A stuck API names    *)
(* one cursor for ever, a cycling one goes from it back to another, and a   *)
(* mute one says that there is more and does not say where.                 *)
Cursor ==
    IF api = "good" THEN (IF More THEN Last(Page) ELSE 0)
    ELSE IF api = "stuck" THEN 2
    ELSE IF api = "mute" THEN 0
    ELSE IF current = 2 THEN 1 ELSE 2

-----------------------------------------------------------------------------
(* The node's settings                                                      *)

(* Pagination::from. A page's size is optional, and told to the API where   *)
(* size_param says how; an offset's has a default.                          *)
RestSettings ==
    /\ style \in RestStyles
    /\ size \in IF style = "page" THEN {0, PageSize} ELSE IF style = "offset" THEN {PageSize} ELSE {0}
    /\ sent \in IF style = "page" /\ size # 0 THEN BOOLEAN ELSE {style = "offset"}
    /\ api \in IF style = "cursor" THEN {"good", "stuck", "cycling"}
               ELSE IF style = "link" THEN {"good", "cycling"} ELSE {"good"}

(* Paging::from.                                                            *)
GraphqlSettings ==
    /\ style \in GraphqlStyles
    /\ size = IF style = "slice" THEN PageSize ELSE 0
    /\ sent = (style = "slice")
    /\ api \in IF style = "relay" THEN {"good", "stuck", "cycling", "mute"} ELSE {"good"}

Init ==
    /\ RestSettings \/ GraphqlSettings
    /\ limit \in {1, PageSize, PageSize + 1}
    /\ list = [i \in 1 .. RowCount |-> i + 1]
    /\ stayed = 2 .. RowCount + 1 /\ churn = 0
    /\ mark = 0 /\ current = 0 /\ pages = 0 /\ got = <<>>
    /\ pc = "read" /\ said = "nothing"

Setup == <<style, size, sent, limit, api>>

(* A row comes first in the list, or leaves it, while the list is read.     *)
Insert ==
    /\ pc = "read" /\ churn < MaxChurn /\ 1 \notin ToSet(list)
    /\ list' = <<1>> \o list /\ churn' = churn + 1
    /\ UNCHANGED <<Setup, stayed, mark, current, pages, got, pc, said>>

Delete ==
    /\ pc = "read" /\ churn < MaxChurn
    /\ \E i \in DOMAIN list : list' = RemoveAt(list, i) /\ stayed' = stayed \ {list[i]}
    /\ churn' = churn + 1
    /\ UNCHANGED <<Setup, mark, current, pages, got, pc, said>>

-----------------------------------------------------------------------------
(* The reader                                                               *)

End(how) == pc' = "ended" /\ said' = how

(* page_cap_reached: more to read, and an error rather than a quiet stop.   *)
CapReached ==
    /\ pc = "read" /\ pages = MaxPages
    /\ End("capped")
    /\ UNCHANGED <<Setup, list, stayed, churn, mark, current, pages, got>>

(* A request fails for good, an answer is not JSON, holds errors, no array  *)
(* at `records`, a row that is no object, or no pageInfo.                   *)
PageFails ==
    /\ pc = "read" /\ pages < MaxPages
    /\ End("failed")
    /\ UNCHANGED <<Setup, list, stayed, churn, mark, current, pages, got>>

\* Mutant: an exactly full page is taken for the last one.
ShortOrFull(count) == IF size # 0 THEN count <= size ELSE count = 0
(* A page shorter than page_size was the last one, and so was an empty one  *)
(* where page_size is not set.                                              *)
ShortPage(count) == IF size # 0 THEN count < size ELSE count = 0

Stay == UNCHANGED <<pc, said>>

(* advance without pagination: one page is all there is.                    *)
OnePage == style \in {"none", "bare"} /\ End("ok") /\ UNCHANGED <<mark, current>>

StepOn(step) == mark + step

Count(step) ==
    /\ IF ShortPage(Len(Page)) THEN End("ok") /\ UNCHANGED mark ELSE mark' = StepOn(step) /\ Stay
    /\ UNCHANGED current

NextNumber == style = "page" /\ Count(1)
NextOffset == style = "offset" /\ Count(Len(Page))
NextSlice == style = "slice" /\ Count(Len(Page))

\* Mutant: a cursor that comes twice in a row is followed.
LoopUnseen(c) == FALSE
(* The same cursor twice in a row is a loop.                                *)
Loops(c) == c = current

Follow ==
    /\ IF Loops(Cursor) THEN End("looping") /\ UNCHANGED current ELSE current' = Cursor /\ Stay
    /\ UNCHANGED mark

(* No cursor where cursor_path points is the end of the list.               *)
NextCursor ==
    /\ style = "cursor"
    /\ IF Cursor = 0 THEN End("ok") /\ UNCHANGED <<mark, current>> ELSE Follow

(* pageInfo says whether there is more and where, and has to say both.      *)
NextRelay ==
    /\ style = "relay"
    /\ IF api # "mute" /\ Cursor = 0 THEN End("ok") /\ UNCHANGED <<mark, current>>
       ELSE IF Cursor = 0 THEN End("failed") /\ UNCHANGED <<mark, current>>
       ELSE Follow

(* next_link, resolve_link: the URL that rel="next" names is requested, and *)
(* is not compared with the one before.                                     *)
NextLink ==
    /\ style = "link"
    /\ IF Cursor = 0 THEN End("ok") /\ UNCHANGED current ELSE current' = Cursor /\ Stay
    /\ UNCHANGED mark

Allowed == pages < MaxPages

TakePage ==
    /\ pc = "read" /\ Allowed
    /\ pages' = pages + 1
    /\ got' = got \o Page
    /\ UNCHANGED <<Setup, list, stayed, churn>>

RestRead == style \in RestStyles /\ TakePage /\ (OnePage \/ NextNumber \/ NextOffset \/ NextCursor \/ NextLink)
GraphqlRead == style \in GraphqlStyles /\ TakePage /\ (OnePage \/ NextSlice \/ NextRelay)

Ended == pc = "ended" /\ UNCHANGED vars

Step == CapReached \/ PageFails \/ RestRead \/ GraphqlRead
Next == Step \/ Insert \/ Delete \/ Ended

(* Every request ends, and the reader asks for the next page at once.       *)
Spec == Init /\ [][Next]_vars /\ WF_vars(Step)

-----------------------------------------------------------------------------
TypeOK ==
    /\ style \in RestStyles \cup GraphqlStyles /\ pages \in 0 .. MaxPages /\ churn \in 0 .. MaxChurn
    /\ ToSet(got) \subseteq 1 .. RowCount + 1 /\ stayed \subseteq ToSet(list)
    /\ said \in {"nothing", "ok", "failed", "capped", "looping"}

(* Where the list is counted through, it must hold still and the API must   *)
(* put as many rows on a page as it is asked for; a single page is complete *)
(* where everything fits on it.                                             *)
Countable ==
    /\ style \in Counting => churn = 0 /\ size <= limit
    /\ style \in {"none", "bare"} => Len(list) <= limit

(* A read that ends well has delivered every row that was there all along,  *)
(* once: it stopped neither at a cap nor at a page that happened to be full.*)
ReadsAll ==
    said = "ok" /\ api = "good" /\ Countable =>
        stayed \subseteq ToSet(got) /\ IsInjective(got)

(* An API that answers with one cursor for ever is caught on the second     *)
(* page, not a thousand requests later.                                     *)
LoopCaught == api = "stuck" => pages <= 2

(* Every read comes to this, whatever cursors the API makes up.             *)
Over == pc = "ended"
=============================================================================
