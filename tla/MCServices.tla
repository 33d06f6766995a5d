----------------------------- MODULE MCServices -----------------------------
(* Small instances of what a run has to do with other machines: the queue    *)
(* sources, and the sinks, the HTTP layer, the sources that page or ask from *)
(* a watermark, and the model. A behaviour is one of one part; `which` says  *)
(* of which. Each keeps its own variables, which are 0 in the behaviours of  *)
(* the others.                                                               *)
EXTENDS QueueHold

CONSTANTS RowCount,                  \* of Load, Ask and Paging
          BatchLimit, Retries,       \* of Load and Deliver
          Workers,                   \* of Ask
          PageSize, MaxPages, MaxChurn, \* of Paging
          Records, Places            \* of Deliver, Records being its RowCount
CONSTANTS MaxRows, MaxCap, StartAt   \* of Watermark
CONSTANTS Clients, Attempts, Backoff, MinInterval, MaxRetryAfter, Timeout, Margin, Lasts
                                     \* of HttpCall, its Threads being the Clients

ASSUME WorkersAssumption == IsFiniteSet(Workers) /\ Workers # {}

ASSUME LoadAssumption == RowCount \in Nat /\ BatchLimit \in Nat \ {0} /\ Retries \in Nat

ASSUME PagesAssumption == PageSize \in Nat \ {0} /\ MaxPages \in Nat /\ MaxChurn \in Nat

ASSUME PlacesAssumption == Records \in Nat /\ Places \in Nat \ {0}

ASSUME RowsAssumption == {MaxRows, MaxCap, StartAt} \subseteq Nat

(* REFRESH_MARGIN outlasts a call, as the five minutes do with the defaults *)
(* of http.rs (four requests of 30 s, and 3.5 s of back-off): with waits[n] *)
(* the back-off after attempt n, and latest[n] the latest this attempt      *)
(* goes out after its token was taken, none goes out later than the margin. *)
ASSUME CallsAssumption ==
    /\ {Attempts, Backoff, MinInterval, MaxRetryAfter, Timeout, Margin, Lasts} \subseteq Nat
    /\ -1 \notin Clients /\ Margin < Lasts
    /\ \E waits \in [1 .. Attempts + 1 -> 0 .. Margin] :
        /\ waits[1] = Backoff
        /\ \A n \in 1 .. Attempts : waits[n + 1] = 2 * waits[n]
        /\ \E latest \in [1 .. Attempts + 1 -> 0 .. Margin] :
            /\ latest[1] = MinInterval
            /\ \A n \in 1 .. Attempts :
                /\ latest[n] + MinInterval =< latest[n + 1]
                /\ latest[n] + Timeout + waits[n] =< latest[n + 1]

VARIABLES which,
          source, incremental, cap, start, what, value, saved, delivered, twice, cut, mute,
          reading, present, selected,
          sink, mode, keys, odd, row, gathered, call, staged, table, applied, late, wiped, done,
          lost, counted, loading, said,
          calling, cache, lock, attempt, wait, due, since, auth, told,
          question, local, server, usable, maxRows, asked, next, stop, thread, slot, answers, calls,
          stopSeen, out, asking, verdict,
          style, size, sized, limit, api, list, stayed, churn, place, current, pages, got, paging,
          ended,
          target, column, keyed, reached, packet, sending, acks, batches, tries, repeats, log,
          claimed, doubt, delivering, report

mark == <<source, incremental, cap, start, what, value, saved, delivered, twice, cut, mute,
          reading, present, selected>>
load == <<sink, mode, keys, odd, row, gathered, call, staged, table, applied, late, wiped, done,
          lost, counted, loading, said>>
ask == <<question, local, server, usable, maxRows, asked, next, stop, thread, slot, answers, calls,
         stopSeen, out, asking, verdict>>
http == <<calling, cache, lock, attempt, wait, due, since, auth, told>>
page == <<style, size, sized, limit, api, list, stayed, churn, place, current, pages, got, paging,
          ended>>
deliver == <<target, column, keyed, reached, packet, sending, acks, batches, tries, repeats, log,
             claimed, doubt, delivering, report>>
all == <<which, vars, load, mark, http, ask, page, deliver>>

Sink ==
    INSTANCE Deliver WITH
        RowCount <- Records, sink <- target, keys <- keyed, at <- reached, batch <- packet,
        call <- sending, attempt <- tries, lost <- repeats, counted <- claimed,
        pc <- delivering, said <- report

Table == INSTANCE Load WITH at <- row, batch <- gathered, pc <- loading

Http == INSTANCE HttpCall WITH Threads <- Clients, pc <- calling

Mark == INSTANCE Watermark WITH pc <- reading, todo <- selected

Page == INSTANCE Paging WITH sent <- sized, mark <- place, pc <- paging, said <- ended

Model ==
    INSTANCE Ask WITH
        cap <- maxRows, read <- asked, at <- thread, row <- slot, pc <- asking, said <- verdict

NoMark ==
    /\ source = 0 /\ incremental = 0 /\ cap = 0 /\ start = 0 /\ what = 0 /\ value = 0
    /\ saved = 0 /\ delivered = 0 /\ twice = 0 /\ cut = 0 /\ mute = 0
    /\ reading = 0 /\ present = 0 /\ selected = 0
NoLoad ==
    /\ sink = 0 /\ mode = 0 /\ keys = 0 /\ odd = 0 /\ row = 0 /\ gathered = 0 /\ call = 0
    /\ staged = 0 /\ table = 0 /\ applied = 0 /\ late = 0 /\ wiped = 0 /\ done = 0
    /\ lost = 0 /\ counted = 0 /\ loading = 0 /\ said = 0
NoHttp ==
    /\ calling = 0 /\ cache = 0 /\ lock = 0 /\ attempt = 0 /\ wait = 0 /\ due = 0
    /\ since = 0 /\ auth = 0 /\ told = 0
NoAsk ==
    /\ question = 0 /\ local = 0 /\ server = 0 /\ usable = 0 /\ maxRows = 0 /\ asked = 0
    /\ next = 0 /\ stop = 0 /\ thread = 0 /\ slot = 0 /\ answers = 0 /\ calls = 0
    /\ stopSeen = 0 /\ out = 0 /\ asking = 0 /\ verdict = 0
NoPage ==
    /\ style = 0 /\ size = 0 /\ sized = 0 /\ limit = 0 /\ api = 0 /\ list = 0 /\ stayed = 0
    /\ churn = 0 /\ place = 0 /\ current = 0 /\ pages = 0 /\ got = 0 /\ paging = 0 /\ ended = 0
NoSink ==
    /\ target = 0 /\ column = 0 /\ keyed = 0 /\ reached = 0 /\ packet = 0 /\ sending = 0
    /\ acks = 0 /\ batches = 0 /\ tries = 0 /\ repeats = 0 /\ log = 0 /\ claimed = 0
    /\ doubt = 0 /\ delivering = 0 /\ report = 0

ServicesInit ==
    /\ Init
    /\ \/ which = "queue" /\ NoMark /\ NoLoad /\ NoHttp /\ NoAsk /\ NoPage /\ NoSink
       \/ which = "mark" /\ Mark!Init /\ NoLoad /\ NoHttp /\ NoAsk /\ NoPage /\ NoSink
       \/ which = "load" /\ Table!Init /\ NoMark /\ NoHttp /\ NoAsk /\ NoPage /\ NoSink
       \/ which = "http" /\ Http!Init /\ NoMark /\ NoLoad /\ NoAsk /\ NoPage /\ NoSink
       \/ which = "ask" /\ Model!Init /\ NoMark /\ NoLoad /\ NoHttp /\ NoPage /\ NoSink
       \/ which = "page" /\ Page!Init /\ NoMark /\ NoLoad /\ NoHttp /\ NoAsk /\ NoSink
       \/ which = "sink" /\ Sink!Init /\ NoMark /\ NoLoad /\ NoHttp /\ NoAsk /\ NoPage
    /\ which # "queue" => broker = "sqs"

ServicesNext ==
    \/ which = "queue" /\ Next /\ UNCHANGED <<which, mark, load, http, ask, page, deliver>>
    \/ which = "mark" /\ Mark!Next /\ UNCHANGED <<which, vars, load, http, ask, page, deliver>>
    \/ which = "load" /\ Table!Next /\ UNCHANGED <<which, vars, mark, http, ask, page, deliver>>
    \/ which = "http" /\ Http!Next /\ UNCHANGED <<which, vars, mark, load, ask, page, deliver>>
    \/ which = "ask" /\ Model!Next /\ UNCHANGED <<which, vars, mark, load, http, page, deliver>>
    \/ which = "page" /\ Page!Next /\ UNCHANGED <<which, vars, mark, load, http, ask, deliver>>
    \/ which = "sink" /\ Sink!Next /\ UNCHANGED <<which, vars, mark, load, http, ask, page>>

(* Calls have timeouts and threads run: the fairness of each part.          *)
ServicesSpec ==
    /\ ServicesInit /\ [][ServicesNext]_all
    /\ WF_vars(which = "queue" /\ Tick) /\ WF_vars(which = "queue" /\ Settlement)
    /\ WF_vars(which = "queue" /\ Keep) /\ SF_vars(which = "queue" /\ KeeperStops)
    /\ WF_deliver(which = "sink" /\ Sink!Step)
    /\ WF_load(which = "load" /\ Table!Step)
    /\ WF_page(which = "page" /\ Page!Step)
    /\ WF_ask(which = "ask" /\ Model!Step)
    /\ SF_http(which = "http" /\ Http!Tick)
    /\ \A t \in Clients : WF_http(which = "http" /\ Http!Move(t))

-----------------------------------------------------------------------------
(* Kafka, Kinesis, SQS, Pub/Sub, NATS and RabbitMQ sinks: one that ends     *)
(* well has put every row where it belongs, none between two batches, two   *)
(* resends or two partitions; the count of a failed one claims no row that  *)
(* is not there; rows of one key land in one partition in the order of the  *)
(* input, where a sink does not send what was refused again; and a message  *)
(* is there twice only if an answer about it got lost.                      *)
SinksTell ==
    which = "sink" =>
        /\ Sink!TypeOK
        /\ Sink!DeliveredAll
        /\ Sink!NeverOverclaims
        /\ Sink!KeyOrder
        /\ Sink!OnceUnlessInDoubt

(* A table, collection or API sink that ends well has written every row,    *)
(* beside, in place of or merged with what was there; the count of a failed *)
(* one claims no row that is not there; with key columns SQL Server's table *)
(* is never half written, whatever fails on the way to the MERGE; and       *)
(* Snowflake, SQL Server and MongoDB get a row once, answers lost or not.   *)
LoadsTell ==
    which = "load" =>
        /\ Table!TypeOK
        /\ Table!LoadedAll
        /\ Table!NeverOverclaims
        /\ Table!MergeIsWhole
        /\ Table!WrittenOnce

(* The calls of one HTTP client: a request whose server never named a       *)
(* Retry-After never carries an expired token, for timeouts and backoffs    *)
(* add up to less than the margin; nobody trades for a token while the      *)
(* cache holds one that is good for longer than that; and two requests are  *)
(* min_interval apart, retries included.                                    *)
CallsSignedIn ==
    /\ [](which = "http" =>
            /\ Http!TypeOK
            /\ Http!FreshAfterBackoff
            /\ Http!OneTokenForAll)
    /\ [][which = "http" => Http!PacedStep]_all

(* A warehouse or MongoDB source: the position never lies past a row that   *)
(* was not delivered, but for a cap that fell between rows of one value; a  *)
(* run that goes on from its own position delivers nothing again; and an    *)
(* uncapped run that succeeds has delivered every row that was there.       *)
WatermarkReads ==
    /\ [](which = "mark" =>
            /\ Mark!TypeOK
            /\ Mark!SkipsNothing
            /\ Mark!ReadsOnce)
    /\ [][which = "mark" => Mark!CatchesUpStep]_all

(* A paged read that ends well has delivered every row that was there all   *)
(* along, once; an API that answers with one cursor for ever is caught on   *)
(* page two.                                                                *)
PagesRead ==
    which = "page" =>
        /\ Page!TypeOK
        /\ Page!ReadsAll
        /\ Page!LoopCaught

(* A model stage that succeeds has an answer for every row, in row order,   *)
(* whichever threads asked; one that names a row names the earliest that    *)
(* failed; no call goes above the cap, and after a failure none but those   *)
(* the other threads were about to make; and the local model is gone when   *)
(* the stage is over, however it ended.                                     *)
ModelAnswers ==
    which = "ask" =>
        /\ Model!TypeOK
        /\ Model!EveryRowAnswered
        /\ Model!EarliestNamed
        /\ Model!CallsBounded
        /\ Model!ServerGone

(* Everything ends: what a queue run has not deleted comes back, and every  *)
(* delivery, load, read, stage and call comes to its end.                   *)
ServicesEnd ==
    /\ ComesBack
    /\ <>(/\ which = "sink" => Sink!Over
          /\ which = "load" => Table!Over
          /\ which = "page" => Page!Over
          /\ which = "ask" => Model!Over)
    /\ \A t \in Clients :
        (which = "http" /\ Http!SignedIn(t)) ~> (which = "http" /\ Http!Over(t))
=============================================================================
