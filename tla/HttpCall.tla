------------------------------ MODULE HttpCall ------------------------------
(* One call through the HTTP layer that the web, cloud and model connectors *)
(* share (http.rs, Client::send_with), signed in with Google's access token *)
(* (gcp.rs, Tokens). The run and the keeper of its leases are threads with  *)
(* a client each and one token cache between them. Every instant the code   *)
(* keeps is modelled by the ticks that are left until it, or since it.      *)
EXTENDS Integers, FiniteSets, FiniteSetsExt

CONSTANTS
    Threads,         \* the run, and the keeper that extends its leases
    Attempts,        \* retries of a call: attempts after the first
    Backoff,         \* the first wait, doubling each time
    MinInterval,     \* min_interval: the least time between two requests
    MaxRetryAfter,   \* MAX_RETRY_AFTER
    Timeout,         \* the most one request may take
    Margin,          \* REFRESH_MARGIN
    Lasts            \* how long a fetched token is good for

None == -1

VARIABLES
    pc,
    cache,     \* how long the cached token is still good for, 0 for none
    lock,      \* the thread that holds the cache's mutex, or None
    attempt,   \* attempts of the call under way
    wait,      \* the next backoff
    due,       \* what is left of the request's timeout, or of the sleep
    since,     \* time since last_request, up to MinInterval
    auth,      \* how long the token that the call carries is good for
    told       \* the server named a Retry-After during this call

vars == <<pc, cache, lock, attempt, wait, due, since, auth, told>>

Init ==
    /\ cache = 0 /\ lock = None
    /\ pc = [t \in Threads |-> "idle"]
    /\ attempt = [t \in Threads |-> 0]
    /\ wait = [t \in Threads |-> 0]
    /\ due = [t \in Threads |-> 0]
    /\ since = [t \in Threads |-> MinInterval]
    /\ auth = [t \in Threads |-> 0]
    /\ told = [t \in Threads |-> FALSE]

Goto(t, where) == pc' = [pc EXCEPT ![t] = where]

(* The call is over: what only it used is cleared.                          *)
EndCall(t) ==
    /\ Goto(t, "idle")
    /\ attempt' = [attempt EXCEPT ![t] = 0]
    /\ wait' = [wait EXCEPT ![t] = 0]
    /\ due' = [due EXCEPT ![t] = 0]
    /\ auth' = [auth EXCEPT ![t] = 0]
    /\ told' = [told EXCEPT ![t] = FALSE]

(* Api::call: the Authorization value is made once, before send_with.       *)
BeginCall(t) ==
    /\ pc[t] = "idle"
    /\ wait' = [wait EXCEPT ![t] = Backoff]
    /\ Goto(t, "token")
    /\ UNCHANGED <<cache, lock, attempt, due, since, auth, told>>

-----------------------------------------------------------------------------
(* Tokens::authorization                                                    *)

\* Mutant: a token is used until the moment it expires.
FreshUntilItExpires == cache > 0

(* The cached token has more than the margin left.                          *)
Fresh == cache > Margin

\* Mutant: the cached token is looked at without the lock.
LookUnlocked == TRUE

(* The cache's mutex is held over the look and the fetch.                   *)
MayLook == lock = None

UseCached(t) ==
    /\ pc[t] = "token" /\ MayLook /\ Fresh
    /\ auth' = [auth EXCEPT ![t] = cache]
    /\ Goto(t, "pace")
    /\ UNCHANGED <<cache, lock, attempt, wait, due, since, told>>

StartFetch(t) ==
    /\ pc[t] = "token" /\ MayLook /\ ~Fresh
    /\ lock' = t
    /\ due' = [due EXCEPT ![t] = Timeout]
    /\ Goto(t, "fetch")
    /\ UNCHANGED <<cache, attempt, wait, since, auth, told>>

(* fetch: a token for the credentials, and how long it lasts.               *)
Fetched(t) ==
    /\ pc[t] = "fetch"
    /\ lock' = None
    /\ cache' = Lasts
    /\ auth' = [auth EXCEPT ![t] = Lasts]
    /\ due' = [due EXCEPT ![t] = 0]
    /\ Goto(t, "pace")
    /\ UNCHANGED <<attempt, wait, since, told>>

(* The exchange fails: the call does, and the cache stays as it was.        *)
FetchFails(t) ==
    /\ pc[t] = "fetch"
    /\ lock' = None
    /\ EndCall(t)
    /\ UNCHANGED <<cache, since>>

-----------------------------------------------------------------------------
(* send_with                                                                *)

\* Mutant: only the first attempt is paced.
PacedOnce(t) == attempt[t] > 0 \/ since[t] >= MinInterval

(* pace: min_interval has passed since the last request of this client.     *)
PaceOver(t) == since[t] >= MinInterval

SendRequest(t) ==
    /\ pc[t] = "pace" /\ PaceOver(t)
    /\ since' = [since EXCEPT ![t] = 0]
    /\ attempt' = [attempt EXCEPT ![t] = @ + 1]
    /\ due' = [due EXCEPT ![t] = Timeout]
    /\ Goto(t, "send")
    /\ UNCHANGED <<cache, lock, wait, auth, told>>

(* A 2xx that the connector accepts, or an answer no retry would better.    *)
Settled(t) ==
    /\ pc[t] = "send"
    /\ EndCall(t)
    /\ UNCHANGED <<cache, lock, since>>

(* The pause before the next attempt: what the server said, or the backoff. *)
Pause(t, after) == IF after = None THEN wait[t] ELSE after

(* The call gives up: its attempts are spent, or the server asks for longer *)
(* than MAX_RETRY_AFTER.                                                    *)
GivesUp(t, after) == attempt[t] > Attempts \/ after > MaxRetryAfter

(* A 429, a 5xx, a throttled answer, or the network: try again, after what  *)
(* the server said if it did.                                               *)
RetryLater(t) ==
    /\ pc[t] = "send"
    /\ \E after \in {None, 1, MaxRetryAfter, MaxRetryAfter + 1} :
        IF GivesUp(t, after) THEN EndCall(t)
        ELSE /\ due' = [due EXCEPT ![t] = Pause(t, after)]
             /\ wait' = [wait EXCEPT ![t] = 2 * @]
             /\ told' = [told EXCEPT ![t] = @ \/ after # None]
             /\ Goto(t, "sleep")
             /\ UNCHANGED <<attempt, auth>>
    /\ UNCHANGED <<cache, lock, since>>

Wake(t) ==
    /\ pc[t] = "sleep" /\ due[t] = 0
    /\ due' = [due EXCEPT ![t] = 0]
    /\ Goto(t, "pace")
    /\ UNCHANGED <<cache, lock, attempt, wait, since, auth, told>>

-----------------------------------------------------------------------------
(* Time passes unless a thread would move without it.                       *)
Urgent(t) ==
    \/ pc[t] = "token" /\ lock = None
    \/ pc[t] = "pace" /\ PaceOver(t)
    \/ pc[t] \in {"send", "fetch", "sleep"} /\ due[t] = 0

Less(n) == IF n = 0 THEN 0 ELSE n - 1

Tick ==
    /\ \A t \in Threads : ~Urgent(t)
    /\ cache' = Less(cache)
    /\ due' = [t \in Threads |-> Less(due[t])]
    /\ auth' = [t \in Threads |-> Less(auth[t])]
    /\ since' = [t \in Threads |-> Min({MinInterval, since[t] + 1})]
    /\ UNCHANGED <<pc, lock, attempt, wait, told>>

Move(t) ==
    \/ UseCached(t) \/ StartFetch(t) \/ Fetched(t) \/ FetchFails(t)
    \/ SendRequest(t) \/ Settled(t) \/ RetryLater(t) \/ Wake(t)

Next == (\E t \in Threads : BeginCall(t) \/ Move(t)) \/ Tick

(* Time does not stand still, sleeps end and every request has a timeout.   *)
Spec == Init /\ [][Next]_vars /\ SF_vars(Tick) /\ \A t \in Threads : WF_vars(Move(t))

-----------------------------------------------------------------------------
TypeOK ==
    /\ cache \in 0 .. Lasts /\ lock \in Threads \cup {None}
    /\ pc \in [Threads -> {"idle", "token", "fetch", "pace", "send", "sleep"}]
    /\ \A t \in Threads : attempt[t] \in 0 .. Attempts + 1 /\ since[t] \in 0 .. MinInterval

(* "A request retried after a backoff never carries one that expired on the *)
(* way" (gcp.rs), of calls whose server never named a Retry-After: what the *)
(* timeouts and the backoffs of a call add up to stays under the margin.    *)
FreshAfterBackoff ==
    \A t \in Threads : pc[t] = "send" /\ due[t] = Timeout /\ ~told[t] => auth[t] > 0

(* One token serves both threads: nobody trades for one while the cache     *)
(* holds one that is good for longer than the margin.                       *)
OneTokenForAll == \A t \in Threads : pc[t] = "fetch" => lock = t /\ ~Fresh

(* Two requests of one client are min_interval apart, retries included.     *)
PacedStep == \A t \in Threads : since'[t] < since[t] => since[t] >= MinInterval
Paced == [][PacedStep]_vars

(* A call that is signed in ends, whatever the server answers and however   *)
(* long it asks to wait. (Nothing orders the threads that wait for the      *)
(* cache's mutex.)                                                          *)
SignedIn(t) == pc[t] = "pace"
Over(t) == pc[t] = "idle"
CallsEnd == \A t \in Threads : SignedIn(t) ~> Over(t)
=============================================================================
