---------------------------- MODULE TokenCache ----------------------------
(***************************************************************************)
(* The JWT cache of the invoice broker (hermes_greeninvoice/auth.py) and   *)
(* the one-shot re-authentication of apiclient.request that drives it.     *)
(*                                                                         *)
(* get reads _token and _expires_epoch without the lock first, three reads *)
(* between which another worker may write; the writers hold the lock, but  *)
(* write the two fields one after the other.  Each such access is a step.  *)
(***************************************************************************)
EXTENDS Integers, FiniteSets

CONSTANTS Worker,      \* the worker threads
          MaxRetries,  \* apiclient._MAX_RETRIES
          Skew,        \* TOKEN_SKEW_SECONDS
          Life,        \* how long GreenInvoice honours a token
          Fallback,    \* FALLBACK_TTL_SECONDS
          MaxClock,    \* bound: the clock stops there
          MaxTokens    \* bound: tokens ever issued

ASSUME CacheAssumption ==
  /\ MaxRetries \in Nat
  /\ Skew \in Nat
  /\ Life \in Nat
  /\ Fallback \in Nat
  /\ MaxClock \in Nat
  /\ MaxTokens \in Nat

None == 0                        \* _token is None
Unrefused == -1                  \* no 401 so far
Nobody == "nobody"               \* the lock is free
Token == 1 .. MaxTokens
Instant == 0 .. MaxClock

ASSUME NobodyAssumption == Nobody \notin Worker

VARIABLES token,     \* _token
          expires,   \* _expires_epoch
          lock,      \* who holds _lock
          clock,     \* the wall clock
          thread,    \* what each worker is doing
          issued,    \* the tokens issued so far are 1 .. issued
          ends,      \* when GreenInvoice ceases to honour each token
          revoked    \* the tokens it has ceased to honour before that

cache == <<token, expires>>
outside == <<clock, issued, ends, revoked>>
vars == <<cache, lock, thread, outside>>

\* Where a worker is in request and in get or invalidate_if_current.
Phase == {"idle", "checkToken", "checkExpiry", "readToken",  \* the fast path
          "wantRefresh", "recheck", "fetch", "storeExpiry", "storeToken",
          "send", "wantDrop", "compare", "clearExpiry"}

\* The phases inside `with self._lock'.
Locked == {"recheck", "fetch", "storeExpiry", "storeToken", "compare", "clearExpiry"}

\* used: the token of the last attempt; refused: the one that was answered
\* 401 and made request set reauthed; attempt: its loop.
Thread == [phase: Phase, used: Token \cup {None}, refused: Token \cup {None, Unrefused},
           attempt: 0 .. MaxRetries]

Idle == [phase |-> "idle", used |-> None, refused |-> Unrefused, attempt |-> 0]

Reauthed(w) == thread[w].refused # Unrefused

Goes(w, p) == thread' = [thread EXCEPT ![w].phase = p]

\* The next turn of request's loop, or its end and the api_error after it.
Loops(w) ==
  IF thread[w].attempt < MaxRetries
  THEN thread' = [thread EXCEPT ![w].phase = "checkToken", ![w].attempt = @ + 1]
  ELSE thread' = [thread EXCEPT ![w] = Idle]

Fresh == clock < expires - Skew

\* _valid
Valid == token # None /\ Fresh

\* What GreenInvoice thinks of a token.
Honoured(t) == t # None /\ t \notin revoked /\ clock < ends[t]

-----------------------------------------------------------------------------
Init ==
  /\ token = None
  /\ expires = 0
  /\ lock = Nobody
  /\ clock = 0
  /\ thread = [w \in Worker |-> Idle]
  /\ issued = 0
  /\ ends = [t \in Token |-> 0]
  /\ revoked = {}

\* request: a call begins with get.
Call(w) ==
  /\ thread[w].phase = "idle"
  /\ Goes(w, "checkToken")
  /\ UNCHANGED <<cache, lock, outside>>

\* The three unlocked reads of get's fast path: bool(self._token), then the
\* expiry, then the token again to return it.
CheckToken(w) ==
  /\ thread[w].phase = "checkToken"
  /\ Goes(w, IF token # None THEN "checkExpiry" ELSE "wantRefresh")
  /\ UNCHANGED <<cache, lock, outside>>

CheckExpiry(w) ==
  /\ thread[w].phase = "checkExpiry"
  /\ Goes(w, IF Fresh THEN "readToken" ELSE "wantRefresh")
  /\ UNCHANGED <<cache, lock, outside>>

ReadToken(w) ==
  /\ thread[w].phase = "readToken"
  /\ thread' = [thread EXCEPT ![w].phase = "send", ![w].used = token]
  /\ UNCHANGED <<cache, lock, outside>>

Acquire(w) ==
  /\ lock = Nobody
  /\ lock' = w
  /\ \/ thread[w].phase = "wantRefresh" /\ Goes(w, "recheck")
     \/ thread[w].phase = "wantDrop" /\ Goes(w, "compare")
  /\ UNCHANGED <<cache, outside>>

\* Mutant: no second look at the cache once the lock is held.
RecheckNot(w) ==
  /\ thread[w].phase = "recheck"
  /\ Goes(w, "fetch")
  /\ UNCHANGED <<cache, lock, outside>>

\* Under the lock the cache stands still: the second look is one step.
Recheck(w) ==
  /\ thread[w].phase = "recheck"
  /\ IF Valid
     THEN /\ thread' = [thread EXCEPT ![w].phase = "send", ![w].used = token]
          /\ lock' = Nobody
     ELSE Goes(w, "fetch") /\ UNCHANGED lock
  /\ UNCHANGED <<cache, outside>>

\* POST /account/token, retries included, is answered with a token.
Fetched(w) ==
  /\ thread[w].phase = "fetch"
  /\ issued < MaxTokens
  /\ issued' = issued + 1
  /\ ends' = [ends EXCEPT ![issued + 1] = clock + Life]
  /\ thread' = [thread EXCEPT ![w].phase = "storeExpiry", ![w].used = issued + 1]
  /\ UNCHANGED <<cache, lock, clock, revoked>>

\* Mutant: an acquire without a with, left locked when the fetch raises.
FetchFailsLocked(w) ==
  /\ thread[w].phase = "fetch"
  /\ thread' = [thread EXCEPT ![w] = Idle]
  /\ UNCHANGED <<cache, lock, outside>>

\* The fetch raises, or is answered with a bad status or without a token:
\* the exception leaves the with statement and ends the call.
FetchFails(w) ==
  /\ thread[w].phase = "fetch"
  /\ thread' = [thread EXCEPT ![w] = Idle]
  /\ lock' = Nobody
  /\ UNCHANGED <<cache, outside>>

\* The expiry is stored first: the one reported if it lies ahead, the
\* fallback if it is missing or past.
StoreExpiry(w) ==
  /\ thread[w].phase = "storeExpiry"
  /\ \/ /\ ends[thread[w].used] > clock
        /\ expires' = ends[thread[w].used]
     \/ expires' = clock + Fallback
  /\ Goes(w, "storeToken")
  /\ UNCHANGED <<token, lock, outside>>

StoreToken(w) ==
  /\ thread[w].phase = "storeToken"
  /\ token' = thread[w].used
  /\ Goes(w, "send")
  /\ lock' = Nobody
  /\ UNCHANGED <<expires, outside>>

\* The request is sent; its answer, or the want of one, ends the call.
Ends(w) ==
  /\ thread[w].phase = "send"
  /\ thread' = [thread EXCEPT ![w] = Idle]
  /\ UNCHANGED <<cache, lock, outside>>

\* A 429, or a 5xx of an idempotent call: request tries again.
Again(w) ==
  /\ thread[w].phase = "send"
  /\ Honoured(thread[w].used)
  /\ Loops(w)
  /\ UNCHANGED <<cache, lock, outside>>

\* Mutant: the call only asks for the token again.
RefusedKeeps(w) ==
  /\ thread[w].phase = "send"
  /\ ~Honoured(thread[w].used)
  /\ ~Reauthed(w)
  /\ thread' = [thread EXCEPT ![w].phase = "checkToken", ![w].refused = thread[w].used]
  /\ UNCHANGED <<cache, lock, outside>>

\* A first 401: request calls invalidate_if_current with the token it used.
Refused(w) ==
  /\ thread[w].phase = "send"
  /\ ~Honoured(thread[w].used)
  /\ ~Reauthed(w)
  /\ thread' = [thread EXCEPT ![w].phase = "wantDrop", ![w].refused = thread[w].used]
  /\ UNCHANGED <<cache, lock, outside>>

\* Mutant: plain invalidate().
CompareNot(w) ==
  /\ thread[w].phase = "compare"
  /\ token' = None
  /\ Goes(w, "clearExpiry")
  /\ UNCHANGED <<expires, lock, outside>>

\* invalidate_if_current: compare, then clear the token, then the expiry.
Compare(w) ==
  /\ thread[w].phase = "compare"
  /\ IF token = thread[w].refused
     THEN /\ token' = None
          /\ Goes(w, "clearExpiry")
          /\ UNCHANGED lock
     ELSE /\ Loops(w)
          /\ lock' = Nobody
          /\ UNCHANGED token
  /\ UNCHANGED <<expires, outside>>

ClearExpiry(w) ==
  /\ thread[w].phase = "clearExpiry"
  /\ expires' = 0
  /\ Loops(w)
  /\ lock' = Nobody
  /\ UNCHANGED <<token, outside>>

Tick ==
  /\ clock < MaxClock
  /\ clock' = clock + 1
  /\ UNCHANGED <<cache, lock, thread, issued, ends, revoked>>

Revoke(t) ==
  /\ t <= issued
  /\ revoked' = revoked \cup {t}
  /\ UNCHANGED <<cache, lock, thread, clock, issued, ends>>

Runs(w) ==
  \/ CheckToken(w) \/ CheckExpiry(w) \/ ReadToken(w)
  \/ Acquire(w)
  \/ Recheck(w)
  \/ Fetched(w) \/ FetchFails(w) \/ StoreExpiry(w) \/ StoreToken(w)
  \/ Ends(w) \/ Again(w) \/ Refused(w)
  \/ Compare(w) \/ ClearExpiry(w)

Next ==
  \/ \E w \in Worker : Call(w) \/ Runs(w)
  \/ Tick
  \/ \E t \in Token : Revoke(t)

Spec == Init /\ [][Next]_vars

\* A thread in a call keeps running: urlopen has a timeout and the retries
\* are counted.  threading.Lock promises no queue, so nothing is assumed of
\* who gets the lock.
FairSpec == Spec /\ \A w \in Worker : WF_vars(Runs(w))

-----------------------------------------------------------------------------
(* Properties                                                              *)

\* Type invariant, with the discipline of the lock: a thread is in a with
\* statement exactly while it holds the lock.
TypeOK ==
  /\ token \in Token \cup {None}
  /\ expires \in Nat
  /\ lock \in Worker \cup {Nobody}
  /\ clock \in Instant
  /\ thread \in [Worker -> Thread]
  /\ issued \in 0 .. MaxTokens
  /\ ends \in [Token -> Nat]
  /\ revoked \subseteq Token
  /\ \A w \in Worker : thread[w].phase \in Locked <=> lock = w

\* No stampede (auth.py 4-6): a token is only asked for by one worker at a
\* time, and only while the cache has none that is valid.
NoStampede ==
  \A w \in Worker :
    thread[w].phase = "fetch" =>
      /\ ~Valid
      /\ \A v \in Worker : thread[v].phase = "fetch" => v = w

\* A worker refused with an old token does not drop a token GreenInvoice
\* still honours (auth.py 81-83): what is dropped is dead.
DropsOnlyDead ==
  [][token # None /\ token' = None => ~Honoured(token)]_vars

\* Re-authentication does something: a request is never repeated with the
\* token it has been refused with. None is set apart: get may return it when
\* the cache is emptied between its unlocked reads (auth.py 43-45).
RefusedNotReused ==
  \A w \in Worker :
    thread[w].phase = "send" /\ thread[w].used # None =>
      thread[w].used # thread[w].refused

\* Nobody is stuck: the lock is always given back, however a refresh fails,
\* and a call that is not waiting for it ends or comes to wait for it.
Running(w) == thread[w].phase \notin {"idle", "wantRefresh", "wantDrop"}

NobodyStuck ==
  \A w \in Worker :
    /\ lock = w ~> lock # w
    /\ Running(w) ~> ~Running(w)
=============================================================================
