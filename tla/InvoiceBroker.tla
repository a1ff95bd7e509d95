--------------------------- MODULE InvoiceBroker ---------------------------
(***************************************************************************)
(* The invoice broker in live mode: handler.py's gated operations, run by  *)
(* the worker threads under a reservation of RateLimit, and the HTTP       *)
(* exchange with GreenInvoice that apiclient.py retries.                   *)
(*                                                                         *)
(* A request that left for GreenInvoice stays on the wire until the        *)
(* service handles it, whatever became of the worker that sent it: it may  *)
(* be handled after the worker has timed out or died.  `effects' counts    *)
(* what GreenInvoice really did for each row of the calls table.           *)
(***************************************************************************)
EXTENDS RateLimit

CONSTANTS Caller,      \* the identities the daemon derives from peer credentials
          Ops,         \* the gated operations callers ask for
          MaxRetries   \* apiclient._MAX_RETRIES

\* _OPS: the action class of every gated operation.
ActionClass == [
  draft_invoice       |-> "draft",
  issue_invoice       |-> "issue",
  create_client       |-> "client_write",
  update_client       |-> "client_write",
  create_expense      |-> "expense_write",
  delete_expense      |-> "expense_write",
  close_expense       |-> "issue",
  upload_expense_file |-> "expense_upload",
  create_supplier     |-> "expense_write"]

CONFIRM_REQUIRED_OPS == {"issue_invoice", "close_expense"}

\* _plan_op: the gated operations whose plan leaves idempotent=True.
IdempotentOps == {"draft_invoice", "update_client"}

\* A preview renders a document and keeps nothing.
EffectFreeOps == {"draft_invoice"}

ASSUME BrokerAssumption ==
  /\ Ops \subseteq DOMAIN ActionClass
  /\ Key = Caller \X {ActionClass[op] : op \in DOMAIN ActionClass}
  /\ MaxRetries \in Nat

VARIABLES opOf,     \* the operation each admitted row was reserved for
          net,      \* each worker's exchange with GreenInvoice
          wire,     \* requests that GreenInvoice has not handled yet
          effects,  \* how often each row's operation took effect
          reply     \* what the caller was told of each row

netVars == <<opOf, net, wire, effects, reply>>
brokerVars == <<vars, netVars>>

RowId == 1 .. MaxCalls

\* The three endpoints of a call: the JSON API, and for an upload first the
\* gateway that hands out a presigned URL, then S3.
Leg == {"api", "url", "s3"}

\* HTTP statuses by what request() and _execute_reserved make of them: "5xx"
\* stands for the retryable 500, 502, 503, 504, "501" for the other ones from
\* 500 up, "4xx" for everything else below.  "none" is an UpstreamError
\* without a status.
HttpStatus == {"2xx", "401", "429", "4xx", "5xx", "501"}
ErrorStatus == (HttpStatus \ {"2xx"}) \cup {"none"}

Stage == {"off", "ready", "sent", "answered"}
Exchange == [stage: Stage, op: Ops \cup {"none"}, leg: Leg, attempt: Nat,
             reauthed: BOOLEAN, status: HttpStatus]
NoExchange == [stage |-> "off", op |-> "none", leg |-> "api", attempt |-> 0,
               reauthed |-> FALSE, status |-> "2xx"]

Replies == {"none", "ok", "upstream_failed_clean", "upstream_failed_ambiguous",
            "internal_error"}

Row(w) == task[w].row

-----------------------------------------------------------------------------
(* handler.py: before the call                                             *)

\* handle: the confirmation gate comes before the rate limit, and lets only
\* a literal true through (a request it refuses changes nothing).
Confirmed(op, confirm) == op \in CONFIRM_REQUIRED_OPS => confirm = "true"

Accept(w, c, op, confirm) ==
  /\ Confirmed(op, confirm)
  /\ Label(w, <<c, ActionClass[op]>>)
  /\ net' = [net EXCEPT ![w] = [NoExchange EXCEPT !.op = op]]
  /\ UNCHANGED <<opOf, wire, effects, reply>>

\* The limiter's own steps.
Prepare(w) ==
  /\ ReapFirst(w) \/ ReadEpoch(w)
  /\ UNCHANGED netVars

\* _call_upstream: with the reservation in hand the exchange begins, on the
\* upload gateway for an upload and on the API otherwise.
FirstLeg(op) == IF op = "upload_expense_file" THEN "url" ELSE "api"

Reserve(w) ==
  /\ Admit(w)
  /\ opOf' = [opOf EXCEPT ![Row(w)'] = net[w].op]
  /\ net' = [net EXCEPT ![w].stage = "ready", ![w].leg = FirstLeg(net[w].op)]
  /\ UNCHANGED <<wire, effects, reply>>

Refuse(w) ==
  /\ Deny(w)
  /\ net' = [net EXCEPT ![w] = NoExchange]
  /\ UNCHANGED <<opOf, wire, effects, reply>>

-----------------------------------------------------------------------------
(* handler.py: after the call                                              *)

\* _execute_reserved: finalize the row, answer the caller.  What comes after
\* finalize (spooling a preview, the usage snapshot) may still raise, and the
\* answer is then internal_error.
Conclude(w, s, answer) ==
  /\ Finalize(w, s)
  /\ net' = [net EXCEPT ![w] = NoExchange]
  /\ \E r \in {answer, "internal_error"} : reply' = [reply EXCEPT ![Row(w)] = r]
  /\ UNCHANGED <<opOf, wire, effects>>

\* Mutants: a network error is taken for a clean failure; so is a 5xx that is
\* not worth a retry.
AmbiguousOnlyHttp(s) == s \in {"5xx", "501"}
AmbiguousOnlyRetryable(s) == s \in {"none", "5xx"}

\* An UpstreamError without a status or with one from 500 up is ambiguous.
Ambiguous(s) == s \in {"none", "5xx", "501"}

Failed(w, s) ==
  Conclude(w, IF Ambiguous(s) THEN "unknown" ELSE "failed_pre_send",
           IF Ambiguous(s) THEN "upstream_failed_ambiguous" ELSE "upstream_failed_clean")

\* handle's last-resort net: any other exception, from the limiter, from
\* finalize, or one the client does not turn into an UpstreamError (a body
\* cut short), is answered with internal_error.
Escape(w) ==
  /\ Abandon(w)
  /\ net' = [net EXCEPT ![w] = NoExchange]
  /\ reply' = IF w \in Holding THEN [reply EXCEPT ![Row(w)] = "internal_error"] ELSE reply
  /\ UNCHANGED <<opOf, wire, effects>>

-----------------------------------------------------------------------------
(* apiclient.py: request, get_upload_url, upload_file_to_s3                *)

Send(w) ==
  /\ task[w].phase = "holding"
  /\ net[w].stage = "ready"
  /\ net' = [net EXCEPT ![w].stage = "sent"]
  /\ wire' = wire \cup {<<Row(w), net[w].leg>>}
  /\ UNCHANGED <<vars, opOf, effects, reply>>

\* No request leaves: no credentials, the token endpoint refuses or fails
\* (S3 needs no token), or the presigned URL is rejected.
CannotSend(w, s) ==
  /\ net[w].stage = "ready"
  /\ net[w].leg = "s3" => s = "none"
  /\ Failed(w, s)

\* _http: no answer within the timeout, or the connection broke.  A network
\* error ends the call: it is never retried.
TimeOut(w) ==
  /\ net[w].stage = "sent"
  /\ Failed(w, "none")

\* Mutant: every 5xx is retried, and so is S3.
RetryableAnything(w) == net[w].attempt < MaxRetries /\ net[w].status \in {"401", "429", "5xx"}

\* The retry rule of request; S3 is tried once.
Retryable(w) ==
  LET n == net[w]
      idempotent == n.leg = "url" \/ n.op \in IdempotentOps
  IN  /\ n.leg # "s3"
      /\ n.attempt < MaxRetries
      /\ \/ n.status = "401" /\ ~n.reauthed
         \/ n.status = "429"
         \/ n.status = "5xx" /\ idempotent

\* Mutant: the attempts are not counted.
ResendForever(w) ==
  /\ net[w].stage = "answered"
  /\ Retryable(w)
  /\ net' = [net EXCEPT ![w].stage = "ready"]
  /\ UNCHANGED <<vars, opOf, wire, effects, reply>>

Resend(w) ==
  /\ net[w].stage = "answered"
  /\ Retryable(w)
  /\ net' = [net EXCEPT ![w].stage = "ready", ![w].attempt = @ + 1,
                        ![w].reauthed = @ \/ net[w].status = "401"]
  /\ UNCHANGED <<vars, opOf, wire, effects, reply>>

\* _do_upload: with the presigned URL in hand, the file goes to S3.
GoToS3(w) ==
  /\ net[w].stage = "answered"
  /\ net[w].leg = "url"
  /\ net[w].status = "2xx"
  /\ net' = [net EXCEPT ![w].stage = "ready", ![w].leg = "s3", ![w].attempt = 0,
                        ![w].reauthed = FALSE]
  /\ UNCHANGED <<vars, opOf, wire, effects, reply>>

\* _do_upload: a malformed answer of the gateway is an UpstreamError.
MalformedUrl(w) ==
  /\ net[w].stage = "answered"
  /\ net[w].leg = "url"
  /\ net[w].status = "2xx"
  /\ Failed(w, "none")

Succeed(w) ==
  /\ net[w].stage = "answered"
  /\ net[w].leg # "url"
  /\ net[w].status = "2xx"
  /\ Conclude(w, "committed", "ok")

GiveUp(w) ==
  /\ net[w].stage = "answered"
  /\ net[w].status # "2xx"
  /\ ~Retryable(w)
  /\ Failed(w, net[w].status)

-----------------------------------------------------------------------------
(* GreenInvoice and S3, as the client's comments describe them: a 4xx      *)
(* means the request was not processed, after a 5xx it may have been.      *)

MayTakeEffect(r, leg, s) ==
  /\ opOf[r] \notin EffectFreeOps
  /\ leg # "url"
  /\ s \in {"2xx", "5xx", "501"}

MustTakeEffect(r, leg, s) == MayTakeEffect(r, leg, s) /\ s = "2xx"

\* The service handles a request; the answer reaches the worker that waits
\* for it or, when it left or the connection broke, nobody.
Serve(q, s, applied, delivered) ==
  /\ q \in wire
  /\ applied => MayTakeEffect(q[1], q[2], s)
  /\ MustTakeEffect(q[1], q[2], s) => applied
  /\ wire' = wire \ {q}
  /\ effects' = IF applied THEN [effects EXCEPT ![q[1]] = @ + 1] ELSE effects
  /\ net' = [w \in Worker |->
               IF /\ delivered /\ w \in Holding /\ Row(w) = q[1]
                  /\ net[w].stage = "sent"
               THEN [net[w] EXCEPT !.stage = "answered", !.status = s]
               ELSE net[w]]
  /\ UNCHANGED <<vars, opOf, reply>>

-----------------------------------------------------------------------------
BrokerInit ==
  /\ Init
  /\ opOf = [r \in RowId |-> "none"]
  /\ net = [w \in Worker |-> NoExchange]
  /\ wire = {}
  /\ effects = [r \in RowId |-> 0]
  /\ reply = [r \in RowId |-> "none"]

\* _call_upstream and what follows: all that a worker does with a reservation.
Exchanges(w) ==
  \/ Send(w)
  \/ \E s \in ErrorStatus : CannotSend(w, s)
  \/ TimeOut(w)
  \/ Resend(w)
  \/ GoToS3(w)
  \/ MalformedUrl(w)
  \/ Succeed(w)
  \/ GiveUp(w)

WorkerStep(w) ==
  \/ \E c \in Caller, op \in Ops, confirm \in {"true", "other"} : Accept(w, c, op, confirm)
  \/ Prepare(w)
  \/ Reserve(w)
  \/ Refuse(w)
  \/ Escape(w)
  \/ Exchanges(w)

\* The daemon dies with its workers; what they sent stays on the wire.
Die ==
  /\ Crash
  /\ net' = [w \in Worker |-> NoExchange]
  /\ UNCHANGED <<opOf, wire, effects, reply>>

ComeBack ==
  /\ Restart
  /\ UNCHANGED netVars

Environment ==
  \/ Die
  \/ ComeBack
  \/ \E d \in ClockSteps : ClockMoves(d) /\ UNCHANGED netVars
  \/ \E q \in wire, s \in HttpStatus, applied, delivered \in BOOLEAN :
       Serve(q, s, applied, delivered)

BrokerNext == Environment \/ \E w \in Worker : WorkerStep(w)

BrokerSpec == BrokerInit /\ [][BrokerNext]_brokerVars

\* A worker thread that holds a reservation keeps running, and the socket
\* timeout of urlopen ends a wait that no answer ends.  Nothing is assumed of
\* GreenInvoice, of the clock or of a restart.
FairBrokerSpec == BrokerSpec /\ \A w \in Worker : WF_brokerVars(Exchanges(w))

-----------------------------------------------------------------------------
(* Properties                                                              *)

\* The operations whose plan says idempotent=False.
OneShotOps == Ops \ IdempotentOps

\* A request that may still take effect.
InFlight(r) == \E q \in wire : q[1] = r /\ q[2] # "url"

Charged(r) == r \in DOMAIN calls /\ Counted(r)

\* Type invariant: the exchange of a worker is on exactly while it holds a
\* reservation, and only rows that exist have been sent or answered.
BrokerTypeOK ==
  /\ TypeOK
  /\ opOf \in [RowId -> Ops \cup {"none"}]
  /\ net \in [Worker -> Exchange]
  /\ wire \subseteq RowId \X Leg
  /\ effects \in [RowId -> Nat]
  /\ reply \in [RowId -> Replies]
  /\ \A w \in Worker : net[w].stage # "off" <=> w \in Holding
  /\ \A r \in RowId : r \notin DOMAIN calls => opOf[r] = "none" /\ effects[r] = 0

\* An operation declared non-idempotent takes effect at most once per row,
\* whatever is retried, answered late, lost or cut off by a crash (the retry
\* rule of apiclient.request).
AtMostOnce ==
  \A r \in RowId : opOf[r] \in OneShotOps => effects[r] <= 1

\* No free effect: a row whose non-idempotent operation took effect, or may
\* still do so on the wire, is charged to its caller, even when the worker
\* died, timed out or was overtaken by the reaper (handler.py 392-401).
EffectCharged ==
  \A r \in RowId :
    opOf[r] \in OneShotOps /\ (effects[r] > 0 \/ InFlight(r)) => Charged(r)

\* End to end: within any hour and within any local day, the non-idempotent
\* operations of a key that really took effect at GreenInvoice are no more
\* than its caps.
Effective(k) ==
  {i \in DOMAIN calls : calls[i].key = k /\ opOf[i] \in OneShotOps /\ effects[i] > 0}

EffectsWithinCaps ==
  \A k \in Key :
    /\ \A t \in Instant :
         Cardinality({i \in Effective(k) : calls[i].epoch \in (t - HourSeconds + 1) .. t})
           <= PerHour[k]
    /\ \A d \in Day :
         Cardinality({i \in Effective(k) : calls[i].day = d}) <= PerDay[k]

\* The answer can be relied on: "ok" means the operation took effect, exactly
\* once, and a clean failure that it did not and never will, so the caller
\* may ask again.
ReplyHonest ==
  \A r \in RowId :
    opOf[r] \in OneShotOps =>
      /\ reply[r] = "ok" => effects[r] = 1
      /\ reply[r] = "upstream_failed_clean" => effects[r] = 0 /\ ~InFlight(r)

\* The broker uses its limiter only through the limiter's own operations.
LimiterSpec == Spec

\* Every call that got a reservation comes to an end: the retries are bounded
\* and no lost answer holds a worker (daemon.MAX_CONCURRENT of them serve
\* every caller).
CallsEnd ==
  \A w \in Worker : task[w].phase = "holding" ~> task[w].phase = "idle"

\* handler.py 393-395 and PROTOCOL.md 256-259: the slot is freed only when
\* there was definitely no side effect, whatever the operation.
FreedMeansNoEffect ==
  \A r \in DOMAIN calls : calls[r].status = "failed_pre_send" => effects[r] = 0
=============================================================================
