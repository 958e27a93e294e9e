--------------------------- MODULE WebhookIngest ---------------------------
(***************************************************************************)
(* webhooks.controller.ts and webhooks.service.ts: what happens to a       *)
(* delivery between the HTTP request and the queue, when senders redeliver *)
(* and API processes die.                                                  *)
(*                                                                         *)
(* Every attempt of a sender is a request of its own, and attempts of one  *)
(* delivery may overlap: a sender that timed out does not know that the    *)
(* first attempt is still running.                                         *)
(***************************************************************************)
EXTENDS Integers

CONSTANTS
  Deliveries,   \* the webhooks that senders mean to deliver
  Webhook,      \* what each of them consists of
  Tenants,      \* slugs of existing tenants
  Secrets,      \* <<slug, source>> pairs with a webhook secret
  Sends,        \* how often the sender of each attempts it, at most
  FaultLimit,   \* crashes and refused calls, at most
  None          \* header not sent

WebhookFields == {"slug", "source", "id", "body", "signature", "parses", "typed"}

IngestConstants ==
  /\ \A d \in Deliveries : /\ DOMAIN Webhook[d] = WebhookFields
                           /\ Webhook[d].signature \in {"valid", "wrong", "missing"}
                           /\ Webhook[d].parses \in BOOLEAN
                           /\ Webhook[d].typed \in BOOLEAN
  /\ Sends \in [Deliveries -> Nat]
  /\ FaultLimit \in Nat

ASSUME IngestAssumption == IngestConstants

VARIABLES
  http,     \* the state of every request, and how it was answered
  events,   \* the WebhookEvent collection
  jobs,     \* ids of the process-event jobs ever added
  faults    \* faults so far

vars == <<http, events, jobs, faults>>

\* Also the id of the event a request inserts.
Requests == UNION {{d} \X (1 .. Sends[d]) : d \in Deliveries}

Running  == {"arrived", "insert", "enqueue"}
Rejected == {"notFound", "unauthorized", "badRequest"}
Accepted == {"received", "duplicate"}
Points   == {"unsent", "error"} \cup Running \cup Rejected \cup Accepted

\* The delivery id of the sender, or else a hash of tenant, source and body.
DedupeKey(w) == IF w.id # None THEN <<w.id>> ELSE <<w.slug, w.source, w.body>>

\* Mutant of IndexKey: an index without the tenant.
IndexKeyNoTenant(w) == <<w.source, DedupeKey(w)>>

\* The unique index: (tenantId, source, dedupeKey).
IndexKey(w) == <<w.slug, w.source, DedupeKey(w)>>

\* The webhook a request carries, or an event stores.
Of(r) == Webhook[r[1]]

IngestTypeOK ==
  /\ http \in [Requests -> Points]
  /\ events \subseteq Requests
  /\ jobs \subseteq events
  /\ faults \in 0 .. FaultLimit

Init ==
  /\ http = [r \in Requests |-> "unsent"]
  /\ events = {}
  /\ jobs = {}
  /\ faults = 0

-----------------------------------------------------------------------------

Goto(r, point) == http' = [http EXCEPT ![r] = point]

Sent(d, n) == <<d, n>> \in Requests /\ http[<<d, n>>] # "unsent"

Send(d, n) ==
  /\ <<d, n>> \in Requests
  /\ ~Sent(d, n)
  /\ n > 1 => Sent(d, n - 1)
  /\ Goto(<<d, n>>, "arrived")
  /\ UNCHANGED <<events, jobs, faults>>

\* A sender that was not told 2xx tries again.
Resend(d, n) == n > 1 /\ http[<<d, n - 1>>] = "error" /\ Send(d, n)

\* Mutant of VerifySignature: a signature header is enough.
SignaturePresent(w) == <<w.slug, w.source>> \in Secrets => w.signature # "missing"

VerifySignature(w) == <<w.slug, w.source>> \in Secrets => w.signature = "valid"

\* The checks before the database is written to. Tenants and their secrets do
\* not change, so it does not matter that one of them awaits a read.
Verdict(w) == CASE w.slug \notin Tenants -> "notFound"
                [] w.slug \in Tenants /\ ~VerifySignature(w) -> "unauthorized"
                [] OTHER -> IF w.parses /\ w.typed THEN "insert" ELSE "badRequest"

Admit(r) ==
  /\ http[r] = "arrived"
  /\ Goto(r, Verdict(Of(r)))
  /\ UNCHANGED <<events, jobs, faults>>

\* Mutant of Indexed: the index is not unique.
NothingIndexed(w) == {}

Indexed(w) == {e \in events : IndexKey(Of(e)) = IndexKey(w)}

\* Mutants of Insert: a duplicate is queued under an id of its own; it is answered
\* with an error; the event is stored and left at that.
InsertAndQueue(r) ==
  /\ http[r] = "insert"
  /\ events' = IF Indexed(Of(r)) = {} THEN events \cup {r} ELSE events
  /\ Goto(r, "enqueue")
  /\ UNCHANGED <<jobs, faults>>

InsertOrFail(r) ==
  /\ http[r] = "insert"
  /\ \/ /\ Indexed(Of(r)) = {}
        /\ events' = events \cup {r}
        /\ Goto(r, "enqueue")
     \/ /\ Indexed(Of(r)) # {}
        /\ UNCHANGED events
        /\ Goto(r, "error")
  /\ UNCHANGED <<jobs, faults>>

InsertOnly(r) ==
  /\ http[r] = "insert"
  /\ \/ /\ Indexed(Of(r)) = {}
        /\ events' = events \cup {r}
        /\ Goto(r, "received")
     \/ /\ Indexed(Of(r)) # {}
        /\ UNCHANGED events
        /\ Goto(r, "duplicate")
  /\ UNCHANGED <<jobs, faults>>

\* create, with error 11000 answered as a duplicate
Insert(r) ==
  /\ http[r] = "insert"
  /\ \/ /\ Indexed(Of(r)) = {}
        /\ events' = events \cup {r}
        /\ Goto(r, "enqueue")
     \/ /\ Indexed(Of(r)) # {}
        /\ UNCHANGED events
        /\ Goto(r, "duplicate")
  /\ UNCHANGED <<jobs, faults>>

\* queue.add under the event's id
Enqueue(r) ==
  /\ http[r] = "enqueue"
  /\ jobs' = jobs \cup {r}
  /\ Goto(r, "received")
  /\ UNCHANGED <<events, faults>>

\* The job is added, and the process dies before the sender hears of it.
LostAnswer(r) ==
  /\ http[r] = "enqueue"
  /\ faults < FaultLimit
  /\ faults' = faults + 1
  /\ jobs' = jobs \cup {r}
  /\ Goto(r, "error")
  /\ UNCHANGED events

Handle(r) == Admit(r) \/ Insert(r) \/ Enqueue(r)

\* MongoDB or Redis refuses the next call, and the answer is a 500; or the
\* process dies, and there is none. Senders take both for an error.
Fault(r) ==
  /\ http[r] \in Running
  /\ faults < FaultLimit
  /\ faults' = faults + 1
  /\ Goto(r, "error")
  /\ UNCHANGED <<events, jobs>>

Quiescent == (\A r \in Requests : http[r] \notin Running) /\ UNCHANGED vars

Next == \/ \E d \in Deliveries : \E n \in 1 .. Sends[d] : Send(d, n)
        \/ \E r \in Requests : Handle(r) \/ Fault(r) \/ LostAnswer(r)
        \/ Quiescent

Spec == Init /\ [][Next]_vars

\* A running handler goes on and a sender that got no 2xx sends again. Nobody
\* has to send for the first time, or again after an answer.
FairSpec == /\ Spec
            /\ \A r \in Requests : WF_vars(Handle(r))
            /\ \A d \in Deliveries : \A n \in 1 .. Sends[d] : WF_vars(Resend(d, n))

-----------------------------------------------------------------------------
(* Properties.                                                             *)

Valid(d) == Verdict(Webhook[d]) = "insert"

AcceptedAt(d) == {r \in Requests : r[1] = d /\ http[r] \in Accepted}

Queued(d) == \E e \in jobs : IndexKey(Of(e)) = IndexKey(Webhook[d])

\* What a sender, and a tenant, would call the same webhook.
Same(v, w) == /\ v.slug = w.slug /\ v.source = w.source
              /\ v.id = w.id
              /\ v.id = None => v.body = w.body

\* A spoofed or malformed delivery leaves no trace: what is stored is addressed
\* to an existing tenant, properly signed where that tenant has a secret for the
\* source, parsed and typed (webhooks.controller.ts:38-42).
OnlyVerifiedStored ==
  \A e \in events :
    /\ Of(e).slug \in Tenants
    /\ Of(e).parses /\ Of(e).typed
    /\ <<Of(e).slug, Of(e).source>> \in Secrets => Of(e).signature = "valid"

\* A 200 is backed by an event of the very tenant and source it was sent to: two
\* tenants, or two sources, that happen to use the same delivery id do not swallow
\* each other's webhooks (webhook-event.schema.ts:47-53).
AckIsBacked ==
  \A d \in Deliveries : AcceptedAt(d) # {} =>
    \E e \in events : Same(Of(e), Webhook[d])

\* However attempts overlap, fail and are repeated, one webhook is processed once:
\* no two jobs are for the same tenant, source and delivery
\* (webhook-event.schema.ts:47-49, webhooks.service.ts:113-116).
OneJobPerDelivery ==
  \A a, b \in jobs : Same(Of(a), Of(b)) => a = b

\* "stored, queued for processing" (webhook-event.schema.ts:7): an event without a
\* job has a handler about to add it, unless a process died or Redis refused.
StrandedNeedsFault ==
  faults = 0 => \A e \in events \ jobs : http[e] = "enqueue"

\* A sender that keeps trying is told 200 for a valid delivery in the end, as long
\* as it has attempts left for every fault (webhooks.controller.ts:105-108).
SenderIsAcked ==
  \A d \in Deliveries : Valid(d) /\ FaultLimit < Sends[d] =>
    (Sent(d, 1) ~> AcceptedAt(d) # {})

\* "process crash between insert and enqueue, then a recovery sweep re-enqueues
\* it" (webhooks.service.ts:114-115): a webhook that was acknowledged is queued.
AckedIsQueued ==
  \A d \in Deliveries : AcceptedAt(d) # {} ~> Queued(d)

=============================================================================
