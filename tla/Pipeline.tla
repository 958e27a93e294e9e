------------------------------ MODULE Pipeline ------------------------------
(***************************************************************************)
(* The engine from the HTTP request to the actions: WebhookIngest and      *)
(* WebhookProcessor composed. They share the queue. A request that stored  *)
(* its webhook adds a job under the id of the event, which workers then    *)
(* take, while the handler still has to answer and other attempts of the   *)
(* same delivery are on their way.                                         *)
(***************************************************************************)
EXTENDS WebhookProcessor

CONSTANTS
  Deliveries, Webhook, Tenants, Secrets, Sends, FaultLimit   \* see WebhookIngest

VARIABLES http, events, faults

\* The jobs ever added, as the ingestion path sees the queue.
Added == {e \in Events : queue[e].state # "absent"}

Ingest == INSTANCE WebhookIngest WITH jobs <- Added

\* An event has the id of the request that stored it.
ASSUME PipelineAssumption == Events = Ingest!Requests /\ Ingest!IngestConstants

handlerVars == <<http, events, faults>>

\* Nothing was sent yet.
PipelineInit ==
  /\ http = [r \in Events |-> "unsent"]
  /\ events = {}
  /\ faults = 0
  /\ used = Unspent
  /\ queue = [j \in JobIds |-> Fresh("absent")]
  /\ JobsInit
  /\ RulesInit
  /\ eventStatus = [e \in Events |-> "received"]
  /\ wk = [w \in Workers |-> Idle]
  /\ effects = [x \in Places |-> 0]

-----------------------------------------------------------------------------

Send(d, n) == UNCHANGED vars /\ Ingest!Send(d, n)

Resend(d, n) == UNCHANGED vars /\ Ingest!Resend(d, n)

\* queue.add under the id of the event, and what the handler does next
AddJob(r, step) ==
  /\ Enqueue(r)
  /\ step
  /\ UNCHANGED <<used, runs, req, rules, eventStatus, wk, effects>>

Handle(r) ==
  \/ UNCHANGED vars /\ (Ingest!Admit(r) \/ Ingest!Insert(r))
  \/ http[r] = "enqueue" /\ AddJob(r, Ingest!Enqueue(r))

HandlerFault(r) ==
  \/ UNCHANGED vars /\ Ingest!Fault(r)
  \/ http[r] = "enqueue" /\ AddJob(r, Ingest!LostAnswer(r))

AllQuiet == /\ \A r \in Events : http[r] \notin Ingest!Running
            /\ Quiescent
            /\ UNCHANGED handlerVars

PipelineNext ==
  \/ \E d \in Deliveries : \E n \in 1 .. Sends[d] : Send(d, n)
  \/ \E r \in Events : Handle(r) \/ HandlerFault(r)
  \/ /\ \/ \E w \in Workers : Work(w) \/ Interfere(w)
        \/ \E j \in JobIds : Recover(j)
     /\ UNCHANGED handlerVars
  \/ AllQuiet

pipelineVars == <<handlerVars, vars>>

PipelineSpec == PipelineInit /\ [][PipelineNext]_pipelineVars

\* As in the parts: handlers and workers go on, senders that got no 2xx send
\* again, and BullMQ looks for stalled jobs.
FairPipelineSpec ==
  /\ PipelineSpec
  /\ \A r \in Events : WF_pipelineVars(Handle(r))
  /\ \A d \in Deliveries : \A n \in 1 .. Sends[d] : WF_pipelineVars(Resend(d, n))
  /\ \A w \in Workers : WF_pipelineVars(Work(w) /\ UNCHANGED handlerVars)
  /\ \A j \in JobIds : WF_pipelineVars(Recover(j) /\ UNCHANGED handlerVars)

-----------------------------------------------------------------------------
(* Properties.                                                             *)

\* The worker leaves the ingestion path what it relies on: together they are still
\* an ingestion path (webhooks.service.ts:113-127).
ImplementsIngest == Ingest!Spec

\* "must NOT create a second job run" (send-sample-webhooks.js:49-51): for one
\* webhook and one rule there is one row, however often, and however overlapping,
\* the webhook is delivered, and whatever dies between; unless a lock was lost.
OneRunPerWebhook ==
  used["lockLoss"] = 0 =>
    \A a, b \in RunIds :
      /\ runs[a] # None /\ runs[b] # None
      /\ Ingest!Same(Ingest!Of(runs[a].event), Ingest!Of(runs[b].event))
      /\ runs[a].rule = runs[b].rule
      => a = b

\* End to end, what a webhook asks for is done once: of all the attempts to deliver it
\* one leads to actions, and each of those is repeated only for a fault that hid or
\* lost its success from a worker. No failure of an attempt repeats one
\* (webhooks.service.ts:113-138, webhook.processor.ts:51-56).
ActsOncePerWebhook ==
  used["lockLoss"] = 0 =>
    \A x, y \in Places :
      /\ effects[x] > 0 /\ effects[y] > 0
      /\ Ingest!Same(Ingest!Of(x[1]), Ingest!Of(y[1]))
      /\ x[2] = y[2] /\ x[3] = y[3]
      => /\ x = y
         /\ effects[x] <= 1 + used["crash"] + used["dbError"] + used["lostReply"]

Verified(e) ==
  LET webhook == Ingest!Of(e)
  IN <<webhook.slug, webhook.source>> \in Secrets => webhook.signature = "valid"

\* "Bad signature ... should be rejected with 401 and never reach Mongo"
\* (send-sample-webhooks.js:68): no worker takes up, and no action takes effect for,
\* a webhook that was not verified.
OnlyVerifiedRun ==
  /\ \A w \in Workers : wk[w].job # None => Verified(wk[w].job)
  /\ \A x \in Places : effects[x] > 0 => Verified(x[1])

\* A sender that keeps trying is told 200 for a valid delivery in the end, as long
\* as it has attempts left for every fault (webhooks.controller.ts:105-108).
SenderIsAcked == Ingest!SenderIsAcked

\* A sender that was told "received" can forget the webhook: its actions succeed in
\* the end, whatever befell other attempts, as long as the job's attempts outnumber
\* the failures (webhooks.controller.ts:105-108, webhooks.service.ts:117-129).
ReceivedIsDelivered ==
  \A r \in Events : http[r] = "received" ~> (Delivered(r) \/ PatienceExhausted)

\* And so can one that was told "duplicate", if nothing failed between the insert
\* and the enqueue of the attempt that came first (webhooks.service.ts:131-138).
AckedIsDelivered ==
  \A d \in Deliveries :
    Ingest!AcceptedAt(d) # {} ~>
      \/ \E e \in events : Ingest!Same(Ingest!Of(e), Webhook[d]) /\ Delivered(e)
      \/ faults > 0
      \/ PatienceExhausted

=============================================================================
