---------------------------- MODULE IngestProofs ----------------------------
(***************************************************************************)
(* Theorems about WebhookIngest, for every set of webhooks, tenants and    *)
(* secrets, every number of attempts and every number of faults.           *)
(***************************************************************************)
EXTENDS WebhookIngest, TLAPS

\* The key of the index tells apart what a sender tells apart.
LEMMA KeyIsSame ==
  ASSUME NEW v, NEW w
  PROVE  IndexKey(v) = IndexKey(w) <=> Same(v, w)
  <1>1. CASE v.id = None /\ w.id = None
    BY <1>1 DEF IndexKey, DedupeKey, Same
  <1>2. CASE v.id # None /\ w.id # None
    BY <1>2 DEF IndexKey, DedupeKey, Same
  <1>3. CASE (v.id = None) # (w.id = None)
    BY <1>3 DEF IndexKey, DedupeKey, Same
  <1> QED BY <1>1, <1>2, <1>3

LEMMA RequestsOfDeliveries ==
  ASSUME NEW r \in Requests
  PROVE  r[1] \in Deliveries
  BY DEF Requests

-----------------------------------------------------------------------------
(* The inductive invariant: where a handler is says what was stored.       *)

\* A handler that is past the insert stored the event it adds a job for.
StoredFirst == \A r \in Requests : http[r] = "enqueue" => r \in events

\* Nothing passes the checks unverified.
Checked == /\ \A e \in events : Verdict(Of(e)) = "insert"
           /\ \A r \in Requests : http[r] = "insert" => Verdict(Of(r)) = "insert"

\* The unique index.
IndexUnique == \A a, b \in events : IndexKey(Of(a)) = IndexKey(Of(b)) => a = b

\* An answer of 200, or one that is about to be given, has an event behind it.
Backed == \A r \in Requests :
            http[r] \in {"enqueue"} \cup Accepted => Indexed(Of(r)) # {}

IngestInv == /\ IngestTypeOK
             /\ StoredFirst
             /\ Checked
             /\ IndexUnique
             /\ Backed
             /\ StrandedNeedsFault

LEMMA InitIngestInv == Init => IngestInv
  BY IngestAssumption DEF IngestConstants, Init, IngestInv, IngestTypeOK, StoredFirst, Checked,
     IndexUnique, Backed, StrandedNeedsFault, Points, Running, Rejected, Accepted

LEMMA VerdictPoint == ASSUME NEW w PROVE Verdict(w) \in {"insert"} \cup Rejected
  BY DEF Verdict, Rejected

\* A step of request r that stores nothing.
LEMMA QuietStep ==
  ASSUME IngestInv, NEW r \in Requests, NEW point \in Points \ {"enqueue"},
         Goto(r, point), UNCHANGED events,
         jobs \subseteq jobs', jobs' \subseteq events,
         faults' \in 0 .. FaultLimit, faults' >= faults,
         point = "insert" => Verdict(Of(r)) = "insert",
         point \in Accepted => Indexed(Of(r)) # {},
         faults' = 0 => http[r] # "enqueue" \/ r \in jobs'
  PROVE  IngestInv'
  <1>1. http' = [http EXCEPT ![r] = point] /\ http \in [Requests -> Points]
    BY DEF Goto, IngestInv, IngestTypeOK
  <1>2. \A q \in Requests : http'[q] = IF q = r THEN point ELSE http[q]
    BY <1>1
  <1>3. IngestTypeOK'
    BY <1>1 DEF IngestInv, IngestTypeOK
  <1>4. StoredFirst' /\ Checked' /\ IndexUnique'
    BY <1>2 DEF IngestInv, StoredFirst, Checked, IndexUnique
  <1>5. Backed'
    BY <1>2 DEF IngestInv, Backed, Indexed
  <1>6. StrandedNeedsFault'
    <2> SUFFICES ASSUME faults' = 0, NEW e \in events \ jobs' PROVE http'[e] = "enqueue"
      BY DEF StrandedNeedsFault
    <2>1. faults = 0 /\ e \in events \ jobs /\ e \in Requests
      BY DEF IngestInv, IngestTypeOK
    <2>2. http[e] = "enqueue"
      BY <2>1 DEF IngestInv, StrandedNeedsFault
    <2> QED BY <1>2, <2>1, <2>2
  <1> QED BY <1>3, <1>4, <1>5, <1>6 DEF IngestInv

LEMMA SendInv ==
  ASSUME IngestInv, NEW d, NEW n, Send(d, n)
  PROVE  IngestInv'
  <1> DEFINE r == <<d, n>>
  <1>1. /\ r \in Requests /\ http[r] = "unsent"
        /\ Goto(r, "arrived") /\ UNCHANGED <<events, jobs, faults>>
    BY DEF Send, Sent
  <1>2. "arrived" \in Points \ ({"enqueue", "insert"} \cup Accepted)
    BY DEF Points, Running, Accepted, Rejected
  <1> HIDE DEF r
  <1> QED BY <1>1, <1>2, QuietStep, IngestAssumption DEF IngestConstants, IngestInv, IngestTypeOK

LEMMA AdmitInv ==
  ASSUME IngestInv, NEW r \in Requests, Admit(r)
  PROVE  IngestInv'
  <1>1. Verdict(Of(r)) \in Points \ ({"enqueue"} \cup Accepted)
    BY VerdictPoint DEF Points, Running, Accepted, Rejected
  <1> QED BY <1>1, QuietStep, IngestAssumption DEF IngestConstants, Admit, IngestInv, IngestTypeOK

LEMMA EnqueueInv ==
  ASSUME IngestInv, NEW r \in Requests, NEW point \in {"received", "error"},
         http[r] = "enqueue", Goto(r, point), jobs' = jobs \cup {r}, UNCHANGED events,
         faults' \in 0 .. FaultLimit, faults' >= faults
  PROVE  IngestInv'
  <1>1. point \in Points \ {"enqueue", "insert"}
    BY DEF Points, Running, Accepted, Rejected
  <1>2. Indexed(Of(r)) # {}
    BY DEF IngestInv, Backed
  <1>3. r \in events /\ jobs \subseteq events
    BY DEF IngestInv, StoredFirst, IngestTypeOK
  <1> QED BY <1>1, <1>2, <1>3, QuietStep

LEMMA FaultInv ==
  ASSUME IngestInv, NEW r \in Requests, Fault(r)
  PROVE  IngestInv'
  <1>1. "error" \in Points \ ({"enqueue", "insert"} \cup Accepted)
    BY DEF Points, Running, Accepted, Rejected
  <1>2. faults' \in 0 .. FaultLimit /\ faults' > faults /\ faults' # 0
    BY IngestAssumption DEF IngestConstants, Fault, IngestInv, IngestTypeOK
  <1>3. jobs \subseteq events /\ jobs' = jobs
    BY DEF IngestInv, IngestTypeOK, Fault
  <1> QED BY <1>1, <1>2, <1>3, QuietStep DEF Fault, IngestInv, IngestTypeOK

LEMMA InsertInv ==
  ASSUME IngestInv, NEW r \in Requests, Insert(r)
  PROVE  IngestInv'
  <1>1. CASE Indexed(Of(r)) # {} /\ UNCHANGED events /\ Goto(r, "duplicate")
    <2>1. "duplicate" \in Points \ {"enqueue", "insert"}
      BY DEF Points, Accepted
    <2> QED BY <1>1, <2>1, QuietStep, IngestAssumption DEF IngestConstants, Insert, IngestInv,
           IngestTypeOK
  <1>2. CASE Indexed(Of(r)) = {} /\ events' = events \cup {r} /\ Goto(r, "enqueue")
    <2>1. /\ http' = [http EXCEPT ![r] = "enqueue"] /\ http \in [Requests -> Points]
          /\ http[r] = "insert" /\ UNCHANGED <<jobs, faults>>
      BY <1>2 DEF Goto, Insert, IngestInv, IngestTypeOK
    <2>2. \A q \in Requests : http'[q] = IF q = r THEN "enqueue" ELSE http[q]
      BY <2>1
    <2>3. "enqueue" \in Points
      BY DEF Points, Running
    <2>4. IngestTypeOK'
      BY <1>2, <2>1, <2>3 DEF IngestInv, IngestTypeOK
    <2>5. StoredFirst'
      BY <1>2, <2>2 DEF IngestInv, StoredFirst
    <2>6. Checked'
      BY <1>2, <2>1, <2>2 DEF IngestInv, Checked
    <2>7. IndexUnique'
      BY <1>2 DEF IngestInv, IndexUnique, Indexed
    <2>8. Backed'
      <3>1. \A w : Indexed(w) \subseteq Indexed(w)'
        BY <1>2 DEF Indexed
      <3>2. r \in Indexed(Of(r))'
        BY <1>2 DEF Indexed
      <3> QED BY <2>2, <3>1, <3>2 DEF IngestInv, Backed
    <2>9. StrandedNeedsFault'
      BY <1>2, <2>1, <2>2 DEF IngestInv, StrandedNeedsFault, IngestTypeOK
    <2> QED BY <2>4, <2>5, <2>6, <2>7, <2>8, <2>9 DEF IngestInv
  <1> QED BY <1>1, <1>2 DEF Insert

LEMMA NextIngestInv == IngestInv /\ [Next]_vars => IngestInv'
  <1> SUFFICES ASSUME IngestInv, [Next]_vars PROVE IngestInv'
    OBVIOUS
  <1>1. ASSUME NEW r \in Requests, Enqueue(r) PROVE IngestInv'
    BY <1>1, EnqueueInv, IngestAssumption DEF IngestConstants, Enqueue, IngestInv, IngestTypeOK
  <1>2. ASSUME NEW r \in Requests, LostAnswer(r) PROVE IngestInv'
    <2>1. faults' \in 0 .. FaultLimit /\ faults' >= faults
      BY <1>2, IngestAssumption DEF IngestConstants, LostAnswer, IngestInv, IngestTypeOK
    <2> QED BY <1>2, <2>1, EnqueueInv DEF LostAnswer
  <1>3. CASE UNCHANGED vars
    BY <1>3 DEF vars, IngestInv, IngestTypeOK, StoredFirst, Checked, IndexUnique, Backed,
                Indexed, StrandedNeedsFault
  <1> QED BY <1>1, <1>2, <1>3, SendInv, AdmitInv, InsertInv, FaultInv
          DEF Next, Handle, Quiescent

LEMMA AlwaysIngestInv == Spec => []IngestInv
  BY InitIngestInv, NextIngestInv, PTL DEF Spec

-----------------------------------------------------------------------------

\* Every variable of the ingestion path keeps its type; no job is without an event.
THEOREM IngestTypeCorrect == Spec => []IngestTypeOK
  <1>1. IngestInv => IngestTypeOK
    BY DEF IngestInv
  <1> QED BY <1>1, AlwaysIngestInv, PTL

\* Whatever is stored was addressed to a tenant, signed as that tenant demands,
\* parsed and typed.
THEOREM StoredIsVerified == Spec => []OnlyVerifiedStored
  <1>1. IngestInv => OnlyVerifiedStored
    BY DEF IngestInv, Checked, OnlyVerifiedStored, Verdict, VerifySignature
  <1> QED BY <1>1, AlwaysIngestInv, PTL

\* A 200 has an event of the same tenant, source and delivery behind it, whatever
\* overlaps and fails.
THEOREM AcksAreBacked == Spec => []AckIsBacked
  <1>1. IngestInv => AckIsBacked
    <2> SUFFICES ASSUME IngestInv, NEW d \in Deliveries, NEW r \in AcceptedAt(d)
                 PROVE  \E e \in events : Same(Of(e), Webhook[d])
      BY DEF AckIsBacked
    <2>1. r \in Requests /\ Of(r) = Webhook[d] /\ Indexed(Of(r)) # {}
      BY DEF AcceptedAt, Of, IngestInv, Backed
    <2> QED BY <2>1, KeyIsSame DEF Indexed
  <1> QED BY <1>1, AlwaysIngestInv, PTL

\* One webhook gets one job, however often it is delivered.
THEOREM OneJobEach == Spec => []OneJobPerDelivery
  <1>1. IngestInv => OneJobPerDelivery
    BY KeyIsSame DEF IngestInv, IngestTypeOK, IndexUnique, OneJobPerDelivery
  <1> QED BY <1>1, AlwaysIngestInv, PTL

\* An event is left without a job only by a fault.
THEOREM StrandedByFault == Spec => []StrandedNeedsFault
  <1>1. IngestInv => StrandedNeedsFault
    BY DEF IngestInv
  <1> QED BY <1>1, AlwaysIngestInv, PTL

=============================================================================
