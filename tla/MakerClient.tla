----------------------------- MODULE MakerClient -----------------------------
(***************************************************************************)
(* ContainerService as a client of container-maker: each request handler   *)
(* makes one, which reads the client certificate from a Kubernetes Secret  *)
(* the first time it needs the gRPC stub, makes the name fit for           *)
(* Kubernetes, derives the pod's requests from its limits, and translates  *)
(* the answer or the error.                                                *)
(*                                                                         *)
(* The Secret is read through a cache that the whole process shares; the   *)
(* certificate Job or an operator replaces it at any time, also between    *)
(* two reads.  CertificateUtils creates the Job and waits for it.          *)
(***************************************************************************)
EXTENDS ResourceUnits, ContainerNames

CONSTANTS
    Calls,          \* requests in flight at once
    Requests,       \* what they ask for: the name and the limits of a pod
    Raws,           \* the errors container-maker answers with
    MemoryRatio,    \* RESOURCE_MEMORY_REQUEST_RATIO
    CpuRatio,       \* RESOURCE_CPU_REQUEST_RATIO
    MaxVersion      \* bound on the certificates issued

Amounts == [halves : Nat, unit : STRING]

ASSUME RequestsAssumption ==
    \A r \in Requests :
        r.name \in Seq(Pieces) /\ r.memory \in Amounts /\ r.cpu \in Amounts

ASSUME RawsAssumption == \A raw \in Raws : raw \in Seq(RawPieces)

\* The ratios are settings; a ratio above one would ask for more than the limit.
ASSUME RatiosAssumption ==
    \A ratio \in {MemoryRatio, CpuRatio} : ratio \in Ratios /\ ratio.num <= ratio.den

ASSUME VersionsAssumption == MaxVersion \in Nat

VARIABLES
    secret,     \* the Secret in the cluster: its data by key, if it exists
    cache,      \* K8sSecretsReader's copy of it, if it has one
    call,       \* the requests in flight
    issued,     \* how many certificates have been issued
    job         \* the certificate Job that somebody waits for

vars == <<secret, cache, call, issued, job>>

\* In the order in which _ensure_grpc_client reads them.
Order == <<"client.key", "client.crt", "ca.crt">>

\* The version of the certificate under each key, or 0 if the key is not there.
Data == [Range(Order) -> 0 .. MaxVersion]

NoSecret == [k \in {} |-> 0]

NoRequest == [name |-> <<>>, memory |-> Amount(0, "none"), cpu |-> Amount(0, "none")]

\* asks, sent: what is asked for, and what is sent for it; of a delete or a
\* save, no more than its id.
Idle == [pc |-> "idle", asks |-> NoRequest, certs |-> <<>>, sent |-> NoRequest,
         answer |-> <<>>, raw |-> <<>>, message |-> "none"]

\* Every variable has its type; a failure is told by a message that
\* clean_k8s_error_message has made, except that of the image lookup, which
\* comes before everything else and is answered in its own words.
TypeOK ==
    /\ secret \in Data \cup {NoSecret}
    /\ cache \in Data \cup {NoSecret}
    /\ issued \in 0 .. MaxVersion
    /\ job \in {"none", "running", "succeeded", "failed", "expired"}
    /\ \A c \in Calls :
          /\ call[c].pc \in {"idle", "image", "reading", "called", "answered", "failed"}
          /\ call[c].certs \in Seq(1 .. MaxVersion) /\ Len(call[c].certs) <= Len(Order)
          /\ call[c].message \in Messages \cup {"raw", "none"}
          /\ call[c].pc = "failed" =>
                \/ call[c].message \in Messages
                \/ call[c].message = "raw" /\ call[c].certs = <<>>

Init ==
    /\ secret = NoSecret
    /\ cache = NoSecret
    /\ call = [c \in Calls |-> Idle]
    /\ issued = 0
    /\ job = "none"

-----------------------------------------------------------------------------
(* The Secret and the certificate Job.                                     *)

Issues(keys) ==
    /\ issued < MaxVersion
    /\ issued' = issued + 1
    /\ secret' = [k \in Range(Order) |-> IF k \in keys THEN issued + 1 ELSE 0]

\* An operator, or the CronJob by itself, writes the Secret.
Provision ==
    /\ \E keys \in (SUBSET Range(Order)) \ {{}} : Issues(keys)
    /\ UNCHANGED <<cache, call, job>>

\* delete_secret, or an operator.
SecretDeleted ==
    /\ secret # NoSecret
    /\ secret' = NoSecret
    /\ UNCHANGED <<cache, call, issued, job>>

\* create_certificate_job creates a Job from the CronJob and polls it.
CreateJob ==
    /\ job = "none"
    /\ job' = "running"
    /\ UNCHANGED <<secret, cache, call, issued>>

JobSucceeds ==
    /\ job = "running"
    /\ job' = "succeeded"
    /\ Issues(Range(Order)) \/ (issued = MaxVersion /\ UNCHANGED <<secret, issued>>)
    /\ UNCHANGED <<cache, call>>

JobFails ==
    /\ job = "running"
    /\ job' = "failed"
    /\ UNCHANGED <<secret, cache, call, issued>>

\* Variant, not part of the specification.  PollEnds: the Job is created
\* without ttl_seconds_after_finished, and a failed one stays.
FailedJobStays ==
    /\ job = "succeeded"
    /\ job' = "expired"
    /\ UNCHANGED <<secret, cache, call, issued>>

\* ttl_seconds_after_finished: the cluster deletes a Job that has finished.
JobExpires ==
    /\ job \in {"succeeded", "failed"}
    /\ job' = "expired"
    /\ UNCHANGED <<secret, cache, call, issued>>

\* The poll stops on success; reading a Job that is gone raises.
PollStops ==
    /\ job \in {"succeeded", "expired"}
    /\ job' = "none"
    /\ UNCHANGED <<secret, cache, call, issued>>

-----------------------------------------------------------------------------
(* A request to container-maker.                                           *)

Becomes(c, new) == call' = [call EXCEPT ![c] = new]

\* Each request has a ContainerService of its own, without a stub.  A create
\* that is not given a saved image looks its base image up first.
Begin(c) ==
    /\ call[c].pc = "idle"
    /\ \E r \in Requests \cup {NoRequest}, first \in {"image", "reading"} :
          /\ r = NoRequest => first = "reading"
          /\ Becomes(c, [Idle EXCEPT !.pc = first, !.asks = r])
    /\ UNCHANGED <<secret, cache, issued, job>>

ImageFound(c) ==
    /\ call[c].pc = "image"
    /\ Becomes(c, [call[c] EXCEPT !.pc = "reading"])
    /\ UNCHANGED <<secret, cache, issued, job>>

\* The lookup fails, or finds none: that is outside the try, and the handler
\* answers with the text of the exception.
ImageMissing(c) ==
    /\ call[c].pc = "image"
    /\ Becomes(c, [call[c] EXCEPT !.pc = "failed", !.raw = <<"text">>, !.message = "raw"])
    /\ UNCHANGED <<secret, cache, issued, job>>

\* Any exception later on ends here, container-maker's answers included.
FailsWith(c, raw) ==
    Becomes(c, [call[c] EXCEPT !.pc = "failed", !.raw = raw, !.message = CleanMessage(raw)])

NextKey(c) == Order[Len(call[c].certs) + 1]

MoreKeys(c) == call[c].pc = "reading" /\ Len(call[c].certs) < Len(Order)

\* get_secret finds the key in the data.
ReadKey(c, data) ==
    IF data[NextKey(c)] = 0
    THEN FailsWith(c, <<"text">>)
    ELSE Becomes(c, [call[c] EXCEPT !.certs = Append(@, data[NextKey(c)])])

\* Variant, not part of the specification.  NoMixedCertificates: every key is
\* read from the cluster.
GetSecretUncached(c) ==
    /\ MoreKeys(c)
    /\ secret # NoSecret
    /\ ReadKey(c, secret)
    /\ UNCHANGED <<secret, cache, issued, job>>

\* One read through the cache, which takes the whole Secret at once and keeps
\* it for good, whatever it lacks.
GetSecret(c) ==
    /\ MoreKeys(c)
    /\ \/ cache # NoSecret /\ UNCHANGED cache
       \/ cache = NoSecret /\ secret # NoSecret /\ cache' = secret
    /\ ReadKey(c, cache')
    /\ UNCHANGED <<secret, issued, job>>

\* There is no Secret, or the cluster does not answer: nothing is cached.
GetSecretFails(c) ==
    /\ MoreKeys(c) /\ cache = NoSecret
    /\ FailsWith(c, <<"text", "headers", "body", "text">>)
    /\ UNCHANGED <<secret, cache, issued, job>>

Fitted(r) ==
    [name |-> Sanitize(r.name),
     memory |-> DeriveMemory(r.memory, MemoryRatio),
     cpu |-> DeriveCpu(r.cpu, CpuRatio)]

Connected(c) == call[c].pc = "reading" /\ Len(call[c].certs) = Len(Order)

\* A pod is asked for, but without a name to make one of.
Nameless(c) == call[c].asks # NoRequest /\ call[c].asks.name = <<>>

NameRefused(c) ==
    /\ Connected(c) /\ Nameless(c)
    /\ FailsWith(c, <<"text">>)
    /\ UNCHANGED <<secret, cache, issued, job>>

\* The stub is called: for a create, with what the request has been made into.
Send(c) ==
    /\ Connected(c) /\ ~Nameless(c)
    /\ Becomes(c, [call[c] EXCEPT
                     !.pc = "called",
                     !.sent = IF call[c].asks = NoRequest THEN @ ELSE Fitted(call[c].asks)])
    /\ UNCHANGED <<secret, cache, issued, job>>

\* The pod's name comes back as container-maker has made it.
Answered(c) ==
    /\ call[c].pc = "called"
    /\ IF call[c].asks = NoRequest
       THEN Becomes(c, [call[c] EXCEPT !.pc = "answered"])
       ELSE \E kind \in Suffixes :
               Becomes(c, [call[c] EXCEPT !.pc = "answered",
                             !.answer = Recovered(Named(call[c].sent.name, kind))])
    /\ UNCHANGED <<secret, cache, issued, job>>

Refused(c) ==
    /\ call[c].pc = "called"
    /\ \E raw \in Raws : FailsWith(c, raw)
    /\ UNCHANGED <<secret, cache, issued, job>>

\* The handler has answered, and its ContainerService is dropped.
Over(c) ==
    /\ call[c].pc \in {"answered", "failed"}
    /\ Becomes(c, Idle)
    /\ UNCHANGED <<secret, cache, issued, job>>

\* The server restarts: the cache is gone, and so are the requests.
Restart ==
    /\ cache' = NoSecret
    /\ call' = [c \in Calls |-> Idle]
    /\ UNCHANGED <<secret, issued, job>>

CallStep(c) ==
    \/ Begin(c) \/ ImageFound(c) \/ ImageMissing(c)
    \/ GetSecret(c) \/ GetSecretFails(c) \/ NameRefused(c) \/ Send(c)
    \/ Answered(c) \/ Refused(c) \/ Over(c)

\* The reads of a request block the event loop: no other request takes a step
\* between them.
Blocked(c) == \E d \in Calls \ {c} : call[d].pc = "reading"

Next ==
    \/ \E c \in Calls : ~Blocked(c) /\ CallStep(c)
    \/ Provision \/ SecretDeleted \/ Restart
    \/ CreateJob \/ JobSucceeds \/ JobFails \/ JobExpires \/ PollStops

\* A Job ends in one way or the other, the cluster deletes it when its time has
\* come, and the poll reads it every four seconds.
Fairness == WF_vars(JobSucceeds \/ JobFails) /\ WF_vars(JobExpires) /\ WF_vars(PollStops)

Spec == Init /\ [][Next]_vars /\ Fairness

-----------------------------------------------------------------------------
(* The key, the certificate and the CA a request connects with belong      *)
(* together, although the Secret may be replaced between two reads.        *)
NoMixedCertificates ==
    \A c \in Calls : \A v, w \in Range(call[c].certs) : v = w

\* container-maker is never asked for a pod that requests more than its limit,
\* which Kubernetes would refuse, whatever unit the request is rounded to.
RequestsFit ==
    \A c \in Calls : call[c].sent # NoRequest =>
        LET asks == call[c].asks
            sent == call[c].sent
        IN  /\ asks.memory.unit \in DOMAIN MemoryUnits => Bytes(sent.memory) <= Bytes(asks.memory)
            /\ asks.cpu.unit \in DOMAIN CpuUnits => Millicores(sent.cpu) <= Millicores(asks.cpu)

\* Whatever the user calls the container, the name that is sent is built like a
\* label, and Kubernetes takes it unless the user's is too long: nothing cuts a
\* name to a length, and only the fallback, a short word, may be longer than what
\* it stands for.  A name that needs no change is sent as it is, and the one that
\* comes back is the one that was sent, even if it looks as if it had a suffix of
\* its own.
NamesSurvive ==
    \A c \in Calls : call[c].sent # NoRequest =>
        LET asked == call[c].asks.name
            sent == call[c].sent.name
        IN  /\ IsPlain(sent)
            /\ Len(asked) <= MaxLabel => IsLabel(sent)
            /\ IsPlain(asked) => sent = asked
            /\ call[c].pc = "answered" => call[c].answer = sent

\* A pod refused for want of quota is always explained as such, however often
\* the error was wrapped on its way.
QuotaIsExplained ==
    \A c \in Calls :
        call[c].pc = "failed" /\ "quota body" \in Range(call[c].raw)
            => call[c].message = "quota"

\* Who waits for a certificate Job does not wait for ever, even if it fails,
\* which the poll does not look for.
PollEnds == (job # "none") ~> (job = "none")
=============================================================================
