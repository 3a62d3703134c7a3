---------------------------- MODULE Connections -----------------------------
(***************************************************************************)
(* The requests that reach the pods of a deployment.  Those for taekion go *)
(* through the API server of the cluster by a connection that is cached    *)
(* for five minutes; those for daml forward a local port to a pod for as   *)
(* long as their handler runs.  A request is the list of its awaited steps *)
(* that are left; steps of other requests, edits of the cluster and        *)
(* replacements of the pod come in between.                                *)
(***************************************************************************)
EXTENDS ClusterSecrets, SequencesExt

CONSTANTS Request, Op, Label, MaxPods,
    MaxTimers                \* timeouts of a key that may be pending at once

ASSUME ConnectionsAssumption == MaxPods \in Nat /\ MaxTimers \in Nat

VARIABLES
    cachedConnections,   \* cluster (its deployment), label -> connection
    timers,              \* timeouts that will delete the entry of a key
    pod,                 \* cluster -> the deployment's pod, 0 before the first
    request,
    forward              \* a local port is forwarded for the request

poolVars == <<cachedConnections, timers, pod, request, forward>>
vars == <<clusterVars, poolVars>>

Key == Cluster \X Label

NoConnection == [token_id |-> 0, ca_id |-> 0, pod |-> 0]
Connection == [token_id : 0..MaxSecrets, ca_id : 0..MaxSecrets, pod : 0..MaxPods]

-----------------------------------------------------------------------------
(* The steps of a request *)

\* getPodConnection with the label of the middleware, and what goes over it.
TfsApiRequest == <<"lookup", "items", "keep", "send">>

\* POST, then getKey.
CreateKey == TfsApiRequest \o TfsApiRequest

\* Volumes, snapshots, keys, directories and files: one request each.
OneTfsApiRequest == TfsApiRequest

\* The same by the label of the sawtooth pods, whatever the verb.
StlRequestProxy == <<"lookup", "items", "keep", "send">>

TaekionController ==
    [createKey |-> CreateKey, createVolume |-> OneTfsApiRequest,
     listVolumes |-> OneTfsApiRequest, restApiProxy |-> StlRequestProxy]

\* DeploymentPodProxy, its getPods, its request with a handler.
CallProxy(handler) == <<"connect", "pods", "open">> \o handler \o <<"stop">>

GetLedgerId == CallProxy(<<"token", "call">>)
GetParticipantId == CallProxy(<<"token", "call">>)
AddParty == CallProxy(<<"token", "call">>)
GetArchives == CallProxy(<<"token", "call">>)
UploadArchive == CallProxy(<<"token", "call", "call">>)

\* The cache of getLedgerId is asked by an object that is new each time.
GenerateAdminToken == GetLedgerId \o <<"token">>
GeneratePartyToken == GetLedgerId \o <<"token">>

DamlController ==
    [registerParticipant |-> GetParticipantId, addParty |-> AddParty,
     generatePartyToken |-> GeneratePartyToken, generateAdminToken |-> GenerateAdminToken,
     getArchives |-> GetArchives, uploadArchive |-> UploadArchive]

Script ==
    [op \in DOMAIN TaekionController \cup DOMAIN DamlController |->
        IF op \in DOMAIN TaekionController THEN TaekionController[op] ELSE DamlController[op]]

ASSUME OpsAssumption == Op \subseteq DOMAIN Script

Todo == UNION {Suffixes(Script[op]) : op \in DOMAIN Script}

NoRequest == [cluster |-> NoCluster, label |-> "none", todo |-> <<>>, to |-> NoConnection]

TypeOK ==
    /\ SecretsTypeOK
    /\ cachedConnections \in [Key -> Connection]
    /\ timers \in [Key -> 0..MaxTimers]
    /\ pod \in [Cluster -> 0..MaxPods]
    /\ request \in [Request -> [cluster : Cluster \cup {NoCluster}, label : Label \cup {"none"},
                                todo : Todo, to : Connection]]
    /\ forward \in [Request -> BOOLEAN]

Init ==
    /\ SecretsInit
    /\ cachedConnections = [k \in Key |-> NoConnection]
    /\ timers = [k \in Key |-> 0]
    /\ pod = [c \in Cluster |-> 0]
    /\ request = [q \in Request |-> NoRequest]
    /\ forward = [q \in Request |-> FALSE]

At(q, step) == request[q].todo # <<>> /\ Head(request[q].todo) = step
KeyOf(q) == <<request[q].cluster, request[q].label>>

\* The request goes on, n steps further.
Onward(q, n, to) ==
    LET left == SubSeq(request[q].todo, n + 1, Len(request[q].todo)) IN
    request' = [request EXCEPT ![q] =
                   IF left = <<>> THEN NoRequest ELSE [@ EXCEPT !.todo = left, !.to = to]]

Begin(q, c, label, op) ==
    /\ request[q] = NoRequest
    /\ cluster[c].type # "none"
    /\ calls < MaxCalls
    /\ calls' = calls + 1
    /\ request' = [request EXCEPT ![q] = [NoRequest EXCEPT !.cluster = c, !.label = label,
                                                          !.todo = Script[op]]]
    /\ UNCHANGED <<cluster, secret, tasks, worker, edit, asked, excused, failed,
                    cachedConnections, timers, pod, forward>>

-----------------------------------------------------------------------------
(* api/taekion *)

\* A hit needs neither the database nor the list of pods.  A miss reads the
\* cluster and the rows that it points at; a cluster without pointers, as of
\* type user, makes clustersecret.get throw.
Lookup(q) ==
    LET kept == cachedConnections[KeyOf(q)]
        desired == cluster[request[q].cluster].desired
    IN
    /\ At(q, "lookup")
    /\ \/ kept # NoConnection /\ Onward(q, 3, kept)
       \/ /\ kept = NoConnection
          /\ HasSecret(request[q].cluster, desired.token_id)
          /\ HasSecret(request[q].cluster, desired.ca_id)
          /\ Onward(q, 1, [token_id |-> desired.token_id, ca_id |-> desired.ca_id, pod |-> 0])
    /\ UNCHANGED <<clusterVars, cachedConnections, timers, pod, forward>>

\* onConnection: the first of the pods with the label, ready or not.
GetItemConnection(q) ==
    /\ At(q, "items")
    /\ pod[request[q].cluster] # 0
    /\ Onward(q, 1, [request[q].to EXCEPT !.pod = pod[request[q].cluster]])
    /\ UNCHANGED <<clusterVars, cachedConnections, timers, pod, forward>>

\* Mutant of SetTimeout: nothing will delete the entry.
SetNoTimeout(k) == timers

SetTimeout(k) == [timers EXCEPT ![k] = @ + 1]

\* After onConnection, in the same callback.
Keep(q) ==
    /\ At(q, "keep")
    /\ timers[KeyOf(q)] < MaxTimers
    /\ cachedConnections' = [cachedConnections EXCEPT ![KeyOf(q)] = request[q].to]
    /\ timers' = SetTimeout(KeyOf(q))
    /\ Onward(q, 1, request[q].to)
    /\ UNCHANGED <<clusterVars, pod, forward>>

\* A timeout deletes what is kept under its key, its own entry or a later one.
Timeout(k) ==
    /\ timers[k] > 0
    /\ timers' = [timers EXCEPT ![k] = @ - 1]
    /\ cachedConnections' = [cachedConnections EXCEPT ![k] = NoConnection]
    /\ UNCHANGED <<clusterVars, pod, request, forward>>

\* Answered only by the pod that the connection is to.
Send(q) ==
    /\ At(q, "send")
    /\ request[q].to.pod = pod[request[q].cluster]
    /\ Onward(q, 1, NoConnection)
    /\ UNCHANGED <<clusterVars, cachedConnections, timers, pod, forward>>

-----------------------------------------------------------------------------
(* utils/deploymentPodProxy.ts, api/daml *)

\* A Kubectl of its own for the proxy, and another for each token.
Authorise(q) ==
    /\ At(q, "connect") \/ At(q, "token")
    /\ GetKubectlForCluster(request[q].cluster, cluster[request[q].cluster].desired)
    /\ Onward(q, 1, request[q].to)
    /\ UNCHANGED <<clusterVars, cachedConnections, timers, pod, forward>>

\* The first of the pods that are ready; none may be yet, as Throw has it.
GetPods(q) ==
    /\ At(q, "pods")
    /\ pod[request[q].cluster] # 0
    /\ Onward(q, 1, [NoConnection EXCEPT !.pod = pod[request[q].cluster]])
    /\ UNCHANGED <<clusterVars, cachedConnections, timers, pod, forward>>

PortForward(q) ==
    /\ At(q, "open")
    /\ forward' = [forward EXCEPT ![q] = TRUE]
    /\ Onward(q, 1, request[q].to)
    /\ UNCHANGED <<clusterVars, cachedConnections, timers, pod>>

\* grpcurl, through the forwarded port.
Grpcurl(q) ==
    /\ At(q, "call")
    /\ request[q].to.pod = pod[request[q].cluster]
    /\ Onward(q, 1, request[q].to)
    /\ UNCHANGED <<clusterVars, cachedConnections, timers, pod, forward>>

StopForward(q) ==
    /\ At(q, "stop")
    /\ forward' = [forward EXCEPT ![q] = FALSE]
    /\ Onward(q, 1, NoConnection)
    /\ UNCHANGED <<clusterVars, cachedConnections, timers, pod>>

\* Mutant of OnError: the forward is stopped after a handler that succeeds only.
OnErrorNothing(q) == forward

OnError(q) == [forward EXCEPT ![q] = FALSE]

\* An error at any awaited step: the request ends, its forward is stopped, and
\* the cache is left as it is.
Throw(q) ==
    /\ \E step \in {"lookup", "items", "send", "connect", "pods", "token", "call"} : At(q, step)
    /\ At(q, "lookup") => cachedConnections[KeyOf(q)] = NoConnection
    /\ forward' = OnError(q)
    /\ request' = [request EXCEPT ![q] = NoRequest]
    /\ UNCHANGED <<clusterVars, cachedConnections, timers, pod>>

-----------------------------------------------------------------------------
(* The cluster, and the process *)

PodStarts(c) ==
    /\ pod[c] < MaxPods
    /\ cluster[c].type # "none"
    /\ pod' = [pod EXCEPT ![c] = @ + 1]
    /\ UNCHANGED <<clusterVars, cachedConnections, timers, request, forward>>

\* The process dies, be it of an error event of the port that it listens
\* on.  Transactions roll back, tasks are there to be resumed.  A
\* restart is counted among the calls.
Restart ==
    /\ calls < MaxCalls
    /\ calls' = calls + 1
    /\ cachedConnections' = [k \in Key |-> NoConnection]
    /\ timers' = [k \in Key |-> 0]
    /\ request' = [q \in Request |-> NoRequest]
    /\ forward' = [q \in Request |-> FALSE]
    /\ worker' = IdleWorker
    /\ edit' = [e \in Editor |-> NoEdit]
    /\ excused' = (excused \/ \E e \in Editor :
                      edit[e].at = "written" /\ CredentialsRows(edit[e].cluster) # {})
    /\ UNCHANGED <<cluster, secret, tasks, asked, failed, pod>>

Step(q) ==
    \/ Lookup(q) \/ GetItemConnection(q) \/ Keep(q) \/ Send(q)
    \/ Authorise(q) \/ GetPods(q) \/ PortForward(q) \/ Grpcurl(q) \/ StopForward(q)
    \/ Throw(q)

Next ==
    \/ SecretsNext /\ UNCHANGED poolVars
    \/ \E q \in Request, c \in Cluster, label \in Label, op \in Op :
          Begin(q, c, label, op)
    \/ \E q \in Request : Step(q)
    \/ \E k \in Key : Timeout(k)
    \/ \E c \in Cluster : PodStarts(c)
    \/ Restart

\* Timeouts fire, and every awaited call is answered or fails.
Fairness ==
    /\ \A q \in Request : WF_vars(Step(q))
    /\ \A k \in Key : WF_vars(Timeout(k))

Spec == Init /\ [][Next]_vars /\ Fairness

-----------------------------------------------------------------------------
Current(k) ==
    LET c == k[1] IN
    [token_id |-> cluster[c].desired.token_id, ca_id |-> cluster[c].desired.ca_id, pod |-> pod[c]]

(***************************************************************************)
(* A stale connection does not last: once the secrets of the cluster and   *)
(* its pod have changed for the last time, every connection that is kept   *)
(* becomes one to that pod with those secrets, or none.  It does although  *)
(* a request that read before the change keeps its connection after it, an *)
(* error removes nothing from the cache, and the timeout of one entry may  *)
(* delete another; deploymentConnection.ts relies on the timeouts alone.   *)
(***************************************************************************)
StaleConnectionsGo ==
    <>[](\A k \in Key : cachedConnections[k] \in {NoConnection, Current(k)})

(***************************************************************************)
(* A forwarded port is given back, whether the handler of the request      *)
(* returns or fails at any of its steps (ProxyRequest).                    *)
(***************************************************************************)
ForwardsAreStopped == \A q \in Request : forward[q] ~> ~forward[q]

=============================================================================
