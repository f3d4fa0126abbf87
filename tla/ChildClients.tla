---------------------------- MODULE ChildClients ----------------------------
(***************************************************************************)
(* The clients of the workload clusters, shared by all reconciles of a     *)
(* controller, and the Node watchers that go with them. A reconcile reads  *)
(* the kubeconfig Secret of its ScheduledMachine, takes the cached client  *)
(* if the Secret has not changed, and otherwise builds one from the key    *)
(* the machine names, puts it in the cache and, after releasing the        *)
(* cache's lock, has the watcher replaced. The cache goes by the Secret    *)
(* alone: which key is asked for matters only when a client is built.      *)
(* Reconciles of different ScheduledMachines run concurrently.             *)
(***************************************************************************)
EXTENDS Integers, Sequences, FiniteSets, SequencesExt

CONSTANTS
  Machines,     \* the ScheduledMachines
  Secrets,      \* the kubeconfig Secrets of their namespace
  Keys,         \* the keys of a Secret's data
  DefaultKey,   \* DEFAULT_KUBECONFIG_SECRET_KEY
  Cap,          \* CHILD_CLIENT_CACHE_CAP
  MaxVersion    \* bound: the resourceVersion of a Secret stays below it

ASSUME ConstantsAssumption ==
  /\ Cap \in Nat \ {0} /\ MaxVersion \in Nat \ {0}
  /\ "none" \notin Keys /\ DefaultKey \in Keys

VARIABLES
  spec,      \* per machine: the Secret and the key it names, and how
  secret,    \* per Secret: its last version, whether it is there, and which of its
             \* keys are good: their data is a kubeconfig a client can be built from
  cache,     \* per Secret: the client built from it, NoClient if none
  recent,    \* the cached Secrets, least recently used first
  watcher,   \* per Secret: the client its Node watcher runs with
  task,      \* per machine: the resolve in progress
  result,    \* per machine: what its last resolve returned, none while one is running
  (*************************************************************************)
  (* A history variable: no action reads it.                               *)
  (*************************************************************************)
  crossed    \* did a resolve change the cache while another owed its hooks?

vars == <<spec, secret, cache, recent, watcher, task, result, crossed>>

\* explicit: kubeconfigSecretRef is set, otherwise the Secret is found by its name and
\* read at the default key.
Specs == {x \in [secret : Secrets, key : Keys, explicit : BOOLEAN] :
            x.explicit \/ x.key = DefaultKey}

Versions == 0..MaxVersion

\* A key that is not good is missing, or its data is of no use.
Payloads == [version : Versions, there : BOOLEAN, good : SUBSET Keys]

\* A client is told by the Secret version and the key it was built from.
Clients == [version : Versions, key : Keys \cup {"none"}]

NoClient == [version |-> 0, key |-> "none"]

\* version, good: the Secret as it was read. victims: the Secrets whose watchers the
\* resolve has to cancel, in order.
Tasks == [pc : {"idle", "look", "build", "hooks"}, version : Versions, good : SUBSET Keys,
          victims : Seq(Secrets)]

Idle == [pc |-> "idle", version |-> 0, good |-> {}, victims |-> <<>>]

Results == [kind : {"none", "error", "management", "child"}, client : Clients]

Returns(kind, client) == [kind |-> kind, client |-> client]

TypeOK ==
  /\ spec \in [Machines -> Specs]
  /\ secret \in [Secrets -> Payloads]
  /\ cache \in [Secrets -> Clients]
  /\ recent \in Seq(Secrets)
  /\ watcher \in [Secrets -> Clients]
  /\ task \in [Machines -> Tasks]
  /\ result \in [Machines -> Results]
  /\ crossed \in BOOLEAN

Init ==
  /\ spec \in [Machines -> Specs]
  /\ secret = [s \in Secrets |-> [version |-> 1, there |-> TRUE, good |-> Keys]]
  /\ cache = [s \in Secrets |-> NoClient]
  /\ recent = <<>>
  /\ watcher = [s \in Secrets |-> NoClient]
  /\ task = [m \in Machines |-> Idle]
  /\ result = [m \in Machines |-> Returns("none", NoClient)]
  /\ crossed = FALSE

Cached(s) == cache[s] # NoClient

Return(m, kind, client) ==
  /\ result' = [result EXCEPT ![m] = Returns(kind, client)]
  /\ task' = [task EXCEPT ![m] = Idle]

(***************************************************************************)
(* resolve and build_or_get_cached, a step for each lock and each call.    *)
(***************************************************************************)
\* The GET of the Secret. Not found is an error for an explicit reference and the
\* management cluster for a discovered one; any other failure is an error.
GetSecret(m) ==
  LET s == secret[spec[m].secret] IN
    /\ task[m].pc = "idle"
    /\ \/ Return(m, "error", NoClient)
       \/ /\ ~s.there
          /\ Return(m, IF spec[m].explicit THEN "error" ELSE "management", NoClient)
       \/ /\ s.there
          /\ task' = [task EXCEPT ![m] = [Idle EXCEPT !.pc = "look", !.version = s.version,
                                                      !.good = s.good]]
          /\ result' = [result EXCEPT ![m] = Returns("none", NoClient)]
    /\ UNCHANGED <<spec, secret, cache, recent, watcher, crossed>>

\* Mutant: any cached client of the Secret is a hit.
HitAnyVersion(m) == Cached(spec[m].secret)

\* Any client of this version: the key it was built from is not compared.
Hit(m) == Cached(spec[m].secret) /\ cache[spec[m].secret].version = task[m].version

\* last_used is now.
Used(order, s) == Append(RemoveFirst(order, s), s)

\* A hit is the end of the resolve, before its own key is looked at.
LookUp(m) ==
  LET s == spec[m].secret IN
    /\ task[m].pc = "look"
    /\ IF Hit(m)
       THEN /\ recent' = Used(recent, s)
            /\ Return(m, "child", cache[s])
       ELSE /\ task' = [task EXCEPT ![m].pc = "build"]
            /\ UNCHANGED <<recent, result>>
    /\ UNCHANGED <<spec, secret, cache, watcher, crossed>>

\* Mutant: the cache is full only beyond its capacity.
EvictBeyondCap(s) == IF Len(recent) > Cap /\ ~Cached(s) THEN <<Head(recent)>> ELSE <<>>

\* The least recently used client makes room, unless one is only replaced.
Evict(s) == IF Len(recent) >= Cap /\ ~Cached(s) THEN <<Head(recent)>> ELSE <<>>

\* A client that is replaced has its watcher cancelled as well.
Replaced(s) == IF Cached(s) THEN <<s>> ELSE <<>>

\* Only now the key counts: a missing one, or a kubeconfig that is of no use, is an
\* error. Otherwise the client goes into the cache, and the hooks are called with the
\* lock released.
InsertClient(m) ==
  LET s   == spec[m].secret
      out == Evict(s)
      new == [version |-> task[m].version, key |-> spec[m].key]
  IN  /\ task[m].pc = "build"
      /\ IF spec[m].key \notin task[m].good
         THEN Return(m, "error", NoClient) /\ UNCHANGED <<cache, recent, crossed>>
         ELSE /\ cache' = [t \in Secrets |-> CASE t = s                      -> new
                                               [] t # s /\ Contains(out, t)  -> NoClient
                                               [] OTHER                      -> cache[t]]
              /\ recent' = Used(IF out = <<>> THEN recent ELSE Tail(recent), s)
              /\ task' = [task EXCEPT ![m].pc = "hooks", ![m].victims = out \o Replaced(s)]
              /\ crossed' = (crossed \/ \E n \in Machines \ {m} : task[n].pc = "hooks")
              /\ UNCHANGED result
      /\ UNCHANGED <<spec, secret, watcher>>

\* Mutant: the hook forgets the task and leaves it running.
CancelNothing(m) ==
  /\ task[m].pc = "hooks" /\ task[m].victims # <<>>
  /\ task' = [task EXCEPT ![m].victims = Tail(@)]
  /\ UNCHANGED <<spec, secret, cache, recent, watcher, result, crossed>>

\* on_child_evicted
CancelWatcher(m) ==
  /\ task[m].pc = "hooks" /\ task[m].victims # <<>>
  /\ watcher' = [watcher EXCEPT ![Head(task[m].victims)] = NoClient]
  /\ task' = [task EXCEPT ![m].victims = Tail(@)]
  /\ UNCHANGED <<spec, secret, cache, recent, result, crossed>>

\* on_child_resolved: whatever watcher there is, is replaced by one of this client.
StartWatcher(m) ==
  LET client == [version |-> task[m].version, key |-> spec[m].key] IN
    /\ task[m].pc = "hooks" /\ task[m].victims = <<>>
    /\ watcher' = [watcher EXCEPT ![spec[m].secret] = client]
    /\ Return(m, "child", client)
    /\ UNCHANGED <<spec, secret, cache, recent, crossed>>

Resolve(m) ==
  GetSecret(m) \/ LookUp(m) \/ InsertClient(m) \/ CancelWatcher(m) \/ StartWatcher(m)

(***************************************************************************)
(* Everybody else: Secrets are created, rotated and deleted (a version is  *)
(* never used again), and a ScheduledMachine may name another one between  *)
(* its reconciles.                                                         *)
(***************************************************************************)
ChangeSecret(s) ==
  /\ secret[s].version < MaxVersion
  /\ \E there \in BOOLEAN, good \in SUBSET Keys :
       /\ ~there => good = {}
       /\ secret' = [secret EXCEPT ![s] =
                       [version |-> @.version + 1, there |-> there, good |-> good]]
  /\ UNCHANGED <<spec, cache, recent, watcher, task, result, crossed>>

Edit(m) ==
  /\ task[m].pc = "idle"
  /\ \E x \in Specs : spec' = [spec EXCEPT ![m] = x]
  /\ result' = [result EXCEPT ![m] = Returns("none", NoClient)]
  /\ UNCHANGED <<secret, cache, recent, watcher, task, crossed>>

Next ==
  \/ \E m \in Machines : Resolve(m) \/ Edit(m)
  \/ \E s \in Secrets : ChangeSecret(s)

Spec == Init /\ [][Next]_vars

(***************************************************************************)
(* Properties.                                                             *)
(***************************************************************************)
\* The cache never holds more clients than its capacity, however many resolves
\* insert at once, and its order of use covers exactly the clients it holds.
CacheBounded ==
  /\ Cardinality({s \in Secrets : Cached(s)}) <= Cap
  /\ IsInjective(recent) /\ ToSet(recent) = {s \in Secrets : Cached(s)}

(***************************************************************************)
(* What the resolves promise.                                              *)
(***************************************************************************)
Reading == [m \in Machines |-> [open |-> task[m].pc # "idle", version |-> task[m].version,
                                good |-> task[m].good]]

Promised == INSTANCE SecretClients WITH
  Names <- Specs, names <- spec, kubeconfig <- secret, reading <- Reading, answer <- result

\* Whatever the other resolves put into the cache of build_or_get_cached or push out of
\* it, and however the Secret is rotated: a client that a resolve returns was built from
\* the very version it read and from a key that was good in it, though not always the
\* one it asked for, and a resolve whose own key is good is never refused a client.
BuiltFromWhatWasRead == Promised!ClientsSpec

\* Once the hooks have run, the clients that are cached are the ones the watchers run
\* with, as long as no two resolves changed the cache at the same time.
WatchersFollowClients ==
  ~crossed /\ (\A m \in Machines : task[m].pc # "hooks") => watcher = cache

=============================================================================
