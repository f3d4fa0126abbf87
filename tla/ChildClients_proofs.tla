------------------------- MODULE ChildClients_proofs -------------------------
(***************************************************************************)
(* Proofs about ChildClients, for any number of ScheduledMachines, Secrets *)
(* and keys, any capacity of the cache and any number of rotations.        *)
(***************************************************************************)
EXTENDS ChildClients, SequenceTheorems, FiniteSetTheorems, TLAPS

(***************************************************************************)
(* The order of use                                                        *)
(***************************************************************************)
\* Taking an element out of an order without duplicates leaves one.
LEMMA RemoveFirstFacts ==
  ASSUME NEW q \in Seq(Secrets), IsInjective(q), NEW e \in Secrets
  PROVE  /\ RemoveFirst(q, e) \in Seq(Secrets)
         /\ IsInjective(RemoveFirst(q, e))
         /\ ToSet(RemoveFirst(q, e)) = ToSet(q) \ {e}
         /\ Len(RemoveFirst(q, e)) = IF e \in ToSet(q) THEN Len(q) - 1 ELSE Len(q)
<1> DEFINE r == RemoveFirst(q, e)
<1>1. Len(q) \in Nat /\ DOMAIN q = 1..Len(q) /\ \A i \in 1..Len(q) : q[i] \in Secrets
  BY LenProperties, ElementOfSeq
<1>2. CASE e \notin ToSet(q)
  <2>1. r = q
    BY <1>1, <1>2 DEF RemoveFirst, ToSet
  <2> QED
    BY <1>2, <2>1
<1>3. CASE e \in ToSet(q)
  <2>1. PICK i \in 1..Len(q) : q[i] = e
    BY <1>1, <1>3 DEF ToSet
  <2>2. {j \in 1..Len(q) : q[j] = e} = {i}
    BY <1>1, <2>1 DEF IsInjective
  <2>3. Min({i}) = i
    BY <1>1 DEF Min
  <2>4. r = SubSeq(q, 1, i - 1) \o SubSeq(q, i + 1, Len(q))
    BY <2>1, <2>2, <2>3 DEF RemoveFirst, SelectInSeq, RemoveAt
  <2> DEFINE a == SubSeq(q, 1, i - 1)
             b == SubSeq(q, i + 1, Len(q))
  <2>5. a \in Seq(Secrets) /\ Len(a) = i - 1 /\ \A j \in 1..(i - 1) : a[j] = q[j]
    <3>1. /\ 1 \in Int /\ i - 1 \in Int /\ \A j \in 1..(i - 1) : q[j] \in Secrets
      BY <1>1
    <3>2. /\ a \in Seq(Secrets) /\ Len(a) = (IF 1 <= i - 1 THEN (i - 1) - 1 + 1 ELSE 0)
          /\ \A j \in 1..((i - 1) - 1 + 1) : a[j] = q[1 + j - 1]
      BY <3>1, SubSeqProperties
    <3> HIDE DEF a
    <3> QED
      BY <1>1, <3>2
  <2>6. /\ b \in Seq(Secrets) /\ Len(b) = Len(q) - i
        /\ \A j \in 1..(Len(q) - i) : b[j] = q[i + j]
    <3>1. /\ i + 1 \in Int /\ Len(q) \in Int /\ \A j \in (i + 1)..Len(q) : q[j] \in Secrets
      BY <1>1
    <3>2. /\ b \in Seq(Secrets) /\ Len(b) = (IF i + 1 <= Len(q) THEN Len(q) - (i + 1) + 1 ELSE 0)
          /\ \A j \in 1..(Len(q) - (i + 1) + 1) : b[j] = q[(i + 1) + j - 1]
      BY <3>1, SubSeqProperties
    <3> HIDE DEF b
    <3>3. Len(b) = Len(q) - i /\ Len(q) - (i + 1) + 1 = Len(q) - i
      <4>1. Len(q) - (i + 1) + 1 = Len(q) - i
        BY <1>1
      <4>2. CASE i + 1 <= Len(q)
        BY <3>2, <4>1, <4>2
      <4>3. CASE ~(i + 1 <= Len(q))
        <5> DEFINE n == Len(q)
        <5>1. n \in Nat /\ i \in 1..n /\ ~(i + 1 <= n)
          BY <1>1, <4>3
        <5> HIDE DEF n
        <5>2. n - i = 0
          BY <5>1
        <5> QED
          BY <3>2, <4>1, <4>3, <5>2 DEF n
      <4> QED
        BY <4>1, <4>2, <4>3
    <3>4. \A j \in 1..(Len(q) - i) : (i + 1) + j - 1 = i + j
      BY <1>1
    <3> QED
      BY <3>2, <3>3, <3>4
  <2>7. r = a \o b
    BY <2>4
  <2> HIDE DEF a, b, r
  <2>8. /\ r \in Seq(Secrets) /\ Len(r) = Len(q) - 1
        /\ \A j \in 1..(Len(q) - 1) : r[j] = IF j < i THEN q[j] ELSE q[j + 1]
    <3>1. /\ r \in Seq(Secrets) /\ Len(r) = Len(a) + Len(b)
          /\ \A j \in 1..(Len(a) + Len(b)) : r[j] = IF j <= Len(a) THEN a[j] ELSE b[j - Len(a)]
      BY <2>5, <2>6, <2>7, ConcatProperties
    <3>2. Len(a) + Len(b) = Len(q) - 1 /\ Len(a) = i - 1
      BY <1>1, <2>5, <2>6
    <3>3. ASSUME NEW j \in 1..(Len(q) - 1), j < i PROVE r[j] = q[j]
      BY <1>1, <2>5, <3>1, <3>2, <3>3
    <3>4. ASSUME NEW j \in 1..(Len(q) - 1), ~(j < i) PROVE r[j] = q[j + 1]
      <4>1. r[j] = b[j - (i - 1)]
        BY <1>1, <3>1, <3>2, <3>4
      <4>2. j - (i - 1) \in 1..(Len(q) - i) /\ i + (j - (i - 1)) = j + 1
        BY <1>1, <3>4
      <4> QED
        BY <2>6, <4>1, <4>2
    <3> QED
      BY <3>1, <3>2, <3>3, <3>4
  <2>9. DOMAIN r = 1..(Len(q) - 1)
    BY <2>8, LenProperties
  <2>10. IsInjective(r)
    <3> DEFINE at(j) == IF j < i THEN j ELSE j + 1
    <3>1. ASSUME NEW j \in 1..(Len(q) - 1) PROVE at(j) \in 1..Len(q) /\ r[j] = q[at(j)]
      <4>1. at(j) \in 1..Len(q)
        BY <1>1
      <4>2. r[j] = q[at(j)]
        BY <2>8
      <4> QED
        BY <4>1, <4>2
    <3>2. ASSUME NEW j \in 1..(Len(q) - 1), NEW k \in 1..(Len(q) - 1), at(j) = at(k) PROVE j = k
      BY <1>1, <3>2
    <3> HIDE DEF at
    <3>3. ASSUME NEW j \in 1..(Len(q) - 1), NEW k \in 1..(Len(q) - 1), r[j] = r[k] PROVE j = k
      <4>1. at(j) \in DOMAIN q /\ at(k) \in DOMAIN q /\ q[at(j)] = q[at(k)]
        BY <1>1, <3>1, <3>3
      <4>2. at(j) = at(k)
        BY <4>1 DEF IsInjective
      <4> QED
        BY <3>2, <4>2
    <3> QED
      BY <2>9, <3>3 DEF IsInjective
  <2>11. ToSet(r) = ToSet(q) \ {e}
    <3>1. ASSUME NEW j \in 1..(Len(q) - 1) PROVE r[j] \in ToSet(q) \ {e}
      <4>1. PICK k \in 1..Len(q) : k # i /\ r[j] = q[k]
        BY <1>1, <2>8
      <4> QED
        BY <1>1, <2>1, <4>1 DEF ToSet, IsInjective
    <3>2. ASSUME NEW k \in 1..Len(q), q[k] # e PROVE q[k] \in ToSet(r)
      <4>1. CASE k < i
        <5>1. k \in 1..(Len(q) - 1) /\ r[k] = q[k]
          BY <1>1, <2>8, <4>1
        <5> QED
          BY <2>9, <5>1 DEF ToSet
      <4>2. CASE k > i
        <5>1. k - 1 \in 1..(Len(q) - 1) /\ r[k - 1] = q[k]
          BY <1>1, <2>8, <4>2
        <5> QED
          BY <2>9, <5>1 DEF ToSet
      <4> QED
        BY <1>1, <2>1, <3>2, <4>1, <4>2
    <3> QED
      BY <1>1, <2>9, <3>1, <3>2 DEF ToSet
  <2> QED
    BY <1>3, <2>8, <2>10, <2>11 DEF r
<1> QED
  BY <1>2, <1>3

\* A use puts its Secret last, once, and keeps the order of the others.
LEMMA UsedFacts ==
  ASSUME NEW q \in Seq(Secrets), IsInjective(q), NEW e \in Secrets
  PROVE  /\ Used(q, e) \in Seq(Secrets)
         /\ IsInjective(Used(q, e))
         /\ ToSet(Used(q, e)) = ToSet(q) \cup {e}
         /\ Len(Used(q, e)) = IF e \in ToSet(q) THEN Len(q) ELSE Len(q) + 1
<1> DEFINE r == RemoveFirst(q, e)
           u == Append(r, e)
<1>1. /\ r \in Seq(Secrets) /\ IsInjective(r) /\ ToSet(r) = ToSet(q) \ {e}
      /\ Len(r) = IF e \in ToSet(q) THEN Len(q) - 1 ELSE Len(q)
  BY RemoveFirstFacts
<1> HIDE DEF r
<1>2. Len(r) \in Nat /\ DOMAIN r = 1..Len(r) /\ Len(q) \in Nat
  BY <1>1, LenProperties
<1>3. /\ u \in Seq(Secrets) /\ Len(u) = Len(r) + 1 /\ u[Len(r) + 1] = e
      /\ \A i \in 1..Len(r) : u[i] = r[i]
  BY <1>1, AppendProperties
<1> HIDE DEF u
<1>4. DOMAIN u = 1..(Len(r) + 1)
  BY <1>3, LenProperties
<1>5. \A i \in 1..Len(r) : r[i] # e
  BY <1>1, <1>2 DEF ToSet
<1>6. IsInjective(u)
  <2> SUFFICES ASSUME NEW i \in DOMAIN u, NEW j \in DOMAIN u, u[i] = u[j] PROVE i = j
    BY DEF IsInjective
  <2>1. i \in 1..Len(r) \/ i = Len(r) + 1
    BY <1>2, <1>4
  <2>2. j \in 1..Len(r) \/ j = Len(r) + 1
    BY <1>2, <1>4
  <2>3. CASE i \in 1..Len(r) /\ j \in 1..Len(r)
    <3>1. r[i] = r[j]
      BY <1>3, <2>3
    <3> QED
      BY <1>1, <1>2, <2>3, <3>1 DEF IsInjective
  <2> QED
    BY <1>3, <1>5, <2>1, <2>2, <2>3
<1>7. ToSet(u) = ToSet(r) \cup {e}
  <2>1. DOMAIN u = DOMAIN r \cup {Len(r) + 1}
    BY <1>2, <1>4
  <2> QED
    BY <1>2, <1>3, <2>1 DEF ToSet
<1>8. ToSet(u) = ToSet(q) \cup {e}
  BY <1>1, <1>7
<1>9. Len(u) = IF e \in ToSet(q) THEN Len(q) ELSE Len(q) + 1
  BY <1>1, <1>2, <1>3
<1> QED
  BY <1>3, <1>6, <1>8, <1>9 DEF Used, u, r

\* Taking the head off an order without duplicates leaves one.
LEMMA TailFacts ==
  ASSUME NEW q \in Seq(Secrets), IsInjective(q), q # <<>>
  PROVE  /\ Head(q) \in Secrets /\ Head(q) \in ToSet(q)
         /\ Tail(q) \in Seq(Secrets) /\ IsInjective(Tail(q))
         /\ ToSet(Tail(q)) = ToSet(q) \ {Head(q)}
         /\ Len(Tail(q)) = Len(q) - 1
<1> DEFINE r == Tail(q)
<1>1. /\ Head(q) \in Secrets /\ r \in Seq(Secrets) /\ Len(r) = Len(q) - 1
      /\ \A i \in 1..Len(r) : r[i] = q[i + 1]
  BY HeadTailProperties
<1>2. Len(q) \in Nat \ {0} /\ DOMAIN q = 1..Len(q) /\ Head(q) = q[1]
  BY LenProperties, EmptySeq
<1> HIDE DEF r
<1>3. DOMAIN r = 1..(Len(q) - 1)
  BY <1>1, LenProperties
<1>4. IsInjective(r)
  <2>1. SUFFICES ASSUME NEW i \in 1..(Len(q) - 1), NEW j \in 1..(Len(q) - 1), r[i] = r[j]
                 PROVE  i = j
    BY <1>3 DEF IsInjective
  <2>2. i + 1 \in 1..Len(q) /\ j + 1 \in 1..Len(q) /\ q[i + 1] = q[j + 1]
    BY <1>1, <1>2, <2>1
  <2>3. i + 1 = j + 1
    BY <1>2, <2>2 DEF IsInjective
  <2> QED
    BY <2>3
<1>5. ToSet(r) = ToSet(q) \ {Head(q)}
  <2>1. ASSUME NEW i \in 1..(Len(q) - 1) PROVE r[i] \in ToSet(q) \ {Head(q)}
    <3>1. i + 1 \in 1..Len(q) /\ i + 1 # 1 /\ 1 \in 1..Len(q) /\ r[i] = q[i + 1]
      BY <1>1, <1>2
    <3> QED
      BY <1>2, <3>1 DEF ToSet, IsInjective
  <2>2. ASSUME NEW k \in 1..Len(q), q[k] # Head(q) PROVE q[k] \in ToSet(r)
    <3>1. k - 1 \in 1..(Len(q) - 1) /\ r[k - 1] = q[k]
      BY <1>1, <1>2, <2>2
    <3> QED
      BY <1>3, <3>1 DEF ToSet
  <2> QED
    BY <1>2, <1>3, <2>1, <2>2 DEF ToSet
<1>6. Head(q) \in ToSet(q)
  BY <1>2 DEF ToSet
<1> QED
  BY <1>1, <1>4, <1>5, <1>6 DEF r

\* The order of use names the cached clients, each once, and no more than fit.
Lru ==
  /\ IsInjective(recent) /\ Len(recent) <= Cap
  /\ ToSet(recent) = {s \in Secrets : Cached(s)}

\* The order that is left after the eviction.
Left(s) == IF Evict(s) = <<>> THEN recent ELSE Tail(recent)

\* An eviction makes room for a client that is not cached, takes out nothing but the
\* least recently used one, and never the Secret at hand.
LEMMA EvictFacts ==
  ASSUME TypeOK, Lru, NEW s \in Secrets
  PROVE  /\ Evict(s) \in Seq(Secrets) /\ \A t : Contains(Evict(s), t) => t # s
         /\ Left(s) \in Seq(Secrets) /\ IsInjective(Left(s))
         /\ \A t \in Secrets : t \in ToSet(Left(s)) <=> Cached(t) /\ ~Contains(Evict(s), t)
         /\ Len(Left(s)) <= Cap /\ (~Cached(s) => Len(Left(s)) < Cap)
<1>1. recent \in Seq(Secrets) /\ Len(recent) \in Nat /\ Cap \in Nat \ {0}
  BY LenProperties, ConstantsAssumption DEF TypeOK
<1>2. CASE Len(recent) >= Cap /\ ~Cached(s)
  <2>1. recent # <<>>
    BY <1>1, <1>2, EmptySeq
  <2>2. /\ Head(recent) \in Secrets /\ Head(recent) \in ToSet(recent)
        /\ Tail(recent) \in Seq(Secrets) /\ IsInjective(Tail(recent))
        /\ ToSet(Tail(recent)) = ToSet(recent) \ {Head(recent)}
        /\ Len(Tail(recent)) = Len(recent) - 1
    BY <1>1, <2>1, TailFacts DEF Lru
  <2>3. Evict(s) = <<Head(recent)>> /\ Evict(s) # <<>>
    BY <1>2 DEF Evict
  <2>4. Left(s) = Tail(recent)
    BY <2>3 DEF Left
  <2>5. \A t : Contains(Evict(s), t) <=> t = Head(recent)
    BY <2>3 DEF Contains
  <2>6. Evict(s) \in Seq(Secrets)
    BY <2>2, <2>3
  <2> QED
    BY <1>1, <1>2, <2>2, <2>4, <2>5, <2>6 DEF Lru
<1>3. CASE ~(Len(recent) >= Cap /\ ~Cached(s))
  <2>1. Evict(s) = <<>> /\ Left(s) = recent
    BY <1>3 DEF Evict, Left
  <2>2. \A t : ~Contains(Evict(s), t)
    BY <2>1 DEF Contains
  <2>3. Evict(s) \in Seq(Secrets)
    BY <2>1, EmptySeq
  <2> QED
    BY <1>1, <1>3, <2>1, <2>2, <2>3 DEF Lru
<1> QED
  BY <1>2, <1>3

\* The values that results, tasks and clients are made of.
LEMMA ValueFacts ==
  /\ Idle \in Tasks /\ Idle.pc = "idle" /\ NoClient \in Clients
  /\ \A v \in Versions, k \in Keys :
       [version |-> v, key |-> k] \in Clients /\ [version |-> v, key |-> k] # NoClient
  /\ \A kind \in {"none", "error", "management", "child"}, c \in Clients :
       Returns(kind, c) \in Results
<1>1. 0 \in Versions
  BY ConstantsAssumption DEF Versions
<1>2. Idle \in Tasks /\ Idle.pc = "idle"
  BY <1>1, EmptySeq DEF Idle, Tasks
<1> QED
  BY <1>1, <1>2, ConstantsAssumption DEF NoClient, Clients, Returns, Results

\* The end of a resolve keeps the types.
LEMMA ReturnTypes ==
  ASSUME TypeOK, NEW m \in Machines, NEW kind \in {"error", "management", "child"},
         NEW client \in Clients, Return(m, kind, client)
  PROVE  /\ task' \in [Machines -> Tasks] /\ result' \in [Machines -> Results]
         /\ task' = [task EXCEPT ![m] = Idle]
<1>1. Returns(kind, client) \in Results /\ Idle \in Tasks
  BY ValueFacts
<1> QED
  BY <1>1 DEF TypeOK, Return

\* What building a client does to the cache, the order and the resolve.
LEMMA InsertFacts ==
  ASSUME TypeOK, Lru, NEW m \in Machines, InsertClient(m), spec[m].key \in task[m].good
  PROVE  LET s == spec[m].secret IN
         /\ s \in Secrets /\ cache' \in [Secrets -> Clients]
         /\ cache'[s] = [version |-> task[m].version, key |-> spec[m].key]
         /\ cache'[s] # NoClient
         /\ \A t \in Secrets \ {s} :
              cache'[t] = IF Contains(Evict(s), t) THEN NoClient ELSE cache[t]
         /\ recent' = Used(Left(s), s)
         /\ Evict(s) \o Replaced(s) \in Seq(Secrets)
         /\ \A t \in Secrets \ {s} :
              Contains(Evict(s) \o Replaced(s), t) <=> Contains(Evict(s), t)
         /\ task' = [task EXCEPT ![m] = [task[m] EXCEPT !.pc = "hooks",
                                           !.victims = Evict(s) \o Replaced(s)]]
<1> DEFINE s == spec[m].secret
           new == [version |-> task[m].version, key |-> spec[m].key]
           out == Evict(s)
<1>1. s \in Secrets /\ new \in Clients /\ new # NoClient
  BY ValueFacts DEF TypeOK, Specs, Tasks
<1>2. /\ cache' = [t \in Secrets |-> CASE t = s                      -> new
                                       [] t # s /\ Contains(out, t)  -> NoClient
                                       [] OTHER                      -> cache[t]]
      /\ recent' = Used(Left(s), s)
      /\ task' = [task EXCEPT ![m].pc = "hooks", ![m].victims = out \o Replaced(s)]
  BY DEF InsertClient, Left
<1>3. out \in Seq(Secrets) /\ \A t : Contains(out, t) => t # s
  BY <1>1, EvictFacts
<1>4. Replaced(s) \in Seq(Secrets) /\ (Replaced(s) = <<>> \/ Replaced(s) = <<s>>)
  BY <1>1, EmptySeq DEF Replaced
<1> HIDE DEF out, s, new
<1>5. cache'[s] = new
  BY <1>1, <1>2
<1>6. \A t \in Secrets \ {s} : cache'[t] = IF Contains(out, t) THEN NoClient ELSE cache[t]
  BY <1>2
<1>7. cache' \in [Secrets -> Clients]
  <2>1. \A t \in Secrets : cache'[t] \in Clients
    BY <1>1, <1>5, <1>6, ValueFacts DEF TypeOK
  <2> QED
    BY <1>2, <2>1
<1> DEFINE rep == Replaced(s)
<1>8. /\ out \o rep \in Seq(Secrets) /\ Len(out \o rep) = Len(out) + Len(rep)
      /\ \A i \in 1..(Len(out) + Len(rep)) :
           (out \o rep)[i] = IF i <= Len(out) THEN out[i] ELSE rep[i - Len(out)]
      /\ Len(out) \in Nat /\ Len(rep) \in Nat
  BY <1>3, <1>4, ConcatProperties, LenProperties
<1>9. \A i \in 1..Len(rep) : rep[i] = s
  BY <1>4
<1>10. ASSUME NEW t \in Secrets \ {s} PROVE Contains(out \o rep, t) <=> Contains(out, t)
  <2> HIDE DEF rep
  <2>1. ASSUME NEW i \in 1..Len(out), out[i] = t PROVE Contains(out \o rep, t)
    <3>1. i \in 1..(Len(out) + Len(rep)) /\ (out \o rep)[i] = t
      BY <1>8, <2>1
    <3> QED
      BY <1>8, <3>1 DEF Contains
  <2>2. ASSUME NEW i \in 1..Len(out \o rep), (out \o rep)[i] = t PROVE Contains(out, t)
    <3>1. CASE i <= Len(out)
      BY <1>8, <2>2, <3>1 DEF Contains
    <3>2. CASE ~(i <= Len(out))
      BY <1>8, <1>9, <2>2, <3>2
    <3> QED
      BY <3>1, <3>2
  <2> QED
    BY <2>1, <2>2 DEF Contains
<1> QED
  BY <1>1, <1>2, <1>5, <1>6, <1>7, <1>8, <1>10 DEF s, out, new

\* What a resolve that goes on makes of its task.
LEMMA TaskFacts ==
  ASSUME TypeOK, NEW m \in Machines, NEW v \in Seq(Secrets)
  PROVE  /\ [task[m] EXCEPT !.pc = "build"] \in Tasks
         /\ [task[m] EXCEPT !.pc = "hooks", !.victims = v] \in Tasks
         /\ [task[m] EXCEPT !.victims = v] \in Tasks
<1>1. task[m] \in Tasks
  BY DEF TypeOK
<1> QED
  BY <1>1 DEF Tasks

\* The types and the order of use hold together: an eviction is typed because the order
\* is right, and the order stays right because it is typed.
LEMMA LruHolds == Spec => [](TypeOK /\ Lru)
<1>1. Init => TypeOK /\ Lru
  <2> SUFFICES ASSUME Init PROVE TypeOK /\ Lru
    OBVIOUS
  <2>1. 0 \in Versions /\ 1 \in Versions /\ Cap \in Nat
    BY ConstantsAssumption DEF Versions
  <2>2. /\ cache \in [Secrets -> Clients] /\ watcher \in [Secrets -> Clients]
        /\ task \in [Machines -> Tasks] /\ result \in [Machines -> Results]
    BY ValueFacts DEF Init
  <2>3. TypeOK
    BY <2>1, <2>2, EmptySeq DEF Init, TypeOK, Payloads
  <2>4. Lru
    BY <2>1, EmptySeq DEF Init, Lru, Cached, IsInjective, ToSet
  <2> QED
    BY <2>3, <2>4
<1>2. TypeOK /\ Lru /\ [Next]_vars => TypeOK' /\ Lru'
  <2> SUFFICES ASSUME TypeOK, Lru, [Next]_vars PROVE TypeOK' /\ Lru'
    OBVIOUS
  <2>1. ASSUME UNCHANGED <<cache, recent>> PROVE Lru'
    BY <2>1 DEF Lru, Cached
  <2>2. ASSUME NEW m \in Machines, GetSecret(m) PROVE TypeOK' /\ Lru'
    <3> DEFINE s == secret[spec[m].secret]
    <3>1. s \in Payloads /\ s.version \in Versions /\ s.good \in SUBSET Keys
      BY DEF TypeOK, Specs, Payloads
    <3>2. UNCHANGED <<spec, secret, cache, recent, watcher, crossed>>
      BY <2>2 DEF GetSecret
    <3>3. task' \in [Machines -> Tasks] /\ result' \in [Machines -> Results]
      <4>1. CASE \E kind \in {"error", "management"} : Return(m, kind, NoClient)
        BY <4>1, ValueFacts, ReturnTypes
      <4>2. CASE /\ result' = [result EXCEPT ![m] = Returns("none", NoClient)]
                 /\ task' = [task EXCEPT ![m] = [Idle EXCEPT !.pc = "look", !.version = s.version,
                                                             !.good = s.good]]
        <5>1. /\ [Idle EXCEPT !.pc = "look", !.version = s.version, !.good = s.good] \in Tasks
              /\ Returns("none", NoClient) \in Results
          BY <3>1, ValueFacts DEF Tasks
        <5> QED
          BY <4>2, <5>1 DEF TypeOK
      <4> QED
        BY <2>2, <4>1, <4>2 DEF GetSecret
    <3> QED
      BY <2>1, <3>2, <3>3 DEF TypeOK
  <2>3. ASSUME NEW m \in Machines, LookUp(m) PROVE TypeOK' /\ Lru'
    <3>1. UNCHANGED <<spec, secret, cache, watcher, crossed>>
      BY <2>3 DEF LookUp
    <3>2. CASE Hit(m)
      <4> DEFINE s == spec[m].secret
      <4>1. recent' = Used(recent, s) /\ Return(m, "child", cache[s]) /\ Cached(s)
        BY <2>3, <3>2 DEF LookUp, Hit
      <4>2. s \in Secrets /\ cache[s] \in Clients /\ recent \in Seq(Secrets)
        BY DEF TypeOK, Specs
      <4> HIDE DEF s
      <4>3. s \in ToSet(recent)
        BY <4>1, <4>2 DEF Lru
      <4>4. /\ recent' \in Seq(Secrets) /\ IsInjective(recent') /\ Len(recent') = Len(recent)
            /\ ToSet(recent') = ToSet(recent)
        BY <4>1, <4>2, <4>3, UsedFacts DEF Lru
      <4>5. task' \in [Machines -> Tasks] /\ result' \in [Machines -> Results]
        BY <4>1, <4>2, ReturnTypes
      <4>6. Lru'
        BY <3>1, <4>4 DEF Lru, Cached
      <4> QED
        BY <3>1, <4>4, <4>5, <4>6 DEF TypeOK
    <3>3. CASE ~Hit(m)
      <4>1. task' = [task EXCEPT ![m].pc = "build"] /\ UNCHANGED <<recent, result>>
        BY <2>3, <3>3 DEF LookUp
      <4>2. task' \in [Machines -> Tasks]
        <5>1. task' = [task EXCEPT ![m] = [task[m] EXCEPT !.pc = "build"]]
          BY <4>1
        <5>2. [task[m] EXCEPT !.pc = "build"] \in Tasks
          BY EmptySeq, TaskFacts
        <5> QED
          BY <5>1, <5>2 DEF TypeOK
      <4> QED
        BY <2>1, <3>1, <4>1, <4>2 DEF TypeOK
    <3> QED
      BY <3>2, <3>3
  <2>4. ASSUME NEW m \in Machines, InsertClient(m) PROVE TypeOK' /\ Lru'
    <3>1. UNCHANGED <<spec, secret, watcher>>
      BY <2>4 DEF InsertClient
    <3>2. CASE spec[m].key \notin task[m].good
      <4>1. Return(m, "error", NoClient) /\ UNCHANGED <<cache, recent, crossed>>
        BY <2>4, <3>2 DEF InsertClient
      <4>2. task' \in [Machines -> Tasks] /\ result' \in [Machines -> Results]
        BY <4>1, ValueFacts, ReturnTypes
      <4> QED
        BY <2>1, <3>1, <4>1, <4>2 DEF TypeOK
    <3>3. CASE spec[m].key \in task[m].good
      <4> DEFINE s == spec[m].secret
                 v == Evict(s) \o Replaced(s)
      <4>1. /\ s \in Secrets /\ cache' \in [Secrets -> Clients] /\ cache'[s] # NoClient
            /\ \A t \in Secrets \ {s} :
                 cache'[t] = IF Contains(Evict(s), t) THEN NoClient ELSE cache[t]
            /\ recent' = Used(Left(s), s) /\ v \in Seq(Secrets)
            /\ task' = [task EXCEPT ![m] = [task[m] EXCEPT !.pc = "hooks", !.victims = v]]
        BY <2>4, <3>3, InsertFacts
      <4>2. UNCHANGED result /\ crossed' \in BOOLEAN
        BY <2>4, <3>3 DEF InsertClient, TypeOK
      <4> HIDE DEF s, v
      <4>3. /\ Left(s) \in Seq(Secrets) /\ IsInjective(Left(s))
            /\ \A t \in Secrets : t \in ToSet(Left(s)) <=> Cached(t) /\ ~Contains(Evict(s), t)
            /\ Len(Left(s)) <= Cap /\ (~Cached(s) => Len(Left(s)) < Cap)
            /\ \A t : Contains(Evict(s), t) => t # s
        BY <4>1, EvictFacts
      <4>4. /\ recent' \in Seq(Secrets) /\ IsInjective(recent')
            /\ ToSet(recent') = ToSet(Left(s)) \cup {s}
            /\ Len(recent') = IF s \in ToSet(Left(s)) THEN Len(Left(s)) ELSE Len(Left(s)) + 1
        BY <4>1, <4>3, UsedFacts
      <4>5. Len(recent') <= Cap
        <5>1. Len(Left(s)) \in Nat /\ Cap \in Nat
          BY <4>3, LenProperties, ConstantsAssumption
        <5> QED
          BY <4>1, <4>3, <4>4, <5>1
      <4>6. \A t \in ToSet(Left(s)) : t \in Secrets
        <5>1. DOMAIN Left(s) = 1..Len(Left(s)) /\ \A i \in 1..Len(Left(s)) : Left(s)[i] \in Secrets
          BY <4>3, LenProperties, ElementOfSeq
        <5> QED
          BY <5>1 DEF ToSet
      <4>7. ToSet(recent') = {t \in Secrets : cache'[t] # NoClient}
        BY <4>1, <4>3, <4>4, <4>6 DEF Cached
      <4>8. task' \in [Machines -> Tasks]
        <5>1. [task[m] EXCEPT !.pc = "hooks", !.victims = v] \in Tasks
          BY <4>1, TaskFacts
        <5> QED
          BY <4>1, <5>1 DEF TypeOK
      <4> QED
        BY <3>1, <4>1, <4>2, <4>4, <4>5, <4>7, <4>8 DEF TypeOK, Lru, Cached
    <3> QED
      BY <3>2, <3>3
  <2>5. ASSUME NEW m \in Machines, CancelWatcher(m) PROVE TypeOK' /\ Lru'
    <3>1. /\ watcher' = [watcher EXCEPT ![Head(task[m].victims)] = NoClient]
          /\ task' = [task EXCEPT ![m].victims = Tail(@)]
          /\ task[m].victims # <<>> /\ task[m].victims \in Seq(Secrets)
          /\ UNCHANGED <<spec, secret, cache, recent, result, crossed>>
      BY <2>5 DEF CancelWatcher, TypeOK, Tasks
    <3>2. Head(task[m].victims) \in Secrets /\ Tail(task[m].victims) \in Seq(Secrets)
      BY <3>1, HeadTailProperties
    <3>3. watcher' \in [Secrets -> Clients]
      BY <3>1, <3>2, ValueFacts DEF TypeOK
    <3>4. task' \in [Machines -> Tasks]
      <4>1. task' = [task EXCEPT ![m] = [task[m] EXCEPT !.victims = Tail(task[m].victims)]]
        BY <3>1
      <4>2. [task[m] EXCEPT !.victims = Tail(task[m].victims)] \in Tasks
        BY <3>2, TaskFacts
      <4> QED
        BY <4>1, <4>2 DEF TypeOK
    <3> QED
      BY <2>1, <3>1, <3>3, <3>4 DEF TypeOK
  <2>6. ASSUME NEW m \in Machines, StartWatcher(m) PROVE TypeOK' /\ Lru'
    <3> DEFINE c == [version |-> task[m].version, key |-> spec[m].key]
    <3>1. /\ watcher' = [watcher EXCEPT ![spec[m].secret] = c] /\ Return(m, "child", c)
          /\ UNCHANGED <<spec, secret, cache, recent, crossed>>
      BY <2>6 DEF StartWatcher
    <3>2. c \in Clients /\ spec[m].secret \in Secrets
      BY ValueFacts DEF TypeOK, Specs, Tasks
    <3> HIDE DEF c
    <3>3. task' \in [Machines -> Tasks] /\ result' \in [Machines -> Results]
      BY <3>1, <3>2, ReturnTypes
    <3>4. watcher' \in [Secrets -> Clients]
      BY <3>1, <3>2 DEF TypeOK
    <3> QED
      BY <2>1, <3>1, <3>3, <3>4 DEF TypeOK
  <2>7. ASSUME NEW s \in Secrets, ChangeSecret(s) PROVE TypeOK' /\ Lru'
    <3>1. PICK x \in BOOLEAN, g \in SUBSET Keys :
            secret' = [secret EXCEPT ![s] =
                         [version |-> secret[s].version + 1, there |-> x, good |-> g]]
      BY <2>7 DEF ChangeSecret
    <3>2. secret[s].version + 1 \in Versions
      BY <2>7, ConstantsAssumption DEF ChangeSecret, TypeOK, Versions, Payloads
    <3>3. secret' \in [Secrets -> Payloads]
      BY <3>1, <3>2 DEF TypeOK, Payloads
    <3> QED
      BY <2>1, <2>7, <3>3 DEF ChangeSecret, TypeOK
  <2>8. ASSUME NEW m \in Machines, Edit(m) PROVE TypeOK' /\ Lru'
    <3>1. spec' \in [Machines -> Specs]
      BY <2>8 DEF Edit, TypeOK
    <3>2. result' \in [Machines -> Results]
      <4>1. 0 \in Versions /\ Returns("none", NoClient) \in Results
        BY ValueFacts, ConstantsAssumption DEF Versions
      <4> QED
        BY <2>8, <4>1 DEF Edit, TypeOK
    <3> QED
      BY <2>1, <2>8, <3>1, <3>2 DEF Edit, TypeOK
  <2>9. CASE UNCHANGED vars
    BY <2>1, <2>9 DEF vars, TypeOK
  <2> QED
    BY <2>2, <2>3, <2>4, <2>5, <2>6, <2>7, <2>8, <2>9 DEF Next, Resolve
<1> QED
  BY <1>1, <1>2, PTL DEF Spec

\* The cache of build_or_get_cached never holds more than CHILD_CLIENT_CACHE_CAP
\* clients, and the order of use is exactly that of the clients it holds, for any
\* number of resolves that look up, insert and evict between each other's steps.
THEOREM CacheBoundedHolds == Spec => []CacheBounded
<1>1. TypeOK /\ Lru => CacheBounded
  <2> SUFFICES ASSUME TypeOK, Lru PROVE Cardinality({s \in Secrets : Cached(s)}) <= Cap
    BY DEF CacheBounded, Lru
  <2> DEFINE C == {s \in Secrets : Cached(s)}
  <2>1. Len(recent) \in Nat /\ DOMAIN recent = 1..Len(recent) /\ recent \in [1..Len(recent) -> Secrets]
    BY LenProperties DEF TypeOK
  <2>2. ToSet(recent) = C
    BY DEF Lru
  <2> HIDE DEF C
  <2>3. recent \in Surjection(1..Len(recent), C)
    BY <2>1, <2>2 DEF Surjection, ToSet
  <2>4. IsFiniteSet(1..Len(recent)) /\ Cardinality(1..Len(recent)) = Len(recent)
    <3> DEFINE n == Len(recent)
    <3>1. n \in Nat
      BY <2>1
    <3> HIDE DEF n
    <3>2. 1 \in Int /\ n \in Int
      BY <3>1
    <3>3. IsFiniteSet(1..n) /\ Cardinality(1..n) = IF 1 > n THEN 0 ELSE n - 1 + 1
      BY <3>2, FS_Interval
    <3>4. IsFiniteSet(1..n) /\ Cardinality(1..n) = n
      BY <3>1, <3>3
    <3> QED
      BY <3>4 DEF n
  <2>5. IsFiniteSet(C) /\ Cardinality(C) <= Len(recent)
    BY <2>3, <2>4, FS_Surjection
  <2>6. Cardinality(C) \in Nat /\ Cap \in Nat /\ Len(recent) <= Cap
    BY <2>5, FS_CardinalityType, ConstantsAssumption DEF Lru
  <2> QED
    BY <2>1, <2>5, <2>6 DEF C
<1> QED
  BY <1>1, LruHolds, PTL

(***************************************************************************)
(* The watchers                                                            *)
(***************************************************************************)
InHooks(m) == task[m].pc = "hooks"

\* The client a resolve has built.
Built(m) == [version |-> task[m].version, key |-> spec[m].key]

\* What a resolve in its hooks has yet to do is all that watchers and cache differ in:
\* victims are out of the cache, or are replaced; all other watchers are right.
OwesHooks(m) ==
  /\ cache[spec[m].secret] = Built(m)
  /\ \A t \in Secrets \ {spec[m].secret} :
       IF Contains(task[m].victims, t) THEN cache[t] = NoClient ELSE watcher[t] = cache[t]

\* Unless two resolves crossed, at most one owes its hooks, and nothing else is open.
HooksSettle ==
  ~crossed =>
    /\ (\A m \in Machines : ~InHooks(m)) => watcher = cache
    /\ \A m \in Machines : InHooks(m) =>
         (\A n \in Machines \ {m} : ~InHooks(n)) /\ OwesHooks(m)

\* A resolve that neither comes from its hooks nor goes there changes nothing of this.
LEMMA OutsideHooks ==
  ASSUME TypeOK, HooksSettle, NEW m \in Machines, NEW t, t.pc # "hooks", ~InHooks(m),
         task' = [task EXCEPT ![m] = t], UNCHANGED <<spec, cache, watcher, crossed>>
  PROVE  HooksSettle'
<1>1. DOMAIN task = Machines
  BY DEF TypeOK
<1>2. \A n \in Machines : n # m => task'[n] = task[n]
  BY <1>1
<1>3. ~InHooks(m)'
  BY <1>1 DEF InHooks
<1>4. \A n \in Machines : InHooks(n)' <=> InHooks(n)
  BY <1>2, <1>3 DEF InHooks
<1>5. \A n \in Machines : InHooks(n) => (OwesHooks(n)' <=> OwesHooks(n))
  BY <1>2 DEF InHooks, OwesHooks, Built
<1> QED
  BY <1>4, <1>5 DEF HooksSettle

\* Resolves settle their debts to the watchers one at a time.
LEMMA HooksSettleHolds == Spec => []HooksSettle
<1>1. Init => HooksSettle
  BY ValueFacts DEF Init, HooksSettle, InHooks
<1>2. TypeOK /\ Lru /\ HooksSettle /\ [Next]_vars => HooksSettle'
  <2> SUFFICES ASSUME TypeOK, Lru, HooksSettle, [Next]_vars PROVE HooksSettle'
    OBVIOUS
  <2>1. DOMAIN task = Machines /\ DOMAIN spec = Machines
    BY DEF TypeOK
  <2>2. ASSUME NEW m \in Machines, NEW kind, NEW c, ~InHooks(m), Return(m, kind, c),
               UNCHANGED <<spec, cache, watcher, crossed>>
        PROVE  HooksSettle'
    <3>1. task' = [task EXCEPT ![m] = Idle] /\ Idle.pc # "hooks"
      BY <2>2, ValueFacts DEF Return
    <3> QED
      BY <2>2, <3>1, OutsideHooks
  <2>3. ASSUME NEW m \in Machines, GetSecret(m) PROVE HooksSettle'
    <3>1. ~InHooks(m) /\ UNCHANGED <<spec, cache, watcher, crossed>>
      BY <2>3 DEF GetSecret, InHooks
    <3>2. CASE \E kind \in {"error", "management"} : Return(m, kind, NoClient)
      BY <2>2, <3>1, <3>2
    <3>3. CASE ~\E kind \in {"error", "management"} : Return(m, kind, NoClient)
      <4> DEFINE t == [Idle EXCEPT !.pc = "look", !.version = secret[spec[m].secret].version,
                                   !.good = secret[spec[m].secret].good]
      <4>1. task' = [task EXCEPT ![m] = t]
        BY <2>3, <3>3 DEF GetSecret
      <4>2. t.pc # "hooks"
        BY DEF Idle
      <4> HIDE DEF t
      <4> QED
        BY <3>1, <4>1, <4>2, OutsideHooks
    <3> QED
      BY <3>2, <3>3
  <2>4. ASSUME NEW m \in Machines, LookUp(m) PROVE HooksSettle'
    <3>1. ~InHooks(m) /\ UNCHANGED <<spec, cache, watcher, crossed>>
      BY <2>4 DEF LookUp, InHooks
    <3>2. CASE Hit(m)
      <4>1. Return(m, "child", cache[spec[m].secret])
        BY <2>4, <3>2 DEF LookUp
      <4> QED
        BY <2>2, <3>1, <4>1
    <3>3. CASE ~Hit(m)
      <4> DEFINE t == [task[m] EXCEPT !.pc = "build"]
      <4>1. task' = [task EXCEPT ![m] = t]
        BY <2>4, <3>3 DEF LookUp
      <4>2. t.pc # "hooks"
        BY DEF TypeOK, Tasks
      <4> HIDE DEF t
      <4> QED
        BY <3>1, <4>1, <4>2, OutsideHooks
    <3> QED
      BY <3>2, <3>3
  <2>5. ASSUME NEW m \in Machines, InsertClient(m) PROVE HooksSettle'
    <3>1. ~InHooks(m) /\ UNCHANGED <<spec, watcher>>
      BY <2>5 DEF InsertClient, InHooks
    <3>2. CASE spec[m].key \notin task[m].good
      <4>1. Return(m, "error", NoClient) /\ UNCHANGED <<cache, crossed>>
        BY <2>5, <3>2 DEF InsertClient
      <4> QED
        BY <2>2, <3>1, <4>1
    <3>3. CASE spec[m].key \in task[m].good
      <4>1. SUFFICES ASSUME ~crossed' PROVE HooksSettle'
        BY DEF HooksSettle
      <4>2. ~crossed /\ \A n \in Machines \ {m} : ~InHooks(n)
        BY <2>5, <3>3, <4>1 DEF InsertClient, InHooks
      <4>3. watcher = cache
        BY <3>1, <4>2 DEF HooksSettle
      <4> DEFINE s == spec[m].secret
                 v == Evict(s) \o Replaced(s)
                 t == [task[m] EXCEPT !.pc = "hooks", !.victims = v]
      <4>4. /\ cache'[s] = Built(m)
            /\ \A x \in Secrets \ {s} :
                 cache'[x] = IF Contains(Evict(s), x) THEN NoClient ELSE cache[x]
            /\ \A x \in Secrets \ {s} : Contains(v, x) <=> Contains(Evict(s), x)
            /\ task' = [task EXCEPT ![m] = t]
        BY <2>5, <3>3, InsertFacts DEF Built
      <4> HIDE DEF v
      <4>5. task'[m] = t /\ t.pc = "hooks" /\ t.victims = v /\ t.version = task[m].version
        BY <2>1, <4>4 DEF TypeOK, Tasks
      <4> HIDE DEF t
      <4>6. InHooks(m)' /\ \A n \in Machines \ {m} : ~InHooks(n)'
        BY <2>1, <4>2, <4>4, <4>5 DEF InHooks
      <4>7. OwesHooks(m)'
        <5>1. (spec[m].secret)' = s /\ (task[m].victims)' = v /\ Built(m)' = Built(m)
          BY <3>1, <4>5 DEF Built
        <5>2. cache'[s] = Built(m)'
          BY <4>4, <5>1
        <5>3. ASSUME NEW x \in Secrets \ {s}
              PROVE  IF Contains(v, x) THEN cache'[x] = NoClient ELSE watcher'[x] = cache'[x]
          BY <3>1, <4>3, <4>4, <5>3
        <5> QED
          BY <5>1, <5>2, <5>3 DEF OwesHooks
      <4> QED
        BY <4>6, <4>7 DEF HooksSettle
    <3> QED
      BY <3>2, <3>3
  <2>6. ASSUME NEW m \in Machines, CancelWatcher(m) PROVE HooksSettle'
    <3> DEFINE v == task[m].victims
    <3>1. /\ InHooks(m) /\ v # <<>> /\ v \in Seq(Secrets)
          /\ watcher' = [watcher EXCEPT ![Head(v)] = NoClient]
          /\ task' = [task EXCEPT ![m] = [task[m] EXCEPT !.victims = Tail(v)]]
          /\ UNCHANGED <<spec, cache, crossed>>
      BY <2>6 DEF CancelWatcher, InHooks, TypeOK, Tasks
    <3>2. SUFFICES ASSUME ~crossed PROVE HooksSettle'
      BY <3>1 DEF HooksSettle
    <3>3. OwesHooks(m) /\ \A n \in Machines \ {m} : ~InHooks(n)
      BY <3>1, <3>2 DEF HooksSettle
    <3>4. /\ task'[m].pc = "hooks" /\ task'[m].victims = Tail(v)
          /\ task'[m].version = task[m].version
          /\ \A n \in Machines \ {m} : task'[n] = task[n]
      BY <2>1, <3>1 DEF InHooks, TypeOK, Tasks
    <3>5. InHooks(m)' /\ \A n \in Machines \ {m} : ~InHooks(n)'
      BY <3>3, <3>4 DEF InHooks
    <3>6. \A x \in Secrets : Contains(v, x) <=> x = Head(v) \/ Contains(Tail(v), x)
      <4> HIDE DEF v
      <4>1. /\ Len(v) \in Nat \ {0} /\ Head(v) = v[1] /\ Len(Tail(v)) = Len(v) - 1
            /\ \A i \in 1..Len(Tail(v)) : Tail(v)[i] = v[i + 1]
        BY <3>1, HeadTailProperties, EmptySeq
      <4>2. ASSUME NEW x \in Secrets, NEW i \in 1..Len(v), v[i] = x
            PROVE  x = Head(v) \/ Contains(Tail(v), x)
        <5>1. i = 1 \/ (i - 1 \in 1..Len(Tail(v)) /\ Tail(v)[i - 1] = v[i])
          BY <4>1
        <5> QED
          BY <4>1, <4>2, <5>1 DEF Contains
      <4>3. ASSUME NEW x \in Secrets, NEW i \in 1..Len(Tail(v)), Tail(v)[i] = x
            PROVE  Contains(v, x)
        <5>1. i + 1 \in 1..Len(v) /\ v[i + 1] = x
          BY <4>1, <4>3
        <5> QED
          BY <5>1 DEF Contains
      <4>4. Contains(v, Head(v))
        BY <4>1 DEF Contains
      <4>5. ASSUME NEW x \in Secrets, Contains(v, x) PROVE x = Head(v) \/ Contains(Tail(v), x)
        BY <4>2, <4>5 DEF Contains
      <4>6. ASSUME NEW x \in Secrets, Contains(Tail(v), x) PROVE Contains(v, x)
        BY <4>3, <4>6 DEF Contains
      <4> QED
        BY <4>4, <4>5, <4>6
    <3>7. OwesHooks(m)'
      <4>1. cache'[spec'[m].secret] = Built(m)'
        BY <3>1, <3>3, <3>4 DEF OwesHooks, Built
      <4>2. ASSUME NEW x \in Secrets \ {spec[m].secret}
            PROVE  IF Contains(Tail(v), x) THEN cache[x] = NoClient ELSE watcher'[x] = cache[x]
        <5>1. IF Contains(v, x) THEN cache[x] = NoClient ELSE watcher[x] = cache[x]
          BY <3>3 DEF OwesHooks
        <5>2. watcher'[x] = IF x = Head(v) THEN NoClient ELSE watcher[x]
          BY <3>1 DEF TypeOK
        <5> QED
          BY <3>6, <5>1, <5>2
      <4> QED
        BY <3>1, <3>4, <4>1, <4>2 DEF OwesHooks
    <3> QED
      BY <3>5, <3>7 DEF HooksSettle
  <2>7. ASSUME NEW m \in Machines, StartWatcher(m) PROVE HooksSettle'
    <3>1. /\ InHooks(m) /\ task[m].victims = <<>>
          /\ watcher' = [watcher EXCEPT ![spec[m].secret] = Built(m)]
          /\ task' = [task EXCEPT ![m] = Idle]
          /\ UNCHANGED <<spec, cache, crossed>>
      BY <2>7 DEF StartWatcher, Return, InHooks, Built
    <3>2. SUFFICES ASSUME ~crossed PROVE HooksSettle'
      BY <3>1 DEF HooksSettle
    <3>3. OwesHooks(m) /\ \A n \in Machines \ {m} : ~InHooks(n)
      BY <3>1, <3>2 DEF HooksSettle
    <3>4. \A n \in Machines : ~InHooks(n)'
      BY <2>1, <3>1, <3>3, ValueFacts DEF InHooks
    <3>5. \A x : ~Contains(task[m].victims, x)
      BY <3>1 DEF Contains
    <3>6. \A x \in Secrets : watcher'[x] = cache[x]
      BY <3>1, <3>3, <3>5 DEF OwesHooks, TypeOK
    <3>7. watcher' = cache'
      BY <3>1, <3>6 DEF TypeOK
    <3> QED
      BY <3>4, <3>7 DEF HooksSettle
  <2>8. ASSUME NEW m \in Machines, Edit(m) PROVE HooksSettle'
    <3>1. PICK x \in Specs : spec' = [spec EXCEPT ![m] = x]
      BY <2>8 DEF Edit
    <3>2. ~InHooks(m) /\ UNCHANGED <<cache, watcher, task, crossed>>
      BY <2>8 DEF Edit, InHooks
    <3>3. \A n \in Machines : n # m => spec'[n] = spec[n]
      BY <2>1, <3>1
    <3>4. \A n \in Machines : InHooks(n) => (OwesHooks(n)' <=> OwesHooks(n))
      BY <3>2, <3>3 DEF InHooks, OwesHooks, Built
    <3>5. \A n \in Machines : InHooks(n)' <=> InHooks(n)
      BY <3>2 DEF InHooks
    <3> QED
      BY <3>2, <3>4, <3>5 DEF HooksSettle
  <2>9. CASE UNCHANGED vars \/ \E s \in Secrets : ChangeSecret(s)
    <3>1. UNCHANGED <<spec, cache, watcher, task, crossed>>
      BY <2>9 DEF vars, ChangeSecret
    <3> QED
      BY <3>1 DEF HooksSettle, InHooks, OwesHooks, Built
  <2> QED
    BY <2>3, <2>4, <2>5, <2>6, <2>7, <2>8, <2>9 DEF Next, Resolve
<1> QED
  BY <1>1, <1>2, LruHolds, PTL DEF Spec

\* Once on_child_evicted and on_child_resolved have run, every cached client has the
\* one watcher that runs with it and no other client has any, unless two resolves
\* changed the cache at the same time.
THEOREM WatchersFollowClientsHolds == Spec => []WatchersFollowClients
<1>1. HooksSettle => WatchersFollowClients
  BY DEF HooksSettle, WatchersFollowClients, InHooks
<1> QED
  BY <1>1, HooksSettleHolds, PTL

(***************************************************************************)
(* Clients are built from what was read                                    *)
(***************************************************************************)
\* A resolve that has read its Secret.
Reads(m, s) == task[m].pc # "idle" /\ spec[m].secret = s

\* The keys a client may have.
AnyKey == Keys \cup {"none"}

\* Who takes key k of version v of Secret s to be good: the API server, the cache, a
\* resolve.
HeldGood(s, v, k) ==
  \/ secret[s].version = v /\ k \in secret[s].good
  \/ Cached(s) /\ cache[s].version = v /\ cache[s].key = k
  \/ \E m \in Machines : Reads(m, s) /\ task[m].version = v /\ k \in task[m].good

\* Who takes it not to be.
HeldBad(s, v, k) ==
  \/ secret[s].version = v /\ k \notin secret[s].good
  \/ \E m \in Machines : Reads(m, s) /\ task[m].version = v /\ k \notin task[m].good

\* No two disagree about a key of a version, and nobody is ahead of the API server.
Agreed ==
  \A s \in Secrets, v \in Versions, k \in AnyKey :
    /\ ~(HeldGood(s, v, k) /\ HeldBad(s, v, k))
    /\ HeldGood(s, v, k) \/ HeldBad(s, v, k) => v <= secret[s].version

\* Only a client that could be built has hooks to run, and nothing is left of a resolve
\* that has ended.
SoundTasks ==
  \A m \in Machines :
    /\ task[m].pc = "hooks" => spec[m].key \in task[m].good
    /\ task[m].pc = "idle" => task[m] = Idle

\* Nobody holds what was not held before: the agreement stands.
LEMMA AgreedKept ==
  ASSUME Agreed, UNCHANGED secret,
         \A s \in Secrets, v \in Versions, k \in AnyKey :
           (HeldGood(s, v, k)' => HeldGood(s, v, k)) /\ (HeldBad(s, v, k)' => HeldBad(s, v, k))
  PROVE  Agreed'
<1> SUFFICES ASSUME NEW s \in Secrets, NEW v \in Versions, NEW k \in AnyKey
             PROVE  /\ ~(HeldGood(s, v, k)' /\ HeldBad(s, v, k)')
                    /\ HeldGood(s, v, k)' \/ HeldBad(s, v, k)' => v <= secret'[s].version
  BY DEF Agreed
<1> QED
  BY DEF Agreed

\* A resolve ends, or goes on with the version it has: it holds nothing new.
LEMMA TaskKeepsAgreed ==
  ASSUME TypeOK, Agreed, SoundTasks, NEW m \in Machines, NEW t \in Tasks,
         task' = [task EXCEPT ![m] = t], UNCHANGED <<spec, secret, cache>>,
         \/ t = Idle /\ t.pc = "idle"
         \/ /\ task[m].pc # "idle" /\ t.pc # "idle" /\ t.version = task[m].version
            /\ t.good = task[m].good
            /\ t.pc = "hooks" => spec[m].key \in t.good
  PROVE  Agreed' /\ SoundTasks'
<1>1. DOMAIN task = Machines /\ task'[m] = t /\ \A n \in Machines \ {m} : task'[n] = task[n]
  BY DEF TypeOK
<1>2. SoundTasks'
  BY <1>1 DEF SoundTasks
<1>3. ASSUME NEW n \in Machines, NEW s \in Secrets, Reads(n, s)'
      PROVE  /\ Reads(n, s) /\ task'[n].version = task[n].version
             /\ task'[n].good = task[n].good
  <2>1. CASE n = m
    BY <1>1, <1>3, <2>1 DEF Reads
  <2>2. CASE n # m
    BY <1>1, <1>3, <2>2 DEF Reads
  <2> QED
    BY <2>1, <2>2
<1>4. ASSUME NEW s \in Secrets, NEW v \in Versions, NEW k \in AnyKey, HeldGood(s, v, k)' PROVE HeldGood(s, v, k)
  <2>1. ASSUME NEW n \in Machines, Reads(n, s)', task'[n].version = v, k \in task'[n].good
        PROVE  HeldGood(s, v, k)
    <3>1. Reads(n, s) /\ task[n].version = v /\ k \in task[n].good
      BY <1>3, <2>1
    <3> QED
      BY <3>1 DEF HeldGood
  <2> QED
    BY <1>4, <2>1 DEF HeldGood, Cached
<1>5. ASSUME NEW s \in Secrets, NEW v \in Versions, NEW k \in AnyKey, HeldBad(s, v, k)' PROVE HeldBad(s, v, k)
  <2>1. ASSUME NEW n \in Machines, Reads(n, s)', task'[n].version = v, k \notin task'[n].good
        PROVE  HeldBad(s, v, k)
    <3>1. Reads(n, s) /\ task[n].version = v /\ k \notin task[n].good
      BY <1>3, <2>1
    <3> QED
      BY <3>1 DEF HeldBad
  <2> QED
    BY <1>5, <2>1 DEF HeldBad
<1> QED
  BY <1>2, <1>4, <1>5, AgreedKept

\* A resolve that reads its Secret holds what the API server holds.
LEMMA ReadKeepsAgreed ==
  ASSUME TypeOK, Agreed, SoundTasks, NEW m \in Machines, NEW t \in Tasks,
         task' = [task EXCEPT ![m] = t], UNCHANGED <<spec, secret, cache>>,
         t.pc = "look", t.version = secret[spec[m].secret].version,
         t.good = secret[spec[m].secret].good
  PROVE  Agreed' /\ SoundTasks'
<1>1. DOMAIN task = Machines /\ task'[m] = t /\ \A n \in Machines \ {m} : task'[n] = task[n]
  BY DEF TypeOK
<1>2. SoundTasks'
  BY <1>1 DEF SoundTasks
<1>3. ASSUME NEW n \in Machines, NEW s \in Secrets, Reads(n, s)', n # m
      PROVE  Reads(n, s) /\ task'[n] = task[n]
  BY <1>1, <1>3 DEF Reads
<1>4. ASSUME NEW s \in Secrets, NEW v \in Versions, NEW k \in AnyKey, HeldGood(s, v, k)' PROVE HeldGood(s, v, k)
  <2>1. ASSUME NEW n \in Machines, Reads(n, s)', task'[n].version = v, k \in task'[n].good
        PROVE  HeldGood(s, v, k)
    <3>1. CASE n = m
      BY <1>1, <2>1, <3>1 DEF HeldGood, Reads
    <3>2. CASE n # m
      BY <1>3, <2>1, <3>2 DEF HeldGood
    <3> QED
      BY <3>1, <3>2
  <2> QED
    BY <1>4, <2>1 DEF HeldGood, Cached
<1>5. ASSUME NEW s \in Secrets, NEW v \in Versions, NEW k \in AnyKey, HeldBad(s, v, k)' PROVE HeldBad(s, v, k)
  <2>1. ASSUME NEW n \in Machines, Reads(n, s)', task'[n].version = v, k \notin task'[n].good
        PROVE  HeldBad(s, v, k)
    <3>1. CASE n = m
      BY <1>1, <2>1, <3>1 DEF HeldBad, Reads
    <3>2. CASE n # m
      BY <1>3, <2>1, <3>2 DEF HeldBad
    <3> QED
      BY <3>1, <3>2
  <2> QED
    BY <1>5, <2>1 DEF HeldBad
<1> QED
  BY <1>2, <1>4, <1>5, AgreedKept

\* A client goes into the cache only from a version that was of use; what an eviction
\* takes out of it is no longer held.
LEMMA InsertKeepsAgreed ==
  ASSUME TypeOK, Lru, Agreed, SoundTasks, NEW m \in Machines, InsertClient(m), spec[m].key \in task[m].good
  PROVE  Agreed' /\ SoundTasks'
<1> DEFINE z == spec[m].secret
           w == Evict(z) \o Replaced(z)
<1>1. /\ UNCHANGED <<spec, secret>> /\ task[m].pc = "build"
      /\ cache'[z] = [version |-> task[m].version, key |-> spec[m].key] /\ z \in Secrets
      /\ \A s \in Secrets \ {z} : cache'[s] = NoClient \/ cache'[s] = cache[s]
  BY DEF InsertClient, TypeOK, Specs
<1>2. w \in Seq(Secrets)
      /\ task' = [task EXCEPT ![m] = [task[m] EXCEPT !.pc = "hooks", !.victims = w]]
  BY InsertFacts
<1>3. task[m] \in Tasks /\ DOMAIN task = Machines
  BY DEF TypeOK
<1> HIDE DEF w, z
<1>4. /\ task'[m].pc = "hooks" /\ task'[m].version = task[m].version
      /\ task'[m].good = task[m].good /\ \A n \in Machines \ {m} : task'[n] = task[n]
  BY <1>2, <1>3 DEF Tasks
<1>5. SoundTasks'
  BY <1>1, <1>4 DEF SoundTasks
<1>6. ASSUME NEW n \in Machines, NEW s \in Secrets, Reads(n, s)'
      PROVE  /\ Reads(n, s) /\ task'[n].version = task[n].version
             /\ task'[n].good = task[n].good
  <2>1. CASE n = m
    BY <1>1, <1>4, <1>6, <2>1 DEF Reads
  <2>2. CASE n # m
    BY <1>1, <1>4, <1>6, <2>2 DEF Reads
  <2> QED
    BY <2>1, <2>2
<1>7. Reads(m, z)
  BY <1>1 DEF Reads, z
<1>8. ASSUME NEW s \in Secrets, NEW v \in Versions, NEW k \in AnyKey, HeldGood(s, v, k)' PROVE HeldGood(s, v, k)
  <2>1. ASSUME NEW n \in Machines, Reads(n, s)', task'[n].version = v, k \in task'[n].good
        PROVE  HeldGood(s, v, k)
    <3>1. Reads(n, s) /\ task[n].version = v /\ k \in task[n].good
      BY <1>6, <2>1
    <3> QED
      BY <3>1 DEF HeldGood
  <2>2. CASE Cached(s)' /\ cache'[s].version = v /\ cache'[s].key = k
    <3>1. CASE s = z
      <4>1. task[m].version = v /\ k \in task[m].good
        BY <1>1, <2>2, <3>1
      <4> QED
        BY <1>7, <3>1, <4>1 DEF HeldGood
    <3>2. CASE s # z
      BY <1>1, <2>2, <3>2 DEF HeldGood, Cached
    <3> QED
      BY <3>1, <3>2
  <2> QED
    BY <1>1, <1>8, <2>1, <2>2 DEF HeldGood
<1>9. ASSUME NEW s \in Secrets, NEW v \in Versions, NEW k \in AnyKey, HeldBad(s, v, k)' PROVE HeldBad(s, v, k)
  <2>1. ASSUME NEW n \in Machines, Reads(n, s)', task'[n].version = v, k \notin task'[n].good
        PROVE  HeldBad(s, v, k)
    <3>1. Reads(n, s) /\ task[n].version = v /\ k \notin task[n].good
      BY <1>6, <2>1
    <3> QED
      BY <3>1 DEF HeldBad
  <2> QED
    BY <1>1, <1>9, <2>1 DEF HeldBad
<1> QED
  BY <1>1, <1>5, <1>8, <1>9, AgreedKept

\* A new version is one that nobody has held yet.
LEMMA RotationKeepsAgreed ==
  ASSUME TypeOK, Agreed, SoundTasks, NEW z \in Secrets, ChangeSecret(z)
  PROVE  Agreed' /\ SoundTasks'
<1>1. PICK x \in BOOLEAN, g \in SUBSET Keys :
        secret' = [secret EXCEPT ![z] = [version |-> secret[z].version + 1, there |-> x, good |-> g]]
  BY DEF ChangeSecret
<1>2. UNCHANGED <<spec, cache, task>>
  BY DEF ChangeSecret
<1>3. SoundTasks'
  BY <1>2 DEF SoundTasks
<1>4. secret[z].version \in Nat /\ secret'[z].version = secret[z].version + 1
  BY <1>1 DEF TypeOK, Versions, Payloads
<1>10. \A s \in Secrets \ {z} : secret'[s] = secret[s]
  BY <1>1 DEF TypeOK
<1> SUFFICES ASSUME NEW s \in Secrets, NEW v \in Versions, NEW k \in AnyKey
             PROVE  /\ ~(HeldGood(s, v, k)' /\ HeldBad(s, v, k)')
                    /\ HeldGood(s, v, k)' \/ HeldBad(s, v, k)' => v <= secret'[s].version
  BY <1>3 DEF Agreed
<1>5. v \in Nat /\ \A n \in Machines : Reads(n, s)' <=> Reads(n, s)
  BY <1>2 DEF Reads, Versions
<1>6. /\ ~(HeldGood(s, v, k) /\ HeldBad(s, v, k))
      /\ HeldGood(s, v, k) \/ HeldBad(s, v, k) => v <= secret[s].version
  BY DEF Agreed
<1>7. CASE s # z
  <2>1. (HeldGood(s, v, k)' <=> HeldGood(s, v, k)) /\ (HeldBad(s, v, k)' <=> HeldBad(s, v, k))
    BY <1>2, <1>5, <1>7, <1>10 DEF HeldGood, HeldBad, Cached
  <2> QED
    BY <1>6, <1>7, <1>10, <2>1
<1>8. CASE s = z /\ v # secret'[z].version
  <2>1. HeldGood(s, v, k)' => HeldGood(s, v, k)
    BY <1>2, <1>5, <1>8 DEF HeldGood, Cached
  <2>2. HeldBad(s, v, k)' => HeldBad(s, v, k)
    BY <1>2, <1>5, <1>8 DEF HeldBad
  <2>3. v <= secret[s].version => v <= secret'[s].version
    BY <1>4, <1>5, <1>8
  <2> QED
    BY <1>6, <2>1, <2>2, <2>3
<1>9. CASE s = z /\ v = secret'[z].version
  <2> ~(v <= secret[s].version) /\ v <= secret'[s].version
    BY <1>4, <1>5, <1>9
  <2>1. ~HeldGood(s, v, k) /\ ~HeldBad(s, v, k)
    BY <1>6
  <2>2. HeldGood(s, v, k)' => k \in secret'[s].good
    BY <1>2, <1>5, <2>1 DEF HeldGood, Cached
  <2>3. HeldBad(s, v, k)' => k \notin secret'[s].good
    BY <1>2, <1>5, <2>1 DEF HeldBad
  <2> QED
    BY <2>2, <2>3
<1> QED
  BY <1>7, <1>8, <1>9

\* The agreement is kept by every step, on top of the types and the order of use.
LEMMA AgreedHolds == Spec => [](Agreed /\ SoundTasks)
<1>1. Init => Agreed /\ SoundTasks
  <2> SUFFICES ASSUME Init PROVE Agreed /\ SoundTasks
    OBVIOUS
  <2>1. \A m \in Machines : task[m] = Idle /\ task[m].pc = "idle"
    BY DEF Init, Idle
  <2>2. \A s \in Secrets : ~Cached(s) /\ secret[s].version = 1 /\ secret[s].good = Keys
    BY DEF Init, Cached
  <2>3. SoundTasks
    BY <2>1 DEF SoundTasks
  <2>4. ASSUME NEW s \in Secrets, NEW v \in Versions, NEW k \in AnyKey
        PROVE  /\ HeldBad(s, v, k) => v = 1 /\ k \notin Keys
               /\ HeldGood(s, v, k) => v = 1 /\ k \in Keys
    BY <2>1, <2>2 DEF HeldGood, HeldBad, Reads
  <2>5. Agreed
    BY <2>2, <2>4 DEF Agreed
  <2> QED
    BY <2>3, <2>5
<1>2. TypeOK /\ Lru /\ Agreed /\ SoundTasks /\ [Next]_vars => Agreed' /\ SoundTasks'
  <2> SUFFICES ASSUME TypeOK, Lru, Agreed, SoundTasks, [Next]_vars
               PROVE  Agreed' /\ SoundTasks'
    OBVIOUS
  <2>1. ASSUME NEW m \in Machines, NEW kind, NEW client, Return(m, kind, client),
               UNCHANGED <<spec, secret, cache>>
        PROVE  Agreed' /\ SoundTasks'
    <3>1. task' = [task EXCEPT ![m] = Idle] /\ Idle \in Tasks /\ Idle.pc = "idle"
      BY <2>1, ValueFacts DEF Return, Idle
    <3> QED
      BY <2>1, <3>1, TaskKeepsAgreed
  <2>2. ASSUME NEW m \in Machines, GetSecret(m) PROVE Agreed' /\ SoundTasks'
    <3> DEFINE s == secret[spec[m].secret]
               t == [Idle EXCEPT !.pc = "look", !.version = s.version, !.good = s.good]
    <3>1. UNCHANGED <<spec, secret, cache>>
      BY <2>2 DEF GetSecret
    <3>2. CASE \E kind : Return(m, kind, NoClient)
      BY <2>1, <3>1, <3>2
    <3>3. CASE task' = [task EXCEPT ![m] = t]
      <4>1. s.version \in Versions /\ s.good \in SUBSET Keys
        BY DEF TypeOK, Specs, Payloads
      <4>2. /\ t \in Tasks /\ t.pc = "look" /\ t.version = s.version
            /\ t.good = s.good
        BY <4>1, ValueFacts DEF Tasks, Idle
      <4> HIDE DEF t
      <4> QED
        BY <3>1, <3>3, <4>2, ReadKeepsAgreed
    <3> QED
      BY <2>2, <3>2, <3>3 DEF GetSecret
  <2>3. ASSUME NEW m \in Machines, LookUp(m) PROVE Agreed' /\ SoundTasks'
    <3>1. UNCHANGED <<spec, secret, cache>> /\ task[m].pc = "look"
      BY <2>3 DEF LookUp
    <3>2. CASE Hit(m)
      BY <2>1, <2>3, <3>1, <3>2 DEF LookUp
    <3>3. CASE ~Hit(m)
      <4> DEFINE t == [task[m] EXCEPT !.pc = "build"]
      <4>1. task' = [task EXCEPT ![m] = t]
        BY <2>3, <3>3 DEF LookUp
      <4>2. t \in Tasks
        BY EmptySeq, TaskFacts
      <4>3. t.pc = "build" /\ t.version = task[m].version /\ t.good = task[m].good
        BY DEF TypeOK, Tasks
      <4> HIDE DEF t
      <4> QED
        BY <3>1, <4>1, <4>2, <4>3, TaskKeepsAgreed
    <3> QED
      BY <3>2, <3>3
  <2>4. ASSUME NEW m \in Machines, InsertClient(m) PROVE Agreed' /\ SoundTasks'
    <3>1. CASE spec[m].key \in task[m].good
      BY <2>4, <3>1, InsertKeepsAgreed
    <3>2. CASE spec[m].key \notin task[m].good
      <4>1. Return(m, "error", NoClient) /\ UNCHANGED <<spec, secret, cache>>
        BY <2>4, <3>2 DEF InsertClient
      <4> QED
        BY <2>1, <4>1
    <3> QED
      BY <3>1, <3>2
  <2>5. ASSUME NEW m \in Machines, CancelWatcher(m) PROVE Agreed' /\ SoundTasks'
    <3> DEFINE w == Tail(task[m].victims)
               t == [task[m] EXCEPT !.victims = w]
    <3>1. /\ task' = [task EXCEPT ![m] = t] /\ task[m].pc = "hooks"
          /\ UNCHANGED <<spec, secret, cache>>
          /\ task[m].victims # <<>> /\ task[m].victims \in Seq(Secrets)
      BY <2>5 DEF CancelWatcher, TypeOK, Tasks
    <3>2. w \in Seq(Secrets)
      BY <3>1, HeadTailProperties
    <3> HIDE DEF w
    <3>3. t \in Tasks
      BY <3>2, TaskFacts
    <3>4. t.pc = "hooks" /\ t.version = task[m].version /\ t.good = task[m].good
      BY <3>1 DEF TypeOK, Tasks
    <3> HIDE DEF t
    <3>5. spec[m].key \in t.good
      BY <3>1, <3>4 DEF SoundTasks
    <3> QED
      BY <3>1, <3>3, <3>4, <3>5, TaskKeepsAgreed
  <2>6. ASSUME NEW m \in Machines, StartWatcher(m) PROVE Agreed' /\ SoundTasks'
    BY <2>1, <2>6 DEF StartWatcher
  <2>7. ASSUME NEW s \in Secrets, ChangeSecret(s) PROVE Agreed' /\ SoundTasks'
    BY <2>7, RotationKeepsAgreed
  <2>8. ASSUME NEW m \in Machines, Edit(m) PROVE Agreed' /\ SoundTasks'
    <3>1. /\ UNCHANGED <<secret, cache, task>> /\ task[m].pc = "idle" /\ DOMAIN spec = Machines
          /\ \E x \in Specs : spec' = [spec EXCEPT ![m] = x]
      BY <2>8 DEF Edit, TypeOK
    <3>2. \A n \in Machines, s \in Secrets : Reads(n, s)' <=> Reads(n, s)
      BY <3>1 DEF Reads
    <3>3. SoundTasks'
      BY <3>1 DEF SoundTasks
    <3>4. \A s \in Secrets, v \in Versions, k \in AnyKey :
            (HeldGood(s, v, k)' => HeldGood(s, v, k)) /\ (HeldBad(s, v, k)' => HeldBad(s, v, k))
      <4> TAKE s \in Secrets, v \in Versions, k \in AnyKey
      <4>1. \A n \in Machines : Reads(n, s)' <=> Reads(n, s)
        BY <3>2
      <4>2. HeldGood(s, v, k)' => HeldGood(s, v, k)
        BY <3>1, <4>1, Zenon DEF HeldGood, Cached
      <4>3. HeldBad(s, v, k)' => HeldBad(s, v, k)
        BY <3>1, <4>1, Zenon DEF HeldBad
      <4> QED
        BY <4>2, <4>3
    <3> QED
      BY <3>1, <3>3, <3>4, AgreedKept
  <2>9. CASE UNCHANGED vars
    <3>1. UNCHANGED <<spec, secret, cache, task>>
      BY <2>9 DEF vars
    <3>2. \A s \in Secrets, v \in Versions, k \in AnyKey :
            (HeldGood(s, v, k)' => HeldGood(s, v, k)) /\ (HeldBad(s, v, k)' => HeldBad(s, v, k))
      <4> TAKE s \in Secrets, v \in Versions, k \in AnyKey
      <4>1. HeldGood(s, v, k)' => HeldGood(s, v, k)
        BY <3>1, Zenon DEF HeldGood, Cached, Reads
      <4>2. HeldBad(s, v, k)' => HeldBad(s, v, k)
        BY <3>1, Zenon DEF HeldBad, Reads
      <4> QED
        BY <4>1, <4>2
    <3>3. SoundTasks'
      BY <3>1 DEF SoundTasks
    <3> QED
      BY <3>1, <3>2, <3>3, AgreedKept
  <2> QED
    BY <2>2, <2>3, <2>4, <2>5, <2>6, <2>7, <2>8, <2>9 DEF Next, Resolve
<1> QED
  BY <1>1, <1>2, LruHolds, PTL DEF Spec

\* What a task is mapped to.
ReadingOf(t) == [open |-> t.pc # "idle", version |-> t.version, good |-> t.good]

\* The mapping of the tasks follows the step of one resolve.
LEMMA ReadingFollows ==
  ASSUME TypeOK, NEW m \in Machines, NEW t, task' = [task EXCEPT ![m] = t]
  PROVE  /\ Reading' = [Reading EXCEPT ![m] = ReadingOf(t)]
         /\ Reading[m] = ReadingOf(task[m])
         /\ ReadingOf(t) = ReadingOf(task[m]) => Reading' = Reading
<1>1. task \in [Machines -> Tasks]
  BY DEF TypeOK
<1>2. \A n \in Machines : Reading[n] = ReadingOf(task[n]) /\ Reading'[n] = ReadingOf(task'[n])
  BY DEF Reading, ReadingOf
<1>3. /\ Reading = [n \in Machines |-> Reading[n]] /\ Reading' = [n \in Machines |-> Reading'[n]]
      /\ DOMAIN Reading = Machines /\ DOMAIN Reading' = Machines
  BY DEF Reading
<1>4. \A n \in Machines : Reading'[n] = IF n = m THEN ReadingOf(t) ELSE Reading[n]
  BY <1>1, <1>2
<1> HIDE DEF Reading
<1>5. Reading' = [Reading EXCEPT ![m] = ReadingOf(t)]
  BY <1>3, <1>4
<1>6. ReadingOf(t) = ReadingOf(task[m]) => Reading' = Reading
  BY <1>2, <1>3, <1>4
<1> QED
  BY <1>2, <1>5, <1>6

\* What the first states are mapped to.
LEMMA PromisedStart ==
  ASSUME Init
  PROVE  Promised!ClientsInit
<1>1. Reading = [m \in Machines |-> Promised!Closed]
  BY DEF Init, Reading, Idle, Promised!Closed
<1>2. result = [m \in Machines |-> Promised!Answer("none")]
  BY DEF Init, Returns, NoClient, Promised!Answer
<1> QED
  BY <1>1, <1>2 DEF Init, Promised!ClientsInit

\* The end of a resolve that has read its Secret is the promised one, if its client is
\* of a good key of what it read, or its own key is not good.
LEMMA EndIsBuild ==
  ASSUME TypeOK, NEW m \in Machines, NEW kind, NEW client, Return(m, kind, client),
         task[m].pc # "idle", UNCHANGED <<spec, secret>>,
         \/ /\ kind = "child"
            /\ \E k \in task[m].good : client = [version |-> task[m].version, key |-> k]
         \/ kind = "error" /\ client = NoClient /\ spec[m].key \notin task[m].good
  PROVE  Promised!Build(m)
<1>1. /\ Reading' = [Reading EXCEPT ![m] = ReadingOf(Idle)]
      /\ Reading[m] = ReadingOf(task[m])
  BY ReadingFollows DEF Return
<1>2. result' = [result EXCEPT ![m] = Returns(kind, client)]
  BY DEF Return
<1>3. ReadingOf(Idle) = Promised!Closed
  BY DEF ReadingOf, Idle, Promised!Closed
<1>4. Reading[m].open /\ Reading[m].version = task[m].version /\ Reading[m].good = task[m].good
  <2>1. Reading[m] = [open |-> TRUE, version |-> task[m].version, good |-> task[m].good]
    BY <1>1, Zenon DEF ReadingOf
  <2> DEFINE r == Reading[m]
             v == task[m].version
             g == task[m].good
  <2>2. r = [open |-> TRUE, version |-> v, good |-> g]
    BY <2>1
  <2> HIDE DEF r, v, g
  <2>3. r.open /\ r.version = v /\ r.good = g
    BY <2>2
  <2> QED
    BY <2>3 DEF r, v, g
<1>5. CASE kind = "child" /\ \E k \in task[m].good : client = [version |-> task[m].version, key |-> k]
  <2>1. PICK k \in task[m].good : client = [version |-> task[m].version, key |-> k]
    BY <1>5
  <2>2. Returns(kind, client) = Promised!ChildOf(Reading[m].version, k)
    BY <1>4, <1>5, <2>1 DEF Returns, Promised!ChildOf
  <2> QED
    BY <1>1, <1>2, <1>3, <1>4, <2>1, <2>2 DEF Promised!Build
<1>6. CASE kind = "error" /\ client = NoClient /\ spec[m].key \notin task[m].good
  <2>1. Returns(kind, client) = Promised!Answer("error")
    BY <1>6 DEF Returns, NoClient, Promised!Answer
  <2> QED
    BY <1>1, <1>2, <1>3, <1>4, <1>6, <2>1 DEF Promised!Build
<1> QED
  BY <1>5, <1>6

\* A resolve that goes on with what it has read is a step of the cache alone.
LEMMA GoingOnStutters ==
  ASSUME TypeOK, NEW m \in Machines, NEW t, task' = [task EXCEPT ![m] = t],
         task[m].pc # "idle", t.pc # "idle", t.version = task[m].version,
         t.good = task[m].good, UNCHANGED <<spec, secret, result>>
  PROVE  UNCHANGED Promised!clientVars
<1>1. ReadingOf(t) = ReadingOf(task[m])
  <2>1. (t.pc # "idle") = (task[m].pc # "idle")
    OBVIOUS
  <2> QED
    BY <2>1, Zenon DEF ReadingOf
<1>2. Reading' = Reading
  BY <1>1, ReadingFollows
<1> QED
  BY <1>2 DEF Promised!clientVars

\* The GET is a read, or the end of the resolve without one.
LEMMA GetIsReadOrGiveUp ==
  ASSUME TypeOK, SoundTasks, NEW m \in Machines, GetSecret(m)
  PROVE  Promised!Read(m) \/ Promised!GiveUp(m)
<1> DEFINE s == secret[spec[m].secret]
           t == [Idle EXCEPT !.pc = "look", !.version = s.version, !.good = s.good]
<1>1. task[m].pc = "idle" /\ UNCHANGED <<spec, secret>>
  BY DEF GetSecret
<1>2. ~Reading[m].open
  BY <1>1 DEF Reading
<1>3. \A kind : Returns(kind, NoClient) = Promised!Answer(kind)
  BY DEF Returns, NoClient, Promised!Answer
<1>4. ASSUME NEW kind, Return(m, kind, NoClient),
             kind = "error" \/ (kind = "management" /\ ~s.there /\ ~spec[m].explicit)
      PROVE  Promised!GiveUp(m)
  <2>1. result' = [result EXCEPT ![m] = Promised!Answer(kind)]
    BY <1>3, <1>4 DEF Return
  <2>2. task[m] = Idle
    BY <1>1 DEF SoundTasks
  <2>3. Reading' = Reading
    BY <1>4, <2>2, ReadingFollows DEF Return
  <2> QED
    BY <1>1, <1>2, <1>4, <2>1, <2>3 DEF Promised!GiveUp
<1>5. CASE /\ s.there /\ task' = [task EXCEPT ![m] = t]
           /\ result' = [result EXCEPT ![m] = Returns("none", NoClient)]
  <2>1. ReadingOf(t) = [open |-> TRUE, version |-> s.version, good |-> s.good]
    <3>1. t.pc = "look" /\ t.version = s.version /\ t.good = s.good
      BY DEF Idle
    <3> HIDE DEF t
    <3>2. (t.pc # "idle") = TRUE
      BY <3>1
    <3> QED
      BY <3>1, <3>2, Zenon DEF ReadingOf
  <2> HIDE DEF t
  <2>2. Reading' = [Reading EXCEPT ![m] = ReadingOf(t)]
    BY <1>5, ReadingFollows
  <2>3. result' = [result EXCEPT ![m] = Promised!Answer("none")]
    BY <1>3, <1>5
  <2> QED
    BY <1>1, <1>2, <1>5, <2>1, <2>2, <2>3 DEF Promised!Read
<1> HIDE DEF t
<1> QED
  BY <1>4, <1>5 DEF GetSecret, t

\* A cached client of the version a resolve read was built from a key that is good in it.
LEMMA HitIsGood ==
  ASSUME TypeOK, Agreed, NEW m \in Machines, task[m].pc # "idle", Hit(m)
  PROVE  \E k \in task[m].good : cache[spec[m].secret] = [version |-> task[m].version, key |-> k]
<1> DEFINE s == spec[m].secret
           v == task[m].version
           k == cache[s].key
<1>1. s \in Secrets /\ v \in Versions /\ cache[s] \in Clients
  BY DEF TypeOK, Specs, Tasks
<1>2. k \in AnyKey /\ cache[s] = [version |-> v, key |-> k]
  BY <1>1 DEF Clients, AnyKey, Hit
<1>3. HeldGood(s, v, k)
  BY DEF Hit, HeldGood
<1>4. k \notin task[m].good => HeldBad(s, v, k)
  BY DEF HeldBad, Reads
<1>5. k \in task[m].good
  BY <1>1, <1>2, <1>3, <1>4 DEF Agreed
<1> QED
  BY <1>2, <1>5

\* For any number of machines, Secrets, keys and rotations and any capacity: through the
\* cache of build_or_get_cached, with lookups, builds, evictions and hooks of other
\* resolves in between, a resolve returns a client of the version of the Secret it read,
\* built from a key that was good there, and an error only if its own was not.
THEOREM BuiltFromWhatWasReadHolds == Spec => BuiltFromWhatWasRead
<1>1. Init => Promised!ClientsInit
  BY PromisedStart
<1>2. TypeOK /\ Lru /\ Agreed /\ SoundTasks /\ [Next]_vars
        => [Promised!ClientsNext]_(Promised!clientVars)
  <2> SUFFICES ASSUME TypeOK, Lru, Agreed, SoundTasks, [Next]_vars
               PROVE  Promised!ClientsNext \/ UNCHANGED Promised!clientVars
    OBVIOUS
  <2>1. ASSUME NEW m \in Machines, GetSecret(m) PROVE Promised!ClientsNext
    BY <2>1, GetIsReadOrGiveUp DEF Promised!ClientsNext
  <2>2. ASSUME NEW m \in Machines, LookUp(m)
        PROVE  Promised!ClientsNext \/ UNCHANGED Promised!clientVars
    <3>1. task[m].pc = "look" /\ UNCHANGED <<spec, secret>>
      BY <2>2 DEF LookUp
    <3>2. CASE Hit(m)
      <4>1. Return(m, "child", cache[spec[m].secret])
        BY <2>2, <3>2 DEF LookUp
      <4>2. \E k \in task[m].good :
              cache[spec[m].secret] = [version |-> task[m].version, key |-> k]
        BY <3>1, <3>2, HitIsGood
      <4>3. Promised!Build(m)
        BY <3>1, <4>1, <4>2, EndIsBuild
      <4> QED
        BY <4>3 DEF Promised!ClientsNext
    <3>3. CASE ~Hit(m)
      <4> DEFINE t == [task[m] EXCEPT !.pc = "build"]
      <4>1. task' = [task EXCEPT ![m] = t] /\ UNCHANGED result
        BY <2>2, <3>3 DEF LookUp
      <4>2. t.pc = "build" /\ t.version = task[m].version /\ t.good = task[m].good
        BY DEF TypeOK, Tasks
      <4> HIDE DEF t
      <4> QED
        BY <3>1, <4>1, <4>2, GoingOnStutters
    <3> QED
      BY <3>2, <3>3
  <2>3. ASSUME NEW m \in Machines, InsertClient(m)
        PROVE  Promised!ClientsNext \/ UNCHANGED Promised!clientVars
    <3>1. task[m].pc = "build" /\ UNCHANGED <<spec, secret>>
      BY <2>3 DEF InsertClient
    <3>2. CASE spec[m].key \notin task[m].good
      <4>1. Return(m, "error", NoClient)
        BY <2>3, <3>2 DEF InsertClient
      <4>2. Promised!Build(m)
        BY <3>1, <3>2, <4>1, EndIsBuild
      <4> QED
        BY <4>2 DEF Promised!ClientsNext
    <3>3. CASE spec[m].key \in task[m].good
      <4> DEFINE w == Evict(spec[m].secret) \o Replaced(spec[m].secret)
                 t == [task[m] EXCEPT !.pc = "hooks", !.victims = w]
      <4>1. task' = [task EXCEPT ![m] = t] /\ UNCHANGED result
        BY <2>3, <3>3 DEF InsertClient
      <4> HIDE DEF w
      <4>2. t.pc = "hooks" /\ t.version = task[m].version /\ t.good = task[m].good
        BY DEF TypeOK, Tasks
      <4> HIDE DEF t
      <4> QED
        BY <3>1, <4>1, <4>2, GoingOnStutters
    <3> QED
      BY <3>2, <3>3
  <2>4. ASSUME NEW m \in Machines, CancelWatcher(m) PROVE UNCHANGED Promised!clientVars
    <3> DEFINE w == Tail(task[m].victims)
               t == [task[m] EXCEPT !.victims = w]
    <3>1. task' = [task EXCEPT ![m] = t] /\ task[m].pc = "hooks" /\ UNCHANGED <<spec, secret, result>>
      BY <2>4 DEF CancelWatcher
    <3> HIDE DEF w
    <3>2. t.pc = "hooks" /\ t.version = task[m].version /\ t.good = task[m].good
      BY <3>1 DEF TypeOK, Tasks
    <3> HIDE DEF t
    <3> QED
      BY <3>1, <3>2, GoingOnStutters
  <2>5. ASSUME NEW m \in Machines, StartWatcher(m) PROVE Promised!ClientsNext
    <3> DEFINE c == [version |-> task[m].version, key |-> spec[m].key]
    <3>1. task[m].pc = "hooks" /\ Return(m, "child", c) /\ UNCHANGED <<spec, secret>>
      BY <2>5 DEF StartWatcher
    <3>2. \E k \in task[m].good : c = [version |-> task[m].version, key |-> k]
      BY <3>1 DEF SoundTasks
    <3> HIDE DEF c
    <3>3. Promised!Build(m)
      BY <3>1, <3>2, EndIsBuild
    <3> QED
      BY <3>3 DEF Promised!ClientsNext
  <2>6. ASSUME NEW s \in Secrets, ChangeSecret(s) PROVE Promised!ClientsNext
    <3>1. UNCHANGED <<spec, Reading, result>>
      BY <2>6 DEF ChangeSecret, Reading
    <3>2. Promised!Rotate(s)
      BY <2>6, <3>1 DEF ChangeSecret, Promised!Rotate
    <3> QED
      BY <3>2 DEF Promised!ClientsNext
  <2>7. ASSUME NEW m \in Machines, Edit(m) PROVE Promised!ClientsNext
    <3>1. UNCHANGED <<secret, task>> /\ task[m].pc = "idle"
      BY <2>7 DEF Edit
    <3>2. ~Reading[m].open /\ Reading' = Reading
      BY <3>1 DEF Reading
    <3>3. Returns("none", NoClient) = Promised!Answer("none")
      BY DEF Returns, NoClient, Promised!Answer
    <3>4. Promised!Rename(m)
      BY <2>7, <3>1, <3>2, <3>3 DEF Edit, Promised!Rename
    <3> QED
      BY <3>4 DEF Promised!ClientsNext
  <2>8. CASE UNCHANGED vars
    BY <2>8 DEF vars, Promised!clientVars, Reading
  <2> QED
    BY <2>1, <2>2, <2>3, <2>4, <2>5, <2>6, <2>7, <2>8 DEF Next, Resolve
<1> QED
  BY <1>1, <1>2, LruHolds, AgreedHolds, PTL DEF Spec, BuiltFromWhatWasRead, Promised!ClientsSpec

=============================================================================
