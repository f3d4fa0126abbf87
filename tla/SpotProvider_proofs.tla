------------------------- MODULE SpotProvider_proofs -------------------------
(***************************************************************************)
(* Proofs about SpotProvider, for any calendars, any horizon and any       *)
(* number of edits, failures and crashes.                                  *)
(***************************************************************************)
EXTENDS SpotProvider, WellFoundedInduction, TLAPS

(***************************************************************************)
(* The inductive invariant.                                                *)
(***************************************************************************)
\* Is the calendar active d half-hours after t?
ActiveIn(s, t, d) == IsActiveAt(s, (t + d) % Cycle)

WholeHour(t, d) == (t + d) % 2 = 0

\* The whole hours of the next n half-hours are as published.
Stable(s, active, t, n) ==
  \A d \in 1..n : WholeHour(t, d) => ActiveIn(s, t, d) = active

\* With w half-hours to go to the requeue, what is published at t holds now, and the
\* requeue comes no later than the transition that was published; or it comes so soon
\* that none within the horizon less the fallback requeue can have been missed.
Foreseen(s, st, t, w) ==
  /\ \/ ActiveIn(s, t, 0) = st.active
     \/ s.offset % 2 = 1 /\ t % 2 = 1 /\ w = 1
  /\ \/ \E m \in 1..(2 * Horizon) :
          /\ w <= m /\ WholeHour(t, m) /\ st.next = (t + m) % Cycle
          /\ ActiveIn(s, t, m) # st.active
          /\ Stable(s, st.active, t, m - 1)
     \/ Stable(s, st.active, t, 2 * (Horizon - Fallback) + w)

\* A reconcile whose copy is not known to be old patches what follows from it now.
InFlight ==
  ctl.pc = "patch" /\ ~dirty =>
    /\ ~Fails(seen.spec)
    /\ ctl.result = ComputeStatus(seen.spec, seen.status, now)
    /\ ctl.wait = Wait(seen.spec, now)

\* Between two reconciles the status still tells what the copy asks for.
Kept ==
  ctl.pc = "idle" /\ ~dirty /\ wake > 0 /\ ~Fails(seen.spec) =>
    status.there /\ Foreseen(seen.spec, status, now, wake)

(***************************************************************************)
(* Arithmetic                                                              *)
(***************************************************************************)
\* A quotient and a remainder that fit are the ones of \div and %.
LEMMA DivModUnique ==
  ASSUME NEW n \in Nat \ {0}, NEW q \in Int, NEW r \in 0..(n - 1), NEW a \in Int,
         a = n * q + r
  PROVE  a % n = r /\ a \div n = q
  OBVIOUS

\* Every number has a quotient and a remainder.
LEMMA DivModExist ==
  ASSUME NEW n \in Nat \ {0}, NEW a \in Int
  PROVE  /\ a \div n \in Int /\ a % n \in 0..(n - 1)
         /\ a = n * (a \div n) + (a % n)
  OBVIOUS

\* A minimum of a set under a well-founded relation that contains < is a least one.
LEMMA LeastExists ==
  ASSUME NEW R, IsWellFoundedOn(R, Nat), \A x, y \in Nat : y < x => <<y, x>> \in R,
         NEW S \in SUBSET Nat, S # {}
  PROVE  \E x \in S : \A y \in S : x <= y
<1>1. \E x \in S : \A y \in S : <<y, x>> \notin R
  BY WFMin
<1>2. PICK x \in S : \A y \in S : <<y, x>> \notin R
  BY <1>1
<1>3. \A y \in S : ~(y < x)
  BY <1>2
<1>4. \A y \in S : x <= y
  BY <1>3
<1> QED
  BY <1>4

\* The least of some natural numbers is one of them.
LEMMA MinFacts ==
  ASSUME NEW S \in SUBSET Nat, S # {}
  PROVE  Min(S) \in S /\ \A y \in S : Min(S) <= y
<1>1. \A x, y \in Nat : y < x => <<y, x>> \in OpToRel(<, Nat)
  BY DEF OpToRel
<1>2. \E x \in S : \A y \in S : x <= y
  BY <1>1, LeastExists, NatLessThanWellFounded
<1> QED
  BY <1>2 DEF Min

\* The calendar has an even number of half-hours.
LEMMA CycleFacts == Cycle \in Nat \ {0} /\ HoursPerDay * Dates \in Nat \ {0}
  BY ConstantsAssumption DEF Cycle

\* A remainder may be taken before or after a sum.
LEMMA ModSum ==
  ASSUME NEW n \in Nat \ {0}, NEW a \in Int, NEW b \in Int
  PROVE  ((a % n) + b) % n = (a + b) % n
<1> DEFINE q == a \div n
           r == a % n
           p == (r + b) \div n
           e == (r + b) % n
<1>1. q \in Int /\ r \in Int /\ a = n * q + r
  BY DivModExist
<1>2. r + b \in Int
  BY <1>1
<1>3. p \in Int /\ e \in 0..(n - 1) /\ r + b = n * p + e
  BY <1>2, DivModExist
<1> HIDE DEF q, r, p, e
<1>4. a + b \in Int /\ q + p \in Int /\ a + b = n * (q + p) + e
  BY <1>1, <1>3
<1>5. (a + b) % n = e
  <2> DEFINE c == a + b
             m == q + p
  <2>1. c \in Int /\ m \in Int /\ c = n * m + e
    BY <1>4
  <2> HIDE DEF c, m
  <2>2. c % n = e
    BY <1>3, <2>1, DivModUnique
  <2> QED
    BY <2>2 DEF c
<1> QED
  BY <1>5 DEF e, r

\* The clock keeps its parity when it starts over.
LEMMA CycleParity ==
  ASSUME NEW a \in Int
  PROVE  (a % Cycle) % 2 = a % 2
<1> DEFINE h == HoursPerDay * Dates
           q == a \div Cycle
           r == a % Cycle
<1>1. h \in Nat \ {0} /\ Cycle = 2 * h
  BY CycleFacts DEF Cycle
<1>2. q \in Int /\ r \in Int /\ a = Cycle * q + r
  BY DivModExist, CycleFacts
<1> HIDE DEF h, q, r
<1>3. h * q \in Int /\ a = 2 * (h * q) + r
  BY <1>1, <1>2
<1>4. a % 2 = r % 2
  BY <1>2, <1>3
<1> QED
  BY <1>4 DEF r

(***************************************************************************)
(* The calendars                                                           *)
(***************************************************************************)
\* The two halves of an hour are of the same day and hour.
LEMMA HalvesOfAnHour ==
  ASSUME NEW u \in Nat, u % 2 = 0
  PROVE  /\ (u + 1) \div (2 * HoursPerDay) = u \div (2 * HoursPerDay)
         /\ ((u + 1) % (2 * HoursPerDay)) \div 2 = (u % (2 * HoursPerDay)) \div 2
<1> DEFINE n == 2 * HoursPerDay
           q == u \div n
           r == u % n
<1>1. HoursPerDay \in Nat \ {0} /\ n \in Nat \ {0} /\ n = 2 * HoursPerDay
  BY ConstantsAssumption
<1> HIDE DEF n
<1>2. q \in Int /\ r \in 0..(n - 1) /\ u = n * q + r
  <2>1. u \in Int
    OBVIOUS
  <2> QED
    BY <1>1, <2>1, DivModExist
<1> HIDE DEF q, r
<1>3. HoursPerDay * q \in Int /\ u = 2 * (HoursPerDay * q) + r
  BY <1>1, <1>2
<1>4. r % 2 = 0
  BY <1>2, <1>3
<1>5. r + 1 \in 0..(n - 1) /\ (r + 1) \div 2 = r \div 2
  BY <1>1, <1>2, <1>4
<1>6. u + 1 = n * q + (r + 1)
  BY <1>1, <1>2
<1>7. (u + 1) % n = r + 1 /\ (u + 1) \div n = q
  BY <1>1, <1>2, <1>5, <1>6, DivModUnique
<1> QED
  BY <1>5, <1>7 DEF q, r, n

\* is_active_at is the same in both halves of a local hour.
LEMMA SameHour ==
  ASSUME NEW s \in Specs, NEW t \in Int, (t + s.offset) % 2 = 0
  PROVE  IsActiveAt(s, (t + 1) % Cycle) = IsActiveAt(s, t % Cycle)
<1> DEFINE a == t + s.offset
           q == a \div Cycle
           u == a % Cycle
<1>1. s.offset \in Int /\ a \in Int /\ a % 2 = 0 /\ Cycle \in Nat \ {0}
  BY ConstantsAssumption, CycleFacts
<1>2. Local(s, t % Cycle) = a % Cycle
  BY <1>1, ModSum DEF Local
<1>3. Local(s, (t + 1) % Cycle) = (a + 1) % Cycle
  <2>1. t + 1 \in Int /\ (t + 1) + s.offset = a + 1
    BY <1>1
  <2>2. (((t + 1) % Cycle) + s.offset) % Cycle = ((t + 1) + s.offset) % Cycle
    BY <1>1, <2>1, ModSum
  <2> QED
    BY <2>1, <2>2 DEF Local
<1> HIDE DEF a
<1>4. q \in Int /\ u \in 0..(Cycle - 1) /\ a = Cycle * q + u
  BY <1>1, DivModExist
<1>5. u % 2 = 0
  BY <1>1, CycleParity
<1> HIDE DEF q, u
<1>6. u + 1 \in 0..(Cycle - 1)
  BY <1>4, <1>5, CycleFacts DEF Cycle
<1>7. a + 1 \in Int /\ a + 1 = Cycle * q + (u + 1)
  BY <1>1, <1>4
<1>8. (a + 1) % Cycle = u + 1
  <2> DEFINE c == a + 1
             m == u + 1
  <2>1. /\ Cycle \in Nat \ {0} /\ q \in Int /\ c \in Int
        /\ m \in 0..(Cycle - 1) /\ c = Cycle * q + m
    BY <1>1, <1>4, <1>6, <1>7
  <2> HIDE DEF c, m
  <2>2. c % Cycle = m
    BY <2>1, DivModUnique
  <2> QED
    BY <2>2 DEF c, m
<1>9. Local(s, (t + 1) % Cycle) = Local(s, t % Cycle) + 1 /\ Local(s, t % Cycle) = u
  BY <1>2, <1>3, <1>8 DEF u
<1>10. /\ Date(s, (t + 1) % Cycle) = Date(s, t % Cycle)
       /\ Hour(s, (t + 1) % Cycle) = Hour(s, t % Cycle)
  BY <1>4, <1>5, <1>9, HalvesOfAnHour DEF Date, Hour
<1>11. ClosedEarly(s, (t + 1) % Cycle) = ClosedEarly(s, t % Cycle)
  BY <1>10 DEF ClosedEarly
<1> QED
  BY <1>10, <1>11 DEF IsActiveAt, InWindow

\* is_active_at answers yes or no.
LEMMA ActiveBoolean == \A s, t, d : IsActiveAt(s, t) \in BOOLEAN /\ ActiveIn(s, t, d) \in BOOLEAN
  BY DEF IsActiveAt, ActiveIn

\* Half an hour later everything is half an hour closer.
LEMMA LaterFacts ==
  ASSUME NEW s \in Specs, NEW t \in Times, NEW d \in Nat
  PROVE  /\ (t + 1) % Cycle \in Times
         /\ (((t + 1) % Cycle) + d) % Cycle = (t + (d + 1)) % Cycle
         /\ ActiveIn(s, (t + 1) % Cycle, d) = ActiveIn(s, t, d + 1)
         /\ WholeHour((t + 1) % Cycle, d) <=> WholeHour(t, d + 1)
<1>1. t \in Int /\ t + 1 \in Int /\ d \in Int /\ Cycle \in Nat \ {0}
  BY CycleFacts DEF Times
<1>2. (t + 1) % Cycle \in Times
  BY <1>1, DivModExist DEF Times
<1>3. (((t + 1) % Cycle) + d) % Cycle = (t + (d + 1)) % Cycle
  <2>1. (((t + 1) % Cycle) + d) % Cycle = ((t + 1) + d) % Cycle
    BY <1>1, ModSum
  <2>2. (t + 1) + d = t + (d + 1)
    BY <1>1
  <2> QED
    BY <2>1, <2>2
<1>4. ((t + 1) % Cycle) % 2 = (t + 1) % 2
  BY <1>1, CycleParity
<1>5. WholeHour((t + 1) % Cycle, d) <=> WholeHour(t, d + 1)
  <2> DEFINE x == (t + 1) % Cycle
  <2>1. x \in Int /\ x % 2 = (t + 1) % 2
    BY <1>1, <1>2, <1>4 DEF Times
  <2> HIDE DEF x
  <2>2. (x + d) % 2 = (t + (d + 1)) % 2
    BY <1>1, <2>1
  <2> QED
    BY <2>2 DEF WholeHour, x
<1> QED
  BY <1>2, <1>3, <1>5 DEF ActiveIn

\* Where the local hours are UTC hours, a half-hour after a whole hour changes nothing;
\* where they begin half an hour off, the half-hour before a whole hour belongs with it.
LEMMA HalfHourFacts ==
  ASSUME NEW s \in Specs, NEW t \in Times
  PROVE  /\ s.offset % 2 = t % 2 => ActiveIn(s, t, 1) = ActiveIn(s, t, 0)
         /\ s.offset % 2 # t % 2 => ActiveIn(s, t, 1) = ActiveIn(s, t, 2)
<1>1. t \in Int /\ t + 1 \in Int /\ t + 0 = t /\ s.offset \in Int
  BY ConstantsAssumption, CycleFacts DEF Times
<1>2. CASE s.offset % 2 = t % 2
  <2>1. (t + s.offset) % 2 = 0
    BY <1>1, <1>2
  <2> QED
    BY <1>1, <1>2, <2>1, SameHour DEF ActiveIn
<1>3. CASE s.offset % 2 # t % 2
  <2>1. ((t + 1) + s.offset) % 2 = 0
    BY <1>1, <1>3
  <2>2. IsActiveAt(s, ((t + 1) + 1) % Cycle) = IsActiveAt(s, (t + 1) % Cycle)
    BY <1>1, <2>1, SameHour
  <2>3. (t + 1) + 1 = t + 2
    BY <1>1
  <2> QED
    BY <1>3, <2>2, <2>3 DEF ActiveIn
<1> QED
  BY <1>2, <1>3

\* What was foreseen half an hour ago and is not due yet is still foreseen.
LEMMA ForeseenTick ==
  ASSUME NEW s \in Specs, NEW t \in Times, NEW w \in Nat, w >= 2, NEW st,
         Foreseen(s, st, t, w)
  PROVE  Foreseen(s, st, (t + 1) % Cycle, w - 1)
<1> DEFINE x == (t + 1) % Cycle
<1>1. /\ x \in Times
      /\ \A d \in Nat : /\ (x + d) % Cycle = (t + (d + 1)) % Cycle
                        /\ ActiveIn(s, x, d) = ActiveIn(s, t, d + 1)
                        /\ WholeHour(x, d) <=> WholeHour(t, d + 1)
  BY LaterFacts
<1>2. t \in Nat /\ x \in Nat /\ Horizon \in Nat /\ Fallback \in 1..Horizon /\ s.offset \in Int
  BY <1>1, ConstantsAssumption, CycleFacts DEF Times
<1>3. x % 2 = (t + 1) % 2
  BY <1>2, CycleParity
<1> HIDE DEF x
<1>4. ASSUME NEW n \in Nat, n >= 1, Stable(s, st.active, t, n)
      PROVE  Stable(s, st.active, x, n - 1)
  BY <1>1, <1>4 DEF Stable
<1>5. ActiveIn(s, t, 0) = st.active
  BY <1>2 DEF Foreseen
<1>6. CASE \E m \in 1..(2 * Horizon) :
             /\ w <= m /\ WholeHour(t, m) /\ st.next = (t + m) % Cycle
             /\ ActiveIn(s, t, m) # st.active
             /\ Stable(s, st.active, t, m - 1)
  <2>1. PICK m \in 1..(2 * Horizon) :
             /\ w <= m /\ WholeHour(t, m) /\ st.next = (t + m) % Cycle
             /\ ActiveIn(s, t, m) # st.active
             /\ Stable(s, st.active, t, m - 1)
    BY <1>6
  <2>2. m \in Nat /\ m >= 2 /\ m - 1 \in 1..(2 * Horizon) /\ w - 1 <= m - 1 /\ (m - 1) + 1 = m
    BY <1>2, <2>1
  <2>3. /\ WholeHour(x, m - 1) /\ st.next = (x + (m - 1)) % Cycle
        /\ ActiveIn(s, x, m - 1) # st.active
    BY <1>1, <2>1, <2>2
  <2>4. Stable(s, st.active, x, (m - 1) - 1)
    BY <1>4, <2>1, <2>2
  <2>5. ActiveIn(s, x, 0) = st.active \/ (s.offset % 2 = 1 /\ x % 2 = 1 /\ w - 1 = 1)
    <3>1. ActiveIn(s, x, 0) = ActiveIn(s, t, 1)
      BY <1>1
    <3>2. CASE s.offset % 2 = t % 2
      BY <1>5, <3>1, <3>2, HalfHourFacts
    <3>3. CASE t % 2 = 1
      <4>1. WholeHour(t, 1)
        BY <1>2, <3>3 DEF WholeHour
      <4> QED
        BY <2>1, <2>2, <3>1, <4>1 DEF Stable
    <3>4. CASE t % 2 = 0 /\ s.offset % 2 = 1
      <4>1. ActiveIn(s, x, 0) = ActiveIn(s, t, 2) /\ WholeHour(t, 2)
        BY <1>2, <3>1, <3>4, HalfHourFacts DEF WholeHour
      <4>2. CASE m > 2
        BY <2>1, <2>2, <4>1, <4>2 DEF Stable
      <4>3. CASE m = 2
        BY <1>2, <1>3, <2>1, <3>4, <4>3
      <4> QED
        BY <2>2, <4>2, <4>3
    <3> QED
      BY <1>2, <3>2, <3>3, <3>4
  <2> QED
    BY <2>2, <2>3, <2>4, <2>5 DEF Foreseen, x
<1>7. CASE Stable(s, st.active, t, 2 * (Horizon - Fallback) + w)
  <2>1. Stable(s, st.active, x, 2 * (Horizon - Fallback) + (w - 1))
    <3> DEFINE n == 2 * (Horizon - Fallback) + w
    <3>1. n \in Nat /\ n >= 1 /\ 2 * (Horizon - Fallback) + (w - 1) = n - 1
      BY <1>2
    <3> HIDE DEF n
    <3>2. Stable(s, st.active, t, n)
      BY <1>7 DEF n
    <3> QED
      BY <1>4, <3>1, <3>2
  <2>2. 2 * (Horizon - Fallback) + w \in Nat /\ 2 * (Horizon - Fallback) + w >= 2
    BY <1>2
  <2>3. ActiveIn(s, x, 0) = ActiveIn(s, t, 1)
    BY <1>1
  <2>4. ActiveIn(s, x, 0) = st.active
    <3>1. CASE s.offset % 2 = t % 2
      BY <1>5, <2>3, <3>1, HalfHourFacts
    <3>2. CASE t % 2 = 1
      <4>1. WholeHour(t, 1)
        BY <1>2, <3>2 DEF WholeHour
      <4> QED
        BY <1>7, <2>2, <2>3, <4>1 DEF Stable
    <3>3. CASE t % 2 = 0 /\ s.offset % 2 = 1
      <4>1. ActiveIn(s, x, 0) = ActiveIn(s, t, 2) /\ WholeHour(t, 2)
        BY <1>2, <2>3, <3>3, HalfHourFacts DEF WholeHour
      <4> QED
        BY <1>7, <2>2, <4>1 DEF Stable
    <3> QED
      BY <1>2, <3>1, <3>2, <3>3
  <2> QED
    BY <2>1, <2>4 DEF Foreseen, x
<1> QED
  BY <1>6, <1>7 DEF Foreseen

(***************************************************************************)
(* next_transition                                                         *)
(***************************************************************************)
\* The hours that next_transition tries are whole hours of the time ahead.
LEMMA DelayFacts ==
  ASSUME NEW s \in Specs, NEW t \in Times, NEW n \in Nat, NEW k \in 1..n
  PROVE  /\ Delay(t, k) \in 1..(2 * n)
         /\ WholeHour(t, Delay(t, k))
         /\ IsActiveAt(s, Candidate(t, k)) = ActiveIn(s, t, Delay(t, k))
<1>1. t \in Nat
  BY CycleFacts DEF Times
<1> QED
  BY <1>1 DEF Delay, WholeHour, Candidate, ActiveIn

\* It tries every one of them.
LEMMA EveryHourTried ==
  ASSUME NEW t \in Times, NEW n \in Nat, NEW d \in 1..(2 * n), WholeHour(t, d)
  PROVE  \E k \in 1..n : d = Delay(t, k)
<1>1. t \in Nat
  BY CycleFacts DEF Times
<1> DEFINE k == (d + (t % 2)) \div 2
<1>2. k \in 1..n /\ d = 2 * k - (t % 2)
  BY <1>1 DEF WholeHour
<1> QED
  BY <1>2 DEF Delay

\* A transition that next_transition finds is the first one, and without one the
\* calendar stays as it is up to the horizon.
LEMMA FlipsFacts ==
  ASSUME NEW s \in Specs, NEW t \in Times
  PROVE  /\ Flips(s, t) = {} => Stable(s, IsActiveAt(s, t), t, 2 * Horizon)
         /\ Flips(s, t) # {} =>
              LET m == Delay(t, Min(Flips(s, t))) IN
              /\ m \in 1..(2 * Horizon) /\ WholeHour(t, m)
              /\ Candidate(t, Min(Flips(s, t))) = (t + m) % Cycle
              /\ ActiveIn(s, t, m) # IsActiveAt(s, t)
              /\ Stable(s, IsActiveAt(s, t), t, m - 1)
<1>1. Horizon \in Nat /\ t \in Nat
  BY ConstantsAssumption, CycleFacts DEF Times
<1>2. ASSUME Flips(s, t) = {}, NEW d \in 1..(2 * Horizon), WholeHour(t, d)
      PROVE  ActiveIn(s, t, d) = IsActiveAt(s, t)
  <2>1. PICK k \in 1..Horizon : d = Delay(t, k)
    BY <1>1, <1>2, EveryHourTried
  <2>2. IsActiveAt(s, Candidate(t, k)) = IsActiveAt(s, t)
    BY <1>2 DEF Flips
  <2> QED
    BY <1>1, <2>1, <2>2, DelayFacts
<1>3. ASSUME Flips(s, t) # {}
      PROVE  LET m == Delay(t, Min(Flips(s, t))) IN
             /\ m \in 1..(2 * Horizon) /\ WholeHour(t, m)
             /\ Candidate(t, Min(Flips(s, t))) = (t + m) % Cycle
             /\ ActiveIn(s, t, m) # IsActiveAt(s, t)
             /\ Stable(s, IsActiveAt(s, t), t, m - 1)
  <2> DEFINE k == Min(Flips(s, t))
             m == Delay(t, k)
  <2>1. Flips(s, t) \in SUBSET Nat
    BY <1>1 DEF Flips
  <2>2. k \in Flips(s, t) /\ \A j \in Flips(s, t) : k <= j
    BY <1>3, <2>1, MinFacts
  <2> HIDE DEF k
  <2>3. k \in 1..Horizon /\ IsActiveAt(s, Candidate(t, k)) # IsActiveAt(s, t)
    BY <2>2 DEF Flips
  <2>4. /\ m \in 1..(2 * Horizon) /\ WholeHour(t, m)
        /\ IsActiveAt(s, Candidate(t, k)) = ActiveIn(s, t, m)
    BY <1>1, <2>3, DelayFacts
  <2>5. ASSUME NEW d \in 1..(m - 1), WholeHour(t, d)
        PROVE  ActiveIn(s, t, d) = IsActiveAt(s, t)
    <3>1. d \in 1..(2 * Horizon) /\ d < m
      BY <1>1, <2>4
    <3>2. PICK j \in 1..Horizon : d = Delay(t, j)
      BY <1>1, <2>5, <3>1, EveryHourTried
    <3>3. j < k
      BY <1>1, <2>3, <3>1, <3>2 DEF Delay
    <3>4. j \notin Flips(s, t)
      BY <1>1, <2>2, <2>3, <3>3
    <3>5. IsActiveAt(s, Candidate(t, j)) = IsActiveAt(s, t)
      BY <3>4 DEF Flips
    <3> QED
      BY <1>1, <3>2, <3>5, DelayFacts
  <2>6. Stable(s, IsActiveAt(s, t), t, m - 1)
    BY <2>5 DEF Stable
  <2>7. Candidate(t, k) = (t + m) % Cycle
    BY DEF Candidate
  <2> QED
    BY <2>3, <2>4, <2>6, <2>7 DEF k
<1> QED
  BY <1>2, <1>3 DEF Stable

\* What a reconcile publishes is foreseen for as long as it waits, or shorter.
LEMMA ComputedForeseen ==
  ASSUME NEW s \in Specs, NEW t \in Times, NEW st, NEW w \in Nat, w <= Wait(s, t),
         st.active = IsActiveAt(s, t),
         Flips(s, t) # {} => st.next = Candidate(t, Min(Flips(s, t)))
  PROVE  Foreseen(s, st, t, w)
<1>1. Horizon \in Nat /\ Fallback \in 1..Horizon /\ t \in Nat /\ t < Cycle /\ Cycle \in Nat \ {0}
  BY ConstantsAssumption, CycleFacts DEF Times
<1>2. (t + 0) % Cycle = t
  BY <1>1
<1>3. ActiveIn(s, t, 0) = st.active
  BY <1>2 DEF ActiveIn
<1>4. CASE Flips(s, t) = {}
  <2>1. w <= 2 * Fallback
    BY <1>4 DEF Wait
  <2>2. Stable(s, st.active, t, 2 * Horizon)
    BY <1>4, FlipsFacts
  <2>3. Stable(s, st.active, t, 2 * (Horizon - Fallback) + w)
    BY <1>1, <2>1, <2>2 DEF Stable
  <2> QED
    BY <1>3, <2>3 DEF Foreseen
<1>5. CASE Flips(s, t) # {}
  <2> DEFINE m == Delay(t, Min(Flips(s, t)))
  <2>1. /\ m \in 1..(2 * Horizon) /\ WholeHour(t, m) /\ st.next = (t + m) % Cycle
        /\ ActiveIn(s, t, m) # st.active /\ Stable(s, st.active, t, m - 1)
    BY <1>5, FlipsFacts
  <2>2. w <= m
    BY <1>5 DEF Wait
  <2> HIDE DEF m
  <2> QED
    BY <1>3, <2>1, <2>2 DEF Foreseen
<1> QED
  BY <1>4, <1>5

(***************************************************************************)
(* Types                                                                   *)
(***************************************************************************)
\* compute_status and the requeue keep to their types, and the requeue is never due at
\* once, which would be a busy loop.
LEMMA ComputedFacts ==
  ASSUME NEW s \in Specs, NEW t \in Times, NEW old \in Statuses
  PROVE  ComputeStatus(s, old, t) \in Statuses /\ Wait(s, t) \in Nat \ {0}
<1>1. Horizon \in Nat /\ Fallback \in 1..Horizon /\ t \in Nat
  BY ConstantsAssumption, CycleFacts DEF Times
<1>2. Stamp(old, IsActiveAt(s, t)) \in {0, 1}
  BY DEF Stamp, Statuses
<1>3. Flips(s, t) # {} => /\ Delay(t, Min(Flips(s, t))) \in 1..(2 * Horizon)
                          /\ Candidate(t, Min(Flips(s, t))) = (t + Delay(t, Min(Flips(s, t)))) % Cycle
  BY FlipsFacts
<1>4. Flips(s, t) # {} => Candidate(t, Min(Flips(s, t))) \in Times
  <2> DEFINE m == Delay(t, Min(Flips(s, t)))
  <2>1. SUFFICES ASSUME m \in Nat PROVE (t + m) % Cycle \in Times
    BY <1>1, <1>3
  <2> HIDE DEF m
  <2> QED
    BY <1>1, <2>1, CycleFacts DEF Times
<1>5. Wait(s, t) \in Nat \ {0}
  BY <1>1, <1>3 DEF Wait
<1>6. IsActiveAt(s, t) \in BOOLEAN
  BY ActiveBoolean
<1> QED
  BY <1>2, <1>4, <1>5, <1>6 DEF ComputeStatus, Statuses

\* What a patch leaves in the status.
LEMMA PatchedFacts ==
  ASSUME NEW old \in Statuses, NEW new \in Statuses
  PROVE  /\ Patched(old, new) \in Statuses
         /\ Patched(old, new).there = new.there /\ Patched(old, new).active = new.active
         /\ new.next # NotThere => Patched(old, new).next = new.next
  BY DEF Patched, Statuses

\* The status a reconcile starts from and no reconcile at all.
LEMMA NoStatusFacts == NoStatus \in Statuses /\ Idle \in Control /\ Idle.pc = "idle"
  BY DEF NoStatus, Statuses, NotThere, Idle, Control

\* The provider's spec, status, cached copy and requeue keep to their types.
THEOREM TypeCorrect == Spec => []TypeOK
<1>1. Init => TypeOK
  BY NoStatusFacts, ConstantsAssumption DEF Init, TypeOK
<1>2. TypeOK /\ [Next]_vars => TypeOK'
  <2> SUFFICES ASSUME TypeOK, [Next]_vars PROVE TypeOK'
    OBVIOUS
  <2> USE DEF TypeOK
  <2>1. CASE Reconcile
    <3>1. seen.spec \in Specs /\ seen.status \in Statuses /\ now \in Times
      OBVIOUS
    <3>2. ctl' \in Control
      BY <2>1, <3>1, ComputedFacts DEF Reconcile, Control
    <3> QED
      BY <2>1, <3>2 DEF Reconcile
  <2>2. CASE ReconcileFails
    BY <2>2 DEF ReconcileFails
  <2>3. CASE PatchStatus
    <3>1. ctl.result \in Statuses /\ ctl.wait \in Nat /\ MaxEvents \in Nat
      BY ConstantsAssumption DEF Control
    <3>2. status' \in Statuses
      BY <2>3, <3>1, PatchedFacts DEF PatchStatus
    <3>3. wake' \in Nat
      BY <2>3, <3>1 DEF PatchStatus
    <3>4. events' \in 0..MaxEvents
      BY <2>3, <3>1 DEF PatchStatus, Charge, Answers
    <3> QED
      BY <2>3, <3>2, <3>3, <3>4, NoStatusFacts DEF PatchStatus
  <2>4. CASE Observe \/ Crash
    <3>1. seen' \in [spec : Specs, status : Statuses] /\ dirty' \in BOOLEAN
      <4>1. seen' = [spec |-> spec, status |-> status] /\ dirty' = TRUE
        BY <2>4 DEF Observe, Crash
      <4>2. [spec |-> spec, status |-> status] \in [spec : Specs, status : Statuses]
        OBVIOUS
      <4> QED
        BY <4>1, <4>2
    <3>2. ctl' \in Control /\ wake' \in Nat
      BY <2>4, NoStatusFacts DEF Observe, Crash
    <3>3. events' \in 0..MaxEvents
      BY <2>4, ConstantsAssumption DEF Observe, Crash
    <3> QED
      BY <2>4, <3>1, <3>2, <3>3 DEF Observe, Crash
  <2>5. CASE UserEdits
    BY <2>5, ConstantsAssumption DEF UserEdits
  <2>6. CASE Tick
    <3>1. now' \in Times
      BY <2>6, CycleFacts DEF Tick, Times
    <3> QED
      BY <2>6, <3>1 DEF Tick, AtRest
  <2>7. CASE UNCHANGED vars
    BY <2>7 DEF vars
  <2> QED
    BY <2>1, <2>2, <2>3, <2>4, <2>5, <2>6, <2>7 DEF Next
<1> QED
  BY <1>1, <1>2, PTL DEF Spec

(***************************************************************************)
(* Publication                                                             *)
(***************************************************************************)
\* A reconcile in progress is up to date unless a watch event waits.
LEMMA InFlightHolds == Spec => []InFlight
<1>1. Init => InFlight
  BY DEF Init, InFlight, Idle
<1>2. InFlight /\ [Next]_vars => InFlight'
  <2> SUFFICES ASSUME InFlight, [Next]_vars PROVE InFlight'
    OBVIOUS
  <2>1. CASE Reconcile
    BY <2>1 DEF Reconcile, InFlight
  <2>2. CASE ReconcileFails \/ Tick
    BY <2>2 DEF ReconcileFails, Tick, AtRest, InFlight
  <2>3. CASE PatchStatus
    BY <2>3, NoStatusFacts DEF PatchStatus, InFlight
  <2>4. CASE Observe \/ Crash
    BY <2>4 DEF Observe, Crash, InFlight
  <2>5. CASE UserEdits
    BY <2>5 DEF UserEdits, InFlight
  <2>6. CASE UNCHANGED vars
    BY <2>6 DEF vars, InFlight
  <2> QED
    BY <2>1, <2>2, <2>3, <2>4, <2>5, <2>6 DEF Next
<1> QED
  BY <1>1, <1>2, PTL DEF Spec

\* Reconciles and the clock keep the status telling what the copy asks for.
LEMMA KeptHolds == Spec => []Kept
<1>1. Init => Kept
  BY DEF Init, Kept
<1>2. TypeOK /\ InFlight /\ Kept /\ [Next]_vars => Kept'
  <2> SUFFICES ASSUME TypeOK, InFlight, Kept, [Next]_vars,
                      (ctl.pc = "idle" /\ ~dirty /\ wake > 0 /\ ~Fails(seen.spec))'
               PROVE  (status.there /\ Foreseen(seen.spec, status, now, wake))'
    BY DEF Kept
  <2>1. CASE Reconcile \/ ReconcileFails
    BY <2>1 DEF Reconcile, ReconcileFails, Fails
  <2>6. CASE Observe \/ Crash
    BY <2>6 DEF Observe, Crash
  <2>2. CASE PatchStatus
    <3>1. /\ ctl.pc = "patch" /\ ~dirty /\ UNCHANGED <<seen, now>>
          /\ seen.spec \in Specs /\ seen.status \in Statuses /\ now \in Times
          /\ status \in Statuses /\ wake \in Nat
      BY <2>2 DEF PatchStatus, TypeOK
    <3>2. /\ ctl.result = ComputeStatus(seen.spec, seen.status, now)
          /\ ctl.wait = Wait(seen.spec, now)
      BY <3>1 DEF InFlight
    <3>3. ctl.result \in Statuses /\ ctl.wait \in Nat
      BY <3>1, <3>2, ComputedFacts
    <3>4. wake' \in Nat /\ wake' <= ctl.wait /\ status' = Patched(status, ctl.result)
      BY <2>2, <3>1, <3>3 DEF PatchStatus
    <3>5. /\ ctl.result.there /\ ctl.result.active = IsActiveAt(seen.spec, now)
          /\ Flips(seen.spec, now) # {} =>
               ctl.result.next = Candidate(now, Min(Flips(seen.spec, now)))
      BY <3>2 DEF ComputeStatus
    <3>6. Flips(seen.spec, now) # {} => ctl.result.next # NotThere
      <4>1. SUFFICES ASSUME Flips(seen.spec, now) # {} PROVE ctl.result.next \in Nat
        BY DEF NotThere
      <4>2. /\ Delay(now, Min(Flips(seen.spec, now))) \in 1..(2 * Horizon)
            /\ ctl.result.next = (now + Delay(now, Min(Flips(seen.spec, now)))) % Cycle
        BY <3>1, <3>5, <4>1, FlipsFacts
      <4> DEFINE m == Delay(now, Min(Flips(seen.spec, now)))
      <4>3. m \in Nat /\ ctl.result.next = (now + m) % Cycle
        BY <4>2, ConstantsAssumption
      <4> HIDE DEF m
      <4> QED
        BY <3>1, <4>3, CycleFacts DEF Times
    <3>7. /\ status'.there /\ status'.active = IsActiveAt(seen.spec, now)
          /\ Flips(seen.spec, now) # {} =>
               status'.next = Candidate(now, Min(Flips(seen.spec, now)))
      BY <3>1, <3>3, <3>4, <3>5, <3>6, PatchedFacts
    <3>8. Foreseen(seen.spec, status', now, wake')
      BY <3>1, <3>2, <3>4, <3>7, ComputedForeseen
    <3> QED
      BY <3>1, <3>7, <3>8
  <2>3. CASE UserEdits
    BY <2>3 DEF UserEdits, Kept
  <2>4. CASE Tick
    <3>1. /\ status.there /\ Foreseen(seen.spec, status, now, wake)
          /\ UNCHANGED <<seen, status>>
          /\ now' = (now + 1) % Cycle /\ wake' = wake - 1
      BY <2>4 DEF Tick, AtRest, Kept
    <3>2. seen.spec \in Specs /\ now \in Times /\ wake \in Nat /\ wake >= 2
      BY <3>1 DEF TypeOK
    <3>3. Foreseen(seen.spec, status, (now + 1) % Cycle, wake - 1)
      BY <3>1, <3>2, ForeseenTick
    <3> QED
      BY <3>1, <3>3
  <2>5. CASE UNCHANGED vars
    BY <2>5 DEF vars, Kept
  <2> QED
    BY <2>1, <2>2, <2>3, <2>4, <2>5, <2>6 DEF Next
<1> QED
  BY <1>1, <1>2, TypeCorrect, InFlightHolds, PTL DEF Spec

\* reconcile's requeue lands on every change of the calendar: at rest the published
\* status.active is what is_active_at says now or, in a timezone off by a fraction of
\* an hour, will say at the next whole UTC hour. For every calendar, horizon and
\* sequence of edits, failed patches and restarts.
THEOREM PublishedInTimeHolds == Spec => []PublishedInTime
<1>1. TypeOK /\ Kept => PublishedInTime
  <2> SUFFICES ASSUME TypeOK, Kept, AtRest, ~Fails(spec)
               PROVE  \/ status.there /\ status.active = IsActiveAt(spec, now)
                      \/ spec.offset % 2 = 1 /\ now % 2 = 1 /\ wake = 1
    BY DEF PublishedInTime
  <2>1. seen.spec = spec /\ status.there /\ Foreseen(spec, status, now, wake)
    BY DEF AtRest, Kept
  <2>2. (now + 0) % Cycle = now
    BY CycleFacts DEF TypeOK, Times
  <2> QED
    BY <2>1, <2>2 DEF Foreseen, ActiveIn
<1> QED
  BY <1>1, TypeCorrect, KeptHolds, PTL

\* status.nextTransitionTime is the first whole hour at which the calendar changes,
\* however long ago next_transition found it, and it is there for every transition
\* that is a fallback requeue closer than the horizon of the scan.
THEOREM NextIsFirstHolds == Spec => []NextIsFirst
<1>1. TypeOK /\ Kept => NextIsFirst
  <2> SUFFICES ASSUME TypeOK, Kept, AtRest, ~Fails(spec),
                      NEW k \in 1..(Horizon - Fallback),
                      IsActiveAt(spec, Candidate(now, k)) # status.active,
                      \A j \in 1..(k - 1) : IsActiveAt(spec, Candidate(now, j)) = status.active
               PROVE  status.next = Candidate(now, k)
    BY DEF NextIsFirst
  <2>1. seen.spec = spec /\ Foreseen(spec, status, now, wake)
    BY DEF AtRest, Kept
  <2>2. /\ spec \in Specs /\ now \in Times /\ now \in Nat /\ wake \in Nat
        /\ Horizon \in Nat /\ Fallback \in 1..Horizon /\ Horizon - Fallback \in Nat
    BY ConstantsAssumption, CycleFacts DEF TypeOK, Times
  <2> DEFINE d == Delay(now, k)
  <2>3. /\ d \in 1..(2 * (Horizon - Fallback)) /\ WholeHour(now, d)
        /\ ActiveIn(spec, now, d) # status.active
    BY <2>2, DelayFacts
  <2>4. ~Stable(spec, status.active, now, 2 * (Horizon - Fallback) + wake)
    BY <2>2, <2>3 DEF Stable
  <2>5. PICK m \in 1..(2 * Horizon) :
          /\ WholeHour(now, m) /\ status.next = (now + m) % Cycle
          /\ ActiveIn(spec, now, m) # status.active
          /\ Stable(spec, status.active, now, m - 1)
    BY <2>1, <2>4 DEF Foreseen
  <2>6. ~(d < m)
    BY <2>2, <2>3, <2>5 DEF Stable
  <2>7. ~(m < d)
    <3>1. SUFFICES ASSUME m < d PROVE FALSE
      OBVIOUS
    <3>2. PICK j \in 1..Horizon : m = Delay(now, j)
      BY <2>2, <2>5, EveryHourTried
    <3>3. j \in 1..(k - 1)
      BY <2>2, <3>1, <3>2 DEF Delay
    <3>4. ActiveIn(spec, now, m) = IsActiveAt(spec, Candidate(now, j))
      BY <2>2, <3>2, DelayFacts
    <3> QED
      BY <2>5, <3>3, <3>4
  <2>8. m = d
    BY <2>2, <2>3, <2>6, <2>7
  <2> QED
    BY <2>5, <2>8 DEF Candidate
<1> QED
  BY <1>1, TypeCorrect, KeptHolds, PTL

\* A reconcile does not set itself off: what compute_status makes of its own published
\* outcome within the same half-hour is that outcome, time stamp and all, so that the
\* patch changes nothing and causes no further watch event.
THEOREM PublishingIsIdempotent ==
  ASSUME NEW s \in Specs, NEW t \in Times, NEW old \in Statuses
  PROVE  LET published == Patched(old, ComputeStatus(s, old, t))
         IN Patched(published, ComputeStatus(s, published, t)) = published
<1> DEFINE first == ComputeStatus(s, old, t)
           published == Patched(old, first)
           again == ComputeStatus(s, published, t)
           result == Patched(published, again)
<1>1. first \in Statuses /\ published \in Statuses /\ again \in Statuses /\ result \in Statuses
  BY ComputedFacts, PatchedFacts
<1>2. /\ first.there /\ first.active = IsActiveAt(s, t)
      /\ again.there /\ again.active = IsActiveAt(s, t)
      /\ again.next = first.next /\ again.stamp = Stamp(published, IsActiveAt(s, t))
  BY DEF ComputeStatus
<1> HIDE DEF first, again
<1>3. /\ published.there = first.there /\ published.active = first.active
      /\ published.next = IF first.next = NotThere THEN old.next ELSE first.next
  BY <1>1 DEF Patched, Statuses
<1> HIDE DEF published
<1>4. again.stamp = published.stamp
  BY <1>2, <1>3 DEF Stamp
<1>5. /\ result.there = again.there /\ result.active = again.active
      /\ result.stamp = again.stamp
      /\ result.next = IF again.next = NotThere THEN published.next ELSE again.next
  BY <1>1 DEF Patched, Statuses
<1> HIDE DEF result
<1>6. result.there = published.there
  BY <1>1, <1>2, <1>3, <1>5 DEF Statuses
<1>7. result.active = published.active /\ result.stamp = published.stamp /\ result.next = published.next
  BY <1>2, <1>3, <1>4, <1>5
<1>8. result = published
  BY <1>1, <1>6, <1>7 DEF Statuses
<1> QED
  BY <1>8 DEF first, published, again, result

=============================================================================
