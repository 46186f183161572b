-------------------------- MODULE Ingestion_proofs --------------------------
(***************************************************************************)
(* Ingestion, for ledgers, pages, channels and limits of every size: types, *)
(* what a run hands over, and how long it waits between attempts.          *)
(***************************************************************************)
EXTENDS Ingestion, Selection_proofs

-----------------------------------------------------------------------------
(* The delays *)

\* Doubled is what its equation says.
LEMMA DoubledDef ==
    /\ \A n \in 0..MaxAttempts : Doubled[n] \in Nat
    /\ Doubled[0] = BaseDelay
    /\ \A n \in 1..MaxAttempts : Doubled[n] = 2 * Doubled[n - 1]
<1>. DEFINE step == [x \in Nat \X Nat |-> 2 * x[2]]
            Doubles(g) == g = [n \in 0..MaxAttempts |->
                                 IF n = 0 THEN BaseDelay ELSE 2 * g[n - 1]]
            f == CHOOSE g : Doubles(g)
<1>. USE RetryAssumption
<1>1. \A i \in 1..MaxAttempts, d \in Nat :
        step[<<i, d>>] = 2 * d /\ step[<<i, d>>] \in Nat
  OBVIOUS
<1>. HIDE DEF step
<1>2. PICK g : Chain(g, Nat, BaseDelay, step, MaxAttempts)
  BY <1>1, ChainExists
<1>3. /\ g \in [0..MaxAttempts -> Nat] /\ g[0] = BaseDelay
      /\ \A i \in 1..MaxAttempts :
           g[i - 1] \in Nat /\ g[i] = step[<<i, g[i - 1]>>]
  BY <1>2 DEF Chain
<1>4. \A i \in 1..MaxAttempts : g[i] = 2 * g[i - 1]
  BY <1>1, <1>3
<1>5. Doubles(g)
  <2>1. \A n \in 0..MaxAttempts :
          g[n] = IF n = 0 THEN BaseDelay ELSE 2 * g[n - 1]
    BY <1>3, <1>4
  <2>. QED BY <1>3, <2>1
<1>6. Doubled = f
  BY DEF Doubled
<1>7. Doubles(f)
  <2>. HIDE DEF Doubles
  <2>. QED BY <1>5
<1>. HIDE DEF f
<1>8. f[0] = BaseDelay /\ \A n \in 1..MaxAttempts : f[n] = 2 * f[n - 1]
  <2>1. 0 \in 0..MaxAttempts
        /\ \A n \in 1..MaxAttempts : n \in 0..MaxAttempts /\ n # 0
    OBVIOUS
  <2>. QED BY <1>7, <2>1
<1>9. \A n \in 0..MaxAttempts : f[n] \in Nat
  <2>. DEFINE Good == {n \in Nat : n <= MaxAttempts => f[n] \in Nat}
  <2>1. 0 \in Good
    BY <1>8
  <2>2. ASSUME NEW n \in Nat, n \in Good
        PROVE  n + 1 \in Good
    <3>1. SUFFICES ASSUME n + 1 <= MaxAttempts
                   PROVE  f[n + 1] \in Nat
      OBVIOUS
    <3>2. n + 1 \in 1..MaxAttempts /\ (n + 1) - 1 = n /\ f[n] \in Nat
      BY <2>2, <3>1
    <3>3. f[n + 1] = 2 * f[n]
      BY <1>8, <3>2
    <3>. QED BY <3>2, <3>3
  <2>3. Nat \subseteq Good
    <3>. HIDE DEF Good
    <3>. QED BY <2>1, <2>2, NatSetInduction
  <2>. QED BY <2>3
<1>. QED BY <1>6, <1>8, <1>9

\* The delay that follows k failures.
DelayAfter(k) ==
    IF k > 0 /\ Doubled[k] > MaxDelay THEN MaxDelay ELSE Doubled[k]

\* The delay a fetch would wait for next, and the one it is waiting for.
Waits ==
    /\ pc = "fetch" => attempt < MaxAttempts /\ delay = DelayAfter(attempt)
    /\ pc = "backoff" =>
         /\ attempt \in 1..(MaxAttempts - 1)
         /\ delay = DelayAfter(attempt - 1)

LEMMA DelayGrows ==
    ASSUME NEW k \in 1..(MaxAttempts - 1), delay = DelayAfter(k - 1)
    PROVE  /\ delay \in Nat
           /\ (IF 2 * delay < MaxDelay THEN 2 * delay ELSE MaxDelay)
                = DelayAfter(k)
<1>. USE RetryAssumption
<1>1. k \in 1..MaxAttempts /\ k - 1 \in 0..MaxAttempts /\ k > 0
  OBVIOUS
<1>2. Doubled[k - 1] \in Nat /\ Doubled[k] = 2 * Doubled[k - 1]
  BY <1>1, DoubledDef
<1>3. CASE k - 1 > 0 /\ Doubled[k - 1] > MaxDelay
  BY <1>1, <1>2, <1>3 DEF DelayAfter
<1>4. CASE ~(k - 1 > 0 /\ Doubled[k - 1] > MaxDelay)
  BY <1>1, <1>2, <1>4 DEF DelayAfter
<1>. QED BY <1>3, <1>4

-----------------------------------------------------------------------------
(* What a run hands over *)

LEMMA KeptSplit ==
    ASSUME NEW a \in Nat, NEW b \in Nat, NEW c \in Nat, a <= b, b <= c
    PROVE  /\ Kept(a, c) = Kept(a, b) \cup Kept(b, c)
           /\ \A x \in Kept(a, b), y \in Kept(b, c) : x < y
BY DEF Kept

LEMMA FetchedDef ==
    ASSUME NEW a \in Nat, NEW b \in Nat
    PROVE  /\ Fetched(a, b) \in Seq(Normalizable)
           /\ IsAscending(Fetched(a, b))
           /\ ToSet(Fetched(a, b)) = Kept(a, b)
<1>. DEFINE K == Kept(a, b)
<1>1. K \in SUBSET (1..b) /\ K \subseteq Normalizable
  BY DEF Kept, Normalizes
<1>. HIDE DEF K
<1>2. /\ Ascending(K) \in Seq(K) /\ IsAscending(Ascending(K))
      /\ ToSet(Ascending(K)) = K
  BY <1>1, AscendingDef
<1>3. Ascending(K) \in Seq(Normalizable)
  BY <1>1, <1>2, SeqMonotonic
<1>. QED BY <1>2, <1>3 DEF Fetched, K

LEMMA AscendingConcat ==
    ASSUME NEW X \in SUBSET Int, NEW s \in Seq(X), NEW t \in Seq(X),
           IsAscending(s), IsAscending(t),
           \A x \in ToSet(s), y \in ToSet(t) : x < y
    PROVE  IsAscending(s \o t) /\ ToSet(s \o t) = ToSet(s) \cup ToSet(t)
<1>. DEFINE u == s \o t
            m == Len(s)
            n == Len(t)
<1>1. /\ m \in Nat /\ n \in Nat
      /\ DOMAIN s = 1..m /\ DOMAIN t = 1..n /\ DOMAIN u = 1..(m + n)
      /\ \A i \in 1..(m + n) : u[i] = IF i <= m THEN s[i] ELSE t[i - m]
  OBVIOUS
<1>. HIDE DEF u, m, n
<1>2. \A i \in 1..(m + n) :
        (i <= m => i \in 1..m) /\ (~(i <= m) => i - m \in 1..n)
  BY <1>1
<1>3. IsAscending(u)
  <2>1. SUFFICES ASSUME NEW i \in 1..(m + n), NEW j \in 1..(m + n), i < j
                 PROVE  u[i] < u[j]
    BY <1>1 DEF IsAscending
  <2>2. CASE j <= m
    <3>1. i <= m /\ i \in 1..m /\ j \in 1..m
      BY <1>1, <1>2, <2>1, <2>2
    <3>. QED BY <1>1, <2>1, <2>2, <3>1 DEF IsAscending
  <2>3. CASE i <= m /\ ~(j <= m)
    <3>1. u[i] \in ToSet(s) /\ u[j] \in ToSet(t)
      BY <1>1, <1>2, <2>3 DEF ToSet
    <3>. QED BY <3>1
  <2>4. CASE ~(i <= m) /\ ~(j <= m)
    <3>1. i - m \in 1..n /\ j - m \in 1..n /\ i - m < j - m
      BY <1>1, <1>2, <2>1, <2>4
    <3>2. t[i - m] < t[j - m]
      BY <1>1, <3>1 DEF IsAscending
    <3>. QED BY <1>1, <2>4, <3>2
  <2>5. j <= m \/ (i <= m /\ ~(j <= m)) \/ (~(i <= m) /\ ~(j <= m))
    BY <1>1, <2>1
  <2>. QED BY <2>2, <2>3, <2>4, <2>5
<1>4. ToSet(u) = ToSet(s) \cup ToSet(t)
  <2>1. \A i \in 1..(m + n) : u[i] \in ToSet(s) \cup ToSet(t)
    BY <1>1, <1>2 DEF ToSet
  <2>2. \A i \in 1..m : i \in 1..(m + n) /\ u[i] = s[i]
    BY <1>1
  <2>3. ASSUME NEW i \in 1..n
        PROVE  i + m \in 1..(m + n) /\ u[i + m] = t[i]
    <3>1. i + m \in 1..(m + n) /\ ~(i + m <= m) /\ (i + m) - m = i
      BY <1>1
    <3>. QED BY <1>1, <3>1
  <2>4. ToSet(s) \subseteq ToSet(u)
    BY <1>1, <2>2 DEF ToSet
  <2>5. ToSet(t) \subseteq ToSet(u)
    BY <1>1, <2>3 DEF ToSet
  <2>6. ToSet(u) \subseteq ToSet(s) \cup ToSet(t)
    <3>1. SUFFICES ASSUME NEW x \in ToSet(u)
                   PROVE  x \in ToSet(s) \cup ToSet(t)
      OBVIOUS
    <3>2. PICK i \in 1..(m + n) : x = u[i]
      BY <1>1 DEF ToSet
    <3>. QED BY <2>1, <3>2
  <2>. QED BY <2>4, <2>5, <2>6
<1>. QED BY <1>3, <1>4 DEF u

LEMMA SubSeqToEnd ==
    ASSUME NEW X, NEW s \in Seq(X), NEW k \in 0..Len(s)
    PROVE  /\ SubSeq(s, k + 1, Len(s)) \in Seq(X)
           /\ Len(SubSeq(s, k + 1, Len(s))) = Len(s) - k
           /\ \A i \in 1..(Len(s) - k) : SubSeq(s, k + 1, Len(s))[i] = s[k + i]
<1>. DEFINE t == SubSeq(s, k + 1, Len(s))
            n == Len(s)
<1>1. n \in Nat /\ k \in Nat /\ k <= n
  OBVIOUS
<1>2. \A i \in (k + 1)..n : s[i] \in X
  <2>1. \A i \in 1..n : s[i] \in X
    OBVIOUS
  <2>. HIDE DEF n
  <2>. QED BY <1>1, <2>1
<1>3. /\ t \in Seq(X)
      /\ Len(t) = (IF k + 1 <= n THEN n - (k + 1) + 1 ELSE 0)
      /\ \A i \in 1..(n - (k + 1) + 1) : t[i] = s[(k + 1) + i - 1]
  <2>1. k + 1 \in Int /\ n \in Int
    BY <1>1
  <2>. QED BY <1>2, <2>1, SubSeqProperties
<1>. HIDE DEF t, n
<1>4. n - (k + 1) + 1 = n - k /\ (~(k + 1 <= n) => n - k = 0)
      /\ \A i \in 1..(n - k) : (k + 1) + i - 1 = k + i
  BY <1>1
<1>5. Len(t) = n - k /\ \A i \in 1..(n - k) : t[i] = s[k + i]
  BY <1>3, <1>4
<1>. QED BY <1>3, <1>5 DEF t, n

\* Sending moves a transaction from the batch to what was handed over, and
\* changes nothing of the two together.
LEMMA SendingKeeps ==
    ASSUME NEW X, NEW h \in Seq(X), NEW b \in Seq(X), b # << >>,
           NEW k \in 0..Len(h)
    PROVE  SubSeq(Append(h, Head(b)), k + 1, Len(Append(h, Head(b)))) \o Tail(b)
             = SubSeq(h, k + 1, Len(h)) \o b
<1>. DEFINE x == Head(b)
            r == SubSeq(h, k + 1, Len(h))
<1>1. x \in X /\ Tail(b) \in Seq(X) /\ b = <<x>> \o Tail(b)
  OBVIOUS
<1>2. Len(h) \in Nat /\ Len(Append(h, x)) = Len(h) + 1
      /\ Append(h, x) \in Seq(X)
  BY <1>1
<1>3. r \in Seq(X)
  OBVIOUS
<1>. HIDE DEF x
<1>4. SubSeq(Append(h, x), k + 1, Len(h) + 1) = Append(r, x)
  <2>. DEFINE l == SubSeq(Append(h, x), k + 1, Len(h) + 1)
  <2>1. l \in Seq(X) /\ Len(l) = Len(h) + 1 - k
        /\ \A i \in 1..(Len(h) + 1 - k) : l[i] = Append(h, x)[k + i]
    <3>. DEFINE g == Append(h, x)
    <3>1. g \in Seq(X) /\ Len(g) = Len(h) + 1 /\ k \in 0..Len(g)
      BY <1>2
    <3>. HIDE DEF g
    <3>2. /\ SubSeq(g, k + 1, Len(g)) \in Seq(X)
          /\ Len(SubSeq(g, k + 1, Len(g))) = Len(g) - k
          /\ \A i \in 1..(Len(g) - k) : SubSeq(g, k + 1, Len(g))[i] = g[k + i]
      BY <3>1, SubSeqToEnd
    <3>. QED BY <3>1, <3>2 DEF g
  <2>2. Len(r) = Len(h) - k /\ \A i \in 1..(Len(h) - k) : r[i] = h[k + i]
    BY SubSeqToEnd
  <2>. HIDE DEF l, r
  <2>3. Append(r, x) \in Seq(X) /\ Len(Append(r, x)) = Len(h) + 1 - k
    <3>1. Append(r, x) \in Seq(X) /\ Len(Append(r, x)) = Len(r) + 1
      BY <1>1, <1>3
    <3>2. Len(h) - k + 1 = Len(h) + 1 - k
      BY <1>2
    <3>. QED BY <2>2, <3>1, <3>2
  <2>4. ASSUME NEW i \in 1..(Len(h) + 1 - k)
        PROVE  l[i] = Append(r, x)[i]
    <3>1. CASE i = Len(h) + 1 - k
      <4>1. k + i = Len(h) + 1 /\ i = Len(r) + 1
        <5>1. k \in Int /\ Len(h) \in Int
          BY <1>2
        <5>. QED BY <2>2, <3>1, <5>1
      <4>2. Append(h, x)[Len(h) + 1] = x /\ Append(r, x)[Len(r) + 1] = x
        BY <1>1, <1>3
      <4>. QED BY <2>1, <4>1, <4>2
    <3>2. CASE i # Len(h) + 1 - k
      <4>1. i \in 1..(Len(h) - k) /\ k + i \in 1..Len(h)
        BY <1>2, <3>2
      <4>2. Append(h, x)[k + i] = h[k + i] /\ Append(r, x)[i] = r[i]
        BY <1>1, <1>3, <2>2, <4>1
      <4>. QED BY <2>1, <2>2, <4>1, <4>2
    <3>. QED BY <3>1, <3>2
  <2>5. l = Append(r, x)
    BY <2>1, <2>3, <2>4, SeqEqual
  <2>. QED BY <2>5 DEF l
<1>5. Append(r, x) \o Tail(b) = r \o b
  <2>. HIDE DEF r
  <2>1. Append(r, x) = r \o <<x>>
    BY <1>1, <1>3
  <2>2. <<x>> \in Seq(X)
    BY <1>1
  <2>3. (r \o <<x>>) \o Tail(b) = r \o (<<x>> \o Tail(b))
    BY <1>1, <1>3, <2>2, ConcatAssociative
  <2>. QED BY <1>1, <2>1, <2>3
<1>. QED BY <1>2, <1>4, <1>5 DEF x, r

-----------------------------------------------------------------------------
(* The invariant *)

IngestionInv ==
    /\ TypeOK
    /\ pc # "send" => batch = << >>
    /\ start.handed <= Len(handed)
    /\ start.cursor <= cursor
    /\ HandsOverEveryPage
    /\ Waits

LEMMA NothingHanded ==
    ASSUME TypeOK, batch = << >>
    PROVE  /\ SubSeq(handed, Len(handed) + 1, Len(handed)) \o batch = << >>
           /\ IsAscending(<< >>) /\ ToSet(<< >>) = {}
           /\ Kept(cursor, cursor) = {}
<1>1. handed \in Seq(Normalizable) /\ Len(handed) \in Int
  BY DEF TypeOK
<1>2. SubSeq(handed, Len(handed) + 1, Len(handed)) = << >>
  <2>1. Len(handed) + 1 \in Int /\ Len(handed) < Len(handed) + 1
    BY <1>1
  <2>. QED BY <1>1, <2>1, SubSeqEmpty
<1>3. << >> \o << >> = << >>
  OBVIOUS
<1>4. IsAscending(<< >>) /\ ToSet(<< >>) = {}
  BY DEF IsAscending, ToSet
<1>5. Kept(cursor, cursor) = {}
  BY LedgerAssumption DEF Kept, TypeOK
<1>. QED BY <1>2, <1>3, <1>4, <1>5

LEMMA IngestionStart == Init => IngestionInv
<1> SUFFICES ASSUME Init PROVE IngestionInv
  OBVIOUS
<1>. USE LedgerAssumption, RetryAssumption, ChannelAssumption DEF Init
<1>1. TypeOK
  BY DEF TypeOK
<1>2. HandsOverEveryPage
  <2>1. HandedByRun = << >> /\ Kept(start.cursor, cursor) = {}
        /\ IsAscending(<< >>) /\ ToSet(<< >>) = {}
    <3>1. start.cursor = cursor /\ start.handed = Len(handed) /\ batch = << >>
      OBVIOUS
    <3>. QED BY <1>1, <3>1, NothingHanded DEF HandedByRun
  <2>. QED BY <2>1 DEF HandsOverEveryPage
<1>3. Waits
  BY DoubledDef DEF Waits, DelayAfter
<1>. QED BY <1>1, <1>2, <1>3 DEF IngestionInv

\* A step that changes nothing of what was fetched and handed over.
LEMMA HandedUnchanged ==
    ASSUME IngestionInv,
           UNCHANGED <<cursor, batch, handed, start>>,
           pc' # "returned" => pc # "returned"
    PROVE  /\ start'.handed <= Len(handed') /\ start'.cursor <= cursor'
           /\ HandsOverEveryPage'
BY DEF IngestionInv, HandsOverEveryPage, HandedByRun

LEMMA PollAnswersKeeps ==
    ASSUME IngestionInv, NEW n \in 0..PageLimit, PollAnswers(n)
    PROVE  IngestionInv'
<1>. USE LedgerAssumption, PageAssumption DEF IngestionInv
<1>. DEFINE old == SubSeq(handed, start.handed + 1, Len(handed))
            new == Fetched(cursor, cursor + n)
<1>1. cursor \in Nat /\ cursor + n \in Nat /\ cursor <= cursor + n
      /\ start.cursor \in Nat /\ start.cursor <= cursor
      /\ start.handed \in 0..Len(handed) /\ handed \in Seq(Normalizable)
  BY DEF TypeOK
<1>2. new \in Seq(Normalizable) /\ IsAscending(new)
      /\ ToSet(new) = Kept(cursor, cursor + n)
  BY <1>1, FetchedDef
<1>3. TypeOK'
  BY <1>2 DEF PollAnswers, TypeOK, fetchVars, channelVars, historyVars
<1>4. HandsOverEveryPage'
  <2>1. old \in Seq(Normalizable)
    BY <1>1, SubSeqToEnd
  <2>. HIDE DEF old, new
  <2>2. HandedByRun = old
    <3>1. batch = << >> /\ HandedByRun = old \o batch
      BY DEF PollAnswers, HandedByRun, old
    <3>. QED BY <2>1, <3>1
  <2>3. IsAscending(old) /\ ToSet(old) = Kept(start.cursor, cursor)
    BY <2>2 DEF HandsOverEveryPage, PollAnswers
  <2>4. HandedByRun' = old \o new
    BY DEF PollAnswers, HandedByRun, old, new, historyVars
  <2>5. /\ Kept(start.cursor, cursor + n)
             = Kept(start.cursor, cursor) \cup Kept(cursor, cursor + n)
        /\ \A x \in Kept(start.cursor, cursor), y \in Kept(cursor, cursor + n) :
             x < y
    BY <1>1, KeptSplit
  <2>6. IsAscending(old \o new) /\ ToSet(old \o new) = ToSet(old) \cup ToSet(new)
    <3>1. Normalizable \in SUBSET Int
      OBVIOUS
    <3>. QED BY <1>2, <2>1, <2>3, <2>5, <3>1, AscendingConcat
  <2>7. start' = start /\ cursor' = cursor + n
    BY DEF PollAnswers, historyVars
  <2>. QED BY <1>2, <2>3, <2>4, <2>5, <2>6, <2>7 DEF HandsOverEveryPage
<1>5. start'.handed <= Len(handed') /\ start'.cursor <= cursor'
  BY <1>1 DEF PollAnswers, historyVars
<1>6. Waits' /\ pc' = "send"
  BY DEF Waits, PollAnswers
<1>. QED BY <1>3, <1>4, <1>5, <1>6

LEMMA SendKeeps ==
    ASSUME IngestionInv, Send
    PROVE  IngestionInv'
<1>. USE ChannelAssumption DEF IngestionInv
<1>1. /\ batch \in Seq(Normalizable) /\ batch # << >>
      /\ handed \in Seq(Normalizable) /\ start.handed \in 0..Len(handed)
      /\ channel \in Seq(Normalizable) /\ Len(channel) < Capacity
  BY DEF Send, TypeOK
<1>2. Head(batch) \in Normalizable /\ Tail(batch) \in Seq(Normalizable)
  BY <1>1
<1>3. /\ channel' \in Seq(Normalizable) /\ Len(channel') = Len(channel) + 1
      /\ handed' \in Seq(Normalizable) /\ Len(handed') = Len(handed) + 1
      /\ batch' \in Seq(Normalizable)
  BY <1>1, <1>2 DEF Send
<1>4. TypeOK'
  BY <1>1, <1>3 DEF Send, TypeOK, fetchVars, historyVars
<1>5. HandedByRun' = HandedByRun
  <2>1. handed' = Append(handed, Head(batch)) /\ batch' = Tail(batch)
        /\ start' = start
    BY DEF Send, historyVars
  <2>. QED BY <1>1, <2>1, SendingKeeps DEF HandedByRun
<1>6. HandsOverEveryPage'
  BY <1>5 DEF HandsOverEveryPage, Send, historyVars
<1>7. start'.handed <= Len(handed') /\ start'.cursor <= cursor'
  BY <1>1, <1>3 DEF Send, historyVars
<1>8. Waits' /\ pc' = "send"
  BY DEF Waits, Send
<1>. QED BY <1>4, <1>6, <1>7, <1>8

LEMMA BackoffKeeps ==
    ASSUME IngestionInv, PollFails \/ BackOff \/ Tick
    PROVE  IngestionInv'
<1>. USE RetryAssumption DEF IngestionInv
<1>1. UNCHANGED <<cursor, batch, handed, start, dead_letters, channelVars, runs>>
      /\ pc # "send" /\ pc' # "send" /\ pc # "returned"
  BY DEF PollFails, BackOff, Tick, historyVars
<1>2. /\ start'.handed <= Len(handed') /\ start'.cursor <= cursor'
      /\ HandsOverEveryPage'
  BY <1>1, HandedUnchanged
<1>3. CASE PollFails
  <2>1. attempt \in 0..(MaxAttempts - 1) /\ attempt' = attempt + 1
        /\ delay' = delay /\ delay = DelayAfter(attempt)
    BY <1>3 DEF PollFails, Waits, TypeOK
  <2>2. TypeOK'
    BY <1>1, <1>3, <2>1 DEF PollFails, TypeOK, channelVars
  <2>3. Waits'
    <3>1. pc' = "backoff" => attempt' \in 1..(MaxAttempts - 1)
      BY <1>3, <2>1 DEF PollFails
    <3>2. attempt' - 1 = attempt /\ pc' # "fetch"
      BY <1>3, <2>1 DEF PollFails
    <3>. QED BY <2>1, <3>1, <3>2 DEF Waits, DelayAfter
  <2>. QED BY <1>1, <1>2, <2>2, <2>3
<1>4. CASE BackOff
  <2>1. attempt \in 1..(MaxAttempts - 1) /\ attempt' = attempt
        /\ delay = DelayAfter(attempt - 1) /\ pc' = "fetch"
        /\ delay' = IF 2 * delay < MaxDelay THEN 2 * delay ELSE MaxDelay
    BY <1>4 DEF BackOff, Waits
  <2>2. delay' \in Nat /\ delay' = DelayAfter(attempt)
    BY <2>1, DelayGrows
  <2>3. TypeOK'
    BY <1>1, <2>1, <2>2 DEF TypeOK, channelVars
  <2>4. Waits'
    <3>1. attempt < MaxAttempts
      BY <2>1
    <3>. QED BY <2>1, <2>2, <3>1 DEF Waits, DelayAfter
  <2>. QED BY <1>1, <1>2, <2>3, <2>4
<1>5. CASE Tick
  <2>1. TypeOK'
    BY <1>1, <1>5 DEF Tick, TypeOK, channelVars
  <2>2. Waits'
    BY <1>5, DoubledDef DEF Tick, Waits, DelayAfter
  <2>. QED BY <1>1, <1>2, <2>1, <2>2
<1>. QED BY <1>3, <1>4, <1>5

LEMMA RunAgainKeeps ==
    ASSUME IngestionInv, RunAgain
    PROVE  IngestionInv'
<1>. USE RetryAssumption, ChannelAssumption DEF IngestionInv
<1>1. batch = << >> /\ batch' = << >> /\ UNCHANGED <<cursor, handed>>
      /\ start' = [cursor |-> cursor, handed |-> Len(handed)]
  BY DEF RunAgain
<1>2. TypeOK'
  BY <1>1 DEF RunAgain, TypeOK
<1>3. HandsOverEveryPage'
  <2>1. HandedByRun' = SubSeq(handed, Len(handed) + 1, Len(handed)) \o batch
    BY <1>1 DEF HandedByRun
  <2>2. start'.cursor = cursor' /\ cursor' = cursor
    BY <1>1
  <2>. QED BY <1>1, <2>1, <2>2, NothingHanded DEF HandsOverEveryPage
<1>4. Waits'
  BY DoubledDef DEF RunAgain, Waits, DelayAfter
<1>5. start'.handed <= Len(handed') /\ start'.cursor <= cursor' /\ pc' # "send"
  BY <1>1 DEF RunAgain, TypeOK
<1>. QED BY <1>1, <1>2, <1>3, <1>4, <1>5

LEMMA OthersKeep ==
    ASSUME IngestionInv,
           \/ SendFails \/ BatchSent
           \/ Receive \/ DropReceiver \/ DropRun \/ DrainDeadLetters
    PROVE  IngestionInv'
<1>. USE ChannelAssumption DEF IngestionInv
<1>1. CASE SendFails \/ DropRun
  <2>1. pc' = "returned" /\ batch' = << >> /\ UNCHANGED <<cursor, handed, start>>
    BY <1>1 DEF SendFails, DropRun, historyVars
  <2>2. UNCHANGED <<attempt, delay, dead_letters, channel, runs>>
        /\ connected' \in BOOLEAN
    <3>1. CASE SendFails
      BY <3>1 DEF SendFails, fetchVars, channelVars, historyVars, TypeOK
    <3>2. CASE DropRun
      BY <3>2 DEF DropRun, fetchVars, historyVars
    <3>. QED BY <1>1, <3>1, <3>2
  <2>3. TypeOK'
    <3>1. << >> \in Seq(Normalizable)
      OBVIOUS
    <3>. QED BY <2>1, <2>2, <3>1 DEF TypeOK
  <2>4. start'.handed <= Len(handed') /\ start'.cursor <= cursor'
    BY <2>1
  <2>. QED BY <2>1, <2>3, <2>4 DEF HandsOverEveryPage, Waits
<1>2. CASE BatchSent
  <2>1. UNCHANGED <<cursor, batch, handed, start>> /\ pc = "send"
        /\ pc' = "sleep" /\ batch' = << >>
    BY <1>2 DEF BatchSent, historyVars
  <2>2. TypeOK'
    BY <1>2 DEF BatchSent, TypeOK, fetchVars, channelVars, historyVars
  <2>3. start'.handed <= Len(handed') /\ start'.cursor <= cursor'
        /\ HandsOverEveryPage'
    BY <2>1, HandedUnchanged
  <2>. QED BY <2>1, <2>2, <2>3 DEF Waits
<1>3. CASE Receive \/ DropReceiver \/ DrainDeadLetters
  <2>1. UNCHANGED <<cursor, batch, handed, start, pc, attempt, delay, runs>>
    BY <1>3 DEF Receive, DropReceiver, DrainDeadLetters, historyVars, fetchVars
  <2>2. channel' \in Seq(Normalizable) /\ Len(channel') <= Capacity
    <3>1. channel \in Seq(Normalizable) /\ Len(channel) <= Capacity
      BY DEF TypeOK
    <3>2. CASE Receive
      BY <3>1, <3>2 DEF Receive
    <3>3. CASE DropReceiver
      BY <3>3 DEF DropReceiver
    <3>4. CASE DrainDeadLetters
      BY <3>1, <3>4 DEF DrainDeadLetters, channelVars
    <3>. QED BY <1>3, <3>2, <3>3, <3>4
  <2>3. dead_letters' \in Seq(Seq(Normalizable)) /\ connected' \in BOOLEAN
    <3>1. dead_letters \in Seq(Seq(Normalizable)) /\ connected \in BOOLEAN
          /\ << >> \in Seq(Seq(Normalizable))
      BY DEF TypeOK
    <3>2. dead_letters' \in {dead_letters, << >>}
          /\ connected' \in {connected, FALSE}
      BY <1>3 DEF Receive, DropReceiver, DrainDeadLetters, channelVars
    <3>. QED BY <3>1, <3>2
  <2>4. TypeOK'
    BY <2>1, <2>2, <2>3 DEF TypeOK
  <2>5. start'.handed <= Len(handed') /\ start'.cursor <= cursor'
        /\ HandsOverEveryPage'
    BY <2>1, HandedUnchanged
  <2>. QED BY <2>1, <2>4, <2>5 DEF Waits, DelayAfter
<1>. QED BY <1>1, <1>2, <1>3

LEMMA IngestionStep == IngestionInv /\ [Next]_vars => IngestionInv'
<1> SUFFICES ASSUME IngestionInv, [Next]_vars PROVE IngestionInv'
  OBVIOUS
<1>1. CASE Next
  BY <1>1, PollAnswersKeeps, SendKeeps, BackoffKeeps, RunAgainKeeps, OthersKeep
     DEF Next, Run, Answer
<1>2. CASE UNCHANGED vars
  <2>1. UNCHANGED <<cursor, pc, attempt, delay, batch, dead_letters, channel,
                    connected, handed, runs, start>>
    BY <1>2 DEF vars, fetchVars, channelVars, historyVars
  <2>2. TypeOK' /\ Waits'
    BY <2>1 DEF IngestionInv, TypeOK, Waits, DelayAfter
  <2>. QED BY <2>1, <2>2, HandedUnchanged DEF IngestionInv
<1>. QED BY <1>1, <1>2

LEMMA IngestionInvariant == Spec => []IngestionInv
BY IngestionStart, IngestionStep, PTL DEF Spec

\* The locals of run, the channel and the source keep their types: the channel
\* never holds more than its capacity, a fetch never counts more failures
\* than its limit.
THEOREM IngestionTypeCorrect == Spec => []TypeOK
<1>1. IngestionInv => TypeOK
  BY DEF IngestionInv
<1>. QED BY <1>1, IngestionInvariant, PTL

\* What a run has sent, and has still to send, are the operations of the
\* pages it fetched that can be normalised, each once and in ledger order.
THEOREM PagesHandedOver == Spec => []HandsOverEveryPage
<1>1. IngestionInv => HandsOverEveryPage
  BY DEF IngestionInv
<1>. QED BY <1>1, IngestionInvariant, PTL

\* Whatever fails, the delay doubles from the base up to the ceiling, and no
\* fetch waits for an attempt beyond its limit.
THEOREM DelaysAreBounded == Spec => []BackoffBounded
<1>1. IngestionInv => BackoffBounded
  <2>1. SUFFICES ASSUME IngestionInv, pc = "backoff"
                 PROVE  /\ attempt < MaxAttempts
                        /\ delay = IF attempt > 1
                                      /\ Doubled[attempt - 1] > MaxDelay
                                   THEN MaxDelay ELSE Doubled[attempt - 1]
    BY DEF BackoffBounded
  <2>2. attempt \in 1..(MaxAttempts - 1) /\ delay = DelayAfter(attempt - 1)
    BY <2>1 DEF IngestionInv, Waits
  <2>3. attempt < MaxAttempts /\ (attempt > 1 <=> attempt - 1 > 0)
    BY <2>2, RetryAssumption
  <2>. QED BY <2>2, <2>3 DEF DelayAfter
<1>. QED BY <1>1, IngestionInvariant, PTL

=============================================================================
