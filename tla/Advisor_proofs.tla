--------------------------- MODULE Advisor_proofs ---------------------------
(***************************************************************************)
(* The counters of the advice given, for any number of calls and scrapes;  *)
(* and what the sanitiser makes of a text, for texts of every length, any  *)
(* phrases and caps, and letters of any width and lower case.              *)
(***************************************************************************)
EXTENDS Advisor, Selection_proofs, FiniteSetTheorems, TLAPS

-----------------------------------------------------------------------------
(* The first and the last of a set of places in a text *)

LEMMA MinOfTwo ==
    ASSUME NEW a \in Nat, NEW b \in Nat
    PROVE  /\ Min({a, b}) = a \/ Min({a, b}) = b
           /\ Min({a, b}) <= a /\ Min({a, b}) <= b
<1>1. \E x \in {a, b} : \A y \in {a, b} : x <= y
  <2>1. CASE a <= b
    BY <2>1
  <2>2. CASE b <= a
    BY <2>2
  <2>. QED BY <2>1, <2>2
<1>. QED BY <1>1 DEF Min

LEMMA MinOfPlaces ==
    ASSUME NEW n \in Nat, NEW S \in SUBSET (0..n), S # {}
    PROVE  Min(S) \in S /\ \A x \in S : Min(S) <= x
<1>. DEFINE Back == {n - x : x \in S}
<1>1. S \in SUBSET (0..n)
  OBVIOUS
<1>2. Back \in SUBSET (0..n) /\ IsFiniteSet(Back) /\ Back # {}
  <2>1. \A x \in S : n - x \in 0..n
    BY <1>1
  <2>2. Back \in SUBSET (0..n) /\ Back # {}
    BY <2>1
  <2>. HIDE DEF Back
  <2>3. IsFiniteSet(0..n)
    BY FS_Interval
  <2>. QED BY <2>2, <2>3, FS_Subset
<1>3. PICK b \in Back : \A y \in Back : b >= y
  <2>1. Back \in SUBSET Int
    BY <1>2
  <2>. HIDE DEF Back
  <2>. QED BY <1>2, <2>1, MaxExists
<1>4. PICK m \in S : b = n - m
  OBVIOUS
<1>5. \A x \in S : m <= x
  <2>1. \A x \in S : n - x \in Back /\ x \in Int /\ m \in Int
    BY <1>1
  <2>. HIDE DEF Back
  <2>. QED BY <1>3, <1>4, <2>1
<1>. QED BY <1>4, <1>5 DEF Min

LEMMA MaxOfPlaces ==
    ASSUME NEW n \in Nat, NEW S \in SUBSET (1..n), S # {}
    PROVE  Max(S) \in S /\ \A x \in S : Max(S) >= x
<1>1. S \in SUBSET (1..n) /\ S \in SUBSET Int
  OBVIOUS
<1>2. IsFiniteSet(1..n)
  BY FS_Interval
<1>3. IsFiniteSet(S)
  BY <1>1, <1>2, FS_Subset
<1>. QED BY <1>1, <1>3, MaxExists DEF Max

-----------------------------------------------------------------------------
(* Where the answers come from *)

Recommendation(summary, signals, confidence, available) ==
    [summary |-> summary, signals |-> signals, confidence |-> confidence,
     model_available |-> available]

Advised(said, rec) == [pc |-> "answered", said |-> said, rec |-> rec]

FallbackAnswers ==
    {Advised(<< >>, rec) :
       rec \in {FallbackRecommendation,
                sanitize_recommendation(FallbackRecommendation)}}

ModelAnswers ==
    {Advised(<<output>>, sanitize_recommendation(FromModel(output))) :
       output \in Output}

\* What the sanitiser is given.
Given == {FallbackRecommendation} \cup {FromModel(output) : output \in Output}

PanicsOn(rec) == \E text \in Cleaned(rec) : panics(strip_markup(text))

Lost(rec) == [pc |-> "panicked", lost |-> rec]

Panicked == {Lost(rec) : rec \in {given \in Given : PanicsOn(given)}}

Calling == [pc : {"idle", "sending", "reading", "dropped"}]

Counting ==
    [pc : {"counting"}, model_available : BOOLEAN, owes : SUBSET Counter]

Stages ==
    Calling \cup FallbackAnswers \cup ModelAnswers \cup Panicked \cup Counting

CallType == call \in [Call -> Stages]

\* An answer says of itself where it came from.
LEMMA AnswersAvailable ==
    /\ \A s \in FallbackAnswers : /\ s.pc = "answered" /\ s.said = << >>
                                  /\ s.rec.model_available = FALSE
    /\ \A s \in ModelAnswers :
         /\ s.pc = "answered" /\ s.rec.model_available = TRUE
         /\ \E output \in Output :
              /\ s.said = <<output>>
              /\ s.rec = sanitize_recommendation(FromModel(output))
<1>1. /\ FallbackRecommendation.model_available = FALSE
      /\ sanitize_recommendation(FallbackRecommendation).model_available
           = FALSE
  BY DEF FallbackRecommendation, sanitize_recommendation
<1>2. ASSUME NEW output \in Output
      PROVE  sanitize_recommendation(FromModel(output)).model_available = TRUE
  BY DEF FromModel, sanitize_recommendation
<1>3. \A said, rec : /\ Advised(said, rec).pc = "answered"
                     /\ Advised(said, rec).said = said
                     /\ Advised(said, rec).rec = rec
  BY DEF Advised
<1>4. ASSUME NEW s \in FallbackAnswers
      PROVE  /\ s.pc = "answered" /\ s.said = << >>
             /\ s.rec.model_available = FALSE
  <2>1. PICK rec \in {FallbackRecommendation,
                      sanitize_recommendation(FallbackRecommendation)} :
               s = Advised(<< >>, rec)
    BY DEF FallbackAnswers
  <2>. QED BY <1>1, <1>3, <2>1
<1>5. ASSUME NEW s \in ModelAnswers
      PROVE  /\ s.pc = "answered" /\ s.rec.model_available = TRUE
             /\ \E output \in Output :
                  /\ s.said = <<output>>
                  /\ s.rec = sanitize_recommendation(FromModel(output))
  <2>1. PICK output \in Output :
          s = Advised(<<output>>, sanitize_recommendation(FromModel(output)))
    BY DEF ModelAnswers
  <2>. DEFINE rec == sanitize_recommendation(FromModel(output))
  <2>2. rec.model_available = TRUE
    BY <1>2
  <2>3. s.pc = "answered" /\ s.said = <<output>> /\ s.rec = rec
    BY <1>3, <2>1
  <2>. HIDE DEF rec
  <2>4. s.pc = "answered" /\ s.rec.model_available = TRUE
    BY <2>2, <2>3
  <2>. QED BY <2>3, <2>4 DEF rec
<1>. QED BY <1>4, <1>5

LEMMA PanickedIsLost ==
    \A s \in Panicked : s.pc = "panicked" /\ s.lost \in Given /\ PanicsOn(s.lost)
<1>1. \A rec : Lost(rec).pc = "panicked" /\ Lost(rec).lost = rec
  BY DEF Lost
<1>. QED BY <1>1 DEF Panicked

\* What a call is at each of its stages.
LEMMA StageOf ==
    ASSUME CallType, NEW c \in Call
    PROVE  /\ At(c, "answered" ) <=>
                call[c] \in FallbackAnswers \cup ModelAnswers
           /\ At(c, "counting") <=> call[c] \in Counting
           /\ At(c, "panicked") <=> call[c] \in Panicked
           /\ call[c] \in Stages
<1>1. call[c] \in Stages
  BY DEF CallType
<1>2. \A s \in Calling :
        s.pc # "answered" /\ s.pc # "counting" /\ s.pc # "panicked"
  BY DEF Calling
<1>3. \A s \in Counting : s.pc = "counting"
  BY DEF Counting
<1>. QED BY <1>1, <1>2, <1>3, AnswersAvailable, PanickedIsLost DEF Stages, At

\* A body holds one output of the model, or none.
LEMMA OutputOfModel ==
    ASSUME NEW body \in Body, NEW output \in model_output(body)
    PROVE  output \in Output
<1>. DEFINE text == body[1]
            start == Where(text, "open")
            end == Where(text, "close")
            json == extract_json(text)
<1>1. body # << >>
  BY DEF model_output
<1>2. body \in Seq(Seq(Piece))
  BY BodyAssumption
<1>3. text \in Seq(Piece)
  BY <1>1, <1>2
<1>4. Where(json, "fields") = {2} /\ output = json[2].output
  BY <1>1 DEF model_output
<1>. HIDE DEF text
<1>5. json \in Seq(Piece)
  <2>1. CASE ~(start # {} /\ end # {} /\ Max(end) > Min(start))
    <3>1. json = << >>
      BY <2>1 DEF extract_json
    <3>. QED BY <3>1
  <2>2. CASE start # {} /\ end # {} /\ Max(end) > Min(start)
    <3>. DEFINE n == Len(text)
    <3>1. /\ start \in SUBSET (1..n) /\ start # {}
          /\ end \in SUBSET (1..n) /\ end # {}
      BY <1>3, <2>2 DEF Where
    <3>2. n \in Nat
      BY <1>3
    <3>. HIDE DEF start, end, n
    <3>3. Min(start) \in 1..n
      <4>1. start \in SUBSET (0..n)
        BY <3>1, <3>2
      <4>2. Min(start) \in start
        BY <3>1, <3>2, <4>1, MinOfPlaces
      <4>. QED BY <3>1, <4>2
    <3>6. Max(end) \in 1..n
      BY <3>1, <3>2, MaxOfPlaces
    <3>. USE DEF start, end
    <3>4. json = SubSeq(text, Min(start), Max(end))
      BY <2>2 DEF extract_json
    <3>. HIDE DEF start, end, json
    <3>. DEFINE a == Min(start) - 1
    <3>5. a \in Nat /\ Min(start) = a + 1 /\ Max(end) \in 0..n
      BY <3>2, <3>3, <3>6
    <3>. HIDE DEF a
    <3>. QED BY <1>3, <3>4, <3>5, SubSeqDef DEF n
  <2>. QED BY <2>1, <2>2
<1>. HIDE DEF json
<1>6. 2 \in DOMAIN json /\ json[2].kind = "fields"
  BY <1>4 DEF Where
<1>7. json[2] \in Piece
  BY <1>5, <1>6
<1>. QED BY <1>4, <1>6, <1>7 DEF Piece

-----------------------------------------------------------------------------
(* The counters *)

\* What record_ai_recommendation bumps in all.
Due(c) ==
    IF call[c].model_available THEN {"ai_recommendations_total"} ELSE Counter

\* The calls that have bumped counter k.
BumpedBy(k) ==
    {c \in Call : At(c, "counting") /\ k \in Due(c) \ call[c].owes}

CountersType ==
    /\ metrics \in [Counter -> Nat]
    /\ scrape \in [shown : UNION {[K -> Nat] : K \in SUBSET Counter},
                   since : [Counter -> Nat]]

BumpsCounted ==
    \A k \in Counter : /\ IsFiniteSet(BumpedBy(k))
                       /\ metrics[k] = Cardinality(BumpedBy(k))

OnlyDueOwed == \A c \in Call : At(c, "counting") => call[c].owes \subseteq Due(c)

ScrapeBetween ==
    /\ \A k \in Counter : scrape.since[k] <= metrics[k]
    /\ \A k \in DOMAIN scrape.shown :
         scrape.since[k] <= scrape.shown[k] /\ scrape.shown[k] <= metrics[k]

AdvisorInv ==
    CallType /\ CountersType /\ BumpsCounted /\ OnlyDueOwed /\ ScrapeBetween

\* A step of a call that bumps nothing.
LEMMA QuietStep ==
    ASSUME AdvisorInv, NEW c \in Call, ~At(c, "counting"),
           NEW s \in Calling \cup FallbackAnswers \cup ModelAnswers \cup Panicked,
           call' = [call EXCEPT ![c] = s], UNCHANGED <<metrics, scrape>>
    PROVE  AdvisorInv'
<1>1. s.pc # "counting"
  BY AnswersAvailable, PanickedIsLost DEF Calling
<1>2. CallType'
  BY DEF AdvisorInv, CallType, Stages
<1>3. \A d \in Call : d # c => call'[d] = call[d]
  BY DEF AdvisorInv, CallType
<1>4. call'[c] = s
  BY DEF AdvisorInv, CallType
<1>5. \A d \in Call : /\ At(d, "counting")' <=> At(d, "counting")
                      /\ At(d, "counting") => call'[d] = call[d]
  BY <1>1, <1>3, <1>4 DEF At
<1>6. \A k : BumpedBy(k)' = BumpedBy(k)
  BY <1>5 DEF BumpedBy, Due
<1>7. OnlyDueOwed'
  BY <1>5 DEF AdvisorInv, OnlyDueOwed, Due
<1>8. BumpsCounted'
  BY <1>6 DEF AdvisorInv, BumpsCounted
<1>9. CountersType' /\ ScrapeBetween'
  BY DEF AdvisorInv, CountersType, ScrapeBetween
<1>. QED BY <1>2, <1>7, <1>8, <1>9 DEF AdvisorInv

LEMMA BumpStep ==
    ASSUME AdvisorInv, NEW c \in Call, NEW k \in Counter, Bump(c, k)
    PROVE  AdvisorInv'
<1>. DEFINE s == [pc |-> "counting", model_available |-> model_available(c),
                  owes |-> Owes(c) \ {k}]
            due == IF model_available(c) THEN {"ai_recommendations_total"}
                   ELSE Counter
<1>1. CallType /\ CountersType /\ BumpsCounted /\ OnlyDueOwed /\ ScrapeBetween
  BY DEF AdvisorInv
<1>2. /\ Returned(c) /\ k \in Owes(c) /\ UNCHANGED <<configured, scrape>>
      /\ call' = [call EXCEPT ![c] = s]
      /\ metrics' = [metrics EXCEPT ![k] = @ + 1]
  BY DEF Bump
<1>3. /\ model_available(c) \in BOOLEAN /\ Owes(c) \subseteq due
      /\ At(c, "answered") => Owes(c) = due
      /\ At(c, "counting") => /\ Owes(c) = call[c].owes
                              /\ model_available(c) = call[c].model_available
  <2>1. CASE At(c, "answered")
    <3>1. model_available(c) = call[c].rec.model_available
      BY <2>1 DEF model_available
    <3>2. call[c] \in FallbackAnswers \cup ModelAnswers
      BY <1>1, <2>1, StageOf
    <3>3. model_available(c) \in BOOLEAN
      BY <3>1, <3>2, AnswersAvailable
    <3>4. ~At(c, "counting")
      BY <2>1 DEF At
    <3>5. Owes(c) = due
      BY <3>4 DEF Owes
    <3>. QED BY <2>1, <3>3, <3>4, <3>5
  <2>2. CASE At(c, "counting")
    <3>1. call[c] \in Counting /\ ~At(c, "answered")
      BY <1>1, <2>2, StageOf DEF At
    <3>2. model_available(c) = call[c].model_available /\ Owes(c) = call[c].owes
      BY <2>2, <3>1 DEF model_available, Owes
    <3>3. Due(c) = due /\ call[c].owes \subseteq Due(c)
      BY <1>1, <2>2, <3>2 DEF Due, OnlyDueOwed
    <3>. QED BY <2>2, <3>1, <3>2, <3>3 DEF Counting
  <2>. QED BY <1>2, <2>1, <2>2 DEF Returned
<1>4. /\ k \in due /\ due \subseteq Counter
      /\ Owes(c) \ {k} \in SUBSET Counter /\ s \in Counting
  BY <1>2, <1>3 DEF Counting, Counter
<1>5. /\ call'[c] = s /\ At(c, "counting")' /\ Due(c)' = due
      /\ call'[c].owes = Owes(c) \ {k}
      /\ \A d \in Call : d # c => call'[d] = call[d]
  <2>1. call'[c] = s /\ \A d \in Call : d # c => call'[d] = call[d]
    BY <1>1, <1>2 DEF CallType
  <2>2. /\ s.pc = "counting" /\ s.owes = Owes(c) \ {k}
        /\ s.model_available = model_available(c)
    OBVIOUS
  <2>. HIDE DEF s
  <2>. QED BY <2>1, <2>2 DEF At, Due
<1>6. CallType'
  <2>1. s \in Stages
    BY <1>4 DEF Stages
  <2>. HIDE DEF s
  <2>. QED BY <1>1, <1>2, <2>1 DEF CallType
<1>. HIDE DEF s, due
<1>7. \A d \in Call : d # c =>
        /\ At(d, "counting")' <=> At(d, "counting")
        /\ Due(d)' = Due(d) /\ call'[d].owes = call[d].owes
  BY <1>5 DEF At, Due
<1>8. OnlyDueOwed'
  BY <1>1, <1>3, <1>5, <1>7 DEF OnlyDueOwed
<1>9. At(c, "counting") => Due(c) = due /\ call[c].owes = Owes(c)
  BY <1>3 DEF Due, due
<1>10. BumpedBy(k)' = BumpedBy(k) \cup {c} /\ c \notin BumpedBy(k)
  <2>1. c \in BumpedBy(k)'
    BY <1>4, <1>5 DEF BumpedBy
  <2>2. c \notin BumpedBy(k)
    BY <1>2, <1>9 DEF BumpedBy
  <2>3. \A d \in Call : d # c => (d \in BumpedBy(k)' <=> d \in BumpedBy(k))
    BY <1>7 DEF BumpedBy
  <2>4. BumpedBy(k) \subseteq Call /\ BumpedBy(k)' \subseteq Call
    BY DEF BumpedBy
  <2>. QED BY <2>1, <2>2, <2>3, <2>4
<1>11. ASSUME NEW j \in Counter, j # k
       PROVE  BumpedBy(j)' = BumpedBy(j)
  <2>1. c \in BumpedBy(j)' <=> j \in due \ Owes(c)
    BY <1>5, <1>11 DEF BumpedBy
  <2>2. c \in BumpedBy(j) <=> j \in due \ Owes(c)
    <3>1. CASE At(c, "counting")
      BY <1>9, <3>1 DEF BumpedBy
    <3>2. CASE ~At(c, "counting")
      <4>1. Owes(c) = due
        BY <1>2, <1>3, <3>2 DEF Returned
      <4>. QED BY <3>2, <4>1 DEF BumpedBy
    <3>. QED BY <3>1, <3>2
  <2>3. \A d \in Call : d # c => (d \in BumpedBy(j)' <=> d \in BumpedBy(j))
    BY <1>7 DEF BumpedBy
  <2>4. BumpedBy(j) \subseteq Call /\ BumpedBy(j)' \subseteq Call
    BY DEF BumpedBy
  <2>. QED BY <2>1, <2>2, <2>3, <2>4
<1>12. /\ metrics' \in [Counter -> Nat] /\ metrics'[k] = metrics[k] + 1
       /\ \A j \in Counter : j # k => metrics'[j] = metrics[j]
  BY <1>1, <1>2 DEF CountersType
<1>13. BumpsCounted'
  <2>1. IsFiniteSet(BumpedBy(k)) /\ metrics[k] = Cardinality(BumpedBy(k))
    BY <1>1 DEF BumpsCounted
  <2>2. /\ IsFiniteSet(BumpedBy(k) \cup {c})
        /\ Cardinality(BumpedBy(k) \cup {c}) = metrics[k] + 1
    BY <1>10, <2>1, FS_AddElement
  <2>3. IsFiniteSet(BumpedBy(k)') /\ metrics'[k] = Cardinality(BumpedBy(k)')
    BY <1>10, <1>12, <2>2
  <2>. QED BY <1>1, <1>11, <1>12, <2>3 DEF BumpsCounted
<1>14. CountersType' /\ ScrapeBetween'
  <2>1. \A j \in Counter : metrics[j] \in Nat /\ metrics[j] <= metrics'[j]
    BY <1>1, <1>12 DEF CountersType
  <2>2. CountersType'
    BY <1>1, <1>2, <1>12 DEF CountersType
  <2>3. DOMAIN scrape.shown \subseteq Counter
    BY <1>1 DEF CountersType
  <2>4. /\ \A j \in Counter : scrape.since[j] \in Nat
        /\ \A j \in DOMAIN scrape.shown : scrape.shown[j] \in Nat
    BY <1>1 DEF CountersType
  <2>5. \A j \in Counter : metrics'[j] \in Nat
    BY <1>12
  <2>. QED BY <1>1, <1>2, <2>1, <2>2, <2>3, <2>4, <2>5 DEF ScrapeBetween
<1>. QED BY <1>6, <1>8, <1>13, <1>14 DEF AdvisorInv

\* A scrape begins, or reads one counter.
LEMMA ScrapeStep ==
    ASSUME AdvisorInv,
           BeginScrape \/ \E k \in Counter : ReadCounter(k)
    PROVE  AdvisorInv'
<1>1. CallType /\ CountersType /\ BumpsCounted /\ OnlyDueOwed /\ ScrapeBetween
  BY DEF AdvisorInv
<1>2. call' = call /\ metrics' = metrics
  BY DEF BeginScrape, ReadCounter
<1>3. CallType' /\ BumpsCounted' /\ OnlyDueOwed'
  BY <1>1, <1>2
     DEF CallType, BumpsCounted, BumpedBy, OnlyDueOwed, Due, At
<1>4. /\ metrics \in [Counter -> Nat] /\ scrape.since \in [Counter -> Nat]
      /\ \E K \in SUBSET Counter : scrape.shown \in [K -> Nat]
      /\ scrape = [shown |-> scrape.shown, since |-> scrape.since]
  BY <1>1 DEF CountersType
<1>5. CASE BeginScrape
  <2>. DEFINE none == << >>
  <2>1. scrape' = [shown |-> none, since |-> metrics]
    BY <1>5 DEF BeginScrape
  <2>2. none \in [{} -> Nat] /\ DOMAIN none = {}
    OBVIOUS
  <2>. HIDE DEF none
  <2>3. none \in UNION {[K -> Nat] : K \in SUBSET Counter}
    BY <2>2
  <2>4. CountersType'
    BY <1>2, <1>4, <2>1, <2>3 DEF CountersType
  <2>5. ScrapeBetween'
    BY <1>2, <1>4, <2>1, <2>2 DEF ScrapeBetween
  <2>. QED BY <1>3, <2>4, <2>5 DEF AdvisorInv
<1>6. ASSUME NEW k \in Counter, ReadCounter(k)
      PROVE  AdvisorInv'
  <2>. DEFINE old == scrape.shown
              new == [j \in DOMAIN old \cup {k} |->
                        IF j = k THEN metrics[k] ELSE old[j]]
  <2>1. scrape' = [shown |-> new, since |-> scrape.since]
    BY <1>4, <1>6 DEF ReadCounter
  <2>2. DOMAIN old \in SUBSET Counter /\ \A j \in DOMAIN old : old[j] \in Nat
    BY <1>4
  <2>3. metrics[k] \in Nat
    BY <1>4
  <2>. HIDE DEF old
  <2>4. new \in [DOMAIN old \cup {k} -> Nat] /\ DOMAIN new = DOMAIN old \cup {k}
    BY <2>2, <2>3
  <2>5. \A j \in DOMAIN new : new[j] = IF j = k THEN metrics[k] ELSE old[j]
    OBVIOUS
  <2>. HIDE DEF new
  <2>6. new \in UNION {[K -> Nat] : K \in SUBSET Counter}
    BY <2>2, <2>4
  <2>7. CountersType'
    BY <1>2, <1>4, <2>1, <2>6 DEF CountersType
  <2>8. \A j \in DOMAIN new :
          scrape.since[j] <= new[j] /\ new[j] <= metrics[j]
    <3>1. \A j \in Counter : scrape.since[j] <= metrics[j]
      BY <1>1 DEF ScrapeBetween
    <3>2. \A j \in DOMAIN old :
            scrape.since[j] <= old[j] /\ old[j] <= metrics[j]
      BY <1>1 DEF ScrapeBetween, old
    <3>. QED BY <2>3, <2>4, <2>5, <3>1, <3>2
  <2>9. ScrapeBetween'
    BY <1>1, <1>2, <2>1, <2>8 DEF ScrapeBetween
  <2>. QED BY <1>3, <2>7, <2>9 DEF AdvisorInv
<1>. QED BY <1>5, <1>6

LEMMA AdvisorInvariant == Spec => []AdvisorInv
<1>1. Init => AdvisorInv
  <2>. SUFFICES ASSUME Init
                PROVE  AdvisorInv
    OBVIOUS
  <2>1. call = [c \in Call |-> [pc |-> "idle"]]
    BY DEF Init
  <2>2. CallType
    BY <2>1 DEF CallType, Stages, Calling
  <2>3. \A c \in Call : ~At(c, "counting")
    BY <2>1 DEF At
  <2>4. OnlyDueOwed /\ \A k : BumpedBy(k) = {}
    BY <2>3 DEF OnlyDueOwed, BumpedBy
  <2>5. metrics = [k \in Counter |-> 0]
    BY DEF Init
  <2>6. BumpsCounted
    BY <2>4, <2>5, FS_EmptySet DEF BumpsCounted
  <2>. DEFINE none == << >>
  <2>7. scrape = [shown |-> none, since |-> metrics]
    BY DEF Init
  <2>8. none \in [{} -> Nat] /\ DOMAIN none = {}
    OBVIOUS
  <2>. HIDE DEF none
  <2>9. none \in UNION {[K -> Nat] : K \in SUBSET Counter}
    BY <2>8
  <2>10. CountersType
    <3>1. metrics \in [Counter -> Nat]
      BY <2>5
    <3>. QED BY <2>7, <2>9, <3>1 DEF CountersType
  <2>11. ScrapeBetween
    <3>1. scrape.shown = none /\ scrape.since = metrics
      BY <2>7
    <3>2. \A k \in Counter : metrics[k] <= metrics[k]
      BY <2>5
    <3>. QED BY <2>8, <3>1, <3>2 DEF ScrapeBetween
  <2>. QED BY <2>2, <2>4, <2>6, <2>10, <2>11 DEF AdvisorInv
<1>2. AdvisorInv /\ [Next]_vars => AdvisorInv'
  <2>. SUFFICES ASSUME AdvisorInv, [Next]_vars
                PROVE  AdvisorInv'
    OBVIOUS
  <2>1. ASSUME NEW c \in Call, ~At(c, "counting"), NEW label,
               label \in {"sending", "reading", "dropped"}, Goto(c, label)
        PROVE  AdvisorInv'
    <3>1. [pc |-> label] \in Calling
      BY <2>1 DEF Calling
    <3>. QED BY <2>1, <3>1, QuietStep DEF Goto
  <2>2. ASSUME NEW c \in Call, ~At(c, "counting"), NEW said, NEW rec,
               Advised(said, rec) \in FallbackAnswers \cup ModelAnswers,
               Answer(c, said, rec)
        PROVE  AdvisorInv'
    <3>. DEFINE s == Advised(said, rec)
    <3>1. call' = [call EXCEPT ![c] = s] /\ UNCHANGED <<metrics, scrape>>
      BY <2>2 DEF Answer, Advised
    <3>. HIDE DEF s
    <3>2. s \in Calling \cup FallbackAnswers \cup ModelAnswers \cup Panicked
      BY <2>2 DEF s
    <3>. QED BY <2>2, <3>1, <3>2, QuietStep
  <2>3. /\ Advised(<< >>, FallbackRecommendation) \in FallbackAnswers
        /\ Advised(<< >>, sanitize_recommendation(FallbackRecommendation))
             \in FallbackAnswers
    BY DEF FallbackAnswers
  <2>a. ASSUME NEW c \in Call, ~At(c, "counting"), NEW said, NEW rec \in Given,
               Advised(said, sanitize_recommendation(rec))
                 \in FallbackAnswers \cup ModelAnswers,
               AnswerSanitized(c, said, rec)
        PROVE  AdvisorInv'
    <3>1. CASE PanicsOn(rec)
      <4>. DEFINE s == Lost(rec)
      <4>1. call' = [call EXCEPT ![c] = s] /\ UNCHANGED <<metrics, scrape>>
        BY <2>a, <3>1 DEF AnswerSanitized, PanicsOn, Lost
      <4>2. s \in Panicked
        BY <2>a, <3>1 DEF Panicked
      <4>. HIDE DEF s
      <4>. QED BY <2>a, <4>1, <4>2, QuietStep
    <3>2. CASE ~PanicsOn(rec)
      <4>1. Answer(c, said, sanitize_recommendation(rec))
        BY <2>a, <3>2 DEF AnswerSanitized, PanicsOn
      <4>. QED BY <2>2, <2>a, <4>1
    <3>. QED BY <3>1, <3>2
  <2>4. ASSUME NEW c \in Call, Investigate(c)
        PROVE  AdvisorInv'
    <3>1. ~At(c, "counting")
      BY <2>4 DEF Investigate, At
    <3>2. FallbackRecommendation \in Given
      BY DEF Given
    <3>. QED BY <2>1, <2>3, <2>4, <2>a, <3>1, <3>2 DEF Investigate
  <2>5. ASSUME NEW c \in Call, StatusArrives(c)
        PROVE  AdvisorInv'
    BY <2>1, <2>5 DEF StatusArrives, At
  <2>6. ASSUME NEW c \in Call, CallFails(c)
        PROVE  AdvisorInv'
    <3>1. ~At(c, "counting")
      BY <2>6 DEF CallFails, InFlight, At
    <3>. QED BY <2>2, <2>3, <2>6, <3>1 DEF CallFails
  <2>7. ASSUME NEW c \in Call, NEW body \in Body, BodyArrives(c, body)
        PROVE  AdvisorInv'
    <3>1. ~At(c, "counting")
      BY <2>7 DEF BodyArrives, At
    <3>2. CASE Answer(c, << >>, FallbackRecommendation)
      BY <2>2, <2>3, <3>1, <3>2
    <3>3. ASSUME NEW output \in model_output(body),
                 AnswerSanitized(c, <<output>>, FromModel(output))
          PROVE  AdvisorInv'
      <4>1. output \in Output /\ FromModel(output) \in Given
        BY OutputOfModel DEF Given
      <4>2. Advised(<<output>>, sanitize_recommendation(FromModel(output)))
              \in ModelAnswers
        BY <4>1 DEF ModelAnswers
      <4>. QED BY <2>a, <3>1, <3>3, <4>1, <4>2
    <3>. QED BY <2>7, <3>2, <3>3 DEF BodyArrives
  <2>8. ASSUME NEW c \in Call, ClientDisconnects(c)
        PROVE  AdvisorInv'
    BY <2>1, <2>8 DEF ClientDisconnects, InFlight, At
  <2>9. ASSUME NEW c \in Call, Bumps(c)
        PROVE  AdvisorInv'
    BY <2>9, BumpStep DEF Bumps
  <2>10. CASE BeginScrape \/ \E k \in Counter : ReadCounter(k)
    BY <2>10, ScrapeStep
  <2>11. CASE UNCHANGED vars
    BY <2>11 DEF vars, AdvisorInv, CallType, CountersType, BumpsCounted,
                 BumpedBy, OnlyDueOwed, Due, ScrapeBetween, At
  <2>. QED BY <2>4, <2>5, <2>6, <2>7, <2>8, <2>9, <2>10, <2>11 DEF Next
<1>. QED BY <1>1, <1>2, PTL DEF Spec

\* However calls, their counting and scrapes interleave, the two relaxed
\* counters of metrics.rs add up: with no answer still to be counted they
\* agree with the answers given, and a scrape never shows a value outside
\* the span it was taken in.
THEOREM CountersAddUp == Spec => []CountersExplained
<1>1. AdvisorInv => CountersExplained
  <2>. SUFFICES ASSUME AdvisorInv
                PROVE  CountersExplained
    OBVIOUS
  <2>1. CallType /\ CountersType /\ BumpsCounted /\ OnlyDueOwed /\ ScrapeBetween
    BY DEF AdvisorInv
  <2>2. ASSUME \A c \in Call : Returned(c) => Counted(c)
        PROVE  /\ metrics["ai_recommendations_total"]
                    = Cardinality({c \in Call : Returned(c)})
               /\ metrics["ai_fallback_total"]
                    = Cardinality({c \in Call :
                                     Returned(c) /\ ~model_available(c)})
    <3>1. ASSUME NEW c \in Call, Returned(c)
          PROVE  /\ At(c, "counting") /\ call[c].owes = {}
                 /\ model_available(c) = call[c].model_available
      <4>1. Owes(c) = {}
        BY <2>2, <3>1 DEF Counted
      <4>2. At(c, "counting") /\ ~At(c, "answered")
        BY <3>1, <4>1 DEF Owes, Counter, Returned, At
      <4>. QED BY <4>1, <4>2 DEF Owes, model_available
    <3>2. \A c \in Call : At(c, "counting") => Returned(c)
      BY DEF Returned
    <3>3. BumpedBy("ai_recommendations_total") = {c \in Call : Returned(c)}
      BY <3>1, <3>2 DEF BumpedBy, Due, Counter
    <3>4. BumpedBy("ai_fallback_total")
            = {c \in Call : Returned(c) /\ ~model_available(c)}
      BY <3>1, <3>2 DEF BumpedBy, Due, Counter
    <3>5. \A k \in Counter : metrics[k] = Cardinality(BumpedBy(k))
      BY <2>1 DEF BumpsCounted
    <3>. QED BY <3>3, <3>4, <3>5 DEF Counter
  <2>. QED BY <2>1, <2>2 DEF CountersExplained, ScrapeBetween
<1>. QED BY <1>1, AdvisorInvariant, PTL

-----------------------------------------------------------------------------
(* strip_markup *)

Plain == Letter \ {LT, GT}

PushState == [out : Seq(Letter), in_tag : BOOLEAN]

LEMMA PushDef ==
    ASSUME NEW s \in PushState, NEW c \in Letter
    PROVE  /\ Push(s, c) \in PushState
           /\ Push(s, c).in_tag <=> c = LT \/ (c # GT /\ s.in_tag)
           /\ Push(s, c).out = IF c \in {LT, GT} \/ s.in_tag THEN s.out
                               ELSE Append(s.out, c)
<1>1. s.out \in Seq(Letter) /\ s.in_tag \in BOOLEAN
      /\ s = [out |-> s.out, in_tag |-> s.in_tag]
  BY DEF PushState
<1>2. CASE c = LT
  <2>1. Push(s, c) = [s EXCEPT !.in_tag = TRUE]
    BY <1>2, BracketAssumption DEF Push
  <2>. QED BY <1>1, <1>2, <2>1 DEF PushState
<1>3. CASE c = GT
  <2>1. Push(s, c) = [s EXCEPT !.in_tag = FALSE]
    BY <1>3, BracketAssumption DEF Push
  <2>. QED BY <1>1, <1>3, <2>1, BracketAssumption DEF PushState
<1>4. CASE c \notin {LT, GT} /\ s.in_tag
  <2>1. Push(s, c) = s
    BY <1>4 DEF Push
  <2>. QED BY <1>1, <1>4, <2>1
<1>5. CASE c \notin {LT, GT} /\ ~s.in_tag
  <2>. DEFINE out == Append(s.out, c)
  <2>1. out \in Seq(Letter)
    BY <1>1
  <2>2. Push(s, c) = [s EXCEPT !.out = out]
    BY <1>5 DEF Push
  <2>. HIDE DEF out
  <2>3. /\ Push(s, c) \in PushState
        /\ Push(s, c).out = out /\ Push(s, c).in_tag = s.in_tag
    BY <1>1, <2>1, <2>2 DEF PushState
  <2>. QED BY <1>5, <2>3 DEF out
<1>. QED BY <1>2, <1>3, <1>4, <1>5

LEMMA PushedDef ==
    ASSUME NEW input \in Seq(Letter)
    PROVE  /\ Pushed(input) \in [0..Len(input) -> PushState]
           /\ Pushed(input)[0] = [out |-> << >>, in_tag |-> FALSE]
           /\ \A n \in 1..Len(input) :
                Pushed(input)[n] = Push(Pushed(input)[n - 1], input[n])
<1>. DEFINE m == Len(input)
            first == [out |-> << >>, in_tag |-> FALSE]
            step == [x \in Nat \X PushState |-> Push(x[2], input[x[1]])]
            Recurs(g) == g = [n \in 0..m |->
                                IF n = 0 THEN first ELSE Push(g[n - 1], input[n])]
            f == CHOOSE g : Recurs(g)
<1>1. m \in Nat /\ \A i \in 1..m : input[i] \in Letter
  OBVIOUS
<1>2. first \in PushState
  BY DEF PushState
<1>3. f = Pushed(input)
  BY DEF Pushed
<1>. HIDE DEF m, first
<1>4. \A i \in 1..m, s \in PushState :
        /\ step[<<i, s>>] = Push(s, input[i])
        /\ Push(s, input[i]) \in PushState
  <2>1. \A i \in 1..m, s \in PushState : step[<<i, s>>] = Push(s, input[i])
    BY <1>1
  <2>2. \A i \in 1..m, s \in PushState : Push(s, input[i]) \in PushState
    BY <1>1, PushDef
  <2>. QED BY <2>1, <2>2
<1>. HIDE DEF step
<1>5. PICK g : Chain(g, PushState, first, step, m)
  BY <1>1, <1>2, <1>4, ChainExists
<1>6. Recurs(g)
  <2>1. /\ g \in [0..m -> PushState] /\ g[0] = first
        /\ \A i \in 1..m : g[i] = step[<<i, g[i - 1]>>]
    BY <1>5 DEF Chain
  <2>2. \A i \in 1..m : i - 1 \in 0..m
    BY <1>1
  <2>3. \A i \in 1..m : g[i] = Push(g[i - 1], input[i])
    BY <1>4, <2>1, <2>2
  <2>4. \A n \in 0..m : g[n] = IF n = 0 THEN first ELSE Push(g[n - 1], input[n])
    BY <1>1, <2>1, <2>3
  <2>. QED BY <2>1, <2>4
<1>7. Recurs(f)
  <2>. HIDE DEF Recurs
  <2>. QED BY <1>6
<1>. HIDE DEF f
<1>8. /\ DOMAIN f = 0..m /\ f[0] = first
      /\ \A n \in 1..m : f[n] = Push(f[n - 1], input[n])
  <2>1. 0 \in 0..m /\ \A n \in 1..m : n \in 0..m /\ n # 0
    BY <1>1
  <2>. QED BY <1>7, <2>1
<1>9. \A n \in 0..m : f[n] \in PushState
  <2>. DEFINE Typed == {n \in 0..m : f[n] \in PushState}
  <2>1. 0 \in Typed
    BY <1>1, <1>2, <1>8
  <2>2. ASSUME NEW n \in 0..(m - 1), n \in Typed
        PROVE  n + 1 \in Typed
    <3>1. n + 1 \in 1..m /\ (n + 1) - 1 = n /\ n + 1 \in 0..m
      BY <1>1
    <3>2. f[n + 1] = Push(f[n], input[n + 1])
      BY <1>8, <3>1
    <3>. QED BY <1>4, <2>2, <3>1, <3>2
  <2>. HIDE DEF Typed
  <2>3. \A n \in 0..m : n \in Typed
    BY <1>1, <2>1, <2>2, BoundedInduction
  <2>. QED BY <2>3 DEF Typed
<1>. QED BY <1>3, <1>7, <1>8, <1>9 DEF m, first

\* No tag that was opened at or before i is open after it.
Shut(text, i) == \A j \in 1..i : text[j] = LT => \E k \in j..i : text[k] = GT

KeptPlaces(text, n) ==
    {i \in 1..n : text[i] \notin {LT, GT} /\ Shut(text, i)}

\* What stands in text at the places in S.
Reading(text, S) ==
    LET kept == Ascending(S) IN [q \in DOMAIN kept |-> text[kept[q]]]

LEMMA ReadingDef ==
    ASSUME NEW n \in Nat, NEW X, NEW text, NEW S \in SUBSET (1..n),
           \A i \in S : text[i] \in X
    PROVE  Reading(text, S) \in Seq(X)
<1>. DEFINE kept == Ascending(S)
<1>1. kept \in [1..Cardinality(S) -> S] /\ Cardinality(S) \in Nat
  BY AscendingDef, SubsetOfInterval
<1>. HIDE DEF kept
<1>2. [q \in DOMAIN kept |-> text[kept[q]]] \in [1..Cardinality(S) -> X]
  BY <1>1
<1>. QED BY <1>1, <1>2 DEF Reading, kept

LEMMA ReadingAppend ==
    ASSUME NEW n \in Nat, NEW X, NEW text, NEW S \in SUBSET (1..n),
           \A i \in S : text[i] \in X, text[n + 1] \in X
    PROVE  Reading(text, S \cup {n + 1})
             = Append(Reading(text, S), text[n + 1])
<1>. DEFINE kept == Ascending(S)
            more == Append(kept, n + 1)
            c == Cardinality(S)
            read == Reading(text, S)
            new == Append(read, text[n + 1])
<1>1. kept \in [1..c -> S] /\ kept \in Seq(S) /\ Len(kept) = c /\ c \in Nat
  BY AscendingDef, SubsetOfInterval
<1>2. Ascending(S \cup {n + 1}) = more
  BY AscendingAppend
<1>3. read \in Seq(X) /\ read = [q \in 1..c |-> text[kept[q]]]
  <2>1. read \in Seq(X)
    BY ReadingDef
  <2>. HIDE DEF kept
  <2>. QED BY <1>1, <2>1 DEF Reading, kept
<1>. HIDE DEF kept, c, read
<1>4. /\ DOMAIN more = 1..(c + 1) /\ more[c + 1] = n + 1
      /\ \A q \in 1..c : more[q] = kept[q]
  <2>1. kept \in Seq(Int)
    <3>1. \A q \in 1..c : kept[q] \in 1..n
      BY <1>1
    <3>2. \A q \in 1..c : kept[q] \in Int
      BY <3>1
    <3>3. kept \in [1..c -> Int]
      BY <1>1, <3>2
    <3>. QED BY <1>1, <3>3
  <2>. QED BY <1>1, <2>1
<1>5. Len(read) = c
  BY <1>1, <1>3
<1>6. /\ DOMAIN new = 1..(c + 1) /\ new[c + 1] = text[n + 1]
      /\ \A q \in 1..c : new[q] = read[q]
      /\ new = [q \in 1..(c + 1) |-> new[q]]
  BY <1>1, <1>3, <1>5
<1>. HIDE DEF more, new
<1>7. \A q \in 1..(c + 1) : text[more[q]] = new[q]
  <2>1. \A q \in 1..c : text[more[q]] = new[q]
    BY <1>3, <1>4, <1>6
  <2>2. text[more[c + 1]] = new[c + 1]
    BY <1>4, <1>6
  <2>3. \A q \in 1..(c + 1) : q \in 1..c \/ q = c + 1
    BY <1>1
  <2>. QED BY <2>1, <2>2, <2>3
<1>8. [q \in DOMAIN more |-> text[more[q]]] = new
  BY <1>4, <1>6, <1>7
<1>. QED BY <1>2, <1>8 DEF Reading, new, read

\* The flag says whether a tag is open, and what went out is what stands
\* outside of tags.
LEMMA StripsTags ==
    ASSUME NEW input \in Seq(Letter)
    PROVE  strip_markup(input) = Reading(input, KeptPlaces(input, Len(input)))
<1>. DEFINE m == Len(input)
            f == Pushed(input)
            Right(n) == /\ f[n].in_tag <=> ~Shut(input, n)
                        /\ f[n].out = Reading(input, KeptPlaces(input, n))
            Good == {n \in 0..m : Right(n)}
<1>1. m \in Nat /\ \A i \in 1..m : input[i] \in Letter
  OBVIOUS
<1>2. /\ \A n \in 0..m : f[n] \in PushState
      /\ f[0] = [out |-> << >>, in_tag |-> FALSE]
      /\ \A n \in 1..m : f[n] = Push(f[n - 1], input[n])
  BY PushedDef
<1>. HIDE DEF f, m
<1>3. 0 \in Good
  <2>1. Shut(input, 0) /\ KeptPlaces(input, 0) = {}
    BY DEF Shut, KeptPlaces
  <2>2. Reading(input, {}) = << >>
    <3>1. {} \in SUBSET (1..0) /\ 0 \in Nat
      OBVIOUS
    <3>2. Ascending({}) \in Seq({})
      BY <3>1, AscendingDef
    <3>3. Ascending({}) = << >>
      BY <3>2
    <3>. QED BY <3>3 DEF Reading
  <2>3. f[0].in_tag = FALSE /\ f[0].out = << >>
    BY <1>2
  <2>4. 0 \in 0..m
    BY <1>1
  <2>. QED BY <2>1, <2>2, <2>3, <2>4
<1>4. ASSUME NEW n \in 0..(m - 1), n \in Good
      PROVE  n + 1 \in Good
  <2>. DEFINE c == input[n + 1]
              S == KeptPlaces(input, n)
              T == KeptPlaces(input, n + 1)
  <2>1. n \in Nat /\ n + 1 \in 1..m /\ (n + 1) - 1 = n /\ n \in 0..m
        /\ n + 1 \in 0..m
    BY <1>1
  <2>2. /\ f[n].in_tag <=> ~Shut(input, n)
        /\ f[n].out = Reading(input, S)
    BY <1>4
  <2>3. c \in Letter /\ f[n] \in PushState
    BY <1>1, <1>2, <2>1
  <2>4. f[n + 1] = Push(f[n], c)
    BY <1>2, <2>1
  <2>5. /\ f[n + 1].in_tag <=> c = LT \/ (c # GT /\ f[n].in_tag)
        /\ f[n + 1].out = IF c \in {LT, GT} \/ f[n].in_tag THEN f[n].out
                          ELSE Append(f[n].out, c)
    <3>. DEFINE s == f[n]
    <3>. HIDE DEF s, c
    <3>1. s \in PushState /\ c \in Letter
      BY <2>3 DEF s
    <3>2. f[n + 1] = Push(s, c)
      BY <2>4 DEF s
    <3>3. /\ Push(s, c).in_tag <=> c = LT \/ (c # GT /\ s.in_tag)
          /\ Push(s, c).out = IF c \in {LT, GT} \/ s.in_tag THEN s.out
                              ELSE Append(s.out, c)
      BY <3>1, PushDef
    <3>. QED BY <3>2, <3>3 DEF s
  <2>6. Shut(input, n + 1) <=> (c # LT /\ (c = GT \/ Shut(input, n)))
    <3>1. ASSUME c = LT
          PROVE  ~Shut(input, n + 1)
      <4>1. n + 1 \in 1..(n + 1) /\ \A k \in (n + 1)..(n + 1) : k = n + 1
        BY <2>1
      <4>. QED BY <3>1, <4>1, BracketAssumption DEF Shut
    <3>2. ASSUME c = GT
          PROVE  Shut(input, n + 1)
      <4>1. \A j \in 1..(n + 1) : n + 1 \in j..(n + 1)
        BY <2>1
      <4>. QED BY <3>2, <4>1 DEF Shut
    <3>3. ASSUME c \notin {LT, GT}
          PROVE  Shut(input, n + 1) <=> Shut(input, n)
      <4>1. ASSUME Shut(input, n), NEW j \in 1..(n + 1), input[j] = LT
            PROVE  \E k \in j..(n + 1) : input[k] = GT
        <5>1. j \in 1..n
          BY <2>1, <3>3, <4>1
        <5>2. PICK k \in j..n : input[k] = GT
          BY <4>1, <5>1 DEF Shut
        <5>3. k \in j..(n + 1)
          BY <2>1
        <5>. QED BY <5>2, <5>3
      <4>2. ASSUME Shut(input, n + 1), NEW j \in 1..n, input[j] = LT
            PROVE  \E k \in j..n : input[k] = GT
        <5>1. j \in 1..(n + 1)
          BY <2>1
        <5>2. PICK k \in j..(n + 1) : input[k] = GT
          BY <4>2, <5>1 DEF Shut
        <5>3. k \in j..n
          BY <2>1, <3>3, <5>2
        <5>. QED BY <5>2, <5>3
      <4>. QED BY <4>1, <4>2 DEF Shut
    <3>. QED BY <3>1, <3>2, <3>3, BracketAssumption
  <2>7. T = IF c \notin {LT, GT} /\ Shut(input, n + 1) THEN S \cup {n + 1} ELSE S
    <3>1. 1..(n + 1) = (1..n) \cup {n + 1}
      BY <2>1
    <3>. QED BY <3>1 DEF KeptPlaces
  <2>8. /\ S \in SUBSET (1..n)
        /\ \A i \in S : input[i] \in Letter
    BY <1>1, <2>1 DEF KeptPlaces
  <2>9. Reading(input, S \cup {n + 1}) = Append(Reading(input, S), c)
    BY <2>1, <2>3, <2>8, ReadingAppend
  <2>. HIDE DEF c, S, T
  <2>10. f[n + 1].in_tag <=> ~Shut(input, n + 1)
    BY <2>2, <2>5, <2>6, BracketAssumption
  <2>11. f[n + 1].out = Reading(input, T)
    BY <2>2, <2>5, <2>6, <2>7, <2>9
  <2>. QED BY <2>1, <2>10, <2>11 DEF T
<1>. HIDE DEF Good
<1>5. \A n \in 0..m : n \in Good
  BY <1>1, <1>3, <1>4, BoundedInduction
<1>6. m \in Good
  BY <1>1, <1>5
<1>. QED BY <1>6 DEF Good, m, f, strip_markup

LEMMA StripIsOutside ==
    ASSUME NEW input \in Seq(Letter)
    PROVE  /\ strip_markup(input) = Outside(input)
           /\ strip_markup(input) \in Seq(Plain)
<1>. DEFINE m == Len(input)
            S == KeptPlaces(input, m)
<1>1. m \in Nat /\ DOMAIN input = 1..m /\ \A i \in 1..m : input[i] \in Letter
  OBVIOUS
<1>2. strip_markup(input) = Reading(input, S)
  BY StripsTags
<1>3. Outside(input) = Reading(input, S)
  <2>1. S = {i \in DOMAIN input :
               /\ ~(input[i] \in {LT, GT})
               /\ \A j \in 1..i : input[j] = LT =>
                    \E k \in j..i : input[k] = GT}
    BY <1>1 DEF KeptPlaces, Shut
  <2>. QED BY <2>1 DEF Outside, Reading
<1>4. Reading(input, S) \in Seq(Plain)
  <2>1. S \in SUBSET (1..m) /\ \A i \in S : input[i] \in Plain
    BY <1>1 DEF KeptPlaces, Plain
  <2>. HIDE DEF S, m
  <2>. QED BY <1>1, <2>1, ReadingDef
<1>. QED BY <1>2, <1>3, <1>4

-----------------------------------------------------------------------------
(* Where a phrase occurs *)

Phrase == Seq(Letter) \ {<< >>}

\* The first letter of the lower case, and the only one of an even letter,
\* which has the same width in lower case.
Small(c) == LowerOf[c][1]

Low(text) == [i \in DOMAIN text |-> Small(text[i])]

Even ==
    {c \in Plain : LowerOf[c] = <<Small(c)>> /\ Width[Small(c)] = Width[c]}

\* Lower-cased, text reads marker from place i on.
Reads(marker, text, i) ==
    /\ i \in 1..(Len(text) - Len(marker) + 1)
    /\ \A k \in 1..Len(marker) : Small(text[i + k - 1]) = marker[k]

Free(marker, text) == OccursAt(marker, Low(text)) = {}

LEMMA PlainText ==
    ASSUME NEW text \in Seq(Plain)
    PROVE  text \in Seq(Letter)
<1>1. \A i \in 1..Len(text) : text[i] \in Letter
  BY DEF Plain
<1>. QED BY <1>1

LEMMA Joined ==
    ASSUME NEW X, NEW x \in Seq(X), NEW y \in Seq(X)
    PROVE  /\ x \o y \in Seq(X) /\ Len(x \o y) = Len(x) + Len(y)
           /\ \A i \in 1..Len(x) : (x \o y)[i] = x[i]
           /\ \A i \in (Len(x) + 1)..(Len(x) + Len(y)) :
                (x \o y)[i] = y[i - Len(x)]
OBVIOUS

LEMMA EvenText ==
    ASSUME NEW text \in Seq(Even)
    PROVE  text \in Seq(Plain) /\ text \in Seq(Letter)
<1>1. \A i \in 1..Len(text) : text[i] \in Plain
  BY DEF Even
<1>2. text \in Seq(Plain)
  BY <1>1
<1>. QED BY <1>2, PlainText

LEMMA SmallIsLetter ==
    \A c \in Letter : Small(c) \in Letter
<1>1. \A s \in Seq(Letter) \ {<< >>} : s[1] \in Letter
  OBVIOUS
<1>2. \A c \in Letter : LowerOf[c] \in Seq(Letter) \ {<< >>}
  BY LowerAssumption
<1>. QED BY <1>1, <1>2 DEF Small

\* A text of even letters, and no other without brackets, is steady.
LEMMA EvenIsSteady ==
    ASSUME NEW text \in Seq(Plain)
    PROVE  text \in Seq(Even) <=> Steady(text)
<1>1. DOMAIN text = 1..Len(text) /\ \A i \in 1..Len(text) : text[i] \in Plain
  OBVIOUS
<1>2. \A c, d : LowerOf[c] = <<d>> => d = Small(c)
  BY DEF Small
<1>3. \A c \in Plain : Small(c) \in Letter
  BY SmallIsLetter DEF Plain
<1>4. Steady(text) <=> \A i \in 1..Len(text) : text[i] \in Even
  BY <1>1, <1>2, <1>3 DEF Steady, Even
<1>. QED BY <1>1, <1>4

LEMMA MarkersArePhrases ==
    \A m \in DOMAIN Marker :
      Marker[m] \in Phrase /\ Len(Marker[m]) \in Nat \ {0}
<1>1. ASSUME NEW m \in DOMAIN Marker
      PROVE  Marker[m] \in Phrase
  BY MarkerAssumption DEF Phrase
<1>2. \A s \in Phrase : Len(s) \in Nat \ {0}
  BY DEF Phrase
<1>. QED BY <1>1, <1>2

LEMMA OccursDef ==
    ASSUME NEW text \in Seq(Letter), NEW marker \in Phrase
    PROVE  OccursAt(marker, Low(text))
             = {i \in 1..(Len(text) - Len(marker) + 1) : Reads(marker, text, i)}
<1>. DEFINE low == Low(text)
            n == Len(text)
            l == Len(marker)
<1>1. low \in Seq(Letter) /\ Len(low) = n
      /\ \A i \in 1..n : low[i] = Small(text[i])
  <2>1. \A i \in 1..n : Small(text[i]) \in Letter
    BY SmallIsLetter
  <2>. QED BY <2>1 DEF Low
<1>2. n \in Nat /\ l \in Nat \ {0} /\ marker \in Seq(Letter)
  BY DEF Phrase
<1>. HIDE DEF low, n, l
<1>3. ASSUME NEW i \in 1..(n - l + 1)
      PROVE  SubSeq(low, i, i + l - 1) = marker
               <=> \A k \in 1..l : Small(text[i + k - 1]) = marker[k]
  <2>. DEFINE a == i - 1
              b == i + l - 1
              part == SubSeq(low, i, b)
  <2>1. a \in Nat /\ b \in 0..n /\ a + 1 = i /\ b - a = l /\ a + 1 <= b
    BY <1>2
  <2>2. /\ SubSeq(low, a + 1, b) \in Seq(Letter)
        /\ Len(SubSeq(low, a + 1, b)) = (IF a + 1 <= b THEN b - a ELSE 0)
        /\ \A k \in 1..(b - a) : SubSeq(low, a + 1, b)[k] = low[k + a]
    <3>. HIDE DEF a, b
    <3>. QED BY <1>1, <2>1, SubSeqDef
  <2>3. part \in Seq(Letter) /\ Len(part) = l
        /\ \A k \in 1..l : part[k] = low[k + a]
    BY <2>1, <2>2
  <2>4. \A k \in 1..l : k + a \in 1..n /\ k + a = i + k - 1
    BY <1>2
  <2>5. \A k \in 1..l : part[k] = Small(text[i + k - 1])
    BY <1>1, <2>3, <2>4
  <2>. HIDE DEF part
  <2>6. part = marker <=> \A k \in 1..l : part[k] = marker[k]
    <3>1. /\ part = [k \in 1..l |-> part[k]]
          /\ marker = [k \in 1..l |-> marker[k]]
      BY <1>2, <2>3 DEF l
    <3>. QED BY <3>1
  <2>. QED BY <2>5, <2>6 DEF part
<1>4. OccursAt(marker, low)
        = {i \in 1..(n - l + 1) : SubSeq(low, i, i + l - 1) = marker}
  BY <1>1 DEF OccursAt, l
<1>. QED BY <1>3, <1>4 DEF Reads, low, n, l

LEMMA FreeDef ==
    ASSUME NEW text \in Seq(Letter), NEW marker \in Phrase
    PROVE  Free(marker, text) <=> \A i \in Int : ~Reads(marker, text, i)
<1>1. Free(marker, text) <=>
        {i \in 1..(Len(text) - Len(marker) + 1) : Reads(marker, text, i)} = {}
  BY OccursDef DEF Free
<1>2. \A i : Reads(marker, text, i) =>
               i \in 1..(Len(text) - Len(marker) + 1) /\ i \in Int
  <2>1. Len(text) \in Int /\ Len(marker) \in Int
    BY DEF Phrase
  <2>. QED BY <2>1 DEF Reads
<1>. QED BY <1>1, <1>2

\* A phrase that occurs in two texts joined occurs in one of them or holds
\* the last letter of the first and the first letter of the second.
LEMMA ReadsJoined ==
    ASSUME NEW x \in Seq(Letter), NEW y \in Seq(Letter), NEW marker \in Phrase,
           NEW i \in Int, Reads(marker, x \o y, i)
    PROVE  \/ i + Len(marker) - 1 <= Len(x) /\ Reads(marker, x, i)
           \/ i > Len(x) /\ Reads(marker, y, i - Len(x))
           \/ /\ x # << >> /\ y # << >>
              /\ Small(x[Len(x)]) \in ToSet(marker)
              /\ Small(y[1]) \in ToSet(marker)
<1>. DEFINE a == Len(x)
            b == Len(y)
            l == Len(marker)
            z == x \o y
<1>1. a \in Nat /\ b \in Nat /\ l \in Nat \ {0}
  BY DEF Phrase
<1>2. /\ Len(z) = a + b /\ \A k \in 1..a : z[k] = x[k]
      /\ \A k \in (a + 1)..(a + b) : z[k] = y[k - a]
  BY Joined
<1>. HIDE DEF z
<1>3. /\ i \in 1..(a + b - l + 1)
      /\ \A k \in 1..l : Small(z[i + k - 1]) = marker[k]
  BY <1>2 DEF Reads, z
<1>. HIDE DEF a, b, l
<1>4. CASE i + l - 1 <= a
  <2>1. i \in 1..(a - l + 1)
    BY <1>1, <1>3, <1>4
  <2>2. \A k \in 1..l : i + k - 1 \in 1..a
    BY <1>1, <1>3, <1>4
  <2>3. \A k \in 1..l : Small(x[i + k - 1]) = marker[k]
    BY <1>2, <1>3, <2>2
  <2>. QED BY <1>4, <2>1, <2>3 DEF Reads, a, l
<1>5. CASE i > a
  <2>1. i - a \in 1..(b - l + 1)
    BY <1>1, <1>3, <1>5
  <2>2. \A k \in 1..l : /\ i + k - 1 \in (a + 1)..(a + b)
                        /\ (i + k - 1) - a = (i - a) + k - 1
    BY <1>1, <1>3, <1>5
  <2>3. \A k \in 1..l : Small(y[(i - a) + k - 1]) = marker[k]
    BY <1>2, <1>3, <2>2
  <2>. QED BY <1>5, <2>1, <2>3 DEF Reads, a, b, l
<1>6. CASE i <= a /\ i + l - 1 > a
  <2>. DEFINE k == a - i + 1
  <2>1. /\ k \in 1..l /\ k + 1 \in 1..l
        /\ i + k - 1 = a /\ i + (k + 1) - 1 = a + 1
        /\ a \in 1..a /\ a + 1 \in (a + 1)..(a + b) /\ (a + 1) - a = 1
    BY <1>1, <1>3, <1>6
  <2>. HIDE DEF k
  <2>2. z[a] = x[a] /\ z[a + 1] = y[1]
    BY <1>2, <2>1
  <2>3. Small(z[a]) = marker[k] /\ Small(z[a + 1]) = marker[k + 1]
    BY <1>3, <2>1
  <2>4. marker[k] \in ToSet(marker) /\ marker[k + 1] \in ToSet(marker)
    BY <2>1 DEF Phrase, ToSet, l
  <2>5. a >= 1 /\ b >= 1
    BY <1>1, <1>3, <1>6
  <2>6. x # << >> /\ y # << >>
    BY <2>5 DEF a, b
  <2>. QED BY <2>2, <2>3, <2>4, <2>6 DEF a
<1>. QED BY <1>1, <1>3, <1>4, <1>5, <1>6 DEF a, b, l

LEMMA FreeJoined ==
    ASSUME NEW x \in Seq(Letter), NEW y \in Seq(Letter), NEW marker \in Phrase,
           Free(marker, x), Free(marker, y),
           \/ x = << >> \/ y = << >>
           \/ Small(x[Len(x)]) \notin ToSet(marker)
           \/ Small(y[1]) \notin ToSet(marker)
    PROVE  Free(marker, x \o y)
<1>1. x \o y \in Seq(Letter)
  OBVIOUS
<1>2. \A i \in Int : ~Reads(marker, x, i) /\ ~Reads(marker, y, i)
  BY FreeDef
<1>3. SUFFICES ASSUME NEW i \in Int, Reads(marker, x \o y, i)
               PROVE  FALSE
  BY <1>1, FreeDef
<1>4. i - Len(x) \in Int
  OBVIOUS
<1>. QED BY <1>2, <1>3, <1>4, ReadsJoined

\* What occurs in a part occurs in the whole, where the part begins.
LEMMA ReadsPart ==
    ASSUME NEW text \in Seq(Letter), NEW marker \in Phrase,
           NEW a \in Nat, NEW b \in 0..Len(text), NEW i \in Int,
           Reads(marker, SubSeq(text, a + 1, b), i)
    PROVE  Reads(marker, text, i + a) /\ i + a + Len(marker) - 1 <= b
<1>. DEFINE part == SubSeq(text, a + 1, b)
            n == Len(text)
            l == Len(marker)
<1>1. /\ part \in Seq(Letter)
      /\ Len(part) = (IF a + 1 <= b THEN b - a ELSE 0)
      /\ \A k \in 1..(b - a) : part[k] = text[k + a]
  BY SubSeqDef
<1>2. n \in Nat /\ l \in Nat \ {0} /\ b \in 0..n
  BY DEF Phrase
<1>3. /\ i \in 1..(Len(part) - l + 1)
      /\ \A k \in 1..l : Small(part[i + k - 1]) = marker[k]
  BY DEF Reads
<1>. HIDE DEF part, n, l
<1>4. i + a \in 1..(n - l + 1) /\ i + a + l - 1 <= b
  BY <1>1, <1>2, <1>3
<1>5. \A k \in 1..l : /\ i + k - 1 \in 1..(b - a)
                      /\ (i + k - 1) + a = (i + a) + k - 1
  BY <1>1, <1>2, <1>3
<1>6. \A k \in 1..l : Small(text[(i + a) + k - 1]) = marker[k]
  BY <1>1, <1>3, <1>5
<1>. QED BY <1>4, <1>6 DEF Reads, n, l

LEMMA FreePart ==
    ASSUME NEW text \in Seq(Letter), NEW marker \in Phrase,
           NEW a \in Nat, NEW b \in 0..Len(text), Free(marker, text)
    PROVE  Free(marker, SubSeq(text, a + 1, b))
<1>1. SubSeq(text, a + 1, b) \in Seq(Letter)
  BY SubSeqDef
<1>2. \A i \in Int : ~Reads(marker, text, i)
  BY FreeDef
<1>3. SUFFICES ASSUME NEW i \in Int, Reads(marker, SubSeq(text, a + 1, b), i)
               PROVE  FALSE
  BY <1>1, FreeDef
<1>4. i + a \in Int
  OBVIOUS
<1>. QED BY <1>2, <1>3, <1>4, ReadsPart

-----------------------------------------------------------------------------
(* Lower case and the bytes of even texts *)

LEMMA FlattenDef ==
    ASSUME NEW X, NEW seqs \in Seq(Seq(X)), Len(seqs) # 0
    PROVE  \E f : /\ f \in [0..Len(seqs) -> Seq(X)] /\ f[0] = << >>
                  /\ \A i \in 1..Len(seqs) : f[i] = f[i - 1] \o seqs[i]
                  /\ FlattenSeq(seqs) = f[Len(seqs)]
<1>. DEFINE m == Len(seqs)
            none == << >>
            step == [x \in Nat \X Seq(X) |-> x[2] \o seqs[x[1]]]
            Unfolds(g) == g = [i \in 1..m |-> IF i = 1 THEN seqs[i]
                                              ELSE g[i - 1] \o seqs[i]]
            h == CHOOSE g : Unfolds(g)
<1>1. m \in Nat \ {0} /\ none \in Seq(X) /\ \A i \in 1..m : seqs[i] \in Seq(X)
  OBVIOUS
<1>2. FlattenSeq(seqs) = h[m]
  BY DEF FlattenSeq
<1>3. \A x \in Seq(X) : none \o x = x
  OBVIOUS
<1>. HIDE DEF m, none
<1>4. \A i \in 1..m, x \in Seq(X) :
        step[<<i, x>>] = x \o seqs[i] /\ x \o seqs[i] \in Seq(X)
  <2>1. ASSUME NEW i \in 1..m, NEW x \in Seq(X)
        PROVE  step[<<i, x>>] = x \o seqs[i] /\ x \o seqs[i] \in Seq(X)
    <3>1. seqs[i] \in Seq(X) /\ i \in Nat
      BY <1>1
    <3>2. x \o seqs[i] \in Seq(X)
      BY <3>1, Joined
    <3>. QED BY <3>1, <3>2
  <2>. QED BY <2>1
<1>. HIDE DEF step
<1>5. PICK g : Chain(g, Seq(X), none, step, m)
  BY <1>1, <1>4, ChainExists
<1>6. /\ g \in [0..m -> Seq(X)] /\ g[0] = none
      /\ \A i \in 1..m : i - 1 \in 0..m /\ g[i] = g[i - 1] \o seqs[i]
  <2>1. /\ g \in [0..m -> Seq(X)] /\ g[0] = none
        /\ \A i \in 1..m : g[i] = step[<<i, g[i - 1]>>]
    BY <1>5 DEF Chain
  <2>2. \A i \in 1..m : i - 1 \in 0..m
    BY <1>1
  <2>. QED BY <1>4, <2>1, <2>2
<1>f. g[1] = seqs[1] /\ 1 \in 1..m
  <2>1. 1 \in 1..m /\ 1 - 1 = 0
    BY <1>1
  <2>2. g[1] = g[1 - 1] \o seqs[1]
    BY <1>6, <2>1
  <2>3. g[1] = none \o seqs[1]
    BY <1>6, <2>1, <2>2
  <2>. QED BY <1>1, <1>3, <2>1, <2>3
<1>7. Unfolds([i \in 1..m |-> g[i]])
  <2>. DEFINE k == [i \in 1..m |-> g[i]]
  <2>1. ASSUME NEW i \in 1..m
        PROVE  k[i] = IF i = 1 THEN seqs[i] ELSE k[i - 1] \o seqs[i]
    <3>1. CASE i = 1
      BY <1>f, <3>1
    <3>2. CASE i # 1
      <4>1. i - 1 \in 1..m
        BY <1>1, <3>2
      <4>. QED BY <1>6, <3>2, <4>1
    <3>. QED BY <3>1, <3>2
  <2>2. k = [i \in 1..m |-> k[i]]
    OBVIOUS
  <2>. HIDE DEF k
  <2>3. Unfolds(k)
    BY <2>1, <2>2
  <2>. QED BY <2>3 DEF k
<1>8. Unfolds(h)
  <2>. HIDE DEF Unfolds
  <2>. QED BY <1>7
<1>. HIDE DEF h
<1>9. \A i \in 1..m : h[i] = IF i = 1 THEN seqs[i] ELSE h[i - 1] \o seqs[i]
  BY <1>8
<1>. HIDE DEF Unfolds
<1>10. \A n \in 0..m : n # 0 => h[n] = g[n]
  <2>. DEFINE Same == {n \in 0..m : n # 0 => h[n] = g[n]}
  <2>1. 0 \in Same
    BY <1>1
  <2>2. ASSUME NEW n \in 0..(m - 1), n \in Same
        PROVE  n + 1 \in Same
    <3>1. n + 1 \in 1..m /\ n + 1 \in 0..m /\ (n + 1) - 1 = n
      BY <1>1
    <3>2. g[n + 1] = g[n] \o seqs[n + 1]
      BY <1>6, <3>1
    <3>3. CASE n = 0
      <4>1. h[1] = seqs[1]
        BY <1>9, <1>f
      <4>. QED BY <1>f, <3>1, <3>3, <4>1
    <3>4. CASE n # 0
      <4>1. n + 1 # 1
        BY <3>4
      <4>2. h[n + 1] = h[(n + 1) - 1] \o seqs[n + 1]
        BY <1>9, <3>1, <4>1
      <4>3. h[n] = g[n]
        BY <2>2, <3>4
      <4>4. h[n + 1] = g[n + 1]
        BY <3>1, <3>2, <4>2, <4>3
      <4>. QED BY <3>1, <4>4
    <3>. QED BY <3>3, <3>4
  <2>. HIDE DEF Same
  <2>3. \A n \in 0..m : n \in Same
    BY <1>1, <2>1, <2>2, BoundedInduction
  <2>. QED BY <2>3 DEF Same
<1>11. h[m] = g[m]
  BY <1>1, <1>10
<1>. QED BY <1>2, <1>6, <1>11 DEF m, none

\* The offsets of a text ascend: a byte at which a letter ends is that of no
\* other.
LEMMA OffsetsAscend ==
    ASSUME NEW text \in Seq(Letter)
    PROVE  \A n \in 0..Len(text) : Before(text, Offsets(text)[n]) = {n}
<1>. DEFINE m == Len(text)
            wide == [i \in DOMAIN text |-> Width[text[i]]]
            f == Offsets(text)
<1>1. m \in Nat /\ DOMAIN text = 1..m /\ \A i \in 1..m : text[i] \in Letter
  OBVIOUS
<1>2. \A i \in 1..m : Width[text[i]] \in Nat \ {0}
  <2>1. \A c \in Letter : Width[c] \in 1..4
    BY WidthAssumption
  <2>2. \A w \in 1..4 : w \in Nat \ {0}
    OBVIOUS
  <2>. QED BY <1>1, <2>1, <2>2
<1>3. wide \in Seq(Int) /\ Len(wide) = m /\ \A i \in 1..m : wide[i] \in Nat \ {0}
  BY <1>1, <1>2
<1>4. f = PartialSums(wide)
  BY DEF Offsets
<1>. HIDE DEF wide, m, f
<1>5. /\ \A n \in 0..m : f[n] \in Int
      /\ \A n \in 1..m : f[n] = f[n - 1] + wide[n]
  BY <1>3, <1>4, PartialSumsDef
<1>6. \A n \in 0..m : \A a \in 0..m : a < n => f[a] < f[n]
  <2>. DEFINE Above == {n \in 0..m : \A a \in 0..m : a < n => f[a] < f[n]}
  <2>1. 0 \in Above
    BY <1>1
  <2>2. ASSUME NEW n \in 0..(m - 1), n \in Above
        PROVE  n + 1 \in Above
    <3>1. n + 1 \in 1..m /\ n + 1 \in 0..m /\ (n + 1) - 1 = n /\ n \in 0..m
      BY <1>1
    <3>2. f[n + 1] = f[n] + wide[n + 1] /\ wide[n + 1] \in Nat \ {0}
      BY <1>3, <1>5, <3>1
    <3>3. f[n] < f[n + 1]
      BY <1>5, <3>1, <3>2
    <3>4. ASSUME NEW a \in 0..m, a < n + 1
          PROVE  f[a] < f[n + 1]
      <4>1. CASE a = n
        BY <3>3, <4>1
      <4>2. CASE a < n
        <5>1. f[a] < f[n]
          BY <2>2, <4>2
        <5>. QED BY <1>5, <3>1, <3>3, <5>1
      <4>. QED BY <1>1, <3>1, <3>4, <4>1, <4>2
    <3>. QED BY <3>1, <3>4
  <2>. HIDE DEF Above
  <2>3. \A n \in 0..m : n \in Above
    BY <1>1, <2>1, <2>2, BoundedInduction
  <2>. QED BY <2>3 DEF Above
<1>7. ASSUME NEW n \in 0..m, NEW a \in 0..m, f[a] = f[n]
      PROVE  a = n
  <2>1. ~(a < n) /\ ~(n < a)
    BY <1>5, <1>6, <1>7
  <2>. QED BY <1>1, <2>1
<1>. QED BY <1>7 DEF Before, f, m

LEMMA EvenLower ==
    ASSUME NEW text \in Seq(Even)
    PROVE  /\ lower(text) = Low(text)
           /\ Low(text) \in Seq(Letter) /\ Len(Low(text)) = Len(text)
           /\ Offsets(Low(text)) = Offsets(text)
<1>. DEFINE m == Len(text)
            seqs == [i \in DOMAIN text |-> LowerOf[text[i]]]
            low == Low(text)
<1>1. m \in Nat /\ DOMAIN text = 1..m
      /\ \A i \in 1..m : /\ text[i] \in Letter
                         /\ LowerOf[text[i]] = <<Small(text[i])>>
                         /\ Width[Small(text[i])] = Width[text[i]]
  <2>1. m \in Nat /\ DOMAIN text = 1..m /\ \A i \in 1..m : text[i] \in Even
    OBVIOUS
  <2>. QED BY <2>1 DEF Even, Plain
<1>2. low = [i \in 1..m |-> Small(text[i])]
  BY <1>1 DEF Low
<1>3. \A i \in 1..m : low[i] = Small(text[i]) /\ low[i] \in Letter
  BY <1>1, <1>2, SmallIsLetter
<1>4. low \in Seq(Letter) /\ Len(low) = m /\ DOMAIN low = 1..m
  BY <1>1, <1>2, <1>3
<1>5. lower(text) = FlattenSeq(seqs)
  BY DEF lower
<1>6. /\ seqs \in Seq(Seq(Letter)) /\ Len(seqs) = m
      /\ \A i \in 1..m : seqs[i] = <<low[i]>>
  <2>1. ASSUME NEW i \in 1..m
        PROVE  seqs[i] = <<low[i]>> /\ seqs[i] \in Seq(Letter)
    <3>1. seqs[i] = LowerOf[text[i]]
      BY <1>1
    <3>2. seqs[i] = <<low[i]>> /\ low[i] \in Letter
      BY <1>1, <1>3, <3>1
    <3>. HIDE DEF low, seqs
    <3>3. <<low[i]>> \in Seq(Letter)
      BY <3>2
    <3>. QED BY <3>2, <3>3
  <2>2. seqs = [i \in 1..m |-> seqs[i]]
    BY <1>1
  <2>. HIDE DEF seqs
  <2>3. seqs \in Seq(Seq(Letter)) /\ Len(seqs) = m
    BY <1>1, <2>1, <2>2
  <2>. QED BY <2>1, <2>3
<1>7. Offsets(low) = Offsets(text)
  <2>1. [i \in DOMAIN low |-> Width[low[i]]] = [i \in DOMAIN text |-> Width[text[i]]]
    BY <1>1, <1>3, <1>4
  <2>. QED BY <2>1 DEF Offsets
<1>. HIDE DEF seqs, low, m
<1>8. FlattenSeq(seqs) = low
  <2>1. CASE m = 0
    <3>1. seqs = << >> /\ low = << >>
      BY <1>4, <1>6, <2>1
    <3>2. FlattenSeq(seqs) = seqs
      BY <1>6, <2>1 DEF FlattenSeq
    <3>. QED BY <3>1, <3>2
  <2>2. CASE m # 0
    <3>1. PICK f : /\ f \in [0..m -> Seq(Letter)] /\ f[0] = << >>
                   /\ \A i \in 1..m : f[i] = f[i - 1] \o seqs[i]
                   /\ FlattenSeq(seqs) = f[m]
      BY <1>6, <2>2, FlattenDef
    <3>. DEFINE upto(n) == [i \in 1..n |-> low[i]]
                Same == {n \in 0..m : f[n] = upto(n)}
    <3>2. 0 \in Same
      BY <1>1, <3>1
    <3>3. ASSUME NEW n \in 0..(m - 1), n \in Same
          PROVE  n + 1 \in Same
      <4>1. n + 1 \in 1..m /\ n + 1 \in 0..m /\ (n + 1) - 1 = n /\ n \in Nat
        BY <1>1
      <4>2. f[n + 1] = upto(n) \o <<low[n + 1]>>
        BY <1>6, <3>1, <3>3, <4>1
      <4>3. upto(n) \o <<low[n + 1]>> = upto(n + 1)
        <5>. DEFINE a == upto(n)
                    d == low[n + 1]
        <5>1. \A i \in 1..(n + 1) : low[i] \in Letter
          <6>1. \A i \in 1..(n + 1) : i \in 1..m
            BY <1>1, <4>1
          <6>. QED BY <1>3, <6>1
        <5>2. /\ a \in Seq(Letter) /\ Len(a) = n
              /\ \A i \in 1..n : a[i] = low[i]
          BY <4>1, <5>1
        <5>3. <<d>> \in Seq(Letter) /\ Len(<<d>>) = 1 /\ <<d>>[1] = d
          BY <4>1, <5>1
        <5>. HIDE DEF a, d
        <5>4. /\ a \o <<d>> \in Seq(Letter) /\ Len(a \o <<d>>) = n + 1
              /\ \A i \in 1..n : (a \o <<d>>)[i] = a[i]
              /\ \A i \in (n + 1)..(n + 1) : (a \o <<d>>)[i] = <<d>>[i - n]
          BY <5>2, <5>3, Joined
        <5>. DEFINE z == a \o <<d>>
        <5>. HIDE DEF z
        <5>5. \A i \in 1..(n + 1) : z[i] = low[i]
          <6>1. z[n + 1] = low[n + 1]
            <7>1. n + 1 \in (n + 1)..(n + 1) /\ (n + 1) - n = 1
              BY <4>1
            <7>2. z[n + 1] = <<d>>[(n + 1) - n]
              BY <5>4, <7>1 DEF z
            <7>. QED BY <5>3, <7>1, <7>2 DEF d
          <6>2. \A i \in 1..(n + 1) : i \in 1..n \/ i = n + 1
            BY <4>1
          <6>. QED BY <5>2, <5>4, <6>1, <6>2 DEF z
        <5>6. z = [i \in 1..(n + 1) |-> z[i]]
          BY <5>4 DEF z
        <5>7. z = [i \in 1..(n + 1) |-> low[i]]
          BY <5>5, <5>6
        <5>. QED BY <5>7 DEF z, a, d
      <4>. QED BY <4>1, <4>2, <4>3
    <3>. HIDE DEF Same
    <3>4. m \in Same
      <4>1. \A n \in 0..m : n \in Same
        BY <1>1, <3>2, <3>3, BoundedInduction
      <4>. QED BY <1>1, <4>1
    <3>5. upto(m) = low
      BY <1>2 DEF low
    <3>. QED BY <3>1, <3>4, <3>5 DEF Same
  <2>. QED BY <2>1, <2>2
<1>. QED BY <1>4, <1>5, <1>7, <1>8 DEF low, m

LEMMA NoteDef ==
    /\ Note \in Seq(Even) /\ Note \in Seq(Plain) /\ Note \in Seq(Letter)
    /\ Note # << >>
    /\ Len(Note) \in Nat \ {0}
    /\ \A m \in DOMAIN Marker :
         /\ Free(Marker[m], Note)
         /\ Small(Note[1]) \notin ToSet(Marker[m])
         /\ Small(Note[Len(Note)]) \notin ToSet(Marker[m])
<1>1. Note \in Seq(Even) /\ Note # << >>
  <2>1. Note \in Seq(Plain) /\ Note # << >> /\ Steady(Note)
    BY NoteAssumption DEF Plain
  <2>. QED BY <2>1, EvenIsSteady
<1>2. Note \in Seq(Letter) /\ Note \in Seq(Plain)
  BY <1>1, EvenText
<1>3. Len(Note) \in Nat \ {0}
  BY <1>1
<1>4. ASSUME NEW m \in DOMAIN Marker
      PROVE  /\ Free(Marker[m], Note)
             /\ Small(Note[1]) \notin ToSet(Marker[m])
             /\ Small(Note[Len(Note)]) \notin ToSet(Marker[m])
  <2>1. lower(Note) = Low(Note)
    BY <1>1, EvenLower
  <2>2. \A i \in {1, Len(Note)} : Note[i] \in Even
    BY <1>1, <1>3
  <2>3. \A i \in {1, Len(Note)} : LowerOf[Note[i]] = <<Small(Note[i])>>
    BY <2>2 DEF Even
  <2>4. \A c : c \in ToSet(<<c>>)
    BY DEF ToSet
  <2>. QED BY <2>1, <2>3, <2>4, NoteAssumption DEF Free
<1>. QED BY <1>1, <1>2, <1>3, <1>4

-----------------------------------------------------------------------------
(* replace_marker *)

States(X) == [rebuilt : Seq(X), rest : Seq(X)]

\* What the loop works with when the text is even.
TurnState == States(Even)

\* pos is the first place where marker occurs in text.
FirstAt(marker, text, pos) ==
    /\ pos \in Int /\ Reads(marker, text, pos)
    /\ \A i \in Int : Reads(marker, text, i) => pos <= i

\* Wherever a turn slices, it brings in no other letters.
LEMMA TurnType ==
    ASSUME NEW X, Note \in Seq(X), NEW s \in States(X), NEW marker
    PROVE  Turn(s, marker) \in States(X)
<1>. DEFINE rest == s.rest
            low == lower(rest)
            found == OccursAt(marker, low)
            begins == Before(rest, Offsets(low)[Min(found) - 1])
            ends == Before(rest, Offsets(low)[Min(found) + Len(marker) - 1])
            rebuilt == s.rebuilt \o SubSeq(rest, 1, Min(begins)) \o Note
            left == SubSeq(rest, Min(ends) + 1, Len(rest))
            n == Len(rest)
<1>1. rest \in Seq(X) /\ s.rebuilt \in Seq(X) /\ n \in Nat
  BY DEF States
<1>2. CASE found = {} \/ begins = {} \/ ends = {}
  BY <1>2 DEF Turn
<1>3. CASE ~(found = {} \/ begins = {} \/ ends = {})
  <2>1. Turn(s, marker) = [rebuilt |-> rebuilt, rest |-> left]
    BY <1>3 DEF Turn
  <2>2. begins \in SUBSET (0..n) /\ ends \in SUBSET (0..n)
    BY DEF Before
  <2>. HIDE DEF begins, ends, found, low
  <2>3. Min(begins) \in 0..n /\ Min(ends) \in 0..n
    BY <1>1, <1>3, <2>2, MinOfPlaces
  <2>. DEFINE b == Min(begins)
              e == Min(ends)
              part == SubSeq(rest, 1, b)
  <2>. HIDE DEF rest, n
  <2>4. part \in Seq(X)
    <3>1. 0 \in Nat /\ b \in 0..n /\ 0 + 1 = 1
      BY <2>3
    <3>. HIDE DEF b
    <3>2. SubSeq(rest, 0 + 1, b) \in Seq(X)
      BY <1>1, <3>1, SubSeqDef DEF n
    <3>. QED BY <3>2
  <2>5. left \in Seq(X)
    <3>1. e \in Nat /\ n \in 0..n
      BY <1>1, <2>3
    <3>2. SubSeq(rest, e + 1, n) \in Seq(X)
      <4>. HIDE DEF e
      <4>. QED BY <1>1, <3>1, SubSeqDef DEF n
    <3>. QED BY <3>2 DEF n
  <2>6. rebuilt \in Seq(X)
    <3>. HIDE DEF part
    <3>1. s.rebuilt \o part \in Seq(X)
      BY <1>1, <2>4, Joined
    <3>2. (s.rebuilt \o part) \o Note \in Seq(X)
      BY <3>1, Joined
    <3>. QED BY <3>2 DEF part, b
  <2>. HIDE DEF rebuilt, left
  <2>. QED BY <2>1, <2>5, <2>6 DEF States
<1>. QED BY <1>2, <1>3

LEMMA TurnDef ==
    ASSUME NEW s \in TurnState, NEW marker \in Phrase
    PROVE  /\ Turn(s, marker) \in TurnState
           /\ \/ Free(marker, s.rest) /\ Turn(s, marker) = s
              \/ \E pos \in Int :
                   /\ FirstAt(marker, s.rest, pos)
                   /\ Turn(s, marker).rebuilt
                        = s.rebuilt \o SubSeq(s.rest, 1, pos - 1) \o Note
                   /\ Turn(s, marker).rest
                        = SubSeq(s.rest, pos + Len(marker), Len(s.rest))
<1>. DEFINE rest == s.rest
            n == Len(rest)
            l == Len(marker)
            low == lower(rest)
            found == OccursAt(marker, low)
            pos == Min(found)
            begins == Before(rest, Offsets(low)[pos - 1])
            ends == Before(rest, Offsets(low)[pos + l - 1])
            rebuilt == s.rebuilt \o SubSeq(rest, 1, pos - 1) \o Note
            left == SubSeq(rest, pos + l, n)
<1>1. /\ rest \in Seq(Even) /\ rest \in Seq(Letter)
      /\ n \in Nat /\ l \in Nat \ {0}
  BY EvenText DEF TurnState, States, Phrase
<1>2. low = Low(rest) /\ Offsets(low) = Offsets(rest)
  BY <1>1, EvenLower
<1>3. Turn(s, marker) \in TurnState
  BY NoteDef, TurnType DEF TurnState
<1>4. CASE found = {}
  BY <1>2, <1>3, <1>4 DEF Turn, Free
<1>5. CASE found # {}
  <2>1. found = {i \in 1..(n - l + 1) : Reads(marker, rest, i)}
    BY <1>1, <1>2, OccursDef
  <2>2. begins # {} /\ ends # {} =>
          Turn(s, marker)
            = [rebuilt |-> s.rebuilt \o SubSeq(rest, 1, Min(begins)) \o Note,
               rest |-> SubSeq(rest, Min(ends) + 1, n)]
    BY <1>5 DEF Turn
  <2>. HIDE DEF found, n, l, rest, low
  <2>3. found \in SUBSET (0..n)
    BY <1>1, <2>1
  <2>4. pos \in found /\ \A i \in found : pos <= i
    BY <1>1, <1>5, <2>3, MinOfPlaces
  <2>. HIDE DEF pos
  <2>5. pos \in 1..(n - l + 1) /\ pos \in Int /\ Reads(marker, rest, pos)
    BY <1>1, <2>1, <2>4
  <2>6. ASSUME NEW i \in Int, Reads(marker, rest, i)
        PROVE  pos <= i
    <3>1. i \in found
      BY <2>1, <2>6 DEF Reads, n, l
    <3>. QED BY <2>4, <3>1
  <2>7. FirstAt(marker, rest, pos)
    BY <2>5, <2>6 DEF FirstAt
  <2>8. pos - 1 \in 0..n /\ pos + l - 1 \in 0..n /\ pos + l - 1 + 1 = pos + l
    BY <1>1, <2>5
  <2>9. begins = {pos - 1} /\ ends = {pos + l - 1}
    BY <1>1, <1>2, <2>8, OffsetsAscend DEF n
  <2>10. \A x \in 0..n : Min({x}) = x
    <3>1. ASSUME NEW x \in 0..n
          PROVE  Min({x}) = x
      <4>. DEFINE S == {x}
      <4>1. S \in SUBSET (0..n) /\ S # {} /\ n \in Nat
        BY <1>1 DEF n
      <4>. HIDE DEF S
      <4>2. Min(S) \in S
        BY <4>1, MinOfPlaces
      <4>. QED BY <4>2 DEF S
    <3>. QED BY <3>1
  <2>11. Min(begins) = pos - 1 /\ Min(ends) + 1 = pos + l
    BY <2>8, <2>9, <2>10
  <2>12. Turn(s, marker) = [rebuilt |-> rebuilt, rest |-> left]
    BY <2>2, <2>9, <2>11
  <2>. HIDE DEF rebuilt, left
  <2>13. Turn(s, marker).rebuilt = rebuilt /\ Turn(s, marker).rest = left
    BY <2>12
  <2>. QED BY <1>3, <2>5, <2>7, <2>13 DEF rebuilt, left, rest, n, l
<1>. QED BY <1>4, <1>5

LEMMA TurnedDef ==
    ASSUME NEW X, Note \in Seq(X), NEW text \in Seq(X), NEW marker
    PROVE  /\ Turned(text, marker) \in [0..Len(text) -> States(X)]
           /\ Turned(text, marker)[0] = [rebuilt |-> << >>, rest |-> text]
           /\ \A n \in 1..Len(text) :
                Turned(text, marker)[n] = Turn(Turned(text, marker)[n - 1], marker)
<1>. DEFINE m == Len(text)
            first == [rebuilt |-> << >>, rest |-> text]
            step == [x \in Nat \X States(X) |-> Turn(x[2], marker)]
            Recurs(g) == g = [n \in 0..m |->
                                IF n = 0 THEN first ELSE Turn(g[n - 1], marker)]
            f == CHOOSE g : Recurs(g)
<1>1. m \in Nat
  OBVIOUS
<1>2. first \in States(X)
  BY DEF States
<1>3. f = Turned(text, marker)
  BY DEF Turned
<1>. HIDE DEF m, first
<1>4. \A i \in 1..m, s \in States(X) :
        step[<<i, s>>] = Turn(s, marker) /\ Turn(s, marker) \in States(X)
  <2>1. \A i \in 1..m, s \in States(X) : step[<<i, s>>] = Turn(s, marker)
    BY <1>1
  <2>2. \A s \in States(X) : Turn(s, marker) \in States(X)
    BY TurnType
  <2>. QED BY <2>1, <2>2
<1>. HIDE DEF step
<1>5. PICK g : Chain(g, States(X), first, step, m)
  BY <1>1, <1>2, <1>4, ChainExists
<1>6. Recurs(g)
  <2>1. /\ g \in [0..m -> States(X)] /\ g[0] = first
        /\ \A i \in 1..m : g[i] = step[<<i, g[i - 1]>>]
    BY <1>5 DEF Chain
  <2>2. \A i \in 1..m : i - 1 \in 0..m
    BY <1>1
  <2>3. \A i \in 1..m : g[i] = Turn(g[i - 1], marker)
    BY <1>4, <2>1, <2>2
  <2>4. \A n \in 0..m : g[n] = IF n = 0 THEN first ELSE Turn(g[n - 1], marker)
    BY <1>1, <2>1, <2>3
  <2>. QED BY <2>1, <2>4
<1>7. Recurs(f)
  <2>. HIDE DEF Recurs
  <2>. QED BY <1>6
<1>. HIDE DEF f
<1>8. /\ DOMAIN f = 0..m /\ f[0] = first
      /\ \A n \in 1..m : f[n] = Turn(f[n - 1], marker)
  <2>1. 0 \in 0..m /\ \A n \in 1..m : n \in 0..m /\ n # 0
    BY <1>1
  <2>. QED BY <1>7, <2>1
<1>9. \A n \in 0..m : f[n] \in States(X)
  <2>. DEFINE Typed == {n \in 0..m : f[n] \in States(X)}
  <2>1. 0 \in Typed
    BY <1>1, <1>2, <1>8
  <2>2. ASSUME NEW n \in 0..(m - 1), n \in Typed
        PROVE  n + 1 \in Typed
    <3>1. n + 1 \in 1..m /\ (n + 1) - 1 = n /\ n + 1 \in 0..m
      BY <1>1
    <3>2. f[n + 1] = Turn(f[n], marker)
      BY <1>8, <3>1
    <3>. QED BY <1>4, <2>2, <3>1, <3>2
  <2>. HIDE DEF Typed
  <2>3. \A n \in 0..m : n \in Typed
    BY <1>1, <2>1, <2>2, BoundedInduction
  <2>. QED BY <2>3 DEF Typed
<1>. QED BY <1>3, <1>7, <1>8, <1>9 DEF m, first

LEMMA FreeEmpty ==
    ASSUME NEW marker \in Phrase
    PROVE  Free(marker, << >>)
<1>1. << >> \in Seq(Letter) /\ Len(<< >>) = 0 /\ Len(marker) \in Nat \ {0}
  BY DEF Phrase
<1>2. \A i \in Int : ~Reads(marker, << >>, i)
  BY <1>1 DEF Reads
<1>. QED BY <1>1, <1>2, FreeDef

\* Before the first occurrence there is none.
LEMMA FreeBefore ==
    ASSUME NEW text \in Seq(Letter), NEW marker \in Phrase, NEW pos \in Int,
           FirstAt(marker, text, pos)
    PROVE  Free(marker, SubSeq(text, 1, pos - 1))
<1>. DEFINE l == Len(marker)
<1>1. l \in Nat \ {0} /\ Len(text) \in Nat
  BY DEF Phrase
<1>2. pos \in 1..(Len(text) - l + 1)
      /\ \A i \in Int : Reads(marker, text, i) => pos <= i
  BY DEF FirstAt, Reads
<1>. HIDE DEF l
<1>3. 0 \in Nat /\ pos - 1 \in 0..Len(text) /\ 0 + 1 = 1
  BY <1>1, <1>2
<1>4. SubSeq(text, 0 + 1, pos - 1) \in Seq(Letter)
  BY <1>3, SubSeqDef
<1>5. ASSUME NEW i \in Int, Reads(marker, SubSeq(text, 0 + 1, pos - 1), i)
      PROVE  FALSE
  <2>1. Reads(marker, text, i + 0) /\ i + 0 + l - 1 <= pos - 1
    BY <1>3, <1>5, ReadsPart DEF l
  <2>2. pos <= i + 0
    BY <1>2, <2>1
  <2>. QED BY <1>1, <1>2, <2>1, <2>2
<1>6. Free(marker, SubSeq(text, 0 + 1, pos - 1))
  BY <1>4, <1>5, FreeDef
<1>. QED BY <1>6

\* text begins with s.
Starts(s, text) ==
    Len(s) <= Len(text) /\ \A i \in 1..Len(s) : text[i] = s[i]

\* text up to pos, and the note.
Noted(text, pos) == SubSeq(text, 1, pos - 1) \o Note

LEMMA NotedDef ==
    ASSUME NEW text \in Seq(Even), NEW pos \in 1..(Len(text) + 1)
    PROVE  /\ SubSeq(text, 1, pos - 1) \in Seq(Even)
           /\ Len(SubSeq(text, 1, pos - 1)) = pos - 1
           /\ \A i \in 1..(pos - 1) : SubSeq(text, 1, pos - 1)[i] = text[i]
           /\ Noted(text, pos) \in Seq(Even)
           /\ Len(Noted(text, pos)) = pos - 1 + Len(Note)
           /\ \A i \in 1..(pos - 1) : Noted(text, pos)[i] = text[i]
           /\ \A i \in 1..Len(Note) : Noted(text, pos)[pos - 1 + i] = Note[i]
<1>. DEFINE b == pos - 1
            part == SubSeq(text, 1, b)
<1>1. b \in 0..Len(text) /\ 0 \in Nat /\ 0 + 1 = 1 /\ b \in Nat /\ b - 0 = b
      /\ (0 + 1 <= b \/ b = 0)
  OBVIOUS
<1>. HIDE DEF b
<1>2. /\ SubSeq(text, 0 + 1, b) \in Seq(Even)
      /\ Len(SubSeq(text, 0 + 1, b)) = (IF 0 + 1 <= b THEN b - 0 ELSE 0)
      /\ \A i \in 1..(b - 0) : SubSeq(text, 0 + 1, b)[i] = text[i + 0]
  BY <1>1, SubSeqDef
<1>3. part \in Seq(Even) /\ Len(part) = b
      /\ \A i \in 1..b : part[i] = text[i]
  BY <1>1, <1>2
<1>. HIDE DEF part
<1>4. Note \in Seq(Even) /\ Len(Note) \in Nat
  BY NoteDef
<1>5. /\ part \o Note \in Seq(Even) /\ Len(part \o Note) = b + Len(Note)
      /\ \A i \in 1..b : (part \o Note)[i] = part[i]
      /\ \A i \in (b + 1)..(b + Len(Note)) : (part \o Note)[i] = Note[i - b]
  BY <1>3, <1>4, Joined
<1>6. \A i \in 1..Len(Note) : (part \o Note)[b + i] = Note[i]
  <2>1. \A i \in 1..Len(Note) : /\ b + i \in (b + 1)..(b + Len(Note))
                                /\ (b + i) - b = i
    BY <1>1, <1>4
  <2>. QED BY <1>5, <2>1
<1>7. Noted(text, pos) = part \o Note
  BY DEF Noted, part, b
<1>. QED BY <1>3, <1>5, <1>6, <1>7 DEF part, b

LEMMA StartsJoined ==
    ASSUME NEW s \in Seq(Even), NEW x \in Seq(Even), NEW y \in Seq(Even),
           Starts(s, x)
    PROVE  Starts(s, x \o y)
<1>1. /\ Len(x \o y) = Len(x) + Len(y)
      /\ \A i \in 1..Len(x) : (x \o y)[i] = x[i]
      /\ Len(x) \in Nat /\ Len(y) \in Nat /\ Len(s) \in Nat
  BY Joined
<1>. DEFINE z == x \o y
<1>. HIDE DEF z
<1>2. Starts(s, z)
  BY <1>1 DEF Starts, z
<1>. QED BY <1>2 DEF z

NoteIsLast(text) == text = << >> \/ text[Len(text)] = Note[Len(Note)]

\* The loop replaces marker m in a text, or does not meet marker j at all.
Silenced(m, text) == {j \in DOMAIN Marker : j = m \/ Free(Marker[j], text)}

\* After n turns of the loop for marker m: what has been moved over has no
\* marker it should not have; every turn takes a letter at least until there
\* is nothing left to find; and what has been moved over begins like the text,
\* up to an occurrence of the marker, and with the note in its place.
LoopInv(text, m, n, s) ==
    /\ s \in TurnState
    /\ NoteIsLast(s.rebuilt)
    /\ \A j \in Silenced(m, text) : Free(Marker[j], s.rebuilt)
    /\ \A j \in DOMAIN Marker : Free(Marker[j], text) => Free(Marker[j], s.rest)
    /\ Free(Marker[m], s.rest) \/ Len(s.rest) <= Len(text) - n
    /\ \/ s.rebuilt = << >> /\ s.rest = text
       \/ \E pos \in Int : /\ Reads(Marker[m], text, pos)
                           /\ Starts(Noted(text, pos), s.rebuilt)

LEMMA LoopStep ==
    ASSUME NEW text \in Seq(Even), NEW m \in DOMAIN Marker,
           NEW n \in 0..(Len(text) - 1), NEW s, LoopInv(text, m, n, s)
    PROVE  LoopInv(text, m, n + 1, Turn(s, Marker[m]))
<1>. DEFINE mk == Marker[m]
            s2 == Turn(s, mk)
            l == Len(mk)
            rest == s.rest
            b == Len(rest)
<1>1. /\ s \in TurnState /\ s2 \in TurnState
      /\ s.rebuilt \in Seq(Even) /\ rest \in Seq(Even)
      /\ s.rebuilt \in Seq(Letter) /\ rest \in Seq(Letter)
      /\ text \in Seq(Letter)
      /\ mk \in Phrase /\ \A j \in DOMAIN Marker : Marker[j] \in Phrase
  <2>1. s \in TurnState
    BY DEF LoopInv
  <2>2. s.rebuilt \in Seq(Even) /\ rest \in Seq(Even)
    BY <2>1 DEF TurnState, States
  <2>3. mk \in Phrase /\ \A j \in DOMAIN Marker : Marker[j] \in Phrase
    BY MarkersArePhrases
  <2>4. s2 \in TurnState
    BY <2>1, <2>3, TurnDef
  <2>. QED BY <2>1, <2>2, <2>3, <2>4, EvenText
<1>2. l \in Nat \ {0} /\ b \in Nat /\ Len(text) \in Nat
  BY <1>1 DEF Phrase
<1>3. \/ Free(mk, rest) /\ s2 = s
      \/ \E pos \in Int :
           /\ FirstAt(mk, rest, pos)
           /\ s2.rebuilt = s.rebuilt \o SubSeq(rest, 1, pos - 1) \o Note
           /\ s2.rest = SubSeq(rest, pos + l, b)
  BY <1>1, TurnDef
<1>4. CASE Free(mk, rest) /\ s2 = s
  BY <1>4 DEF LoopInv
<1>5. ASSUME NEW pos \in Int,
             FirstAt(mk, rest, pos),
             s2.rebuilt = s.rebuilt \o SubSeq(rest, 1, pos - 1) \o Note,
             s2.rest = SubSeq(rest, pos + l, b)
      PROVE  LoopInv(text, m, n + 1, s2)
  <2>. DEFINE pre == SubSeq(rest, 1, pos - 1)
              moved == s.rebuilt \o pre
              a == pos + l - 1
  <2>1. pos \in 1..(b - l + 1) /\ Reads(mk, rest, pos)
    BY <1>5 DEF FirstAt, Reads
  <2>2. /\ a \in Nat /\ a + 1 = pos + l /\ b \in 0..b /\ a <= b /\ a >= 1
        /\ pos \in 1..(b + 1) /\ pos - 1 \in 0..b /\ 0 \in Nat /\ 0 + 1 = 1
    BY <1>2, <2>1
  <2>3. s2.rest = SubSeq(rest, a + 1, b)
    BY <1>5, <2>2
  <2>. HIDE DEF a
  <2>4. /\ Note \in Seq(Even) /\ Note \in Seq(Letter)
        /\ Len(Note) \in Nat \ {0} /\ Note # << >>
    BY NoteDef
  <2>5. pre \in Seq(Even) /\ pre \in Seq(Letter) /\ Noted(rest, pos) = pre \o Note
    BY <1>1, <2>2, NotedDef, EvenText DEF Noted
  <2>6. moved \in Seq(Letter) /\ moved \in Seq(Even)
    BY <1>1, <2>5, EvenText, Joined
  <2>7. s2.rebuilt = moved \o Note
    BY <1>5
  <2>8. NoteIsLast(s2.rebuilt)
    <3>. HIDE DEF moved
    <3>1. /\ Len(moved \o Note) = Len(moved) + Len(Note) /\ Len(moved) \in Nat
          /\ \A i \in (Len(moved) + 1)..(Len(moved) + Len(Note)) :
               (moved \o Note)[i] = Note[i - Len(moved)]
      BY <2>4, <2>6, Joined
    <3>. DEFINE k == Len(moved) + Len(Note)
    <3>2. k \in (Len(moved) + 1)..(Len(moved) + Len(Note))
          /\ k - Len(moved) = Len(Note)
      BY <2>4, <3>1
    <3>. HIDE DEF k
    <3>3. (moved \o Note)[k] = Note[Len(Note)]
      BY <3>1, <3>2
    <3>. QED BY <2>7, <3>1, <3>3 DEF NoteIsLast, k
  <2>9. ASSUME NEW j \in Silenced(m, text)
        PROVE  Free(Marker[j], s2.rebuilt)
    <3>. DEFINE other == Marker[j]
    <3>1. j \in DOMAIN Marker /\ other \in Phrase /\ Free(other, s.rebuilt)
      BY <1>1 DEF Silenced, LoopInv
    <3>2. Free(other, pre)
      <4>1. CASE j = m
        BY <1>1, <1>5, <4>1, FreeBefore
      <4>2. CASE j # m
        <5>1. Free(other, rest)
          BY <3>1, <4>2 DEF Silenced, LoopInv
        <5>2. Free(other, SubSeq(rest, 0 + 1, pos - 1))
          <6>. HIDE DEF other, rest, b
          <6>. QED BY <1>1, <2>2, <3>1, <5>1, FreePart DEF b
        <5>. QED BY <5>2
      <4>. QED BY <4>1, <4>2
    <3>3. /\ Free(other, Note)
          /\ Small(Note[1]) \notin ToSet(other)
          /\ Small(Note[Len(Note)]) \notin ToSet(other)
      BY <3>1, NoteDef
    <3>4. s.rebuilt = << >> \/ Small(s.rebuilt[Len(s.rebuilt)]) \notin ToSet(other)
      BY <3>3 DEF LoopInv, NoteIsLast
    <3>. HIDE DEF other, pre
    <3>5. Free(other, moved)
      BY <1>1, <2>5, <3>1, <3>2, <3>4, FreeJoined
    <3>. HIDE DEF moved
    <3>6. Free(other, moved \o Note)
      BY <2>4, <2>6, <3>1, <3>3, <3>5, FreeJoined
    <3>. QED BY <2>7, <3>6 DEF other
  <2>10. ASSUME NEW j \in DOMAIN Marker, Free(Marker[j], text)
         PROVE  Free(Marker[j], s2.rest)
    <3>1. Free(Marker[j], rest) /\ Marker[j] \in Phrase
      BY <1>1, <2>10 DEF LoopInv
    <3>2. Free(Marker[j], SubSeq(rest, a + 1, b))
      <4>. HIDE DEF rest, b
      <4>. QED BY <1>1, <2>2, <3>1, FreePart DEF b
    <3>. QED BY <2>3, <3>2
  <2>11. Len(s2.rest) <= Len(text) - (n + 1)
    <3>1. ~Free(mk, rest)
      BY <1>1, <2>1, FreeDef
    <3>2. b <= Len(text) - n
      BY <3>1 DEF LoopInv
    <3>3. Len(SubSeq(rest, a + 1, b)) = IF a + 1 <= b THEN b - a ELSE 0
      <4>. HIDE DEF rest, b
      <4>. QED BY <1>1, <2>2, SubSeqDef DEF b
    <3>. HIDE DEF b, rest
    <3>. QED BY <1>2, <2>2, <2>3, <3>2, <3>3
  <2>12. \E q \in Int : /\ Reads(mk, text, q)
                        /\ Starts(Noted(text, q), s2.rebuilt)
    <3>1. CASE s.rebuilt = << >> /\ rest = text
      <4>1. s2.rebuilt = Noted(text, pos)
        <5>1. moved = pre
          BY <2>5, <3>1
        <5>. QED BY <2>5, <2>7, <3>1, <5>1
      <4>2. Noted(text, pos) \in Seq(Even)
        BY <2>2, <3>1, NotedDef
      <4>3. Starts(Noted(text, pos), s2.rebuilt)
        BY <4>1, <4>2 DEF Starts
      <4>. QED BY <2>1, <3>1, <4>3
    <3>2. ASSUME NEW q \in Int, Reads(mk, text, q),
                 Starts(Noted(text, q), s.rebuilt)
          PROVE  Starts(Noted(text, q), s2.rebuilt)
      <4>1. q \in 1..(Len(text) + 1)
        BY <1>2, <3>2 DEF Reads
      <4>2. Noted(text, q) \in Seq(Even)
        BY <4>1, NotedDef
      <4>. HIDE DEF pre
      <4>3. Starts(Noted(text, q), moved)
        BY <1>1, <2>5, <3>2, <4>2, StartsJoined
      <4>. HIDE DEF moved
      <4>. QED BY <2>4, <2>6, <2>7, <4>2, <4>3, StartsJoined
    <3>. QED BY <3>1, <3>2 DEF LoopInv
  <2>. QED BY <1>1, <2>8, <2>9, <2>10, <2>11, <2>12 DEF LoopInv
<1>. QED BY <1>3, <1>4, <1>5

LEMMA ReplaceType ==
    ASSUME NEW X, Note \in Seq(X), NEW text \in Seq(X), NEW marker
    PROVE  replace_marker(text, marker) \in Seq(X)
<1>. DEFINE last == Turned(text, marker)[Len(text)]
<1>1. last \in States(X)
  <2>1. Len(text) \in 0..Len(text)
    OBVIOUS
  <2>2. Turned(text, marker) \in [0..Len(text) -> States(X)]
    BY TurnedDef
  <2>. QED BY <2>1, <2>2
<1>2. replace_marker(text, marker) = last.rebuilt \o last.rest
  BY DEF replace_marker
<1>. HIDE DEF last
<1>3. last.rebuilt \in Seq(X) /\ last.rest \in Seq(X)
  BY <1>1 DEF States
<1>. QED BY <1>2, <1>3, Joined

LEMMA ReplaceDef ==
    ASSUME NEW text \in Seq(Even), NEW m \in DOMAIN Marker
    PROVE  /\ replace_marker(text, Marker[m]) \in Seq(Even)
           /\ \A j \in Silenced(m, text) :
                Free(Marker[j], replace_marker(text, Marker[m]))
           /\ Free(Marker[m], Turned(text, Marker[m])[Len(text)].rest)
           /\ \/ replace_marker(text, Marker[m]) = text
              \/ \E pos \in Int :
                   /\ Reads(Marker[m], text, pos)
                   /\ Starts(Noted(text, pos), replace_marker(text, Marker[m]))
<1>. DEFINE mk == Marker[m]
            f == Turned(text, mk)
            k == Len(text)
            last == f[k]
            Held == {n \in 0..k : LoopInv(text, m, n, f[n])}
<1>1. /\ mk \in Phrase /\ \A j \in DOMAIN Marker : Marker[j] \in Phrase
      /\ k \in Nat /\ text \in Seq(Letter)
  BY MarkersArePhrases, EvenText
<1>2. /\ f[0] = [rebuilt |-> << >>, rest |-> text]
      /\ \A n \in 1..k : f[n] = Turn(f[n - 1], mk)
  BY NoteDef, TurnedDef
<1>. HIDE DEF f
<1>3. 0 \in Held
  <2>1. f[0] \in TurnState /\ f[0].rebuilt = << >> /\ f[0].rest = text
    BY <1>2 DEF TurnState, States
  <2>2. \A j \in DOMAIN Marker : Free(Marker[j], << >>)
    BY <1>1, FreeEmpty
  <2>3. Len(f[0].rest) <= Len(text) - 0
    BY <1>1, <2>1
  <2>4. LoopInv(text, m, 0, f[0])
    BY <2>1, <2>2, <2>3 DEF LoopInv, NoteIsLast, Silenced
  <2>. QED BY <1>1, <2>4
<1>4. ASSUME NEW n \in 0..(k - 1), n \in Held
      PROVE  n + 1 \in Held
  <2>1. n + 1 \in 1..k /\ (n + 1) - 1 = n /\ n + 1 \in 0..k
    BY <1>1
  <2>2. f[n + 1] = Turn(f[n], mk)
    BY <1>2, <2>1
  <2>3. LoopInv(text, m, n, f[n])
    BY <1>4
  <2>4. LoopInv(text, m, n + 1, Turn(f[n], mk))
    BY <2>3, LoopStep
  <2>. QED BY <2>1, <2>2, <2>4
<1>5. LoopInv(text, m, k, last)
  <2>1. \A n \in 0..k : n \in Held
    <3>. HIDE DEF Held, k
    <3>. QED BY <1>1, <1>3, <1>4, BoundedInduction
  <2>. QED BY <1>1, <2>1
<1>. HIDE DEF last, Held
<1>6. /\ last.rebuilt \in Seq(Even) /\ last.rest \in Seq(Even)
      /\ last.rebuilt \in Seq(Letter) /\ last.rest \in Seq(Letter)
  <2>1. last.rebuilt \in Seq(Even) /\ last.rest \in Seq(Even)
    BY <1>5 DEF LoopInv, TurnState, States
  <2>. QED BY <2>1, EvenText
<1>7. replace_marker(text, mk) = last.rebuilt \o last.rest
  BY DEF replace_marker, last, f
<1>8. Free(mk, last.rest)
  <2>1. SUFFICES ASSUME Len(last.rest) <= k - k
                 PROVE  Free(mk, last.rest)
    BY <1>5 DEF LoopInv
  <2>2. last.rest = << >>
    BY <1>1, <1>6, <2>1
  <2>. QED BY <1>1, <2>2, FreeEmpty
<1>9. ASSUME NEW j \in Silenced(m, text)
      PROVE  Free(Marker[j], last.rebuilt \o last.rest)
  <2>1. j \in DOMAIN Marker /\ Marker[j] \in Phrase
    BY <1>1 DEF Silenced
  <2>2. Free(Marker[j], last.rebuilt) /\ Free(Marker[j], last.rest)
    BY <1>5, <1>8, <2>1 DEF LoopInv, Silenced
  <2>3. \/ last.rebuilt = << >>
        \/ Small(last.rebuilt[Len(last.rebuilt)]) \notin ToSet(Marker[j])
    BY <1>5, <2>1, NoteDef DEF LoopInv, NoteIsLast
  <2>. QED BY <1>6, <2>1, <2>2, <2>3, FreeJoined
<1>11. ASSUME NEW pos \in Int, Reads(mk, text, pos),
              Starts(Noted(text, pos), last.rebuilt)
       PROVE  Starts(Noted(text, pos), last.rebuilt \o last.rest)
  <2>1. pos \in 1..(k + 1)
    <3>1. Len(mk) \in Nat \ {0}
      BY <1>1 DEF Phrase
    <3>. QED BY <1>1, <1>11, <3>1 DEF Reads
  <2>2. Noted(text, pos) \in Seq(Even)
    BY <2>1, NotedDef
  <2>. HIDE DEF last
  <2>. QED BY <1>6, <1>11, <2>2, StartsJoined
<1>12. last.rebuilt \o last.rest \in Seq(Even)
  BY <1>6, Joined
<1>13. \/ last.rebuilt \o last.rest = text
       \/ \E pos \in Int : /\ Reads(mk, text, pos)
                           /\ Starts(Noted(text, pos), last.rebuilt \o last.rest)
  <2>1. CASE last.rebuilt = << >> /\ last.rest = text
    BY <1>6, <2>1
  <2>. QED BY <1>5, <1>11, <2>1 DEF LoopInv
<1>. QED BY <1>7, <1>8, <1>9, <1>12, <1>13 DEF last, f

-----------------------------------------------------------------------------
(* neutralize_action_language *)

LEMMA NeutralizedDef ==
    ASSUME NEW X, Note \in Seq(X), NEW text \in Seq(X)
    PROVE  /\ Neutralized(text) \in [0..Len(Marker) -> Seq(X)]
           /\ Neutralized(text)[0] = text
           /\ \A m \in 1..Len(Marker) :
                Neutralized(text)[m]
                  = neutralize_marker(Neutralized(text)[m - 1], Marker[m], text)
<1>. DEFINE m == Len(Marker)
            step == [x \in Nat \X Seq(X) |->
                       neutralize_marker(x[2], Marker[x[1]], text)]
            Recurs(g) == g = [n \in 0..m |->
                                IF n = 0 THEN text
                                ELSE neutralize_marker(g[n - 1], Marker[n], text)]
            f == CHOOSE g : Recurs(g)
<1>1. m \in Nat /\ DOMAIN Marker = 1..m
  BY MarkerAssumption
<1>2. f = Neutralized(text)
  BY DEF Neutralized
<1>. HIDE DEF m
<1>3. \A i \in 1..m, s \in Seq(X) :
        /\ step[<<i, s>>] = neutralize_marker(s, Marker[i], text)
        /\ neutralize_marker(s, Marker[i], text) \in Seq(X)
  <2>1. \A i \in 1..m, s \in Seq(X) :
          step[<<i, s>>] = neutralize_marker(s, Marker[i], text)
    BY <1>1
  <2>2. ASSUME NEW i \in 1..m, NEW s \in Seq(X)
        PROVE  neutralize_marker(s, Marker[i], text) \in Seq(X)
    <3>1. replace_marker(s, Marker[i]) \in Seq(X)
      BY ReplaceType
    <3>. QED BY <3>1 DEF neutralize_marker
  <2>. QED BY <2>1, <2>2
<1>. HIDE DEF step
<1>4. PICK g : Chain(g, Seq(X), text, step, m)
  BY <1>1, <1>3, ChainExists
<1>5. Recurs(g)
  <2>1. /\ g \in [0..m -> Seq(X)] /\ g[0] = text
        /\ \A i \in 1..m : g[i] = step[<<i, g[i - 1]>>]
    BY <1>4 DEF Chain
  <2>2. \A i \in 1..m : i - 1 \in 0..m
    BY <1>1
  <2>3. \A i \in 1..m : g[i] = neutralize_marker(g[i - 1], Marker[i], text)
    BY <1>3, <2>1, <2>2
  <2>4. \A n \in 0..m : g[n] = IF n = 0 THEN text
                               ELSE neutralize_marker(g[n - 1], Marker[n], text)
    BY <1>1, <2>1, <2>3
  <2>. QED BY <2>1, <2>4
<1>6. Recurs(f)
  <2>. HIDE DEF Recurs
  <2>. QED BY <1>5
<1>. HIDE DEF f
<1>7. /\ DOMAIN f = 0..m /\ f[0] = text
      /\ \A n \in 1..m : f[n] = neutralize_marker(f[n - 1], Marker[n], text)
  <2>1. 0 \in 0..m /\ \A n \in 1..m : n \in 0..m /\ n # 0
    BY <1>1
  <2>. QED BY <1>6, <2>1
<1>8. \A n \in 0..m : f[n] \in Seq(X)
  <2>. DEFINE Typed == {n \in 0..m : f[n] \in Seq(X)}
  <2>1. 0 \in Typed
    BY <1>1, <1>7
  <2>2. ASSUME NEW n \in 0..(m - 1), n \in Typed
        PROVE  n + 1 \in Typed
    <3>1. n + 1 \in 1..m /\ (n + 1) - 1 = n /\ n + 1 \in 0..m
      BY <1>1
    <3>2. f[n + 1] = neutralize_marker(f[n], Marker[n + 1], text)
      BY <1>7, <3>1
    <3>. QED BY <1>3, <2>2, <3>1, <3>2
  <2>. HIDE DEF Typed
  <2>3. \A n \in 0..m : n \in Typed
    BY <1>1, <2>1, <2>2, BoundedInduction
  <2>. QED BY <2>3 DEF Typed
<1>9. f = [n \in 0..m |-> f[n]]
  BY <1>6
<1>10. f \in [0..m -> Seq(X)]
  BY <1>8, <1>9
<1>. QED BY <1>2, <1>7, <1>10 DEF m

\* Of any text: no other letters come in, and what holds no phrase stays as
\* it is.
LEMMA NeutralizeAny ==
    ASSUME NEW text \in Seq(Plain)
    PROVE  /\ neutralize_action_language(text) \in Seq(Plain)
           /\ (\A j \in DOMAIN Marker : OccursAt(Marker[j], lower(text)) = {})
                => neutralize_action_language(text) = text
<1>. DEFINE m == Len(Marker)
            f == Neutralized(text)
            Same == {n \in 0..m : f[n] = text}
<1>1. m \in Nat /\ DOMAIN Marker = 1..m
  BY MarkerAssumption
<1>2. /\ f \in [0..m -> Seq(Plain)] /\ f[0] = text
      /\ \A n \in 1..m : f[n] = neutralize_marker(f[n - 1], Marker[n], text)
  BY NoteDef, NeutralizedDef
<1>3. neutralize_action_language(text) = f[m]
  BY DEF neutralize_action_language
<1>. HIDE DEF f, m
<1>4. f[m] \in Seq(Plain)
  BY <1>1, <1>2
<1>5. ASSUME \A j \in DOMAIN Marker : OccursAt(Marker[j], lower(text)) = {}
      PROVE  f[m] = text
  <2>1. 0 \in Same
    BY <1>1, <1>2
  <2>2. ASSUME NEW n \in 0..(m - 1), n \in Same
        PROVE  n + 1 \in Same
    <3>1. n + 1 \in 1..m /\ (n + 1) - 1 = n /\ n + 1 \in 0..m
      BY <1>1
    <3>2. f[n + 1] = neutralize_marker(f[n], Marker[n + 1], text)
      BY <1>2, <3>1
    <3>3. f[n + 1] = f[n]
      BY <1>1, <1>5, <3>1, <3>2 DEF neutralize_marker
    <3>. QED BY <2>2, <3>1, <3>3
  <2>. HIDE DEF Same
  <2>3. \A n \in 0..m : n \in Same
    BY <1>1, <2>1, <2>2, BoundedInduction
  <2>4. m \in Same
    BY <1>1, <2>3
  <2>. QED BY <2>4 DEF Same
<1>. QED BY <1>3, <1>4, <1>5

\* Behind a note, a phrase is read before it or after it: it holds no part of
\* the note.
LEMMA ApartFromNote ==
    ASSUME NEW text \in Seq(Even), NEW q \in 1..(Len(text) + 1),
           NEW r \in Seq(Even), Starts(Noted(text, q), r),
           NEW m \in DOMAIN Marker, NEW pos \in Int, Reads(Marker[m], r, pos)
    PROVE  pos + Len(Marker[m]) <= q \/ pos >= q + Len(Note)
<1>. DEFINE mk == Marker[m]
            l == Len(mk)
            c == Len(Note)
            N == Noted(text, q)
<1>1. /\ mk \in Phrase /\ l \in Nat \ {0} /\ c \in Nat \ {0}
      /\ Len(r) \in Nat /\ q \in Nat \ {0} /\ Note \in Seq(Letter)
  BY MarkersArePhrases, NoteDef
<1>2. \A i \in 1..c : r[q - 1 + i] = Note[i]
  <2>1. /\ Len(N) = q - 1 + c
        /\ \A i \in 1..c : N[q - 1 + i] = Note[i]
    BY NotedDef
  <2>2. \A i \in 1..Len(N) : r[i] = N[i]
    BY DEF Starts
  <2>3. \A i \in 1..c : q - 1 + i \in 1..(q - 1 + c)
    BY <1>1
  <2>. HIDE DEF N, c
  <2>. QED BY <2>1, <2>2, <2>3
<1>3. \A k \in 1..l : Small(r[pos + k - 1]) = mk[k] /\ mk[k] \in ToSet(mk)
  <2>1. \A k \in 1..l : Small(r[pos + k - 1]) = mk[k]
    BY DEF Reads
  <2>2. DOMAIN mk = 1..l
    BY <1>1 DEF Phrase
  <2>. HIDE DEF mk, l
  <2>. QED BY <2>1, <2>2 DEF ToSet
<1>4. /\ \A i \in Int : ~Reads(mk, Note, i)
      /\ Small(Note[1]) \notin ToSet(mk)
      /\ Small(Note[c]) \notin ToSet(mk)
  <2>1. Free(mk, Note)
    BY NoteDef
  <2>. QED BY <1>1, <2>1, NoteDef, FreeDef
<1>. HIDE DEF mk, l, c
<1>5. SUFFICES ASSUME pos + l > q, pos < q + c
               PROVE  FALSE
  BY <1>1 DEF mk, l, c
<1>6. CASE pos <= q
  <2>1. q - pos + 1 \in 1..l /\ pos + (q - pos + 1) - 1 = q - 1 + 1 /\ 1 \in 1..c
    BY <1>1, <1>5, <1>6
  <2>2. r[pos + (q - pos + 1) - 1] = Note[1]
    BY <1>2, <2>1
  <2>. QED BY <1>3, <1>4, <2>1, <2>2
<1>7. CASE pos > q /\ pos + l >= q + c
  <2>. DEFINE k == q + c - pos
  <2>1. k \in 1..l /\ pos + k - 1 = q - 1 + c /\ c \in 1..c
    BY <1>1, <1>5, <1>7
  <2>2. r[pos + k - 1] = Note[c]
    BY <1>2, <2>1
  <2>. QED BY <1>3, <1>4, <2>1, <2>2
<1>8. CASE pos > q /\ pos + l < q + c
  <2>. DEFINE i == pos - q + 1
  <2>1. i \in 1..(c - l + 1) /\ i \in Int
    BY <1>1, <1>8
  <2>2. \A k \in 1..l : i + k - 1 \in 1..c /\ q - 1 + (i + k - 1) = pos + k - 1
    BY <1>1, <1>8
  <2>. HIDE DEF i
  <2>3. \A k \in 1..l : Small(Note[i + k - 1]) = mk[k]
    BY <1>2, <1>3, <2>2
  <2>4. Reads(mk, Note, i)
    BY <2>1, <2>3 DEF Reads, c, l
  <2>. QED BY <1>4, <2>1, <2>4
<1>. QED BY <1>1, <1>6, <1>7, <1>8

\* result begins like text up to a phrase, with the note in its place.
BeginsLike(text, result) ==
    \/ result = text
    \/ \E j \in DOMAIN Marker, q \in Int :
         Reads(Marker[j], text, q) /\ Starts(Noted(text, q), result)

LEMMA BeginsLikeStep ==
    ASSUME NEW text \in Seq(Even), NEW r \in Seq(Even), BeginsLike(text, r),
           NEW m \in DOMAIN Marker
    PROVE  BeginsLike(text, replace_marker(r, Marker[m]))
<1>. DEFINE mk == Marker[m]
            R == replace_marker(r, mk)
<1>1. R = r \/ \E pos \in Int : Reads(mk, r, pos) /\ Starts(Noted(r, pos), R)
  BY ReplaceDef
<1>2. /\ mk \in Phrase /\ Len(mk) \in Nat \ {0}
      /\ Len(Note) \in Nat \ {0}
      /\ \A j \in DOMAIN Marker : Len(Marker[j]) \in Nat \ {0}
  BY MarkersArePhrases, NoteDef
<1>. HIDE DEF R
<1>3. SUFFICES ASSUME NEW pos \in Int, Reads(mk, r, pos), Starts(Noted(r, pos), R),
                      r # text
               PROVE  BeginsLike(text, R)
  BY <1>1 DEF BeginsLike, R
<1>4. PICK j \in DOMAIN Marker, q \in Int :
        Reads(Marker[j], text, q) /\ Starts(Noted(text, q), r)
  BY <1>3 DEF BeginsLike
<1>5. q \in 1..(Len(text) + 1) /\ q - 1 <= Len(text)
  BY <1>2, <1>4 DEF Reads
<1>6. pos \in 1..(Len(r) + 1) /\ pos \in 1..(Len(r) - Len(mk) + 1)
  BY <1>2, <1>3 DEF Reads
<1>7. /\ Len(Noted(text, q)) = q - 1 + Len(Note)
      /\ \A i \in 1..(q - 1) : Noted(text, q)[i] = text[i]
  BY <1>5, NotedDef
<1>8. /\ Len(Noted(r, pos)) = pos - 1 + Len(Note)
      /\ \A i \in 1..(pos - 1) : Noted(r, pos)[i] = r[i]
      /\ \A i \in 1..Len(Note) : Noted(r, pos)[pos - 1 + i] = Note[i]
  BY <1>6, NotedDef
<1>9. /\ q - 1 + Len(Note) <= Len(r)
      /\ \A i \in 1..(q - 1 + Len(Note)) : r[i] = Noted(text, q)[i]
  BY <1>4, <1>7 DEF Starts
<1>10. /\ pos - 1 + Len(Note) <= Len(R)
       /\ \A i \in 1..(pos - 1 + Len(Note)) : R[i] = Noted(r, pos)[i]
  BY <1>3, <1>8 DEF Starts
<1>. DEFINE l == Len(mk)
            c == Len(Note)
<1>11. pos + l <= q \/ pos >= q + c
  BY <1>3, <1>4, <1>5, ApartFromNote
<1>. HIDE DEF mk, l, c
<1>12. CASE pos + l <= q
  <2>1. \A k \in 1..l : pos + k - 1 \in 1..(q - 1) /\ pos + k - 1 \in 1..(q - 1 + c)
    BY <1>2, <1>5, <1>6, <1>12 DEF l, c
  <2>2. \A k \in 1..l : r[pos + k - 1] = text[pos + k - 1]
    BY <1>7, <1>9, <2>1 DEF c
  <2>3. \A k \in 1..l : Small(r[pos + k - 1]) = mk[k]
    BY <1>3 DEF Reads, l
  <2>4. pos \in 1..(Len(text) - l + 1)
    BY <1>2, <1>5, <1>6, <1>12 DEF l
  <2>5. Reads(mk, text, pos)
    BY <2>2, <2>3, <2>4 DEF Reads, l
  <2>6. pos \in 1..(Len(text) + 1)
    BY <1>2, <2>4 DEF l
  <2>7. /\ Len(Noted(text, pos)) = pos - 1 + Len(Note)
        /\ \A i \in 1..(pos - 1) : Noted(text, pos)[i] = text[i]
        /\ \A i \in 1..Len(Note) : Noted(text, pos)[pos - 1 + i] = Note[i]
    BY <2>6, NotedDef
  <2>8. ASSUME NEW i \in 1..(pos - 1 + c)
        PROVE  Noted(text, pos)[i] = Noted(r, pos)[i]
    <3>1. CASE i <= pos - 1
      <4>1. /\ i \in 1..(pos - 1) /\ i \in 1..(q - 1)
            /\ i \in 1..(q - 1 + c)
        BY <1>2, <1>5, <1>6, <1>12, <3>1 DEF l, c
      <4>. QED BY <1>7, <1>8, <1>9, <2>7, <4>1 DEF c
    <3>2. CASE i > pos - 1
      <4>. DEFINE k == i - (pos - 1)
      <4>1. k \in 1..c /\ pos - 1 + k = i
        BY <1>2, <1>6, <3>2 DEF c
      <4>. QED BY <1>8, <2>7, <4>1 DEF c
    <3>. QED BY <1>6, <3>1, <3>2
  <2>9. Starts(Noted(text, pos), R)
    BY <1>10, <2>7, <2>8 DEF Starts, c
  <2>. QED BY <2>5, <2>9 DEF BeginsLike, mk
<1>13. CASE pos >= q + c
  <2>1. \A i \in 1..(q - 1 + c) : i \in 1..(pos - 1) /\ i \in 1..(pos - 1 + c)
    BY <1>2, <1>5, <1>6, <1>13 DEF c
  <2>2. \A i \in 1..(q - 1 + c) : R[i] = Noted(text, q)[i]
    BY <1>8, <1>9, <1>10, <2>1 DEF c
  <2>3. R \in Seq(Even) /\ q - 1 + c <= Len(R)
    <3>1. R \in Seq(Even)
      BY ReplaceDef DEF R, mk
    <3>2. Len(R) \in Nat
      BY <3>1
    <3>. QED BY <1>2, <1>5, <1>6, <1>10, <1>13, <3>1, <3>2 DEF c
  <2>4. Starts(Noted(text, q), R)
    BY <1>7, <2>2, <2>3 DEF Starts, c
  <2>. QED BY <1>4, <2>4 DEF BeginsLike
<1>. QED BY <1>11, <1>12, <1>13 DEF l, c

LEMMA NeutralizeDef ==
    ASSUME NEW text \in Seq(Even)
    PROVE  /\ neutralize_action_language(text) \in Seq(Even)
           /\ \A j \in DOMAIN Marker :
                Free(Marker[j], neutralize_action_language(text))
           /\ BeginsLike(text, neutralize_action_language(text))
           /\ ~panics(text)
<1>. DEFINE m == Len(Marker)
            f == Neutralized(text)
            Clear(n) == \A j \in DOMAIN Marker :
                          j <= n \/ Free(Marker[j], text) => Free(Marker[j], f[n])
            Held == {n \in 0..m : f[n] \in Seq(Even) /\ Clear(n)
                                  /\ BeginsLike(text, f[n])}
<1>1. m \in Nat /\ DOMAIN Marker = 1..m
  BY MarkerAssumption
<1>2. /\ f \in [0..m -> Seq(Even)] /\ f[0] = text
      /\ \A n \in 1..m : f[n] = neutralize_marker(f[n - 1], Marker[n], text)
  BY NoteDef, NeutralizedDef
<1>l. lower(text) = Low(text)
  BY EvenLower
<1>. HIDE DEF f, m
<1>3. 0 \in Held
  <2>1. \A j \in DOMAIN Marker : ~(j <= 0)
    BY <1>1
  <2>2. Clear(0)
    BY <1>2, <2>1
  <2>. QED BY <1>1, <1>2, <2>2 DEF BeginsLike
<1>4. ASSUME NEW n \in 0..(m - 1), n \in Held
      PROVE  n + 1 \in Held
  <2>. DEFINE r == f[n]
              mk == Marker[n + 1]
  <2>1. n + 1 \in 1..m /\ (n + 1) - 1 = n /\ n + 1 \in 0..m
        /\ n + 1 \in DOMAIN Marker
    BY <1>1
  <2>2. r \in Seq(Even) /\ Clear(n) /\ BeginsLike(text, r)
    BY <1>4
  <2>3. f[n + 1] = neutralize_marker(r, mk, text)
    BY <1>2, <2>1
  <2>4. \A j \in DOMAIN Marker : j <= n + 1 => j <= n \/ j = n + 1
    BY <1>1, <2>1
  <2>5. CASE Free(mk, text)
    <3>1. f[n + 1] = r
      BY <1>l, <2>3, <2>5 DEF neutralize_marker, Free
    <3>2. Clear(n + 1)
      BY <2>2, <2>4, <2>5, <3>1
    <3>. QED BY <2>1, <2>2, <3>1, <3>2
  <2>6. CASE ~Free(mk, text)
    <3>1. f[n + 1] = replace_marker(r, mk)
      BY <1>l, <2>3, <2>6 DEF neutralize_marker, Free
    <3>. HIDE DEF r
    <3>2. /\ f[n + 1] \in Seq(Even)
          /\ \A j \in Silenced(n + 1, r) : Free(Marker[j], f[n + 1])
      BY <2>1, <2>2, <3>1, ReplaceDef
    <3>3. Clear(n + 1)
      BY <2>2, <2>4, <3>2 DEF Silenced, r
    <3>4. BeginsLike(text, f[n + 1])
      BY <2>1, <2>2, <3>1, BeginsLikeStep
    <3>. QED BY <2>1, <3>2, <3>3, <3>4
  <2>. QED BY <2>5, <2>6
<1>5. m \in Held
  <2>. HIDE DEF Held
  <2>1. \A n \in 0..m : n \in Held
    BY <1>1, <1>3, <1>4, BoundedInduction
  <2>. QED BY <1>1, <2>1
<1>6. neutralize_action_language(text) = f[m]
  BY DEF neutralize_action_language, f, m
<1>7. \A j \in DOMAIN Marker : j <= m
  BY <1>1
<1>8. ASSUME NEW n \in DOMAIN Marker
      PROVE  LET last == Turned(f[n - 1], Marker[n])[Len(f[n - 1])]
             IN  OccursAt(Marker[n], lower(last.rest)) = {}
  <2>. DEFINE r == f[n - 1]
              last == Turned(r, Marker[n])[Len(r)]
  <2>1. n - 1 \in 0..m
    BY <1>1
  <2>2. r \in Seq(Even)
    BY <1>2, <2>1
  <2>. HIDE DEF r
  <2>3. Free(Marker[n], last.rest)
    BY <2>2, ReplaceDef
  <2>4. last \in States(Even)
    <3>1. Len(r) \in 0..Len(r)
      BY <2>2
    <3>2. Turned(r, Marker[n]) \in [0..Len(r) -> States(Even)]
      BY <2>2, NoteDef, TurnedDef
    <3>. QED BY <3>1, <3>2
  <2>. HIDE DEF last
  <2>5. last.rest \in Seq(Even)
    BY <2>4 DEF States
  <2>6. lower(last.rest) = Low(last.rest)
    BY <2>5, EvenLower
  <2>7. OccursAt(Marker[n], lower(last.rest)) = {}
    BY <2>3, <2>6 DEF Free
  <2>. QED BY <2>7 DEF last, r
<1>9. ~panics(text)
  BY <1>8 DEF panics, f
<1>. QED BY <1>5, <1>6, <1>7, <1>9

-----------------------------------------------------------------------------
(* clean_field, and the two theorems *)

LEMMA TruncateDef ==
    ASSUME NEW X, NEW text \in Seq(X)
    PROVE  /\ Truncate(text) \in Seq(X)
           /\ Truncate(text) = SubSeq(text, 0 + 1, Len(Truncate(text)))
           /\ Len(Truncate(text)) \in 0..Len(text)
           /\ Len(Truncate(text)) <= MAX_FIELD_LEN
           /\ Len(Truncate(text)) = Len(text) \/ Len(Truncate(text)) = MAX_FIELD_LEN
           /\ \A i \in 1..Len(Truncate(text)) : Truncate(text)[i] = text[i]
<1>. DEFINE k == Min({Len(text), MAX_FIELD_LEN})
<1>1. Len(text) \in Nat /\ MAX_FIELD_LEN \in Nat
  BY CapAssumption
<1>2. /\ k = Len(text) \/ k = MAX_FIELD_LEN
      /\ k <= Len(text) /\ k <= MAX_FIELD_LEN
  BY <1>1, MinOfTwo
<1>3. Truncate(text) = SubSeq(text, 1, k)
  BY DEF Truncate
<1>. HIDE DEF k
<1>4. k \in 0..Len(text) /\ 0 \in Nat /\ 0 + 1 = 1 /\ k - 0 = k
      /\ (0 + 1 <= k \/ k = 0)
  BY <1>1, <1>2
<1>5. /\ SubSeq(text, 0 + 1, k) \in Seq(X)
      /\ Len(SubSeq(text, 0 + 1, k)) = (IF 0 + 1 <= k THEN k - 0 ELSE 0)
      /\ \A i \in 1..(k - 0) : SubSeq(text, 0 + 1, k)[i] = text[i + 0]
  BY <1>4, SubSeqDef
<1>6. /\ Truncate(text) \in Seq(X) /\ Len(Truncate(text)) = k
      /\ \A i \in 1..k : Truncate(text)[i] = text[i]
  BY <1>3, <1>4, <1>5
<1>. QED BY <1>2, <1>3, <1>4, <1>6

\* What is left of a field of an answer.
LEMMA CleanFieldDef ==
    ASSUME NEW input \in Seq(Letter)
    PROVE  /\ clean_field(input)
                = Truncate(neutralize_action_language(Outside(input)))
           /\ Len(clean_field(input)) <= MAX_FIELD_LEN
           /\ {LT, GT} \cap ToSet(clean_field(input)) = {}
           /\ Steady(Outside(input)) =>
                /\ \A j \in DOMAIN Marker :
                     OccursAt(Marker[j], lower(clean_field(input))) = {}
                /\ ~panics(strip_markup(input))
<1>. DEFINE said == Outside(input)
            R == neutralize_action_language(said)
            T == Truncate(R)
<1>1. strip_markup(input) = said /\ said \in Seq(Plain)
  BY StripIsOutside
<1>2. clean_field(input) = T
  BY <1>1 DEF clean_field
<1>. HIDE DEF said
<1>3. R \in Seq(Plain)
  BY <1>1, NeutralizeAny
<1>4. T \in Seq(Plain) /\ Len(T) <= MAX_FIELD_LEN
  <2>. HIDE DEF R
  <2>. QED BY <1>3, TruncateDef
<1>5. {LT, GT} \cap ToSet(T) = {}
  <2>. HIDE DEF T
  <2>1. \A i \in DOMAIN T : T[i] \in Plain
    BY <1>4
  <2>. QED BY <2>1 DEF ToSet, Plain
<1>6. ASSUME Steady(said)
      PROVE  /\ \A j \in DOMAIN Marker : OccursAt(Marker[j], lower(T)) = {}
             /\ ~panics(said)
  <2>1. said \in Seq(Even)
    BY <1>1, <1>6, EvenIsSteady
  <2>2. /\ R \in Seq(Even) /\ \A j \in DOMAIN Marker : Free(Marker[j], R)
        /\ ~panics(said)
    BY <2>1, NeutralizeDef
  <2>. HIDE DEF R
  <2>3. /\ T \in Seq(Even) /\ T = SubSeq(R, 0 + 1, Len(T))
        /\ Len(T) \in 0..Len(R)
    BY <2>2, TruncateDef
  <2>. HIDE DEF T
  <2>4. lower(T) = Low(T)
    BY <2>3, EvenLower
  <2>5. ASSUME NEW j \in DOMAIN Marker
        PROVE  Free(Marker[j], T)
    <3>1. Marker[j] \in Phrase /\ 0 \in Nat /\ R \in Seq(Letter)
      BY <2>2, EvenText, MarkersArePhrases
    <3>2. Free(Marker[j], SubSeq(R, 0 + 1, Len(T)))
      BY <2>2, <2>3, <3>1, FreePart
    <3>. QED BY <2>3, <3>2
  <2>. QED BY <2>2, <2>4, <2>5 DEF Free
<1>. QED BY <1>1, <1>2, <1>4, <1>5, <1>6 DEF T, R, said

LEMMA PrefixOfCut ==
    ASSUME NEW X, NEW s \in Seq(X), NEW text \in Seq(X), Starts(s, text)
    PROVE  IsPrefix(Truncate(s), Truncate(text))
<1>. DEFINE a == Truncate(s)
            b == Truncate(text)
<1>1. /\ a \in Seq(X) /\ Len(a) \in 0..Len(s) /\ Len(a) <= MAX_FIELD_LEN
      /\ \A i \in 1..Len(a) : a[i] = s[i]
  BY TruncateDef
<1>2. /\ b \in Seq(X) /\ Len(b) \in 0..Len(text)
      /\ Len(b) = Len(text) \/ Len(b) = MAX_FIELD_LEN
      /\ \A i \in 1..Len(b) : b[i] = text[i]
  BY TruncateDef
<1>. HIDE DEF a, b
<1>3. Len(s) <= Len(text) /\ \A i \in 1..Len(s) : text[i] = s[i]
  BY DEF Starts
<1>4. Len(a) \in 0..Len(b) /\ Len(s) \in Nat /\ Len(text) \in Nat
      /\ MAX_FIELD_LEN \in Nat
  BY <1>1, <1>2, <1>3, CapAssumption
<1>5. \A i \in 1..Len(a) : a[i] = b[i]
  <2>1. \A i \in 1..Len(a) : i \in 1..Len(s) /\ i \in 1..Len(b)
    BY <1>1, <1>4
  <2>. QED BY <1>1, <1>2, <1>3, <2>1
<1>6. SubSeq(b, 1, Len(a)) = a
  <2>. DEFINE k == Len(a)
              part == SubSeq(b, 1, k)
  <2>1. 0 \in Nat /\ k \in 0..Len(b) /\ 0 + 1 = 1 /\ k - 0 = k
        /\ (0 + 1 <= k \/ k = 0)
    BY <1>4
  <2>. HIDE DEF k
  <2>2. /\ SubSeq(b, 0 + 1, k) \in Seq(X)
        /\ Len(SubSeq(b, 0 + 1, k)) = (IF 0 + 1 <= k THEN k - 0 ELSE 0)
        /\ \A i \in 1..(k - 0) : SubSeq(b, 0 + 1, k)[i] = b[i + 0]
    BY <1>2, <2>1, SubSeqDef
  <2>3. /\ part \in Seq(X) /\ Len(part) = k
        /\ \A i \in 1..k : part[i] = b[i]
    BY <2>1, <2>2
  <2>. HIDE DEF part
  <2>4. \A i \in 1..k : part[i] = a[i]
    BY <1>5, <2>3 DEF k
  <2>5. part = [i \in 1..k |-> part[i]] /\ a = [i \in 1..k |-> a[i]]
    BY <1>1, <2>3 DEF k
  <2>6. part = a
    BY <2>4, <2>5
  <2>. QED BY <2>6 DEF part, k
<1>7. SubSeq(a, 1, Len(a)) = a
  BY <1>1
<1>8. Len(a) <= Len(b)
  BY <1>4
<1>. QED BY <1>6, <1>7, <1>8 DEF IsPrefix, a, b

\* The text fields, the lists and the confidence of a sanitised answer.
LEMMA OutputIsClean ==
    ASSUME NEW output \in Output
    PROVE  LET rec == sanitize_recommendation(FromModel(output))
           IN  /\ rec.confidence \in 0..100
               /\ Len(rec.signals) <= MAX_LIST_ITEMS
               /\ \A text \in Texts(rec) : \E input \in Seq(Letter) :
                    text = clean_field(input)
               /\ rec.summary = clean_field(output.summary)
               /\ \A i \in DOMAIN rec.signals :
                    /\ output.signals[i] \in Seq(Letter)
                    /\ rec.signals[i] = clean_field(output.signals[i])
<1>. DEFINE rec == sanitize_recommendation(FromModel(output))
            signals == output.signals
            k == Min({Len(signals), MAX_LIST_ITEMS})
<1>1. /\ output.summary \in Seq(Letter) /\ signals \in Seq(Seq(Letter))
      /\ output.confidence \in Int
  BY DEF Output
<1>2. FromModel(output)
        = Recommendation(output.summary, signals, output.confidence, TRUE)
  BY DEF FromModel, Recommendation
<1>3. /\ rec.summary = clean_field(output.summary)
      /\ rec.signals = [i \in 1..k |-> clean_field(signals[i])]
      /\ rec.confidence
           = IF output.confidence < 0 THEN 0
             ELSE IF output.confidence > 100 THEN 100 ELSE output.confidence
  <2>. DEFINE told == output.summary
              sure == output.confidence
              said == sanitize_recommendation(
                        Recommendation(told, signals, sure, TRUE))
  <2>1. rec = said
    BY <1>2
  <2>. HIDE DEF rec, told, sure, signals
  <2>2. /\ said.summary = clean_field(told)
        /\ said.signals = [i \in 1..Min({Len(signals), MAX_LIST_ITEMS}) |->
                             clean_field(signals[i])]
        /\ said.confidence
             = IF sure < 0 THEN 0 ELSE IF sure > 100 THEN 100 ELSE sure
    BY DEF sanitize_recommendation, Recommendation
  <2>. HIDE DEF said
  <2>. QED BY <2>1, <2>2 DEF told, sure
<1>4. k \in 0..Len(signals) /\ k \in Nat /\ k <= MAX_LIST_ITEMS
  <2>1. Len(signals) \in Nat /\ MAX_LIST_ITEMS \in Nat
    BY <1>1, CapAssumption
  <2>2. /\ k = Len(signals) \/ k = MAX_LIST_ITEMS
        /\ k <= Len(signals) /\ k <= MAX_LIST_ITEMS
    BY <2>1, MinOfTwo
  <2>. QED BY <2>1, <2>2
<1>. HIDE DEF rec, k
<1>5. rec.confidence \in 0..100
  <2>. DEFINE told == output.confidence
  <2>1. told \in Int
    BY <1>1
  <2>2. rec.confidence = IF told < 0 THEN 0 ELSE IF told > 100 THEN 100 ELSE told
    BY <1>3
  <2>. HIDE DEF told
  <2>. QED BY <2>1, <2>2
<1>6. Len(rec.signals) = k /\ DOMAIN rec.signals = 1..k
  <2>. DEFINE cleaned(i) == clean_field(signals[i])
  <2>1. rec.signals = [i \in 1..k |-> cleaned(i)]
    BY <1>3
  <2>. HIDE DEF cleaned
  <2>. QED BY <1>4, <2>1
<1>7. ASSUME NEW text \in Texts(rec)
      PROVE  \E input \in Seq(Letter) : text = clean_field(input)
  <2>1. CASE text = rec.summary
    BY <1>1, <1>3, <2>1
  <2>2. CASE text \in ToSet(rec.signals)
    <3>1. PICK i \in 1..k : text = rec.signals[i]
      BY <1>6, <2>2 DEF ToSet
    <3>2. text = clean_field(signals[i])
      BY <1>3, <3>1
    <3>3. i \in 1..Len(signals)
      BY <1>1, <1>4
    <3>. QED BY <1>1, <3>2, <3>3
  <2>. QED BY <1>7, <2>1, <2>2 DEF Texts
<1>8. Len(rec.signals) <= MAX_LIST_ITEMS
  BY <1>4, <1>6
<1>9. ASSUME NEW i \in DOMAIN rec.signals
      PROVE  signals[i] \in Seq(Letter) /\ rec.signals[i] = clean_field(signals[i])
  <2>1. i \in 1..k /\ i \in 1..Len(signals)
    BY <1>1, <1>4, <1>6
  <2>. QED BY <1>1, <1>3, <2>1
<1>. QED BY <1>3, <1>5, <1>7, <1>8, <1>9 DEF rec

\* Which answer a call can hold.
LEMMA AnswerOfModel ==
    ASSUME CallType, NEW c \in Call, At(c, "answered"),
           call[c].rec.model_available \/ call[c].said # << >>
    PROVE  \E output \in Output :
             /\ call[c].said = <<output>>
             /\ call[c].rec = sanitize_recommendation(FromModel(output))
<1>1. call[c] \in Stages
  BY DEF CallType
<1>2. call[c] \in FallbackAnswers \cup ModelAnswers
  <2>1. call[c].pc = "answered"
    BY DEF At
  <2>. QED BY <1>1, <2>1, PanickedIsLost DEF Stages, Calling, Counting
<1>. QED BY <1>2, AnswersAvailable

\* The sanitiser is given texts.
LEMMA GivenTexts ==
    ASSUME NEW rec \in Given
    PROVE  Cleaned(rec) \subseteq Seq(Letter)
<1>1. rec.summary \in Seq(Letter) /\ rec.signals \in Seq(Seq(Letter))
  <2>1. CASE rec = FallbackRecommendation
    BY <2>1, TextAssumption DEF FallbackRecommendation
  <2>2. ASSUME NEW output \in Output, rec = FromModel(output)
        PROVE  rec.summary \in Seq(Letter) /\ rec.signals \in Seq(Seq(Letter))
    BY <2>2 DEF FromModel, Output
  <2>. QED BY <2>1, <2>2 DEF Given
<1>. DEFINE signals == rec.signals
            k == Min({Len(signals), MAX_LIST_ITEMS})
<1>2. \A i \in 1..k : signals[i] \in Seq(Letter)
  <2>1. Len(signals) \in Nat /\ MAX_LIST_ITEMS \in Nat
    BY <1>1, CapAssumption
  <2>2. k <= Len(signals) /\ k \in Nat
    BY <2>1, MinOfTwo
  <2>. HIDE DEF k
  <2>3. \A i \in 1..k : i \in 1..Len(signals)
    BY <2>1, <2>2
  <2>. QED BY <1>1, <2>3
<1>3. Cleaned(rec) = {rec.summary} \cup {signals[i] : i \in 1..k}
  BY DEF Cleaned
<1>. HIDE DEF signals, k
<1>. QED BY <1>1, <1>2, <1>3

\* Whatever the model says, what is shown of it holds no bracket, is no longer
\* than the caps, and gives a confidence that is one; and it holds no phrase
\* in any case, not one that taking out a tag or another phrase has put
\* together, where the model said it in letters that keep their width in
\* lower case (sanitize_recommendation).
THEOREM AdviceReachesReaderClean == Spec => []AdviceIsClean
<1>1. AdvisorInv => AdviceIsClean
  <2>. SUFFICES ASSUME AdvisorInv, NEW c \in Call,
                       At(c, "answered") /\ call[c].rec.model_available
                PROVE  LET rec == call[c].rec
                           said == call[c].said[1]
                       IN  /\ rec.confidence \in 0..100
                           /\ Len(rec.signals) <= MAX_LIST_ITEMS
                           /\ \A text \in Texts(rec) :
                                /\ Len(text) <= MAX_FIELD_LEN
                                /\ {LT, GT} \cap ToSet(text) = {}
                           /\ Neutral(rec.summary, said.summary)
                           /\ \A i \in DOMAIN rec.signals :
                                Neutral(rec.signals[i], said.signals[i])
    BY DEF AdviceIsClean
  <2>1. PICK output \in Output :
          /\ call[c].said = <<output>>
          /\ call[c].rec = sanitize_recommendation(FromModel(output))
    BY AnswerOfModel DEF AdvisorInv
  <2>. DEFINE rec == call[c].rec
              said == call[c].said[1]
  <2>2. said = output /\ output.summary \in Seq(Letter)
    BY <2>1 DEF Output
  <2>3. /\ rec.confidence \in 0..100
        /\ Len(rec.signals) <= MAX_LIST_ITEMS
        /\ \A text \in Texts(rec) : \E input \in Seq(Letter) :
             text = clean_field(input)
        /\ rec.summary = clean_field(output.summary)
        /\ \A i \in DOMAIN rec.signals :
             /\ output.signals[i] \in Seq(Letter)
             /\ rec.signals[i] = clean_field(output.signals[i])
    BY <2>1, OutputIsClean
  <2>. HIDE DEF rec, said
  <2>4. ASSUME NEW input \in Seq(Letter)
        PROVE  Neutral(clean_field(input), input)
    BY CleanFieldDef DEF Neutral
  <2>5. ASSUME NEW text \in Texts(rec)
        PROVE  Len(text) <= MAX_FIELD_LEN /\ {LT, GT} \cap ToSet(text) = {}
    <3>1. PICK input \in Seq(Letter) : text = clean_field(input)
      BY <2>3
    <3>. QED BY <3>1, CleanFieldDef
  <2>. QED BY <2>2, <2>3, <2>4, <2>5 DEF rec, said
<1>. QED BY <1>1, AdvisorInvariant, PTL

\* A field in which no phrase is found loses nothing but tags and what exceeds
\* the cap; of one in letters that keep their width in lower case, the first
\* thing missing is a phrase, and the note stands where it began; and it is
\* only for other letters that the sanitiser can panic
\* (neutralize_action_language).
THEOREM NothingElseIsTaken == Spec => []NothingElseRemoved
<1>1. ASSUME NEW output \in Output
      PROVE  LET said == Outside(output.summary)
                 rec == sanitize_recommendation(FromModel(output))
                 phrases == UNION {OccursAt(Marker[m], lower(said)) :
                                     m \in DOMAIN Marker}
             IN  IF phrases = {} THEN rec.summary = Truncate(said)
                 ELSE Steady(said) =>
                        \E pos \in phrases :
                          IsPrefix(Truncate(SubSeq(said, 1, pos - 1) \o Note),
                                   rec.summary)
  <2>. DEFINE said == Outside(output.summary)
              rec == sanitize_recommendation(FromModel(output))
              phrases == UNION {OccursAt(Marker[m], lower(said)) :
                                  m \in DOMAIN Marker}
              R == neutralize_action_language(said)
  <2>1. output.summary \in Seq(Letter)
    BY DEF Output
  <2>2. said \in Seq(Plain)
    BY <2>1, StripIsOutside
  <2>3. rec.summary = Truncate(R)
    BY <2>1, OutputIsClean, CleanFieldDef
  <2>. HIDE DEF said, rec
  <2>4. CASE phrases = {}
    <3>1. \A j \in DOMAIN Marker : OccursAt(Marker[j], lower(said)) = {}
      BY <2>4
    <3>2. R = said
      BY <2>2, <3>1, NeutralizeAny
    <3>. QED BY <2>3, <2>4, <3>2 DEF said, rec
  <2>5. ASSUME phrases # {}, Steady(said)
        PROVE  \E pos \in phrases :
                 IsPrefix(Truncate(SubSeq(said, 1, pos - 1) \o Note), rec.summary)
    <3>1. said \in Seq(Even) /\ said \in Seq(Letter)
      BY <2>2, <2>5, EvenIsSteady, EvenText
    <3>2. /\ R \in Seq(Even) /\ BeginsLike(said, R)
          /\ \A j \in DOMAIN Marker : Free(Marker[j], R)
      BY <3>1, NeutralizeDef
    <3>3. lower(said) = Low(said)
      BY <3>1, EvenLower
    <3>4. ASSUME NEW j \in DOMAIN Marker, NEW q \in Int, Reads(Marker[j], said, q)
          PROVE  q \in phrases /\ q \in 1..(Len(said) + 1)
      <4>1. Marker[j] \in Phrase /\ Len(Marker[j]) \in Nat \ {0}
        BY MarkersArePhrases
      <4>2. q \in OccursAt(Marker[j], lower(said))
        BY <3>1, <3>3, <3>4, <4>1, OccursDef DEF Reads
      <4>. QED BY <3>1, <3>4, <4>1, <4>2 DEF Reads
    <3>5. ASSUME NEW pos \in phrases
          PROVE  \E j \in DOMAIN Marker : Reads(Marker[j], said, pos)
      <4>1. PICK j \in DOMAIN Marker : pos \in OccursAt(Marker[j], lower(said))
        OBVIOUS
      <4>. QED BY <3>1, <3>3, <4>1, MarkersArePhrases, OccursDef
    <3>6. R = said \/ \E pos \in phrases :
            pos \in 1..(Len(said) + 1) /\ Starts(Noted(said, pos), R)
      BY <3>2, <3>4 DEF BeginsLike
    <3>7. R # said
      <4>1. PICK pos \in phrases : TRUE
        BY <2>5
      <4>2. PICK j \in DOMAIN Marker : Reads(Marker[j], said, pos)
        BY <3>5
      <4>3. ~Free(Marker[j], said)
        <5>1. pos \in Int
          BY <3>1, <4>2, MarkersArePhrases DEF Reads
        <5>. QED BY <3>1, <4>2, <5>1, MarkersArePhrases, FreeDef
      <4>. QED BY <3>2, <4>3
    <3>. HIDE DEF R, phrases
    <3>8. PICK pos \in phrases :
            pos \in 1..(Len(said) + 1) /\ Starts(Noted(said, pos), R)
      BY <3>6, <3>7
    <3>9. Noted(said, pos) \in Seq(Even)
      BY <3>1, <3>8, NotedDef
    <3>10. IsPrefix(Truncate(Noted(said, pos)), Truncate(R))
      BY <3>2, <3>8, <3>9, PrefixOfCut
    <3>. QED BY <2>3, <3>10 DEF Noted
  <2>6. CASE phrases # {}
    BY <2>5, <2>6 DEF said, rec, phrases
  <2>. QED BY <2>4, <2>6
<1>2. ASSUME AdvisorInv, NEW c \in Call, At(c, "answered"),
             NEW i \in DOMAIN call[c].said
      PROVE  LET said == Outside(call[c].said[i].summary)
                 phrases == UNION {OccursAt(Marker[m], lower(said)) :
                                     m \in DOMAIN Marker}
             IN  IF phrases = {} THEN call[c].rec.summary = Truncate(said)
                 ELSE Steady(said) =>
                        \E pos \in phrases :
                          IsPrefix(Truncate(SubSeq(said, 1, pos - 1) \o Note),
                                   call[c].rec.summary)
  <2>1. call[c].said # << >>
    BY <1>2
  <2>2. PICK output \in Output :
          /\ call[c].said = <<output>>
          /\ call[c].rec = sanitize_recommendation(FromModel(output))
    BY <1>2, <2>1, AnswerOfModel DEF AdvisorInv
  <2>3. i = 1 /\ call[c].said[i] = output
    BY <1>2, <2>2
  <2>. QED BY <1>1, <2>2, <2>3
<1>3. ASSUME AdvisorInv, NEW c \in Call, At(c, "panicked")
      PROVE  \E text \in Cleaned(call[c].lost) : ~Steady(Outside(text))
  <2>1. call[c].lost \in Given /\ PanicsOn(call[c].lost)
    BY <1>3, StageOf, PanickedIsLost DEF AdvisorInv
  <2>2. PICK text \in Cleaned(call[c].lost) : panics(strip_markup(text))
    BY <2>1 DEF PanicsOn
  <2>3. text \in Seq(Letter)
    BY <2>1, <2>2, GivenTexts
  <2>. QED BY <2>2, <2>3, CleanFieldDef
<1>4. AdvisorInv => NothingElseRemoved
  BY <1>2, <1>3 DEF NothingElseRemoved
<1>. QED BY <1>4, AdvisorInvariant, PTL

=============================================================================
