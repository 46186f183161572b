------------------------------ MODULE Advisor ------------------------------
(***************************************************************************)
(* crates/ai_advisor: AdvisorService::investigate over the Claude backend, *)
(* the sanitiser its answer passes, and the two counters the handler bumps *)
(* afterwards, which GET /metrics reads one by one.                        *)
(*                                                                         *)
(* A text is a sequence of letters.  `summary` stands for the five text    *)
(* fields of a recommendation, `signals` for its two lists: the code treats *)
(* them alike.  The service answers each call on its own; calls share only *)
(* the counters.                                                           *)
(***************************************************************************)
EXTENDS Selection

CONSTANTS
    Call,            \* calls of investigate; each is made once
    Letter,          \* what texts consist of
    LT, GT,          \* the letters "<" and ">"
    LowerOf,         \* to_lowercase of a letter, which may be several letters
    Width,           \* its bytes in UTF-8
    Marker,          \* ACTION_INSTRUCTION_MARKERS, a sequence of texts
    Note,            \* what a neutralised phrase is replaced by
    MAX_FIELD_LEN,
    MAX_LIST_ITEMS,
    Reasons,         \* AiContext.triggered_rule_reasons
    Notice,          \* the fixed texts of the fallback
    Body             \* bodies of responses: the texts of their content blocks

ASSUME BracketAssumption == LT \in Letter /\ GT \in Letter /\ LT # GT
ASSUME LowerAssumption == LowerOf \in [Letter -> Seq(Letter) \ {<< >>}]
ASSUME WidthAssumption == Width \in [Letter -> 1..4]
ASSUME MarkerAssumption == Marker \in Seq(Seq(Letter) \ {<< >>})
ASSUME CapAssumption == MAX_FIELD_LEN \in Nat /\ MAX_LIST_ITEMS \in Nat

\* A response is JSON: what its fields hold are texts, lists and a number.
Output ==
    [summary : Seq(Letter), signals : Seq(Seq(Letter)), confidence : Int]

\* What extract_json sees of a text: braces, prose, the fields of an answer.
Piece ==
    [kind : {"open", "close", "prose"}]
      \cup [kind : {"fields"}, output : Output]

ASSUME TextAssumption == Notice \in Seq(Letter) /\ Reasons \in Seq(Seq(Letter))
ASSUME BodyAssumption == Body \subseteq Seq(Seq(Piece))

VARIABLES
    configured,  \* ANTHROPIC_API_KEY was set when the server started
    call,        \* each call: its stage; the answer, with what the model had
                 \* said; then, while it is counted, where it came from and the
                 \* counters still to be bumped
    metrics,     \* Metrics.ai_recommendations_total, ai_fallback_total
    scrape       \* the counters a scrape has read, and (history) their values
                 \* when it began

vars == <<configured, call, metrics, scrape>>

-----------------------------------------------------------------------------
(* sanitize.rs *)

lower(text) == FlattenSeq([i \in DOMAIN text |-> LowerOf[text[i]]])

\* The byte at which each letter of a text ends, and the text itself.
Offsets(text) == PartialSums([i \in DOMAIN text |-> Width[text[i]]])

\* The letters before a byte: none, and the slice panics, if it is within a
\* letter or past the end.
Before(text, byte) == {n \in 0..Len(text) : Offsets(text)[n] = byte}

\* What is true of nearly every text: each letter has one letter for its
\* lower case, as wide as itself.
Steady(text) ==
    \A i \in DOMAIN text :
      \E c \in Letter : LowerOf[text[i]] = <<c>> /\ Width[c] = Width[text[i]]

OccursAt(marker, text) ==
    {i \in 1..(Len(text) - Len(marker) + 1) :
        SubSeq(text, i, i + Len(marker) - 1) = marker}

\* The note says nothing a reader takes for an instruction, and it is set
\* apart: the brackets it begins and ends with are in no phrase.
ASSUME NoteAssumption ==
    /\ Note \in Seq(Letter \ {LT, GT}) \ {<< >>}
    /\ Steady(Note)
    /\ \A m \in DOMAIN Marker :
         /\ OccursAt(Marker[m], lower(Note)) = {}
         /\ (ToSet(LowerOf[Note[1]]) \cup ToSet(LowerOf[Note[Len(Note)]]))
              \cap ToSet(Marker[m]) = {}

Truncate(text) ==
    SubSeq(text, 1, Min({Len(text), MAX_FIELD_LEN}))

\* Mutant: every opening bracket needs a closing one of its own.
strip_markup_nested(input) ==
    LET pushed[n \in 0..Len(input)] ==
          IF n = 0 THEN [out |-> << >>, depth |-> 0]
          ELSE LET before == pushed[n - 1]
               IN  CASE input[n] = LT -> [before EXCEPT !.depth = @ + 1]
                     [] input[n] = GT /\ before.depth > 0 ->
                          [before EXCEPT !.depth = @ - 1]
                     [] input[n] # GT /\ before.depth = 0 ->
                          [before EXCEPT !.out = Append(@, input[n])]
                     [] OTHER -> before
    IN  pushed[Len(input)].out

\* One letter: a bracket sets the flag, another goes out unless it is set.
Push(state, c) ==
    CASE c = LT -> [state EXCEPT !.in_tag = TRUE]
      [] c = GT -> [state EXCEPT !.in_tag = FALSE]
      [] OTHER -> IF state.in_tag THEN state
                  ELSE [state EXCEPT !.out = Append(@, c)]

\* The flag and the output after each letter of a text.
Pushed(input) ==
    LET pushed[n \in 0..Len(input)] ==
          IF n = 0 THEN [out |-> << >>, in_tag |-> FALSE]
          ELSE Push(pushed[n - 1], input[n])
    IN  pushed

\* What stands between LT and the next GT is dropped, and both brackets.
strip_markup(input) == Pushed(input)[Len(input)].out

\* One turn of the loop in neutralize_action_language: up to the first
\* occurrence of marker the rest moves over to rebuilt, and the note follows
\* it.  The bytes at which the marker begins and ends are those of the
\* lower-cased rest; it is the rest itself that is sliced there.
Turn(state, marker) ==
    LET rest == state.rest
        low == lower(rest)
        found == OccursAt(marker, low)
        begins == Before(rest, Offsets(low)[Min(found) - 1])
        ends == Before(rest, Offsets(low)[Min(found) + Len(marker) - 1])
    IN  IF found = {} \/ begins = {} \/ ends = {} THEN state
        ELSE [rebuilt |-> state.rebuilt \o SubSeq(rest, 1, Min(begins)) \o Note,
              rest |-> SubSeq(rest, Min(ends) + 1, Len(rest))]

Turned(text, marker) ==
    LET turned[n \in 0..Len(text)] ==
          IF n = 0 THEN [rebuilt |-> << >>, rest |-> text]
          ELSE Turn(turned[n - 1], marker)
    IN  turned

\* The loop ends after at most Len(text) turns: each takes a letter at least,
\* or is the last.
replace_marker(text, marker) ==
    LET last == Turned(text, marker)[Len(text)]
    IN  last.rebuilt \o last.rest

\* A marker is replaced if it occurs in the input.
neutralize_marker(result, marker, input) ==
    IF OccursAt(marker, lower(input)) # {}
    THEN replace_marker(result, marker) ELSE result

\* The text after each of the markers.
Neutralized(input) ==
    LET result[m \in 0..Len(Marker)] ==
          IF m = 0 THEN input
          ELSE neutralize_marker(result[m - 1], Marker[m], input)
    IN  result

neutralize_action_language(input) == Neutralized(input)[Len(Marker)]

\* A loop that stops with its marker still in the rest has panicked.
panics(input) ==
    LET result == Neutralized(input)
    IN  \E m \in DOMAIN Marker :
          LET last == Turned(result[m - 1], Marker[m])[Len(result[m - 1])]
          IN  /\ OccursAt(Marker[m], lower(input)) # {}
              /\ OccursAt(Marker[m], lower(last.rest)) # {}

\* Mutant: phrases are looked for before the markup is gone.
clean_field_early(input) ==
    Truncate(strip_markup(neutralize_action_language(input)))

clean_field(input) ==
    Truncate(neutralize_action_language(strip_markup(input)))

\* The texts of a recommendation that are cleaned.
Cleaned(rec) ==
    {rec.summary} \cup {rec.signals[i] : i \in 1..Min({Len(rec.signals), MAX_LIST_ITEMS})}

\* Confidence is in percent.  (No advisor here gives a confidence that is
\* not a finite number.)
sanitize_recommendation(rec) ==
    [rec EXCEPT
       !.summary = clean_field(@),
       !.signals = [i \in 1..Min({Len(@), MAX_LIST_ITEMS}) |-> clean_field(@[i])],
       !.confidence = IF @ < 0 THEN 0 ELSE IF @ > 100 THEN 100 ELSE @]

-----------------------------------------------------------------------------
(* claude.rs: the fields of an answer parse only between one pair of braces. *)

Where(text, kind) == {i \in DOMAIN text : text[i].kind = kind}

\* From the first "{" to the last "}".
extract_json(text) ==
    LET start == Where(text, "open")
        end == Where(text, "close")
    IN  IF start # {} /\ end # {} /\ Max(end) > Min(start)
        THEN SubSeq(text, Min(start), Max(end)) ELSE << >>

\* The outputs a body parses to: one, or none.  Only its first block counts.
model_output(body) ==
    IF body = << >> THEN {}
    ELSE LET json == extract_json(body[1])
         IN  IF Len(json) = 3 /\ Where(json, "fields") = {2}
             THEN {json[2].output} ELSE {}

-----------------------------------------------------------------------------
(* AdvisorService::investigate *)

Counter == {"ai_recommendations_total", "ai_fallback_total"}

FallbackRecommendation ==
    [summary |-> Notice, signals |-> Reasons, confidence |-> 0,
     model_available |-> FALSE]

FromModel(output) ==
    [summary |-> output.summary, signals |-> output.signals,
     confidence |-> output.confidence, model_available |-> TRUE]

Init ==
    /\ configured \in BOOLEAN
    /\ call = [c \in Call |-> [pc |-> "idle"]]
    /\ metrics = [k \in Counter |-> 0]
    /\ scrape = [shown |-> << >>, since |-> metrics]

At(c, label) == call[c].pc = label

InFlight(c) == At(c, "sending") \/ At(c, "reading")

Goto(c, label) ==
    /\ call' = [call EXCEPT ![c] = [pc |-> label]]
    /\ UNCHANGED <<configured, metrics, scrape>>

\* said: what the model said, << >> for the fallback.
Answer(c, said, rec) ==
    /\ call' = [call EXCEPT ![c] =
                  [pc |-> "answered", said |-> said, rec |-> rec]]
    /\ UNCHANGED <<configured, metrics, scrape>>

\* The answer is given sanitised.  A panic in the sanitiser ends the handler
\* and loses the answer; nothing catches it.
AnswerSanitized(c, said, rec) ==
    IF \E text \in Cleaned(rec) : panics(strip_markup(text))
    THEN /\ call' = [call EXCEPT ![c] = [pc |-> "panicked", lost |-> rec]]
         /\ UNCHANGED <<configured, metrics, scrape>>
    ELSE Answer(c, said, sanitize_recommendation(rec))

\* Without a key the fallback is the primary advisor, and its answer is
\* sanitised like one of the model.
Investigate(c) ==
    /\ At(c, "idle")
    /\ IF configured THEN Goto(c, "sending")
       ELSE AnswerSanitized(c, << >>, FallbackRecommendation)

\* send() returns with a status of success.
StatusArrives(c) ==
    /\ At(c, "sending")
    /\ Goto(c, "reading")

\* Mutant: the timeout covers the wait for the status only.
CallFailsEarly(c) ==
    /\ At(c, "sending")
    /\ Answer(c, << >>, FallbackRecommendation)

\* No connection, another status, a body that cannot be read, or 20 s have
\* passed since the request was sent.  This fallback is not sanitised.
CallFails(c) ==
    /\ InFlight(c)
    /\ Answer(c, << >>, FallbackRecommendation)

BodyArrives(c, body) ==
    /\ At(c, "reading")
    /\ \/ /\ model_output(body) = {}
          /\ Answer(c, << >>, FallbackRecommendation)
       \/ \E output \in model_output(body) :
            AnswerSanitized(c, <<output>>, FromModel(output))

\* The handler is dropped at the await.
ClientDisconnects(c) ==
    /\ InFlight(c)
    /\ Goto(c, "dropped")

-----------------------------------------------------------------------------
(* metrics.rs.  Every access is relaxed, so another thread may see the two  *)
(* increments, and a scrape may do its two reads, in either order.          *)

\* The handler has its answer.
Returned(c) == At(c, "answered") \/ At(c, "counting")

model_available(c) ==
    IF At(c, "answered") THEN call[c].rec.model_available
    ELSE call[c].model_available

\* The counters record_ai_recommendation has still to bump for c.
Owes(c) ==
    IF At(c, "counting") THEN call[c].owes
    ELSE IF model_available(c) THEN {"ai_recommendations_total"} ELSE Counter

\* Mutant: the new value is computed from the one that the last scrape saw.
BumpStale(c, k) ==
    /\ Returned(c)
    /\ k \in Owes(c)
    /\ metrics' = [metrics EXCEPT ![k] = scrape.since[k] + 1]
    /\ call' = [call EXCEPT ![c] =
                  [pc |-> "counting", model_available |-> model_available(c),
                   owes |-> Owes(c) \ {k}]]
    /\ UNCHANGED <<configured, scrape>>

\* record_ai_recommendation
Bump(c, k) ==
    /\ Returned(c)
    /\ k \in Owes(c)
    /\ metrics' = [metrics EXCEPT ![k] = @ + 1]
    /\ call' = [call EXCEPT ![c] =
                  [pc |-> "counting", model_available |-> model_available(c),
                   owes |-> Owes(c) \ {k}]]
    /\ UNCHANGED <<configured, scrape>>

\* render_prometheus_text
BeginScrape ==
    /\ scrape' = [shown |-> << >>, since |-> metrics]
    /\ UNCHANGED <<configured, call, metrics>>

ReadCounter(k) ==
    /\ k \notin DOMAIN scrape.shown
    /\ scrape' = [scrape EXCEPT !.shown =
                    [j \in DOMAIN @ \cup {k} |->
                       IF j = k THEN metrics[k] ELSE @[j]]]
    /\ UNCHANGED <<configured, call, metrics>>

-----------------------------------------------------------------------------
Bumps(c) == \E k \in Counter : Bump(c, k)

Next ==
    \/ \E c \in Call :
         \/ Investigate(c)
         \/ StatusArrives(c)
         \/ CallFails(c)
         \/ \E body \in Body : BodyArrives(c, body)
         \/ ClientDisconnects(c)
         \/ Bumps(c)
    \/ BeginScrape
    \/ \E k \in Counter : ReadCounter(k)

\* The HTTP client gives up on a call in the end, and a handler that has its
\* answer does not wait for anything before it counts it.
Fairness == \A c \in Call : WF_vars(CallFails(c)) /\ WF_vars(Bumps(c))

Spec == Init /\ [][Next]_vars /\ Fairness

-----------------------------------------------------------------------------
(* Properties *)

Counted(c) == Returned(c) /\ Owes(c) = {}

Texts(rec) == {rec.summary} \cup ToSet(rec.signals)

\* The letters of a text that no tag holds: the last bracket before them, if
\* any, closes.
Outside(text) ==
    LET Bracket(i) == text[i] \in {LT, GT}
        kept == Ascending({i \in DOMAIN text :
                   /\ ~Bracket(i)
                   /\ \A j \in 1..i : text[j] = LT =>
                        \E k \in j..i : text[k] = GT})
    IN  [n \in DOMAIN kept |-> text[kept[n]]]

\* Shown for said, a text holds no phrase, if no letter of what was said
\* outside of tags changes its width in lower case.
Neutral(shown, said) ==
    Steady(Outside(said)) =>
      \A m \in DOMAIN Marker : OccursAt(Marker[m], lower(shown)) = {}

\* What a reader is shown of the model's words has no markup, whatever the
\* model says; it is no longer than the cap, and the confidence is one.  And
\* it has no phrase that reads as an instruction, not even one that taking
\* out a tag or another phrase has put together, nor one in capitals, if the
\* model said it in letters that keep their width in lower case (sanitize.rs;
\* docs/ai-boundary.md:17).  Where they do not, sanitize.rs:67 may cut
\* elsewhere than where the phrase is, and the phrase may be shown.
AdviceIsClean ==
    \A c \in Call :
      At(c, "answered") /\ call[c].rec.model_available =>
        LET rec == call[c].rec
            said == call[c].said[1]
        IN  /\ rec.confidence \in 0..100
            /\ Len(rec.signals) <= MAX_LIST_ITEMS
            /\ \A text \in Texts(rec) :
                 Len(text) <= MAX_FIELD_LEN /\ {LT, GT} \cap ToSet(text) = {}
            /\ Neutral(rec.summary, said.summary)
            /\ \A i \in DOMAIN rec.signals :
                 Neutral(rec.signals[i], said.signals[i])

\* The sanitiser takes nothing else away.  Up to the cap, a field in which no
\* phrase is found is what the model said outside of tags; in letters that
\* keep their width, the first thing missing from one in which some are is a
\* phrase, which is not dropped silently: the note stands where it began.
\* (That need not be the first phrase: where two overlap, as "instructions"
\* and "set status to" may, the one whose marker comes first is replaced.)
\* And an answer is lost in the sanitiser only for letters that do not keep
\* their width (sanitize.rs:65-69).
NothingElseRemoved ==
    \A c \in Call :
      /\ At(c, "answered") => \A i \in DOMAIN call[c].said :
           LET said == Outside(call[c].said[i].summary)
               phrases == UNION {OccursAt(Marker[m], lower(said)) :
                                   m \in DOMAIN Marker}
           IN  IF phrases = {} THEN call[c].rec.summary = Truncate(said)
               ELSE Steady(said) =>
                      \E pos \in phrases :
                        IsPrefix(Truncate(SubSeq(said, 1, pos - 1) \o Note),
                                 call[c].rec.summary)
      /\ At(c, "panicked") =>
           \E text \in Cleaned(call[c].lost) : ~Steady(Outside(text))

\* With no answer still to be counted, the counters agree with the answers
\* given; and a scrape, whenever it reads, shows of each counter a value
\* between the one it had when the scrape began and the one it has now, so
\* that no counter ever seems to go back.
CountersExplained ==
    /\ (\A c \in Call : Returned(c) => Counted(c)) =>
         /\ metrics["ai_recommendations_total"]
              = Cardinality({c \in Call : Returned(c)})
         /\ metrics["ai_fallback_total"]
              = Cardinality({c \in Call : Returned(c) /\ ~model_available(c)})
    /\ \A k \in DOMAIN scrape.shown :
         scrape.since[k] <= scrape.shown[k] /\ scrape.shown[k] <= metrics[k]

\* Every call of the service ends: answered by the model or by the fallback
\* and counted, unless its client has gone or the sanitiser has panicked
\* (ai_advisor/src/lib.rs:19-21).
EveryCallAnswered ==
    \A c \in Call :
      InFlight(c) ~> (Counted(c) \/ At(c, "dropped") \/ At(c, "panicked"))

=============================================================================
