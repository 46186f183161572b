----------------------------- MODULE MCAdvisor -----------------------------
(***************************************************************************)
(* Values of the constants for the run of Advisor: three phrases, "qp",    *)
(* "pq" and "r", of which the first two may overlap, where P is a capital  *)
(* p; a note of two letters; fields of at most three.  W is wide: its      *)
(* lower case is p and an accent, together wider than W itself; N is a     *)
(* narrow case, whose lower case p has fewer bytes.                        *)
(***************************************************************************)
EXTENDS Advisor

CONSTANTS c1, c2

MCLetter == {"<", ">", "p", "P", "q", "r", "[", "]", "W", "^", "N"}
MCLowerOf ==
    [c \in MCLetter |-> CASE c \in {"P", "N"} -> <<"p">>
                           [] c = "W" -> <<"p", "^">>
                           [] OTHER -> <<c>>]
MCWidth ==
    [c \in MCLetter |-> CASE c \in {"W", "^"} -> 2
                           [] c = "N" -> 3
                           [] OTHER -> 1]
MCNote == <<"[", "]">>
MCReasons == <<<<"q">>, <<"<", "r">>, <<"q">>>>
MCNotice == <<"q">>
MCMarker == <<<<"q", "p">>, <<"p", "q">>, <<"r">>>>

\* Every text of at most three letters over five of them; texts of four that
\* a tag, or another phrase, may put together; and texts whose letters change
\* their width in lower case, with and without a phrase.
MCText ==
    LET Short(S) == UNION {[1..n -> S] : n \in 0..3}
    IN  Short({"<", ">", "p", "q", "r"})
          \cup {<<"P", "q">>, <<"p", "<", ">", "q">>, <<"P", "<", ">", "q">>,
                <<"p", "r", "q", "q">>, <<"p", "p", "q", "q">>,
                <<"<", "<", ">", "p">>, <<"q", "q", "q", "q">>,
                <<"p", "q", "p", "q">>, <<"q", "q", "p", "q">>}
          \cup [1..2 -> {"W", "N", "q"}]
          \cup {<<"W">>, <<"W", "r">>, <<"W", "r", "q">>, <<"N", "r">>,
                <<"r", "W", "q">>, <<"<", "W", ">", "r">>}

Fields(summary, signals, confidence) ==
    [kind |-> "fields",
     output |-> [summary |-> summary, signals |-> signals,
                 confidence |-> confidence]]

MCOutput ==
    {Fields(text, << >>, 70) : text \in MCText}
      \cup {Fields(<<"q">>, [i \in 1..n |-> <<"<", "r">>], c) :
              n \in 1..3, c \in {-5, 250}}

Only(kind) == [kind |-> kind]

\* An answer by itself, in prose, twice, or with a brace in the prose; no
\* object, no object before a stray brace, no content.
MCBody ==
    LET One == Fields(<<"q">>, << >>, 70)
        Prose == Only("prose")
        Object(o) == <<Only("open"), o, Only("close")>>
    IN  {<<Object(o)>> : o \in MCOutput}
          \cup {<<<<Prose>> \o Object(One) \o <<Prose>>>>,
                <<Object(One) \o Object(One)>>,
                <<Object(One) \o <<Prose, Only("close")>>>>,
                <<Object(Prose)>>,
                <<<<Prose>>, Object(One)>>,
                <<<<Only("close"), Prose, Only("open")>>>>,
                << >>}

=============================================================================
