---------------------------- MODULE BenchmarkParser ----------------------------
(***************************************************************************)
(* parse_llama_bench_output (src/src/llama/benchmark_parser.cpp) over the  *)
(* pieces of llama-bench's stdout it tells apart: brackets and entries of  *)
(* a JSON array, lines of a markdown table, anything else.                 *)
(*                                                                         *)
(* A figure is the place in the text of the piece it was taken from, and   *)
(* None when it was not found (the tuner takes 0 for it).                  *)
(***************************************************************************)
EXTENDS Integers, Sequences

\* The piece of the kind, and the test an entry or a row reports: "pp", "tg",
\* or "both" for one run of the two together.
Piece(kind, test) == [kind |-> kind, test |-> test]
Open      == Piece("open", "none")
Close     == Piece("close", "none")
Entry(t)  == Piece("entry", t)
Header    == Piece("header", "none")
Separator == Piece("separator", "none")
Row(t)    == Piece("row", t)
OomText   == Piece("oom", "none")

Pieces == [kind: {"open", "close", "entry", "header", "separator", "row", "oom"},
           test: {"none", "pp", "tg", "both"}]

None == 0

\* The first place of the text among those given.
First(S) == IF S = {} THEN None ELSE CHOOSE i \in S : \A j \in S : i <= j

Parsed(valid, prompt, generation) ==
  [valid |-> valid, prompt |-> prompt, generation |-> generation]
Invalid == Parsed(FALSE, None, None)

Places(text, kinds) == {i \in DOMAIN text : text[i].kind \in kinds}

\* From the first bracket of the output to the last: an array of entries and
\* nothing else, or not JSON.
ParseJson(text) ==
  LET start   == First(Places(text, {"open"}))
      closes  == Places(text, {"close"})
      end     == IF closes = {} THEN None
                 ELSE CHOOSE i \in closes : \A j \in closes : j <= i
      entries == (start + 1)..(end - 1)
  IN IF \/ start = None \/ end < start
        \/ entries = {} \/ ~(entries \subseteq Places(text, {"entry"}))
       THEN Invalid
       ELSE Parsed(TRUE, First({i \in entries : text[i].test = "pp"}),
                         First({i \in entries : text[i].test = "tg"}))

\* The first header names the columns; every later line of the table that is
\* not a separator is a measurement, and its test is told by its first letters,
\* so that "pp512+tg128" is prompt processing.
ParseMarkdown(text) ==
  LET header == First(Places(text, {"header"}))
      rows   == {i \in Places(text, {"row", "header"}) : i > header}
  IN IF header = None \/ rows = {} THEN Invalid
     ELSE Parsed(TRUE, First({i \in rows : text[i].test \in {"pp", "both"}}),
                       First({i \in rows : text[i].test = "tg"}))

Parse(text) ==
  IF ParseJson(text).valid THEN ParseJson(text) ELSE ParseMarkdown(text)
=============================================================================
