---------------------------- MODULE MCBenchmarkRun ----------------------------
(* BenchmarkRun with the kinds of output llama-bench has.                   *)
EXTENDS BenchmarkRun

Prints(out, err) == [stdout |-> out, stderr |-> err]
Array(entries) == <<Open>> \o entries \o <<Close>>
Both == <<Entry("pp"), Entry("tg")>>

Outputs == {
  \* A JSON array with an OOM on stderr.
  Prints(Array(Both), <<OomText>>),
  \* A combined test before the two of their own, as a build
  \* that runs combined tests prints it.
  Prints(Array(<<Entry("both")>> \o Both), <<>>),
  \* A log line with brackets of its own before the array.
  Prints(<<Open, Close>> \o Array(Both), <<>>),
  \* An empty array.
  Prints(Array(<<>>), <<>>),
  \* A markdown table, and one that ends in an OOM.
  Prints(<<Header, Separator, Row("pp"), Row("tg")>>, <<>>),
  Prints(<<Header, Row("both"), OomText>>, <<>>)}
=============================================================================
