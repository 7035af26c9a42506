------------------------------- MODULE MCSession -------------------------------
(* Session with three models, the files a model may consist of, and user      *)
(* arguments in every spelling.                                               *)
EXTENDS Session

ThreeModels == {"llama.gguf", "llama-chat.gguf", "my model.gguf"}

\* The stem of the first is a prefix of the second's.  The third has a
\* character that the store replaces, so that no file name starts with its stem.
FileNames == {<<"llama.gguf", "llama.gguf">>, <<"llama.gguf", "llama-chat.gguf">>,
             <<"llama-chat.gguf", "llama-chat.gguf">>}

Typed == {"", "0", "junk"}
FirstTwo == <<"llama.gguf", "llama-chat.gguf">>

-----------------------------------------------------------------------------
(* Entries, with the bytes the format prescribes: 8 for a length, 4 for a    *)
(* type, and so on.                                                          *)

Plain(key, type, value, bytes) ==
  [key |-> key, keyBytes |-> 2, type |-> type, value |-> value, strings |-> <<>>,
   of |-> "u8", count |-> 0, bytes |-> 14 + bytes]
String(key, value, n) == [Plain(key, "string", value, 8 + n) EXCEPT !.strings = <<n>>]
Array(of, count, strings, bytes) ==
  [Plain(<<"tokenizer", "tokens">>, "array", NoValue, 12 + bytes)
     EXCEPT !.of = of, !.count = count, !.strings = strings]

Arch == String(<<"general", "architecture">>, "llama", 5)
Layers(n) == Plain(<<"llama", "block_count">>, "u32", n, 4)
Experts(n) == Plain(<<"llama", "expert_count">>, "i32", n, 4)

Whole(entries) ==
  [magic |-> TRUE, version |-> 3, kv_count |-> Len(entries), entries |-> entries,
   size |-> FoldLeft(LAMBDA n, e : n + e.bytes, 24, entries) + 100]

Dense == Whole(<<Arch, Array("string", 2, <<3, 0>>, 19), Layers(2)>>)
Moe == Whole(<<Layers(2), Array("f32", 3, <<>>, 12), Experts(8), Arch, Layers(4)>>)
Repeated == Whole(<<Plain(<<"x", "y">>, "bool", TRUE, 1), Arch, Layers(2),
                    Layers(4), Experts(-1), Experts(8)>>)
Odd == Whole(<<Arch, Plain(<<"llama", "block_count">>, "f64", 3, 8), Layers(2),
               Plain(<<"llama", "expert_count">>, "bool", TRUE, 1)>>)
Nameless == Whole(<<Plain(<<"general", "architecture">>, "u16", 1, 2), Layers(2)>>)

\* The dense file cut short in its header, keys and values, and where its
\* entries end (114 bytes).
Cut == {[Dense EXCEPT !.size = n] : n \in {8, 24, 30, 50, 53, 96, 113, 114}}

Damaged == {
  [Dense EXCEPT !.version = 1],
  [Dense EXCEPT !.kv_count = 9],
  Whole(<<Arch, Array("array", 1, <<>>, 4)>>),
  Whole(<<Arch, [Layers(2) EXCEPT !.type = "?"]>>),
  Whole(<<Arch, Array("u8", 5, <<>>, 5), Layers(2)>>),
  Whole(<<String(<<"general", "name">>, "n", 9), Layers(2)>>)}

ModelFiles == {Dense, Moe, Repeated, Odd, Nameless} \cup Cut \cup Damaged

-----------------------------------------------------------------------------
LongFlags == {"--threads", "--n-gpu-layers", "--batch-size", "--ubatch-size", "--n-cpu-moe"}
BenchMay == {{}, LongFlags \cup {"--n-depth"}}
ToolMay == {{}, LongFlags \cup {"--ctx-size", "--host", "--port"},
            (LongFlags \ {"--n-cpu-moe"}) \cup {"--ctx-size"}}

Given == {<<Flag("-c"), Value(16)>>, <<FlagIs("--ctx-size", 16)>>,
          <<Flag("--n-cpu-moe"), Value(1)>>, <<Flag("-ncmoe"), Value(1)>>,
          <<FlagIs("--threads", 2)>>,
          <<Flag("--port"), Value(80)>>, <<Flag("--jinja")>>}
Arguments == {<<>>} \cup Given \cup {a \o b : a, b \in Given}
================================================================================
