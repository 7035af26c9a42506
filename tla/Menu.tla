--------------------------------- MODULE Menu ---------------------------------
(***************************************************************************)
(* The interactive menu (src/src/menu.cpp): numbered choices and questions *)
(* read line by line from stdin, which may be closed at any of them.  The  *)
(* menu starts nothing: it ends with a MenuAction that main dispatches.    *)
(***************************************************************************)
EXTENDS Naturals, Sequences, SequencesExt

CONSTANTS
  Listed,     \* the models that the menu finds by itself, a sequence
  Models,     \* the names of model files that exist
  NamedAfter, \* pairs <<m, n>>: the profile of n has a file name that starts
              \* with the stem of m
  Figures,    \* what is typed where a number is asked for
  NoValue

VARIABLES
  at,         \* the question that is asked; "off" and "planned" ask none
  closed,     \* stdin has ended
  action,     \* the MenuAction under construction
  purpose     \* what the model is chosen for

menu == <<at, closed, action, purpose>>

EOF == "end of file"

None == [kind |-> "None", model |-> NoValue, context |-> "4096", headroom |-> "0",
         repeats |-> "0", extra |-> <<>>]

\* The questions of plan_serve, with what an empty line means.
ServeFlags == <<"--jinja", "--no-mmap", "--webui-mcp-proxy", "--reasoning-preserve">>
OnByDefault == {"--jinja", "--no-mmap"}

Questions == {"choice", "model", "path", "continue", "context", "headroom", "report"}
               \cup Range(ServeFlags)

Off == at = "off" /\ closed = FALSE /\ action = None /\ purpose = NoValue

\* Mutant: a closed stdin reads as an empty line.
ReadsEmpty(line, lines) ==
  /\ line \in lines
  /\ closed => line = ""
  /\ closed' \in {closed, TRUE}

\* read_line: a line, or nullopt once stdin has ended.
Reads(line, lines) ==
  /\ line \in lines \cup {EOF}
  /\ closed => line = EOF
  /\ closed' = (line = EOF)

\* ask_with_default and ask_yes_no take the end of stdin for an empty line.
Default(line, fallback) == IF line \in {EOF, ""} THEN fallback ELSE line
Yes(line, fallback) == IF line \in {EOF, ""} THEN fallback ELSE line \in {"y", "yes", "s"}
YesNo == {"", "y", "n"}

Start ==
  /\ at = "off"
  /\ at' = "choice" /\ closed' = FALSE
  /\ action' = None /\ purpose' = NoValue

\* run_menu: a choice that leads nowhere (3 lists the profiles) asks again.
Choice(line) ==
  /\ at = "choice"
  /\ Reads(line, {"", "1", "2", "3", "4", "5", "q"})
  /\ CASE line \in {EOF, "5", "q"} -> at' = "planned" /\ action' = None /\ UNCHANGED purpose
       [] line = "4" -> at' = "planned" /\ action' = [None EXCEPT !.kind = "Doctor"]
                        /\ UNCHANGED purpose
       [] line \in {"1", "2"} -> /\ at' = "model"
                                 /\ purpose' = IF line = "1" THEN "Tune" ELSE "Serve"
                                 /\ UNCHANGED action
       [] OTHER -> UNCHANGED <<at, action, purpose>>

Back == at' = "choice" /\ action' = None /\ purpose' = NoValue

Chosen(m) ==
  /\ action' = [None EXCEPT !.kind = purpose, !.model = m]
  /\ at' = IF purpose = "Tune" THEN "continue" ELSE "check"
  /\ UNCHANGED purpose

\* choose_model: the number of a model, or a path; anything else, an empty line
\* and the end of stdin lead back to the menu.
Number == [l \in {"1", "2", "3"} |-> CASE l = "1" -> 1 [] l = "2" -> 2 [] l = "3" -> 3]

ChooseModel(line) ==
  /\ at = "model"
  /\ Reads(line, {"", "b", "0", "junk"} \cup DOMAIN Number)
  /\ CASE line \in {EOF, "", "b"} -> Back
       [] line = "0" \/ (Listed = <<>> /\ line \notin {EOF, "", "b"}) ->
            at' = "path" /\ UNCHANGED <<action, purpose>>
       [] OTHER -> IF line \in DOMAIN Number /\ Number[line] <= Len(Listed)
                   THEN Chosen(Listed[Number[line]]) ELSE Back

TypePath(line) ==
  /\ at = "path"
  /\ Reads(line, {"", "junk"} \cup Models)
  /\ IF line \in Models THEN Chosen(line) ELSE Back

Continue(line) ==
  /\ at = "continue"
  /\ Reads(line, YesNo)
  /\ IF Yes(line, TRUE) THEN at' = "context" /\ UNCHANGED <<action, purpose>> ELSE Back

\* plan_tune
AskContext(line) ==
  /\ at = "context"
  /\ Reads(line, Figures)
  /\ at' = "headroom"
  /\ action' = [action EXCEPT !.context = Default(line, "4096")]
  /\ UNCHANGED purpose

AskHeadroom(line) ==
  /\ at = "headroom"
  /\ Reads(line, Figures)
  /\ at' = "report"
  /\ action' = [action EXCEPT !.headroom = Default(line, "0")]
  /\ UNCHANGED purpose

AskReport(line) ==
  /\ at = "report"
  /\ Reads(line, YesNo)
  /\ at' = "planned"
  /\ action' = [action EXCEPT !.repeats = IF Yes(line, FALSE) THEN "3" ELSE "0"]
  /\ UNCHANGED purpose

\* has_profile_for: any profile whose file name starts with the model's stem.
HasProfileFor(m, profiles) == \E n \in profiles : <<m, n>> \in NamedAfter

Check(profiles) ==
  /\ at = "check"
  /\ IF HasProfileFor(action.model, profiles)
     THEN at' = ServeFlags[1] /\ UNCHANGED <<action, purpose>> ELSE Back
  /\ UNCHANGED closed

\* plan_serve, one question after the other.
AskFlag(line) ==
  \E k \in DOMAIN ServeFlags :
    LET flag == ServeFlags[k]
    IN /\ at = flag
       /\ Reads(line, YesNo)
       /\ at' = IF k < Len(ServeFlags) THEN ServeFlags[k + 1] ELSE "planned"
       /\ action' = IF Yes(line, flag \in OnByDefault)
                    THEN [action EXCEPT !.extra = Append(@, [flag |-> flag, value |-> NoValue])]
                    ELSE action
       /\ UNCHANGED purpose

Lines == {EOF, "", "b", "y", "n", "q", "junk", "0", "1", "2", "3", "4", "5"}
           \cup Figures \cup Models

Answer(line) ==
  \/ Choice(line) \/ ChooseModel(line) \/ TypePath(line)
  \/ Continue(line) \/ AskContext(line) \/ AskHeadroom(line) \/ AskReport(line)
  \/ AskFlag(line)

\* Mutant: the menu is shown again.
LeaveLoops == at' = "choice" /\ closed' = FALSE /\ action' = None /\ purpose' = NoValue

\* The action has been dispatched.
Leave == at' = "off" /\ closed' = FALSE /\ action' = None /\ purpose' = NoValue
===============================================================================
