------------------------------- MODULE Tasks -------------------------------
(***************************************************************************)
(* How Rocq files become tasks (datasets.py, run_eval.py's build_task,     *)
(* make_inproject_manifest.py): where a file is cut, and which theorem the *)
(* task is about.                                                          *)
(*                                                                         *)
(* A file is a sequence of sentences, one to a line: a statement has a     *)
(* keyword and a name and begins its line or is indented; every other      *)
(* sentence is its class: "Proof", "tactic", what ends a proof, "Goal" for *)
(* a command that opens a proof and is no statement (Instance, Definition  *)
(* by tactics), "Other" for one that does not (Section, Hint, End, ...).   *)
(*                                                                         *)
(* A definition introduced by a remark in parentheses is a plausible       *)
(* mistake in the one that follows it; nothing else uses it.               *)
(***************************************************************************)
EXTENDS Naturals, Sequences

CONSTANTS
    MinPrefix,  \* MIN_PREFIX_LINES
    Short, Medium  \* the longest short and medium proof, in sentences

ASSUME TasksAssumption == MinPrefix \in Nat /\ Short \in Nat /\ Medium \in Nat

Keyword == {"Theorem", "Lemma", "Fact", "Corollary", "Proposition", "Remark"}

Statement(kw, name, indented) == [class |-> kw, name |-> name, indented |-> indented]
Sentence(class) == [class |-> class, name |-> "none", indented |-> FALSE]

Prefix(f, cut) == SubSeq(f, 1, cut)

Statements(f, keywords) == {i \in DOMAIN f : f[i].class \in keywords}

SetMin(S) == CHOOSE i \in S : \A j \in S : i <= j
SetMax(S) == CHOOSE i \in S : \A j \in S : i >= j

NoCut == 0

\* _last_theorem_span, statement_prefix: a miniF2F file is cut behind the last
\* statement; helper theorems may precede it.
statement_prefix(f) ==
  IF Statements(f, Keyword) = {} THEN NoCut ELSE SetMax(Statements(f, Keyword))

\* theorem_name: the name of the first statement of a text.
theorem_name(text) ==
  IF Statements(text, Keyword) = {} THEN "none" ELSE text[SetMin(Statements(text, Keyword))].name

\* shipped_proof_status: what follows the target, by the strongest sign.
shipped_proof_status(f) ==
  LET trailer == {f[i].class : i \in statement_prefix(f) + 1..Len(f)}
  IN CASE trailer \cap {"Qed", "Defined"} # {} -> "qed"
       [] trailer \cap {"Qed", "Defined"} = {} /\ "Admitted" \in trailer -> "admitted"
       [] OTHER -> IF "Proof" \in trailer THEN "proof_open"
                   ELSE IF trailer # {} THEN "tactics" ELSE "none"

\* (Whatever the proof ends with.)
GivenUpNever(body) == FALSE

GivenUp(body) == {body[i].class : i \in DOMAIN body} \cap {"Admitted", "Abort"} # {}

\* extract_tasks: the statements of a file with enough above them whose proof
\* follows, opened by Proof and ended by the next Qed or Defined.  Neither the
\* keyword Remark nor an indented statement is looked for.
extract_tasks(f) ==
  LET Closers(i) == {j \in i + 1..Len(f) : f[j].class \in {"Qed", "Defined"}}
      Body(i) == SubSeq(f, i + 2, SetMin(Closers(i)) - 1)
  IN {[source |-> "project", cut |-> i, name |-> f[i].name, body |-> Body(i),
       bucket |-> CASE Len(Body(i)) <= Short -> "short"
                    [] Len(Body(i)) > Short /\ Len(Body(i)) <= Medium -> "medium"
                    [] OTHER -> "long"] :
        i \in {i \in Statements(f, Keyword \ {"Remark"}) :
                 /\ ~f[i].indented
                 /\ i < Len(f) /\ f[i + 1].class = "Proof"
                 /\ Closers(i) # {} /\ ~GivenUp(Body(i))
                 /\ i - 1 >= MinPrefix}}

\* The records a file may be in the manifests: of a project; of miniF2F; of the
\* workbook, which keeps the statement apart from what it puts above it.
Records(f) ==
  extract_tasks(f) \cup {[source |-> "minif2f"]}
    \cup {r \in {[source |-> "workbook", statement |-> <<f[Len(f)]>>]} : f[Len(f)].class \in Keyword}

\* (The theorem read off the whole text.)
build_task_of_text(f, rec) ==
  IF rec.source = "project" THEN [cut |-> rec.cut, name |-> theorem_name(f)]
  ELSE [cut |-> statement_prefix(f), name |-> theorem_name(f)]

\* build_task: the cut and the theorem, by the kind of source.  The theorem of a
\* miniF2F file is its last statement.
build_task(f, rec) ==
  CASE rec.source = "project"  -> [cut |-> rec.cut, name |-> rec.name]
    [] rec.source = "workbook" -> [cut |-> Len(f), name |-> theorem_name(rec.statement)]
    [] rec.source = "minif2f"  ->
         LET cut == statement_prefix(f) IN [cut |-> cut, name |-> theorem_name(<<f[cut]>>)]
=============================================================================
