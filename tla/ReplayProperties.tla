-------------------------- MODULE ReplayProperties --------------------------
(***************************************************************************)
(* What a counterfactual replay, and the tasks and the gate it rests on,   *)
(* promise.                                                                *)
(***************************************************************************)
EXTENDS Replay

\* How the prover reads a file: what opens a proof, what ends one, and sentence i
\* has the proof open that sentence j belongs to.
Opener == Keyword \cup {"Goal"}
Ender  == {"Qed", "Defined", "Admitted", "Abort"}

OpenAt(f, i, j) ==
  /\ f[i].class \in Opener /\ i < j
  /\ \A k \in i + 1..j - 1 : f[k].class \notin Opener \cup Ender

\* Sentence e ends the proof of statement i.
EndsProof(f, i, e) == OpenAt(f, i, e) /\ f[e].class \in Ender

\* A file is cut where the prover would cut it, although its readers have only
\* regular expressions.  The tasks of a project file are the statements (but for
\* Remarks and indented ones) with enough above them whose own proof, opened by
\* Proof, is completed, and the difficulty of each is measured by that proof, whatever
\* stands between proofs or in them.  At the cut of a task, of a project, miniF2F or
\* the workbook, the theorem whose proof is open is the one the task names.  And
\* a file is said to ship a proof when it proves its last statement, unless something
\* else is proved behind it.
TasksAreWellCut ==
    pc = "cut" =>
      /\ {[cut |-> t.cut, body |-> t.body] : t \in extract_tasks(file)} =
           {[cut |-> p[1], body |-> SubSeq(file, p[1] + 2, p[2] - 1)] :
              p \in {p \in Statements(file, Keyword \ {"Remark"}) \X DOMAIN file :
                    /\ p[1] - 1 >= MinPrefix /\ ~file[p[1]].indented
                    /\ EndsProof(file, p[1], p[2]) /\ file[p[2]].class \in {"Qed", "Defined"}
                    /\ file[p[1] + 1].class = "Proof"}}
      /\ \A rec \in Records(file) :
           LET b == build_task(file, rec)
           IN \E i \in DOMAIN file : OpenAt(file, i, b.cut + 1) /\ file[i].name = b.name
      /\ LET last == statement_prefix(file)
             Proved == \E e \in DOMAIN file : EndsProof(file, last, e) /\ file[e].class \in {"Qed", "Defined"}
         IN (\A j \in last + 1..Len(file) : file[j].class # "Goal")
              => (shipped_proof_status(file) = "qed" <=> Proved)

\* What a file must be for that: the prover accepts it.  Proofs are not nested, and
\* what ends a proof or is said in one stands in one.
Accepted(f) ==
  /\ f \in Seq({f[i] : i \in DOMAIN f})
  /\ Statements(f, Keyword) # {}
  /\ \A j \in DOMAIN f :
       LET InProof == \E i \in DOMAIN f : OpenAt(f, i, j)
       IN /\ f[j].class \in Opener => ~InProof
          /\ f[j].class \in Ender \cup {"Proof", "tactic"} => InProof

\* The code of a text: the words outside of its comments and strings.
Code(doc) == UNION {doc[i].code : i \in DOMAIN doc}

\* What begins a block of an audit, and what the last block lists: nothing if it
\* begins with "closed".
Headers == {"Axioms:", "closed"}

LastBlock(out) ==
  {out[i] : i \in {i \in DOMAIN out : \E h \in 1..i - 1 :
     out[h] = "Axioms:" /\ \A j \in h + 1..Len(out) : out[j] \notin Headers}}

\* What a text is made of: words, strings, and comments with any of these in them.
Word(w)     == [text |-> <<w>>, code |-> {w}]
Str(inside) == [text |-> <<Quote>> \o inside \o <<Quote>>, code |-> {}]
Com(inside) == [text |-> <<"(", "*">> \o inside \o <<"*", ")">>, code |-> {}]
Both(p, q)  == [text |-> p.text \o q.text, code |-> p.code \cup q.code]

\* The gate sees through comments and strings, however they are nested in each
\* other, and finds the end of the prefix whatever that contains: a candidate is
\* solved if and only if what the agent wrote has no forbidden word in its code,
\* the file and its audit compile, the audit prints a block, and the last one it
\* prints names no unsafe flag and not the theorem.
GateReadsStructure ==
    pc = "judge" =>
      \A code, code2 \in {0, 1} : \A out2 \in Outputs :
        (check(Candidate, Render(Above), theorem, code, code2, out2) = "solved") <=>
          /\ Code(written[Dir(Current, Set)]) \cap Forbidden = {}
          /\ code = 0 /\ code2 = 0
          /\ \E i \in DOMAIN out2 : out2[i] \in Headers
          /\ LastBlock(out2) \cap {"***", theorem} = {}

\* However often the replay was killed and restarted, and whatever earlier starts
\* left in its directories: a failure has one row, the row says which text the
\* attempt (this time or an earlier one, if it was taken up again) once had
\* committed, and a set is credited with a rescue only if a server with that set
\* completed this attempt's proof from there.
RescuesAreEarned ==
    /\ \A i, j \in DOMAIN rows : rows[i].attempt = rows[j].attempt => i = j
    /\ \A i \in DOMAIN rows :
         LET r == rows[i] IN
         /\ r.mined \in had[r.attempt] \cup {NoText}
         /\ \A s \in r.rescued : [attempt |-> r.attempt, set |-> s, text |-> r.mined] \in closed

\* docs/REPORT.md:511: "Every failure's final committed state was replayed".
FinalStateIsReplayed ==
    \A i \in DOMAIN rows : rows[i].mined = committed[rows[i].attempt]
=============================================================================
