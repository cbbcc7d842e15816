-------------------------------- MODULE Names --------------------------------
(***************************************************************************)
(* Names and patterns: the globs and domain rules of target.rs, the        *)
(* questions dns.rs reads and refuses, and the lines hosts.rs writes.      *)
(*                                                                         *)
(* A domain is the sequence of its labels, in lower case and with no empty *)
(* label; a pattern and a text are sequences of characters.                *)
(***************************************************************************)
EXTENDS Integers, Sequences, FiniteSets, FiniteSetsExt, SequencesExt

\* ------------------------------------------------------------------ globs

\* One step of the matcher: where it is in the pattern and in the text, and
\* where the last star could take one more character.
GlobStep(pattern, text, s) ==
  LET fits == s.p <= Len(pattern) /\ pattern[s.p] \in {"?", text[s.t]}
      star == s.p <= Len(pattern) /\ pattern[s.p] = "*"
  IN  CASE fits          -> [s EXCEPT !.p = @ + 1, !.t = @ + 1]
        [] ~fits /\ star -> [s EXCEPT !.p = @ + 1, !.star = s.p, !.from = s.t]
        [] ~fits /\ ~star /\ s.star > 0 ->
             [s EXCEPT !.p = s.star + 1, !.from = @ + 1, !.t = s.from + 1]
        [] OTHER -> [s EXCEPT !.failed = TRUE]

\* The matcher runs until the text is used up or nothing fits; what is then
\* left of the pattern may only be stars.
glob_match(pattern, text) ==
  LET Steps == (Len(pattern) + 1) * (Len(text) + 2) + 1
      run[n \in 0..Steps] ==
        IF n = 0 THEN [p |-> 1, t |-> 1, star |-> 0, from |-> 1, failed |-> FALSE]
        ELSE LET s == run[n - 1]
             IN  IF s.failed \/ s.t > Len(text) THEN s ELSE GlobStep(pattern, text, s)
      last == run[Steps]
  IN  ~last.failed /\ \A i \in last.p..Len(pattern) : pattern[i] = "*"

\* ---------------------------------------------------------------- domains

\* A rule covers its domain and every domain below it, on label boundaries.
domain_matches(rule, observed) == rule # <<>> /\ IsSuffix(rule, observed)

\* The resolver takes every leading "www" off an entry before it compares.
bare(domain) ==
  LET www == {k \in 0..(Len(domain) - 1) : \A i \in 1..k : domain[i] = "www"}
  IN  SubSeq(domain, Max({0} \cup www) + 1, Len(domain))

\* The entries that cover a name.  An entry that is only "www" is left.
covered(name, blocked) == {d \in blocked : IsSuffix(bare(d), name)}

\* --------------------------------------------------------- DNS questions

\* The largest message that is looked at.
MAX_MESSAGE == 512

\* A message: [size, response, questions, labels, pointer, whole, type].
\* The name of its question, or {} for what is forwarded unread.
question(message) ==
  IF \/ message.response \/ message.questions # 1
     \/ message.pointer \/ ~message.whole \/ message.labels = <<>>
  THEN {} ELSE {message.labels}

\* Refused when its name is covered, forwarded otherwise.
answer(message, blocked) ==
  IF message.size > MAX_MESSAGE \/ \A n \in question(message) : covered(n, blocked) = {}
  THEN "forward" ELSE "refuse"

\* ------------------------------------------------------------- hosts file

\* A line of the file: one of the two markers, a name Curfew wrote, or a
\* line of somebody else's.
BEGIN == [kind |-> "begin"]
END   == [kind |-> "end"]
Ours(domain)  == [kind |-> "ours", name |-> domain]
Other(line)   == [kind |-> "other", name |-> line]

\* The lines outside the markers.
strip(file) ==
  LET Marks(i) == {j \in 1..i : file[j] \in {BEGIN, END}}
      Within(i) == Marks(i) # {} /\ file[CHOOSE j \in Marks(i) : \A k \in Marks(i) : k <= j] = BEGIN
      kept == {i \in DOMAIN file : file[i] \notin {BEGIN, END} /\ ~Within(i)}
  IN  [n \in 1..Cardinality(kept) |->
         file[CHOOSE i \in kept : Cardinality({j \in kept : j < i}) = n - 1]]

\* A name and its www form, unless it is one.
Forms(domain) == IF Head(domain) = "www" THEN {domain} ELSE {domain, <<"www">> \o domain}

\* A mutant: the block is not taken out when nothing is blocked any more.
render_Leaves(file, domains) ==
  IF domains = {} THEN file
  ELSE strip(file) \o <<BEGIN>>
         \o SetToSeq({Ours(n) : n \in UNION {Forms(d) : d \in domains \ {<<>>}}}) \o <<END>>

\* The file with Curfew's block set to these domains; without one when
\* there are none.
render(file, domains) ==
  IF domains = {} THEN strip(file)
  ELSE strip(file) \o <<BEGIN>>
         \o SetToSeq({Ours(n) : n \in UNION {Forms(d) : d \in domains \ {<<>>}}}) \o <<END>>

\* The names a file blocks.
Sunk(file) == {file[i].name : i \in {i \in DOMAIN file : file[i].kind = "ours"}}
=============================================================================
