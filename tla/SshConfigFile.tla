---------------------------- MODULE SshConfigFile ----------------------------
(***************************************************************************)
(* OpenSSH's configuration file as proto-ssh reads it                      *)
(* (crates/proto-ssh/src/ssh_config.rs): blocks of options, each under a   *)
(* condition, of which the first value that applies wins.                  *)
(*                                                                         *)
(* A line is what split_line makes of it.  A name and a pattern are        *)
(* sequences of characters.                                                *)
(***************************************************************************)
EXTENDS Naturals, Sequences, FiniteSets

CONSTANTS
  ScriptLines,   \* the lines a file may be made of
  MaxScript,     \* bound: lines in a file
  Asked          \* the hosts and users it is asked about

HostLine(patterns) == [type |-> "host", patterns |-> patterns]
MatchLine(criteria) == [type |-> "match", criteria |-> criteria]
IncludeLine(files) == [type |-> "include", files |-> files]
Option(keyword, value) == [type |-> "option", keyword |-> keyword, value |-> value]

Pattern(glob, negated) == [glob |-> glob, negated |-> negated]
Criterion(kind, patterns) == [kind |-> kind, patterns |-> patterns]

\* What is known when the file is asked: the user there, and the one here, may
\* not be.
Context(host, user, local) == [host |-> host, user |-> user, local |-> local]
Nobody == <<>>

-----------------------------------------------------------------------------
(* Patterns                                                                *)

\* glob_match: on a mismatch the last star takes one character more.
GlobMatch(pattern, name) ==
  LET RECURSIVE from(_, _, _, _)
      from(p, n, star, resume) ==
        IF n > Len(name) THEN \A i \in p .. Len(pattern) : pattern[i] = "*"
        ELSE IF p <= Len(pattern) /\ pattern[p] \in {"?", name[n]} THEN from(p + 1, n + 1, star, resume)
        ELSE IF p <= Len(pattern) /\ pattern[p] = "*" THEN from(p + 1, n, p, n)
        ELSE IF star # 0 THEN from(star + 1, resume + 1, star, resume + 1)
        ELSE FALSE
  IN  from(1, 1, 0, 0)

\* A negated pattern that matches settles it, whatever else does.
PatternsMatch(patterns, name) ==
  /\ \E i \in DOMAIN patterns : GlobMatch(patterns[i].glob, name)
  /\ \A i \in DOMAIN patterns : patterns[i].negated => ~GlobMatch(patterns[i].glob, name)

-----------------------------------------------------------------------------
(* Conditions                                                              *)

Global == [type |-> "global"]

\* A criterion that cannot be evaluated does not hold.
Satisfied(criterion, context) ==
  CASE criterion.kind = "all" -> TRUE
    [] criterion.kind \in {"host", "originalhost"} -> PatternsMatch(criterion.patterns, context.host)
    [] criterion.kind = "user" ->
         context.user # Nobody /\ PatternsMatch(criterion.patterns, context.user)
    [] criterion.kind = "localuser" ->
         context.local # Nobody /\ PatternsMatch(criterion.patterns, context.local)
    [] OTHER -> FALSE

Applies(condition, context) ==
  CASE condition.type = "global" -> TRUE
    [] condition.type = "host" -> PatternsMatch(condition.patterns, context.host)
    [] condition.type = "match" ->
         /\ condition.criteria # <<>>
         /\ \A i \in DOMAIN condition.criteria : Satisfied(condition.criteria[i], context)

-----------------------------------------------------------------------------
(* The file                                                                *)

MaxIncludeDepth == 16

Block(condition, options) == [condition |-> condition, options |-> options]

\* The blocks of a file, those of the files it includes among them.  A block is
\* closed by the next Host, Match or Include, and after an Include there is no
\* condition until the next one is given.
RECURSIVE BlocksOf(_, _)
BlocksOf(lines, depth) ==
  LET RECURSIVE read(_, _, _)
      RECURSIVE spliced(_)
      spliced(files) == IF files = <<>> THEN <<>>
                        ELSE BlocksOf(Head(files), depth + 1) \o spliced(Tail(files))
      read(i, current, done) ==
        IF i > Len(lines) THEN Append(done, current)
        ELSE LET line == lines[i]
                 closed == Append(done, current)
             IN  CASE line.type \in {"host", "match"} -> read(i + 1, Block(line, <<>>), closed)
                   [] line.type = "include" /\ depth >= MaxIncludeDepth -> read(i + 1, current, done)
                   [] line.type = "include" ->
                        read(i + 1, Block(Global, <<>>), closed \o spliced(line.files))
                   [] OTHER ->
                        read(i + 1, [current EXCEPT !.options = Append(@, line)], done)
  IN  read(1, Block(Global, <<>>), <<>>)

-----------------------------------------------------------------------------
(* Asking it                                                               *)

NoValues == [values |-> {}, identities |-> <<>>]

\* Mutant: a value that was given before is replaced.
LastWins(result, option) ==
  IF option.keyword = "identityfile"
  THEN [result EXCEPT !.identities = Append(@, option.value)]
  ELSE [result EXCEPT !.values = {v \in @ : v.keyword # option.keyword} \cup {option}]

\* The first value stays; identities accumulate.
Take(result, option) ==
  IF option.keyword = "identityfile"
  THEN [result EXCEPT !.identities = Append(@, option.value)]
  ELSE IF \E v \in result.values : v.keyword = option.keyword THEN result
  ELSE [result EXCEPT !.values = @ \cup {option}]

QueryOf(blocks, context) ==
  LET all == [b \in 1 .. Len(blocks) |->
                IF Applies(blocks[b].condition, context) THEN blocks[b].options ELSE <<>>]
      RECURSIVE over(_, _)
      over(b, result) ==
        LET RECURSIVE taking(_, _)
            taking(k, r) == IF k > Len(all[b]) THEN r ELSE taking(k + 1, Take(r, all[b][k]))
        IN  IF b > Len(blocks) THEN result ELSE over(b + 1, taking(1, result))
  IN  over(1, NoValues)

Query(lines, context) == QueryOf(BlocksOf(lines, 0), context)

VARIABLE script     \* the lines of the file, as far as it is written

ScriptInit == script = <<>>

ScriptNext ==
  \E line \in ScriptLines :
    /\ Len(script) < MaxScript
    /\ script' = Append(script, line)

-----------------------------------------------------------------------------
(* What reading it must come to                                            *)

\* A pattern matches a name when the name can be cut into one piece for each of
\* its characters: anything for a star, and one character for the others.
GlobMeans(pattern, name) ==
  \E cut \in [0 .. Len(pattern) -> 0 .. Len(name)] :
    /\ cut[0] = 0 /\ cut[Len(pattern)] = Len(name)
    /\ \A i \in DOMAIN pattern :
         \/ pattern[i] = "*" /\ cut[i - 1] <= cut[i]
         \/ cut[i] = cut[i - 1] + 1 /\ pattern[i] \in {"?", name[cut[i]]}

\* The condition a line of a file stands under.
ConditionOf(lines, i) ==
  LET above == {j \in 1 .. i - 1 : lines[j].type \in {"host", "match"}}
  IN  IF above = {} THEN Global ELSE lines[CHOOSE j \in above : \A k \in above : k <= j]

\* The options of a file that apply, in the order they are read, an included
\* file's where it is included and under the condition it is included under.
RECURSIVE OptionsFor(_, _)
OptionsFor(lines, context) ==
  LET RECURSIVE from(_)
      RECURSIVE included(_)
      included(files) == IF files = <<>> THEN <<>>
                         ELSE OptionsFor(Head(files), context) \o included(Tail(files))
      from(i) ==
        IF i > Len(lines) THEN <<>>
        ELSE (CASE lines[i].type = "include" -> included(lines[i].files)
                [] ~Applies(ConditionOf(lines, i), context) -> <<>>
                [] lines[i].type = "include" -> included(lines[i].files)
                [] lines[i].type = "option" -> <<lines[i]>>
                [] OTHER -> <<>>)
             \o from(i + 1)
  IN  from(1)

\* What the conditions of a file mean.
Means(patterns, name) ==
  /\ \E i \in DOMAIN patterns : GlobMeans(patterns[i].glob, name)
  /\ \A i \in DOMAIN patterns : GlobMeans(patterns[i].glob, name) => ~patterns[i].negated

\* Each keyword has the first value given for this host and user, across blocks
\* and included files, and every identity is kept, in its place.
FirstValuesOf(lines, context) ==
  LET said == OptionsFor(lines, context)
      result == Query(lines, context)
      first(k) == \A j \in 1 .. k - 1 : said[j].keyword # said[k].keyword
      keys == SelectSeq(said, LAMBDA o : o.keyword = "identityfile")
  IN  /\ result.values = {said[k] : k \in {i \in DOMAIN said :
                            said[i].keyword # "identityfile" /\ first(i)}}
      /\ result.identities = [k \in DOMAIN keys |-> keys[k].value]

IncludesNothingUnderACondition(lines) ==
  \A i \in DOMAIN lines : lines[i].type = "include" => ConditionOf(lines, i) = Global

\* The first value wins wherever it stands, and a block is for the names its patterns
\* mean (ssh_config.rs, "The rule everyone gets wrong"); but for files that include
\* something under a Host or a Match, of which only the blocks are checked.
FirstValueWins ==
  /\ \A i \in DOMAIN script, context \in Asked :
       script[i].type = "host" =>
         (Applies(script[i], context) <=> Means(script[i].patterns, context.host))
  /\ IncludesNothingUnderACondition(script) =>
       \A context \in Asked : FirstValuesOf(script, context)

-----------------------------------------------------------------------------
(* What comments promise and the code does not keep.                       *)

\* ssh_config.rs:293: "An include is spliced in where it appears".  What follows
\* it is read as if it stood under no condition, and so is what it includes.
FirstValueWinsEverywhere == \A context \in Asked : FirstValuesOf(script, context)
=============================================================================
