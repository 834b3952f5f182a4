------------------------------- MODULE CmdLine ------------------------------
(***************************************************************************)
(* The shell's command line (sh/parse.c) and the environment it expands    *)
(* (libc/environ.c).                                                       *)
(*                                                                         *)
(* A line is a sequence of characters; a word the parser has read is       *)
(* [text, id], id being its heap block.  environ is the array of entries   *)
(* [name, val] up to its NULL; cap is the number of pointers its block     *)
(* holds, the NULL included, and heap tells whether libc allocated it.     *)
(***************************************************************************)
EXTENDS Integers, Sequences, SequencesExt, FiniteSets, Binding, TLC

CONSTANTS MaxTokens,     \* SH_MAX_TOKENS, 64
          MaxArgs,       \* SH_MAX_ARGS, 16
          MaxStages,     \* SH_MAX_STAGES, 8
          MaxRedirects,  \* SH_MAX_REDIRECTS, 4
          MaxChain,      \* SH_MAX_CHAIN, 8
          WordBuf        \* SH_WORD_BUF, 256

Digits == {"1", "2"}
Letters == {"a", "b"}
Value(c) == IF c = "1" THEN 1 ELSE 2
IsSpace(c) == c = " "

----------------------------------------------------------------------------
(* environ.c *)

\* The place of the first entry of this name, 0 when there is none.
Entry(e, name) == SelectInSeq(e.entries, LAMBDA x : x.name = name)

getenv(e, name) ==
   IF Entry(e, name) = 0 THEN [set |-> FALSE, val |-> <<>>]
   ELSE [set |-> TRUE, val |-> e.entries[Entry(e, name)].val]

\* Mutant: room is only made when libc owns the array already.
ReserveHeapOnly(e, min) ==
   IF e.heap /\ min > e.cap THEN [e EXCEPT !.cap = min] ELSE e

\* The first change moves the kernel's array to the heap.
environ_reserve(e, min) ==
   LET count == Len(e.entries)
   IN IF ~e.heap THEN [e EXCEPT !.heap = TRUE, !.high = count + 1,
                                !.cap = IF min > count + 1 THEN min ELSE count + 1]
      ELSE IF min > e.cap THEN [e EXCEPT !.cap = min]
      ELSE e

\* high is the highest slot written since the array was last moved.
Touch(e, slot) == [e EXCEPT !.high = IF slot > @ THEN slot ELSE @]

environ_set_entry(e, name, val, overwrite) ==
   LET count == Len(e.entries)
       i == Entry(e, name)
       x == [name |-> name, val |-> val]
       fits == environ_reserve(e, count + 1)
       more == environ_reserve(e, count + 2)
   IN IF i # 0 /\ ~overwrite THEN e
      ELSE IF i # 0 THEN Touch([fits EXCEPT !.entries[i] = x], i)
      ELSE Touch([more EXCEPT !.entries = Append(@, x)], count + 2)

putenv(e, name, val) == environ_set_entry(e, name, val, TRUE)

setenv(e, name, val, overwrite) ==
   IF name = <<>> THEN e ELSE environ_set_entry(e, name, val, overwrite)

unsetenv(e, name) ==
   LET count == Len(e.entries)
       i == Entry(e, name)
       fits == environ_reserve(e, count + 1)
   IN IF name = <<>> \/ i = 0 THEN e
      ELSE Touch([fits EXCEPT !.entries = RemoveAt(@, i)], count)

----------------------------------------------------------------------------
(* parse.c: characters.  At(l, p) is the character at p, NUL at the end.   *)

NUL == "nul"
At(l, p) == IF p <= Len(l) THEN l[p] ELSE NUL

is_word_end(c) == c \in {NUL, " ", "|", ">", "<", "&"}

RECURSIVE Past(_, _, _)
Past(l, p, S) == IF At(l, p) \in S THEN Past(l, p + 1, S) ELSE p

RECURSIVE Number(_, _, _)
Number(l, p, n) == IF At(l, p) \in Digits THEN Number(l, p + 1, 10 * n + Value(l[p])) ELSE n

\* The name after a $, and where the scan goes on.
VarName(l, p) ==
   LET RECURSIVE Close(_)
       Close(q) == IF At(l, q) \in {NUL, "}"} THEN q ELSE Close(q + 1)
   IN
   With(IF At(l, p) = "{" THEN Close(p + 1) ELSE Past(l, p, Letters \cup Digits), LAMBDA e :
      IF At(l, p) = "{" THEN [name |-> SubSeq(l, p + 1, e - 1), next |-> IF At(l, e) = "}" THEN e + 1 ELSE e]
      ELSE [name |-> SubSeq(l, p, e - 1), next |-> e])

scan_word(l, p0, env) ==
   LET cut(t) == SubSeq(t, 1, IF Len(t) < WordBuf - 1 THEN Len(t) ELSE WordBuf - 1)
       RECURSIVE Go(_, _)
       Go(p, buf) ==
          IF is_word_end(At(l, p)) THEN [text |-> buf, next |-> p]
          ELSE IF l[p] # "$" THEN Go(p + 1, cut(Append(buf, l[p])))
          ELSE With(VarName(l, p + 1), LAMBDA v :
                  Go(v.next, IF v.name = <<>> THEN buf ELSE cut(buf \o getenv(env, v.name).val)))
   IN Go(p0, <<>>)

----------------------------------------------------------------------------
(* parse.c: tokens.  A result carries the words allocated and freed.       *)

NoWord == [text |-> <<>>, id |-> 0]
Token(type, word, fd, kind, dup) == [type |-> type, word |-> word, fd |-> fd, kind |-> kind, dup |-> dup]

\* The redirection whose < or > is at p: "n>file", "n>>file" or "n>&m".
Redirect(l, start, p) ==
   LET out == l[p] = ">"
       fd == IF p > start THEN Number(l, start, 0) ELSE IF out THEN 1 ELSE 0
       two == out /\ At(l, p + 1) = ">"
       amp == ~two /\ At(l, p + 1) = "&"
       e == Past(l, p + 2, Digits)
       dup == amp /\ e > p + 2
       kind == IF two THEN "append" ELSE IF dup THEN "dup" ELSE IF out THEN "trunc" ELSE "read"
   IN [tok |-> Token("redir", NoWord, fd, kind, IF dup THEN Number(l, p + 2, 0) ELSE -1),
       next |-> IF amp THEN e ELSE IF two THEN p + 2 ELSE p + 1]

Words(toks) == {toks[i].word.id : i \in DOMAIN toks} \ {0}

\* [ok, toks, n]: n counts the words allocated so far; a failure frees them all.
tokenize(l, env, n0) ==
   LET RECURSIVE Go(_, _, _)
       Go(p0, toks, n) ==
          LET p == Past(l, p0, {" "})
              d == Past(l, p, Digits)
          IN
          With(Redirect(l, p, d), LAMBDA r :
          With(scan_word(l, p, env), LAMBDA w :
          LET fail == [ok |-> FALSE, toks |-> <<>>, n |-> n, freed |-> Words(toks)]
          IN IF At(l, p) = NUL THEN [ok |-> TRUE, toks |-> toks, n |-> n, freed |-> {}]
             ELSE IF Len(toks) >= MaxTokens \/ l[p] = "&" THEN fail
             ELSE IF l[p] = "|" THEN Go(p + 1, Append(toks, Token("pipe", NoWord, 0, "", -1)), n)
             ELSE IF At(l, d) \in {">", "<"} THEN Go(r.next, Append(toks, r.tok), n)
             ELSE Go(w.next, Append(toks, Token("word", [text |-> w.text, id |-> n + 1], 0, "", -1)), n + 1)))
   IN Go(1, <<>>, n0)

NoStage == [argv |-> <<>>, redirects |-> <<>>]

\* [ok, job, left]: a word moves from its token to the job; left are the words
\* the tokens still own.
build_job(toks) ==
   LET RECURSIVE Go(_, _, _)
       Go(i, job, left) ==
          LET t == toks[i]
              k == Len(job)
              path == t.kind # "dup"
              r == [fd |-> t.fd, kind |-> t.kind, dup |-> t.dup, path |-> IF path THEN toks[i + 1].word ELSE NoWord]
              fail == [ok |-> FALSE, job |-> job, left |-> left]
          IN IF i > Len(toks) THEN [ok |-> TRUE, job |-> job, left |-> left]
             ELSE CASE t.type = "pipe" ->
                         IF k >= MaxStages THEN fail ELSE Go(i + 1, Append(job, NoStage), left)
                    [] t.type = "redir" ->
                         IF Len(job[k].redirects) >= MaxRedirects THEN fail
                         ELSE IF path /\ (i = Len(toks) \/ toks[i + 1].type # "word") THEN fail
                         ELSE Go(i + (IF path THEN 2 ELSE 1), [job EXCEPT ![k].redirects = Append(@, r)],
                                 left \ {r.path.id})
                    [] OTHER ->
                         IF Len(job[k].argv) >= MaxArgs THEN fail
                         ELSE Go(i + 1, [job EXCEPT ![k].argv = Append(@, t.word)], left \ {t.word.id})
   IN Go(1, <<NoStage>>, Words(toks))

\* What job_free frees.
JobWords(job) ==
   UNION {{s.argv[i].id : i \in DOMAIN s.argv} \cup {s.redirects[i].path.id : i \in DOMAIN s.redirects} :
            s \in ToSet(job)} \ {0}

\* [ok, job, n, freed]; freed is a sequence of sets, so that a word freed twice shows.
parse_segment(seg, env, n) ==
   With(tokenize(seg, env, n), LAMBDA t :
   With(build_job(t.toks), LAMBDA b :
      IF ~t.ok THEN [ok |-> FALSE, job |-> <<>>, n |-> t.n, freed |-> <<t.freed>>]
      ELSE IF t.toks = <<>> THEN [ok |-> FALSE, job |-> <<>>, n |-> t.n, freed |-> <<>>]
      ELSE IF ~b.ok THEN [ok |-> FALSE, job |-> <<>>, n |-> t.n, freed |-> <<b.left, JobWords(b.job)>>]
      ELSE [ok |-> TRUE, job |-> b.job, n |-> t.n, freed |-> <<>>]))

\* The line without blanks at its end.
RECURSIVE Trim(_)
Trim(l) == IF l # <<>> /\ IsSpace(Last(l)) THEN Trim(Front(l)) ELSE l

\* The segments between "&&", each pair taken from the left.
RECURSIVE Split(_)
Split(l) ==
   LET amps == {i \in 1..Len(l) - 1 : l[i] = "&" /\ l[i + 1] = "&"}
       i == CHOOSE i \in amps : \A j \in amps : i <= j
   IN IF amps = {} THEN <<l>> ELSE <<SubSeq(l, 1, i - 1)>> \o Split(SubSeq(l, i + 2, Len(l)))

\* [ret, background, jobs, n, freed]: 1 for an empty line, -1 for an error.
parse_line(raw, env) ==
   LET t == Trim(raw)
       bg == t # <<>> /\ Last(t) = "&"
       l == IF bg THEN Trim(Front(t)) ELSE t
   IN
   With(Split(l), LAMBDA segs :
   LET RECURSIVE Go(_, _, _)
       Go(i, jobs, n) ==
          With(parse_segment(segs[i], env, n), LAMBDA s :
          LET drop == [j \in DOMAIN jobs |-> JobWords(jobs[j])]
          IN IF i > Len(segs) THEN [ret |-> 0, background |-> bg, jobs |-> jobs, n |-> n, freed |-> <<>>]
             ELSE IF Len(jobs) >= MaxChain
             THEN [ret |-> -1, background |-> bg, jobs |-> <<>>, n |-> n, freed |-> drop]
             ELSE IF ~s.ok
             THEN [ret |-> -1, background |-> bg, jobs |-> <<>>, n |-> s.n, freed |-> s.freed \o drop]
             ELSE Go(i + 1, Append(jobs, s.job), s.n))
   IN IF l = <<>> THEN [ret |-> 1, background |-> bg, jobs |-> <<>>, n |-> 0, freed |-> <<>>]
      ELSE Go(1, <<>>, 0))

-----------------------------------------------------------------------------
(***************************************************************************)
(* Changes of the environment, and lines parsed under it.                  *)
(***************************************************************************)

CONSTANTS MaxChanges, MaxLine

VARIABLES env,      \* environ
          map,      \* the map it stands for
          changes,  \* the calls so far
          asked,    \* the job list the line was written from, or no such list
          line,
          parsed
vars == <<env, map, changes, asked, line, parsed>>

Names == {<<"a">>, <<"b">>, <<"a", "b">>}
Vals == {<<"1">>, <<"b", "a">>}
NoVal == [set |-> FALSE, val |-> <<>>]
Val(v) == [set |-> TRUE, val |-> v]
Result == [ret |-> 2, background |-> FALSE, jobs |-> <<>>, n |-> 0, freed |-> <<>>]

\* The kernel passes the variables of the parent.
Environs == {<<>>, <<[name |-> <<"a">>, val |-> <<"b", "a">>]>>,
             <<[name |-> <<"a", "b">>, val |-> <<"1">>], [name |-> <<"b">>, val |-> <<"1">>]>>}

\* What a caller means: lists of jobs, stages, words and redirections.
Arg(src, text) == [src |-> src, text |-> text]
Args == {Arg(<<"a">>, <<"a">>), Arg(<<"1">>, <<"1">>), Arg(<<"b", "$", "{", "a", "}", "2">>, <<"b", "b", "a", "2">>)}
Redirs == {[src |-> <<">">>, fd |-> 1, kind |-> "trunc", dup |-> -1, path |-> TRUE],
           [src |-> <<"2", ">", ">">>, fd |-> 2, kind |-> "append", dup |-> -1, path |-> TRUE],
           [src |-> <<"<">>, fd |-> 0, kind |-> "read", dup |-> -1, path |-> TRUE],
           [src |-> <<"2", ">", "&", "1">>, fd |-> 2, kind |-> "dup", dup |-> 1, path |-> FALSE]}
Stages == {[args |-> a, redirs |-> r] : a \in BoundedSeq(Args, 2) \ {<<>>}, r \in BoundedSeq(Redirs, 1)}
Plain == {s \in Stages : Len(s.args) = 1 /\ s.redirs = <<>>}
Lists == {[jobs |-> j, bg |-> b] : b \in BOOLEAN,
            j \in {<<<<s>>>> : s \in Stages} \cup {<<<<s, t>>>> : s \in Stages, t \in Plain}
                  \cup {<<<<t>>, <<s>>>> : s \in Stages, t \in Plain}}

Join(parts, sep) == FlattenSeq([i \in DOMAIN parts |-> IF i = 1 THEN parts[1] ELSE sep \o parts[i]])
StageText(s, gap) ==
   Join([i \in DOMAIN s.args |-> s.args[i].src], <<" ">>)
   \o FlattenSeq([i \in DOMAIN s.redirs |->
        <<" ">> \o s.redirs[i].src \o (IF s.redirs[i].path THEN gap \o <<"b">> ELSE <<>>)])
ListText(list, gap) ==
   Join([i \in DOMAIN list.jobs |-> Join([k \in DOMAIN list.jobs[i] |-> StageText(list.jobs[i][k], gap)],
                                         gap \o <<"|">> \o gap)],
        gap \o <<"&", "&">> \o gap)
   \o (IF list.bg THEN gap \o <<"&">> ELSE <<>>) \o gap

Chars == {"a", "1", " ", "|", ">", "&", "$", "{"}
NoList == [jobs |-> <<>>, bg |-> FALSE]

Init == /\ \E e \in Environs :
              /\ env = [entries |-> e, heap |-> FALSE, cap |-> Len(e) + 1, high |-> Len(e) + 1]
              /\ map = [n \in Names |-> getenv(env, n)]
        /\ changes = 0 /\ asked = NoList /\ line = <<>> /\ parsed = Result

Change(new, newMap) ==
   /\ changes < MaxChanges /\ parsed.ret = 2
   /\ changes' = changes + 1
   /\ env' = new /\ map' = newMap
   /\ UNCHANGED <<asked, line, parsed>>

Setenv(n, v, over) == Change(setenv(env, n, v, over), IF over \/ ~map[n].set THEN [map EXCEPT ![n] = Val(v)] ELSE map)
Putenv(n, v) == Change(putenv(env, n, v), [map EXCEPT ![n] = Val(v)])
Unsetenv(n) == Change(unsetenv(env, n), [map EXCEPT ![n] = NoVal])

Parse(l, list) ==
   /\ changes = 0 /\ parsed.ret = 2 /\ map[<<"a">>].set
   /\ line' = l /\ asked' = list
   /\ parsed' = parse_line(l, env)
   /\ UNCHANGED <<env, map, changes>>

ParseAny == \E l \in BoundedSeq(Chars, MaxLine) : Parse(l, NoList)
ParseList == \E list \in Lists, gap \in {<<>>, <<" ">>} : Parse(ListText(list, gap), list)

Next == \/ \E n \in Names, v \in Vals, over \in BOOLEAN : Setenv(n, v, over)
        \/ \E n \in Names, v \in Vals : Putenv(n, v)
        \/ \E n \in Names : Unsetenv(n)
        \/ ParseAny
        \/ ParseList
Spec == Init /\ [][Next]_vars

\* However setenv, putenv and unsetenv are mixed, getenv answers as the map of
\* the changes would, no name has two entries, and no slot past the array's
\* block is ever written, the terminating NULL included.
EnvIsMap ==
   /\ \A n \in Names : getenv(env, n) = map[n]
   /\ \A i, j \in DOMAIN env.entries : env.entries[i].name = env.entries[j].name => i = j
   /\ env.high <= env.cap /\ Len(env.entries) < env.cap

\* A line written from a list of jobs is parsed into that list, whatever the
\* spacing.  Every word the parser allocated for any line is either owned by one
\* place of the list or freed once, and an error keeps none.
ParseFaithful ==
   LET owned == [j \in DOMAIN parsed.jobs |-> JobWords(parsed.jobs[j])]
       all == owned \o parsed.freed
       stage(s, t) ==
          /\ [i \in DOMAIN s.argv |-> s.argv[i].text] = [i \in DOMAIN t.args |-> t.args[i].text]
          /\ Len(s.redirects) = Len(t.redirs)
          /\ \A i \in DOMAIN s.redirects :
                LET r == s.redirects[i]
                    q == t.redirs[i]
                IN <<r.fd, r.kind, r.dup, r.path.text>> = <<q.fd, q.kind, q.dup, IF q.path THEN <<"b">> ELSE <<>>>>
   IN parsed.ret # 2 =>
        /\ UNION ToSet(all) = 1..parsed.n
        /\ \A i, j \in DOMAIN all : i # j => all[i] \cap all[j] = {}
        /\ parsed.ret # 0 => parsed.jobs = <<>>
        /\ asked # NoList =>
             /\ parsed.ret = 0 /\ parsed.background = asked.bg
             /\ Len(parsed.jobs) = Len(asked.jobs)
             /\ \A j \in DOMAIN asked.jobs :
                  /\ Len(parsed.jobs[j]) = Len(asked.jobs[j])
                  /\ \A k \in DOMAIN asked.jobs[j] : stage(parsed.jobs[j][k], asked.jobs[j][k])
=============================================================================
