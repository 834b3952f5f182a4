------------------------------- MODULE Shell -------------------------------
(***************************************************************************)
(* The shell: from a line of tokens to processes (userspace/sh: parse.c,   *)
(* exec.c, redir.c, builtins.c).                                           *)
(*                                                                         *)
(* A line is a sequence of tokens, "word", "cd" (a builtin), "|", "<", ">",*)
(* ">&" (a dup), "&&" and "&"; text is left out.  The shell is one thread. *)
(* Every call it makes that the kernel may refuse may be refused.  Its     *)
(* processes run on their own: one that reads a pipe ends when the pipe is *)
(* at its end, that is when nobody holds its write end.                    *)
(***************************************************************************)
EXTENDS Integers, Sequences, SequencesExt, FiniteSets, FiniteSetsExt

CONSTANTS Lines,         \* lines the user types
          MaxStages,     \* SH_MAX_STAGES
          MaxChain,      \* SH_MAX_CHAIN
          MaxRedirects,  \* SH_MAX_REDIRECTS
          MaxBgJobs,     \* SH_MAX_BG_JOBS
          MaxLines       \* lines typed

ShellGroup == 0          \* the process group of the shell itself

VARIABLES shell,   \* what the shell is doing: [at, list, bg, job, stage, pids, failed, files]
          held,    \* handles open in the shell
          proc,    \* the processes: pid -> [run, ends], ends: pipe ends and files they hold
          jobs,    \* bg_jobs: for each slot the pids of its job, <<>> when not in use
          fg,      \* foreground process group of the tty
          typed    \* lines typed so far

shellVars == <<shell, held, proc, jobs, fg, typed>>

AtPrompt == [at |-> "prompt", list |-> <<>>, bg |-> FALSE, job |-> 1, stage |-> 1,
             pids |-> <<>>, failed |-> FALSE]

ShellInit ==
  /\ shell = AtPrompt
  /\ held = {} /\ proc = <<>> /\ fg = ShellGroup /\ typed = 0
  /\ jobs = [i \in 1 .. MaxBgJobs |-> <<>>]

-----------------------------------------------------------------------------
(* Parsing *)

NoStage == [argc |-> 0, builtin |-> FALSE, redirects |-> <<>>]

\* one iteration of build_job; path: a file redirect still lacks its word
BuildToken(b, tok) ==
  LET n  == Len(b.stages)
      st == b.stages[n]
      Put(x) == [b EXCEPT !.stages[n] = x, !.path = FALSE]
  IN  CASE ~b.ok -> b
        [] b.path /\ tok \notin {"word", "cd"} -> [b EXCEPT !.ok = FALSE]
        [] b.path -> [b EXCEPT !.path = FALSE]
        [] tok = "&" -> [b EXCEPT !.ok = FALSE]              \* tokenize
        [] tok = "|" /\ n >= MaxStages -> [b EXCEPT !.ok = FALSE]
        [] tok = "|" -> [b EXCEPT !.stages = Append(@, NoStage)]
        [] tok \in {"<", ">", ">&"} /\ Len(st.redirects) >= MaxRedirects -> [b EXCEPT !.ok = FALSE]
        [] tok \in {"<", ">", ">&"} ->
             [Put([st EXCEPT !.redirects = Append(@, tok)]) EXCEPT !.path = tok # ">&"]
        [] OTHER -> Put([st EXCEPT !.argc = @ + 1, !.builtin = @ \/ (tok = "cd" /\ st.argc = 0)])

\* parse_segment: a pipeline, or <<>> on a syntax error
ParseSegment(seg) ==
  LET b == FoldLeft(BuildToken, [stages |-> <<NoStage>>, path |-> FALSE, ok |-> TRUE], seg)
  IN  IF seg = <<>> \/ ~b.ok \/ b.path THEN <<>> ELSE b.stages

\* the segments between the "&&" of a line
Segments(line) ==
  FoldLeft(LAMBDA segs, tok : IF tok = "&&" THEN Append(segs, <<>>)
                              ELSE [segs EXCEPT ![Len(segs)] = Append(@, tok)],
           << <<>> >>, line)

\* parse_line: the pipelines of a line, none if it is empty or has a syntax error
ParseLine(line) ==
  LET bg   == line # <<>> /\ Last(line) = "&"
      body == IF bg THEN Front(line) ELSE line
      list == [i \in 1 .. Len(Segments(body)) |-> ParseSegment(Segments(body)[i])]
  IN  [bg |-> bg,
       list |-> IF body = <<>> \/ Len(list) > MaxChain \/ <<>> \in ToSet(list) THEN <<>> ELSE list]

-----------------------------------------------------------------------------
(* Running a line *)

Job == shell.list[shell.job]
Total == Len(Job)

\* sh_reap_background_jobs
Done(p) == proc[p].run = "exited"
Reapable == {i \in 1 .. MaxBgJobs : jobs[i] # <<>> /\ \A p \in ToSet(jobs[i]) : Done(p)}

\* the end of sh_run_line
EndLine ==
  /\ shell.at = "end"
  /\ held' = held \ UNION {{<<"proc", p>> : p \in ToSet(jobs[i])} : i \in Reapable}
  /\ jobs' = [i \in 1 .. MaxBgJobs |-> IF i \in Reapable THEN <<>> ELSE jobs[i]]
  /\ shell' = AtPrompt
  /\ UNCHANGED <<proc, fg, typed>>

\* main and sh_run_line; a chain in the background is left to its own thread,
\* which runs the same pipelines without taking the tty (not modelled)
ReadLine(line) ==
  /\ shell.at = "prompt" /\ typed < MaxLines
  /\ typed' = typed + 1
  /\ LET p == ParseLine(line)
     IN  shell' = [AtPrompt EXCEPT !.at = IF p.list = <<>> THEN "end" ELSE "job",
                                   !.list = p.list, !.bg = p.bg]
  /\ UNCHANGED <<held, proc, jobs, fg>>

\* run_job_list and run_job: what follows a job that ended with this status
After(status) ==
  shell' = IF status # 0 \/ shell.job = Len(shell.list)
           THEN [shell EXCEPT !.at = "end"]
           ELSE [AtPrompt EXCEPT !.at = "job", !.list = shell.list, !.bg = shell.bg,
                                 !.job = shell.job + 1]

RunBuiltin ==
  /\ shell.at = "job"
  /\ Total = 1 /\ Job[1].redirects = <<>> /\ Job[1].builtin /\ ~shell.bg
  /\ \E status \in {0, 1} : After(status)
  /\ UNCHANGED <<held, proc, jobs, fg, typed>>

\* the handles of the job being run: ends of its i-th pipe, file of a redirect
ReadEnd(i) == <<"r", typed, shell.job, i>>
WriteEnd(i) == <<"w", typed, shell.job, i>>
File(i, r) == <<"file", typed, shell.job, i, r>>

\* spawn_stages: the pipes between the stages, of which n can be created
CreatePipes ==
  /\ shell.at = "job"
  /\ ~(Total = 1 /\ Job[1].redirects = <<>> /\ Job[1].builtin /\ ~shell.bg)
  /\ \E n \in 0 .. Total - 1 :
       \/ /\ n = Total - 1
          /\ held' = held \cup UNION {{ReadEnd(i), WriteEnd(i)} : i \in 1 .. n}
          /\ shell' = [shell EXCEPT !.at = "spawn"]
       \/ /\ n < Total - 1               \* the n pipes are closed again
          /\ After(1)
          /\ UNCHANGED held
  /\ UNCHANGED <<proc, jobs, fg, typed>>

\* the handles of stage i for fd 0, 1 and 2 after the redirects that were resolved
StdHandles(i, st, opened) ==
  LET wired == <<IF i = 1 THEN {} ELSE {ReadEnd(i - 1)},
                 IF i = Total THEN {} ELSE {WriteEnd(i)}, {}>>
      Redirect(cur, r) ==
        CASE st.redirects[r] = ">&" -> [cur EXCEPT ![3] = cur[2]]      \* 2>&1
          [] st.redirects[r] = "<" -> IF r \in opened THEN [cur EXCEPT ![1] = {File(i, r)}] ELSE cur
          [] OTHER -> IF r \in opened THEN [cur EXCEPT ![2] = {File(i, r)}] ELSE cur
  IN  FoldLeft(Redirect, wired, [r \in 1 .. Len(st.redirects) |-> r])

FreshPid == Max(DOMAIN proc \cup {0}) + 1

\* spawn_stages: one iteration of its loop
SpawnStage ==
  /\ shell.at = "spawn"
  /\ LET i  == shell.stage
         st == Job[i]
         fileRedirects == {r \in 1 .. Len(st.redirects) : st.redirects[r] # ">&"}
     IN  \/ /\ shell' = [shell EXCEPT !.at = "close", !.failed = TRUE]   \* no such command
            /\ UNCHANGED <<held, proc>>
         \/ \E opened \in SUBSET fileRedirects :
              LET cur == StdHandles(i, st, opened)
              IN  /\ held' = held \cup {File(i, r) : r \in opened} \cup {<<"proc", FreshPid>>}
                  /\ proc' = Append(proc, [run |-> "suspended", ends |-> cur[1] \cup cur[2] \cup cur[3]])
                  /\ shell' = [shell EXCEPT !.pids = Append(@, FreshPid),
                                            !.failed = opened # fileRedirects,
                                            !.stage = i + 1,
                                            !.at = IF opened # fileRedirects \/ i = Total
                                                   THEN "close" ELSE "spawn"]
  /\ UNCHANGED <<jobs, fg, typed>>

\* sys_issue_signal(pid, SIGKILL)
Kill(ps) == [p \in DOMAIN proc |-> IF p \in ps /\ proc[p].run # "exited"
                                   THEN [proc[p] EXCEPT !.run = "killed"] ELSE proc[p]]

Handles(ps) == {<<"proc", p>> : p \in ps}

\* Mutant: the stages of a job that could not be spawned are closed, not killed.
CloseEndsNoKill ==
  /\ shell.at = "close"
  /\ LET mine == ToSet(shell.pids)
         left == {h \in held : h[1] = "proc"}
     IN  /\ held' = IF shell.failed THEN left \ Handles(mine) ELSE left
         /\ IF shell.failed THEN After(1) ELSE shell' = [shell EXCEPT !.at = "resume"]
  /\ UNCHANGED <<proc, jobs, fg, typed>>

\* spawn_stages: its end, with the clean-up of a job that could not be spawned
CloseEnds ==
  /\ shell.at = "close"
  /\ LET mine == ToSet(shell.pids)
         left == {h \in held : h[1] = "proc"}
     IN  IF shell.failed
         THEN /\ held' = left \ Handles(mine)
              /\ proc' = Kill(mine)
              /\ After(1)
         ELSE /\ held' = left
              /\ UNCHANGED proc
              /\ shell' = [shell EXCEPT !.at = "resume"]
  /\ UNCHANGED <<jobs, fg, typed>>

Resume(ps) == [p \in DOMAIN proc |-> IF p \in ps /\ proc[p].run = "suspended"
                                     THEN [proc[p] EXCEPT !.run = "running"] ELSE proc[p]]

\* exec_job_fg: the job takes the tty and runs
ResumeForeground ==
  /\ shell.at = "resume" /\ ~(shell.bg /\ Len(shell.list) = 1)
  /\ fg' = shell.pids[1]
  /\ proc' = Resume(ToSet(shell.pids))
  /\ shell' = [shell EXCEPT !.at = "wait", !.stage = 1]
  /\ UNCHANGED <<held, jobs, typed>>

\* exec_job_fg: sys_wait on one stage after the other
WaitStage ==
  /\ shell.at = "wait" /\ shell.stage <= Total
  /\ Done(shell.pids[shell.stage])
  /\ shell' = [shell EXCEPT !.stage = @ + 1]
  /\ UNCHANGED <<held, proc, jobs, fg, typed>>

\* exec_job_fg after the waits
FinishForeground ==
  /\ shell.at = "wait" /\ shell.stage > Total
  /\ fg' = ShellGroup
  /\ held' = held \ Handles(ToSet(shell.pids))
  /\ \E status \in {0, 1} : After(status)
  /\ UNCHANGED <<proc, jobs, typed>>

FreeSlots == {i \in 1 .. MaxBgJobs : jobs[i] = <<>>}

\* exec_job_bg
ResumeBackground ==
  /\ shell.at = "resume" /\ shell.bg /\ Len(shell.list) = 1
  /\ LET mine == ToSet(shell.pids)
     IN  \/ /\ FreeSlots # {}
            /\ jobs' = [jobs EXCEPT ![Min(FreeSlots)] = shell.pids]
            /\ proc' = Resume(mine)
            /\ UNCHANGED held
         \/ /\ FreeSlots = {}
            /\ proc' = Kill(mine)
            /\ held' = held \ Handles(mine)
            /\ UNCHANGED jobs
  /\ shell' = [shell EXCEPT !.at = "end"]
  /\ UNCHANGED <<fg, typed>>

\* the pipes p reads from; a pipe is at its end when nobody holds its write end
Reads(p) == {h \in proc[p].ends : h[1] = "r"}
AtEof(h) ==
  LET w == [h EXCEPT ![1] = "w"]
  IN  w \notin held /\ \A q \in DOMAIN proc : w \notin proc[q].ends

\* a process ends on its own, or because it was killed
ProcExit(p) ==
  /\ \/ proc[p].run = "killed"
     \/ proc[p].run = "running" /\ \A h \in Reads(p) : AtEof(h)
  /\ proc' = [proc EXCEPT ![p] = [run |-> "exited", ends |-> {}]]
  /\ UNCHANGED <<shell, held, jobs, fg, typed>>

ShellStep ==
  \/ EndLine \/ RunBuiltin \/ CreatePipes \/ SpawnStage \/ CloseEnds
  \/ ResumeForeground \/ WaitStage \/ FinishForeground \/ ResumeBackground

ShellNext ==
  \/ \E line \in Lines : ReadLine(line)
  \/ ShellStep
  \/ \E p \in DOMAIN proc : ProcExit(p)

-----------------------------------------------------------------------------
(* Properties *)

\* Whatever call of spawn_stages was refused, at the prompt the shell has the tty
\* back and holds no handle but those of its background jobs, and every process
\* that has not ended or been killed belongs to one of them.
PromptIsClean ==
  shell.at = "prompt" =>
    LET tracked == UNION {ToSet(jobs[i]) : i \in 1 .. MaxBgJobs}
    IN  /\ fg = ShellGroup
        /\ held = Handles(tracked)
        /\ \A p \in DOMAIN proc : proc[p].run \in {"suspended", "running"} => p \in tracked
=============================================================================
