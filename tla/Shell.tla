------------------------------- MODULE Shell -------------------------------
(***************************************************************************)
(* The shell (sh.c): a line is parsed into a command tree by recursive     *)
(* descent, and a forked child walks the tree with runcmd, which forks,    *)
(* waits, and rearranges file descriptors with pipe, dup, close and open   *)
(* until it execs a program.                                               *)
(*                                                                         *)
(* A line is a sequence of characters, of which the parser tells apart     *)
(* only the symbols, white space and the rest ("a").  A word is known by   *)
(* where it starts, the pointer q that gettoken returns, so two words of a *)
(* line never get confused.  A command of the tree is known by the path to *)
(* it from the root (1: cmd or left, 2: right), and the pipe it makes has  *)
(* the same name.                                                          *)
(*                                                                         *)
(* A program reads its standard input to the end and exits; reading a pipe *)
(* ends when no process holds its write end (pipe.c:101-124).  Steps of    *)
(* runcmd between two system calls that others can observe are one step.   *)
(***************************************************************************)
EXTENDS Naturals, Sequences, FiniteSets

CONSTANTS
  Lines,        \* the nth line the user types is one of Lines[n]
  MAXARGS,      \* sh.c:14: slots of argv, the last one for the 0
  NFD,          \* NOFILE: descriptors of a process
  NSHELL        \* processes the table has room for beside init and the shell

ASSUME ShellConstants ==
  /\ MAXARGS \in Nat \ {0}
  /\ NFD \in Nat /\ NFD >= 5
  /\ NSHELL \in Nat

VARIABLES
  lines,        \* the lines typed so far; main's buf holds the last
  toks,         \* the tokens of the last one, as gettoken finds them
  trees,        \* what parsecmd made of each
  job,          \* pid -> process
  starved       \* history: a fork1 found no free process

shellVars == <<lines, toks, trees, job, starved>>

Jobs == 1 .. NSHELL
TheShell == 0
InitPid == NSHELL + 1

-----------------------------------------------------------------------------
(* Tokens *)

Nul == "0"
Space == {" "}
Symbols == {"<", "|", ">", "&", ";", "(", ")"}

CharAt(l, s) == IF s <= Len(l) THEN l[s] ELSE Nul

\* The first position of l from s on whose character is in C, or its end.
Find(l, s, C) == CHOOSE k \in s .. Len(l) + 1 :
                   /\ CharAt(l, k) \in C \cup {Nul}
                   /\ \A i \in s .. k - 1 : l[i] \notin C

\* The token that starts at q: its kind, its start and its end.
gettoken(l, q) ==
  IF l[q] = ">" /\ CharAt(l, q + 1) = ">" THEN [tok |-> "+", q |-> q, eq |-> q + 2]
  ELSE IF l[q] \in Symbols THEN [tok |-> l[q], q |-> q, eq |-> q + 1]
  ELSE [tok |-> "a", q |-> q, eq |-> Find(l, q, Symbols \cup Space)]

\* The tokens of l, white space skipped before each.
RECURSIVE Tokens(_, _)
Tokens(l, s) ==
  LET q == Find(l, s, {c \in {l[k] : k \in DOMAIN l} : c \notin Space})
      t == gettoken(l, q)
  IN  IF q > Len(l) THEN <<>> ELSE <<t>> \o Tokens(l, t.eq)

TokAt(s) == IF s <= Len(toks) THEN toks[s].tok ELSE Nul
peek(s, kinds) == TokAt(s) \in kinds

-----------------------------------------------------------------------------
(* Parsing.  A parse of a part of the line is [cmd, s]: the command and the
   position after it, or Panic.  The parsers that call each other are the
   parts of one function P of what is parsed and where it starts. *)

execcmd(argv) == [type |-> "EXEC", argv |-> argv]
redircmd(cmd, q, fd) == [type |-> "REDIR", cmd |-> cmd, file |-> q, fd |-> fd]
pipecmd(left, right) == [type |-> "PIPE", left |-> left, right |-> right]
listcmd(left, right) == [type |-> "LIST", left |-> left, right |-> right]
backcmd(cmd) == [type |-> "BACK", cmd |-> cmd]

NoCmd == [type |-> "NONE"]
Panic == [cmd |-> NoCmd, s |-> 0]

\* Each redirection wraps the ones before it; ">>" opens as ">" does.
RECURSIVE parseredirs(_, _)
parseredirs(cmd, s) ==
  IF ~peek(s, {"<", ">", "+"}) THEN [cmd |-> cmd, s |-> s]
  ELSE IF TokAt(s + 1) # "a" THEN Panic
  ELSE parseredirs(redircmd(cmd, toks[s + 1].q, IF TokAt(s) = "<" THEN 0 ELSE 1), s + 2)

parseblock(P, s) ==
  LET b == P["line", s + 1]
  IN  IF b = Panic \/ ~peek(b.s, {")"}) THEN Panic ELSE parseredirs(b.cmd, b.s + 1)

\* The command with its arguments filled in, under the redirections around it.
RECURSIVE Fill(_, _)
Fill(cmd, argv) ==
  IF cmd.type = "EXEC" THEN execcmd(argv) ELSE [cmd EXCEPT !.cmd = Fill(cmd.cmd, argv)]

\* The loop of parseexec: r is the command so far, argv its arguments.
RECURSIVE Args(_, _)
Args(r, argv) ==
  IF r = Panic THEN Panic
  ELSE IF peek(r.s, {"|", ")", "&", ";", Nul}) THEN [r EXCEPT !.cmd = Fill(@, argv)]
  ELSE IF TokAt(r.s) # "a" \/ Len(argv) + 1 >= MAXARGS THEN Panic
  ELSE Args(parseredirs(r.cmd, r.s + 1), Append(argv, toks[r.s].q))

parseexec(P, s) ==
  IF peek(s, {"("}) THEN parseblock(P, s) ELSE Args(parseredirs(execcmd(<<>>), s), <<>>)

\* l, or l and what P parses next after the symbol sym, under one command.
Joined(P, l, sym, next, cmd(_, _)) ==
  IF l = Panic \/ ~peek(l.s, {sym}) THEN l
  ELSE LET r == P[next, l.s + 1]
       IN  IF r = Panic THEN Panic ELSE [cmd |-> cmd(l.cmd, r.cmd), s |-> r.s]

\* A mistaken parsepipe that takes a whole line after the bar.
ParsepipeLine(P, s) == Joined(P, parseexec(P, s), "|", "line", pipecmd)

parsepipe(P, s) == Joined(P, parseexec(P, s), "|", "pipe", pipecmd)

\* The loop of parseline over "&".
RECURSIVE Backs(_)
Backs(p) == IF p = Panic \/ ~peek(p.s, {"&"}) THEN p
            ELSE Backs([cmd |-> backcmd(p.cmd), s |-> p.s + 1])

parseline(P, s) == Joined(P, Backs(P["pipe", s]), ";", "line", listcmd)

parsed[what \in {"line", "pipe"}, s \in 1 .. Len(toks) + 1] ==
  IF what = "line" THEN parseline(parsed, s) ELSE parsepipe(parsed, s)

\* NoCmd when the parser panics, which ends the process that parses.
parsecmd == LET p == parsed["line", 1]
            IN  IF p = Panic \/ p.s # Len(toks) + 1 THEN NoCmd ELSE p.cmd

-----------------------------------------------------------------------------
(* Running *)

Closed == [kind |-> "closed", of |-> <<>>]
Tty == [kind |-> "console", of |-> <<>>]
OnFile(q) == [kind |-> "file", of |-> <<q>>]
ReadEnd(path) == [kind |-> "read", of |-> path]
WriteEnd(path) == [kind |-> "write", of |-> path]

close(fds, fd) == [fds EXCEPT ![fd] = Closed]

\* fdalloc: the lowest descriptor that is free.
Lowest(fds) == CHOOSE fd \in DOMAIN fds :
                 fds[fd] = Closed /\ \A d \in DOMAIN fds : fds[d] = Closed => fd <= d
dup(fds, f) == [fds EXCEPT ![Lowest(fds)] = f]

\* A process: where it is, its parent, the command it runs (the line's number
\* and the path), its descriptors and the two that pipe() gave it.
Gone == [pc |-> "unused", parent |-> InitPid, path |-> <<>>, fds |-> <<>>, p |-> <<>>]

\* main before its loop: three descriptors on the console.
Console3 == [fd \in 0 .. NFD - 1 |-> IF fd < 3 THEN Tty ELSE Closed]
FreshShell == [Gone EXCEPT !.pc = "prompt", !.fds = Console3]

ShellInit ==
  /\ lines = <<>> /\ toks = <<>> /\ trees = <<>> /\ starved = FALSE
  /\ job = [j \in Jobs \cup {TheShell} |-> IF j = TheShell THEN FreshShell ELSE Gone]

RECURSIVE Node(_, _)
Node(cmd, path) ==
  IF path = <<>> THEN cmd
  ELSE Node(IF cmd.type \in {"REDIR", "BACK"} THEN cmd.cmd
            ELSE IF Head(path) = 1 THEN cmd.left ELSE cmd.right, Tail(path))
Cmd(j) == Node(trees[Head(job[j].path)], Tail(job[j].path))

Children(j) == {k \in DOMAIN job : job[k].pc # "unused" /\ job[k].parent = j}
Zombies(j) == {k \in Children(j) : job[k].pc = "zombie"}
FreeJobs == {j \in Jobs : job[j].pc = "unused"}

JobAt(j, l) == job[j].pc = l
Runs(j, type) == JobAt(j, "run") /\ Cmd(j).type = type
Sub(j, n) == Append(job[j].path, n)

\* j's record changes to r.
Becomes(j, r) == job' = [job EXCEPT ![j] = r] /\ UNCHANGED <<lines, toks, trees, starved>>

\* exit: j is a zombie with its descriptors closed and its children are init's.
Exited(j) == [k \in DOMAIN job |->
                IF k = j THEN [job[j] EXCEPT !.pc = "zombie", !.fds = <<>>]
                ELSE IF k \in Children(j) THEN [job[k] EXCEPT !.parent = InitPid]
                ELSE job[k]]
Exits(j) == job' = Exited(j) /\ UNCHANGED <<lines, toks, trees, starved>>

\* fork1: a child at l with the descriptors of j, which goes on at m; without
\* a free process j panics.
fork1(j, l, path, m) ==
  \/ /\ FreeJobs = {} /\ job' = Exited(j) /\ starved' = TRUE
  \/ \E k \in FreeJobs :
       /\ \A i \in FreeJobs : k <= i
       /\ job' = [job EXCEPT ![j].pc = m,
                             ![k] = [job[j] EXCEPT !.pc = l, !.parent = j, !.path = path]]
       /\ starved' = starved

\* wait: takes one zombie child, and sleeps until there is one.
waitFor(j, m) ==
  \E z \in Zombies(j) :
    /\ job' = [job EXCEPT ![j].pc = m, ![z] = Gone]
    /\ UNCHANGED <<lines, toks, trees, starved>>

-----------------------------------------------------------------------------
(* main, and init, which starts the shell again when it exits *)

ReadLine ==
  /\ JobAt(TheShell, "prompt") /\ Len(lines) < Len(Lines)
  /\ \E l \in Lines[Len(lines) + 1] : lines' = Append(lines, l) /\ toks' = Tokens(l, 1)
  /\ trees' = Append(trees, NoCmd)
  /\ fork1(TheShell, "parse", <<Len(lines) + 1>>, "wait")

\* The input ends after the lines.
EndOfFile == JobAt(TheShell, "prompt") /\ Len(lines) = Len(Lines) /\ Exits(TheShell)

MainWait == JobAt(TheShell, "wait") /\ waitFor(TheShell, "prompt")

\* init's loop over wait.
InitWait == \E k \in Zombies(InitPid) :
              Becomes(k, IF k = TheShell THEN FreshShell ELSE Gone)

Parse(j) == /\ JobAt(j, "parse")
            /\ trees' = [trees EXCEPT ![Head(job[j].path)] = parsecmd]
            /\ job' = [job EXCEPT ![j].pc = "run"]
            /\ UNCHANGED <<lines, toks, starved>>

-----------------------------------------------------------------------------
(* runcmd *)

\* The parser has panicked.
RunPanic(j) == Runs(j, "NONE") /\ Exits(j)

\* An empty command exits, and so does one whose file exec does not find.
RunExec(j) == /\ Runs(j, "EXEC")
              /\ \/ Exits(j)
                 \/ /\ Cmd(j).argv # <<>>
                    /\ Becomes(j, [job[j] EXCEPT !.pc = "program"])

\* Either open fails, or it takes the descriptor that was closed.
RunRedir(j) ==
  /\ Runs(j, "REDIR")
  /\ \/ Exits(j)
     \/ LET c == Cmd(j)
        IN  Becomes(j, [job[j] EXCEPT !.path = Sub(j, 1),
                                      !.fds = dup(close(@, c.fd), OnFile(c.file))])

RunList(j) == /\ Runs(j, "LIST") /\ fork1(j, "run", Sub(j, 1), "list")
              /\ UNCHANGED <<lines, toks, trees>>

\* A mistaken wait after the left command of a list, for nobody.
ListWaitNone(j) == JobAt(j, "list") /\ Becomes(j, [job[j] EXCEPT !.pc = "listed"])

ListWait(j) == JobAt(j, "list") /\ waitFor(j, "listed")
ListRight(j) == JobAt(j, "listed") /\ Becomes(j, [job[j] EXCEPT !.pc = "run", !.path = Sub(j, 2)])

RunBack(j) == /\ Runs(j, "BACK") /\ fork1(j, "run", Sub(j, 1), "done")
              /\ UNCHANGED <<lines, toks, trees>>

\* pipe(p) takes the two lowest descriptors, or fails and the process panics.
RunPipe(j) ==
  LET f0 == job[j].fds
      f1 == dup(f0, ReadEnd(job[j].path)) IN
  /\ Runs(j, "PIPE")
  /\ \/ Exits(j)
     \/ Becomes(j, [job[j] EXCEPT !.pc = "left", !.p = <<Lowest(f0), Lowest(f1)>>,
                                  !.fds = dup(f1, WriteEnd(job[j].path))])

ForkLeft(j) == /\ JobAt(j, "left") /\ fork1(j, "stdout", Sub(j, 1), "right")
               /\ UNCHANGED <<lines, toks, trees>>
ForkRight(j) == /\ JobAt(j, "right") /\ fork1(j, "stdin", Sub(j, 2), "ends")
                /\ UNCHANGED <<lines, toks, trees>>

\* A mistaken stage that leaves the write end open.
PlugKeepsWrite(j, fd, end) ==
  LET f == job[j].fds
      p == job[j].p
  IN  [job[j] EXCEPT !.pc = "run", !.p = <<>>,
                     !.fds = close(dup(close(f, fd), f[p[end]]), p[1])]

\* A stage puts its end of the pipe on fd 0 or 1 and closes both of p.
Plug(j, fd, end) ==
  LET f == job[j].fds
      p == job[j].p
  IN  [job[j] EXCEPT !.pc = "run", !.p = <<>>,
                     !.fds = close(close(dup(close(f, fd), f[p[end]]), p[1]), p[2])]

StageLeft(j) == JobAt(j, "stdout") /\ Becomes(j, Plug(j, 1, 2))
StageRight(j) == JobAt(j, "stdin") /\ Becomes(j, Plug(j, 0, 1))

\* A mistaken parent that waits with the pipe still open.
PipeEndsOpen(j) == JobAt(j, "ends") /\ Becomes(j, [job[j] EXCEPT !.pc = "wait2", !.p = <<>>])

PipeEnds(j) ==
  /\ JobAt(j, "ends")
  /\ LET p == job[j].p
     IN  Becomes(j, [job[j] EXCEPT !.pc = "wait2", !.p = <<>>,
                                   !.fds = close(close(@, p[1]), p[2])])

PipeWait(j) == \/ JobAt(j, "wait2") /\ waitFor(j, "wait1")
               \/ JobAt(j, "wait1") /\ waitFor(j, "done")

RunDone(j) == JobAt(j, "done") /\ Exits(j)

-----------------------------------------------------------------------------
(* The program: it ends when its input does. *)

HasEnd(k, f) == \E fd \in DOMAIN job[k].fds : job[k].fds[fd] = f
AtEof(f) == f.kind = "read" => \A k \in DOMAIN job : ~HasEnd(k, WriteEnd(f.of))

ProgramEnds(j) == JobAt(j, "program") /\ AtEof(job[j].fds[0]) /\ Exits(j)

JobStep(j) == \/ Parse(j) \/ RunPanic(j) \/ RunExec(j) \/ RunRedir(j)
              \/ RunList(j) \/ ListWait(j) \/ ListRight(j) \/ RunBack(j)
              \/ RunPipe(j) \/ ForkLeft(j) \/ ForkRight(j)
              \/ StageLeft(j) \/ StageRight(j) \/ PipeEnds(j) \/ PipeWait(j)
              \/ RunDone(j) \/ ProgramEnds(j)

ShellNext == \/ ReadLine \/ EndOfFile \/ MainWait \/ InitWait
             \/ \E j \in Jobs : JobStep(j)

-----------------------------------------------------------------------------
(* The grammar of a line, on its tokens: the trees of the tokens i .. j. *)

IsWord(c) == c \notin Symbols \cup Space

\* k is the second half of a ">>": an odd number of ">" come right before it.
SecondHalf(l, k) ==
  /\ l[k] = ">"
  /\ \E n \in 1 .. k - 1 : /\ n % 2 = 1
                           /\ \A i \in k - n .. k - 1 : l[i] = ">"
                           /\ k - n = 1 \/ l[k - n - 1] # ">"

\* Tokens by their places: symbols, and words from the first to the last of
\* their characters.
LineTokens(l) ==
  LET kind(k) == IF IsWord(l[k]) THEN "a"
                 ELSE IF k < Len(l) /\ SecondHalf(l, k + 1) THEN "+" ELSE l[k]
      starts == {k \in DOMAIN l : /\ l[k] \notin Space
                                  /\ ~SecondHalf(l, k)
                                  /\ IsWord(l[k]) => k = 1 \/ ~IsWord(l[k - 1])}
      all == [k \in DOMAIN l |-> [tok |-> kind(k), q |-> k]]
  IN  SelectSeq(all, LAMBDA t : t.q \in starts)

IsRedir(ts, k) == ts[k].tok \in {"<", ">", "+"}

\* cmd under the redirections i .. j, the last one outermost.
RECURSIVE Redirected(_, _, _, _)
Redirected(cmd, ts, i, j) ==
  IF j < i THEN {cmd}
  ELSE IF i < j /\ IsRedir(ts, j - 1) /\ ts[j].tok = "a"
  THEN {redircmd(c, ts[j].q, IF ts[j - 1].tok = "<" THEN 0 ELSE 1) :
          c \in Redirected(cmd, ts, i, j - 2)}
  ELSE {}

\* Words, and redirections each of which takes the word that follows.
ExecTrees(ts, i, j) ==
  LET redirs == {k \in i .. j : IsRedir(ts, k)} \cup {k \in i + 1 .. j : IsRedir(ts, k - 1)}
      Pick(S) == SelectSeq(SubSeq(ts, i, j), LAMBDA t : \E k \in S : ts[k] = t)
      words == Pick((i .. j) \ redirs)
      rest == Pick(redirs)
  IN  IF (\E k \in 1 .. Len(words) : words[k].tok # "a") \/ Len(words) >= MAXARGS THEN {}
      ELSE Redirected(execcmd([k \in 1 .. Len(words) |-> words[k].q]), rest, 1, Len(rest))

\* A line in parentheses with its redirections, or words.
CommandTrees(T, ts, i, j) ==
  ExecTrees(ts, i, j) \cup
  UNION {UNION {Redirected(c, ts, k + 1, j) : c \in T["line", i + 1, k - 1]} :
           k \in {k \in i + 1 .. j : ts[i].tok = "(" /\ ts[k].tok = ")"}}

\* l and r on the sides of some sym.
SplitTrees(ts, i, j, sym, cmd(_, _), L(_), R(_)) ==
  UNION {{cmd(l, r) : l \in L(k - 1), r \in R(k + 1)} : k \in {k \in i .. j : ts[k].tok = sym}}

Trees(ts) ==
  LET T[what \in {"line", "back", "pipe"}, i \in 1 .. Len(ts) + 1, j \in 0 .. Len(ts)] ==
        CASE what = "pipe" ->
               CommandTrees(T, ts, i, j) \cup
               SplitTrees(ts, i, j, "|", pipecmd,
                          LAMBDA k : CommandTrees(T, ts, i, k), LAMBDA k : T["pipe", k, j])
          [] what = "back" ->
               T["pipe", i, j] \cup
               (IF i <= j /\ ts[j].tok = "&" THEN {backcmd(c) : c \in T["back", i, j - 1]} ELSE {})
          [] what = "line" ->
               T["back", i, j] \cup
               SplitTrees(ts, i, j, ";", listcmd,
                          LAMBDA k : T["back", i, k], LAMBDA k : T["line", k, j])
  IN  T["line", 1, Len(ts)]

-----------------------------------------------------------------------------
(* Properties *)

\* The recursive-descent parser (sh.c:327-446) accepts exactly the lines of
\* the grammar and gives each its one tree: ";" binds weaker than "&", "&"
\* weaker than "|", redirections belong to the command or block they follow,
\* and a line with MAXARGS words in a command, a redirection without a file,
\* an open parenthesis or anything left over is refused.
ParsesGrammar ==
  \A j \in Jobs : JobAt(j, "run") /\ job[j].path = <<Len(lines)>> =>
     Trees(LineTokens(lines[Len(lines)])) = IF trees[Len(lines)] = NoCmd THEN {} ELSE {trees[Len(lines)]}

\* What the command at path reads and writes, by the constructs around it: a
\* pipe on the side of each bar, the file of each redirection.
RECURSIVE Wiring(_, _, _)
Wiring(path, n, fds) ==
  IF n = Len(path) THEN fds
  ELSE LET at == SubSeq(path, 1, n)
           c == Node(trees[path[1]], Tail(at))
       IN  Wiring(path, n + 1,
             CASE c.type = "PIPE" /\ path[n + 1] = 1 -> [fds EXCEPT ![1] = WriteEnd(at)]
               [] c.type = "PIPE" /\ path[n + 1] = 2 -> [fds EXCEPT ![0] = ReadEnd(at)]
               [] c.type = "REDIR" -> [fds EXCEPT ![c.fd] = OnFile(c.file)]
               [] OTHER -> fds)

\* A program starts with its input, output and error where the line puts them
\* and no other descriptor: the pipe, dup and close calls of runcmd on both
\* sides of each fork (sh.c:82-121) leave no end of a pipe behind, in any
\* nesting of pipes, blocks and redirections.
WiredAsWritten ==
  \A j \in Jobs : JobAt(j, "program") => job[j].fds = Wiring(job[j].path, 1, Console3)

\* j can go on: it is not waiting, or what it waits for has happened.
CanGo(j) == CASE job[j].pc \in {"unused", "zombie"} -> FALSE
              [] JobAt(j, "program") -> AtEof(job[j].fds[0])
              [] job[j].pc \in {"wait", "list", "wait2", "wait1"} -> Zombies(j) # {}
              [] OTHER -> TRUE

\* While the shell waits for its command, some process can go on: no stage of
\* a pipeline waits for the end of a pipe that it, or a process waiting for
\* it, still holds open for writing (sh.c:118-121).
NeverStuck == JobAt(TheShell, "wait") => \E j \in DOMAIN job : CanGo(j)

\* The command at depth n of the path, the root of its line at depth 1.
At(path, n) == Node(trees[path[1]], Tail(SubSeq(path, 1, n)))

\* Started with "&", by a command at depth n or below.
Behind(path, n) == \E k \in n .. Len(path) - 1 : At(path, k).type = "BACK"

\* The command at depth n is a list, with p on its right side and q on its left.
After(p, q, n) ==
  /\ SubSeq(p, 1, n) = SubSeq(q, 1, n) /\ At(p, n).type = "LIST"
  /\ p[n + 1] = 2 /\ q[n + 1] = 1

Alive(j) == ~JobAt(j, "unused") /\ ~JobAt(j, "zombie")

\* The shell prompts again, and a list goes on to its right side, only when
\* the commands before are finished: what still runs was started with "&", or
\* lost its parent to a fork that found no free process (sh.c:96, sh.c:120-121,
\* sh.c:169).
ForegroundDone ==
  ~starved =>
    /\ JobAt(TheShell, "prompt") => \A j \in Jobs : Alive(j) => Behind(job[j].path, 1)
    /\ \A i, j \in Jobs : Alive(i) /\ Alive(j) =>
         \A n \in 1 .. Len(job[i].path) - 1 : n < Len(job[j].path) =>
           (After(job[i].path, job[j].path, n) => Behind(job[j].path, n + 1))
=============================================================================
