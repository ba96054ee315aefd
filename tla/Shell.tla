-------------------------------- MODULE Shell --------------------------------
(***************************************************************************)
(* The shell user/sh.c at work: main() forks a process for each line,      *)
(* which parses it and runs it, over the files and pipes of module Files.  *)
(* runcmd() is the sequence of system calls that a process makes for a     *)
(* command; a fork carries the calls of the child.                         *)
(*                                                                         *)
(* fork(), exit() and wait() are those of kernel/proc.c with respect to    *)
(* files and children; how they wait and lock is the subject of module     *)
(* Proc.                                                                   *)
(***************************************************************************)
EXTENDS Files, ShellParser

CONSTANTS
    Main,       \* the process of the shell
    Started,    \* how many descriptors the shell may be started with
    Lines,      \* what the user may type
    AllLines,   \* the lines on which the parser is checked
    MaxLines    \* bound: the number of lines typed

VARIABLES
    parent,     \* p->parent of a process in use
    pfd,        \* the array p of runcmd()
    typed,      \* the lines the shell has read
    detached    \* a process was forked for the background, killed, or left by a panic

shellVars == <<parent, pfd, typed, detached>>
vars == <<filesVars, shellVars>>

NoProc == "no process"
init == "init"

unused(p) == parent[p] = NoProc
ZOMBIE(p) == ~unused(p) /\ todo[p] = <<>>

(***************************************************************************)
(* The programs.                                                           *)
(***************************************************************************)
close(fd) == <<"close", fd>>

\* p[0] and p[1], where a descriptor is expected.
P0 == -1
P1 == -2

\* The child of a pipe command makes end e of the pipe its descriptor fd.
plug_Early(fd, e) == <<<<"dup", e, fd>>, close(fd), close(P0), close(P1)>>

plug(fd, e) == <<close(fd), <<"dup", e, fd>>, close(P0), close(P1)>>

\* What exec() leads to.  Two programs exist: w writes three bytes, r reads until there is nothing more.
program(name) ==
    CASE name = "w" -> <<<<"write", 1, 3>>>> \o Exit
      [] name = "r" -> <<<<"read", 0, 2>>>> \o Exit
      [] OTHER -> Exit

runpipe_KeepsEnd(left, right) ==
    << <<"pipe">>, <<"fork", plug(1, P1) \o left>>, <<"fork", plug(0, P0) \o right>>,
       close(P0), <<"wait">>, <<"wait">> >> \o Exit

runpipe_WaitsOnce(left, right) ==
    << <<"pipe">>, <<"fork", plug(1, P1) \o left>>, <<"fork", plug(0, P0) \o right>>,
       close(P0), close(P1), <<"wait">> >> \o Exit

runpipe(left, right) ==
    << <<"pipe">>, <<"fork", plug(1, P1) \o left>>, <<"fork", plug(0, P0) \o right>>,
       close(P0), close(P1), <<"wait">>, <<"wait">> >> \o Exit

RECURSIVE runcmd(_, _)
runcmd(line, cmd) ==
    CASE cmd[1] = "panic" -> Exit
      [] cmd[1] = "EXEC" -> IF cmd[2] = <<>> THEN Exit ELSE program(line[cmd[2][1]])
      [] cmd[1] = "REDIR" -> <<close(cmd[5]), <<"open", cmd[5]>>>> \o runcmd(line, cmd[2])
      [] cmd[1] = "LIST" -> <<<<"fork", runcmd(line, cmd[2])>>, <<"wait">>>> \o runcmd(line, cmd[3])
      [] cmd[1] = "PIPE" -> runpipe(runcmd(line, cmd[2]), runcmd(line, cmd[3]))
      [] cmd[1] = "BACK" -> <<<<"fork", runcmd(line, cmd[2]), "BACK">>>> \o Exit

\* cd, and a blank.
isCd(line) == Len(line) > 1 /\ line[1] = "cd"

\* What the process for a line does.
child == [line \in Lines |-> runcmd(line, parsecmd(line))]

(***************************************************************************)
(* The calls.                                                              *)
(***************************************************************************)

\* A descriptor named in a call: a number, or an element of p.
fdOf(p, x) == IF x < 0 THEN pfd[p][-x] ELSE x

\* The loop at the start of main() that opens the console.
openConsole(p) ==
    /\ Calls(p, "console")
    /\ LET fd == Min(freeFds(p)) f == Min(freeFiles) IN
       IF freeFiles = {} \/ freeFds(p) = {} \/ fd >= 3
       THEN returns(p) /\ UNCHANGED <<file, ofile>>
       ELSE /\ file' = [file EXCEPT ![f] = filealloc("DEVICE", TRUE, TRUE, 0)]
            /\ ofile' = fdalloc(p, f)
            /\ UNCHANGED todo
    /\ UNCHANGED <<fresh, ff, pipeVars, chan, killed, shellVars>>

\* getcmd() reads a line, or the end of the input.  A blank line is skipped, and
\* cd is done by the shell.
main(p) ==
    /\ Calls(p, "getcmd")
    /\ \/ typed < MaxLines /\ typed' = typed + 1
          /\ \E line \in Lines :
              todo' = [todo EXCEPT ![p] =
                IF line = <<>> \/ isCd(line) THEN @ ELSE <<<<"fork", child[line]>>, <<"wait">>>> \o @]
       \/ todo' = [todo EXCEPT ![p] = Tail(@)] /\ UNCHANGED typed
    /\ UNCHANGED <<fileVars, pipeVars, chan, killed, parent, pfd, detached>>

\* A call that fails makes fork1(), pipe and open panic() or exit.
panic(p) ==
    /\ todo' = [todo EXCEPT ![p] = Exit]
    /\ detached' = TRUE
    /\ UNCHANGED <<fileVars, pipeVars, chan, killed, parent, pfd, typed>>

\* kfork(): the child has the descriptors of its parent.
kfork(p) ==
    /\ Calls(p, "fork")
    /\ IF \A c \in Procs : ~unused(c) THEN panic(p)
       ELSE LET c == CHOOSE c \in Procs : unused(c) IN
            /\ file' = [f \in FileIds |->
                    [file[f] EXCEPT !.ref = @ + Cardinality({fd \in Fds : ofile[p][fd] = f})]]
            /\ ofile' = [ofile EXCEPT ![c] = ofile[p]]
            /\ parent' = [parent EXCEPT ![c] = p]
            /\ pfd' = [pfd EXCEPT ![c] = pfd[p]]
            /\ todo' = [todo EXCEPT ![c] = Head(todo[p])[2], ![p] = Tail(@)]
            /\ detached' = (detached \/ Len(Head(todo[p])) = 3)
            /\ UNCHANGED <<fresh, ff, pipeVars, chan, killed, typed>>

open(p) ==
    /\ Calls(p, "open")
    /\ \/ sys_open(p, "INODE") /\ UNCHANGED shellVars
       \/ panic(p)

\* p[] gets the descriptors that sys_pipe() has taken.
pipe_copyout(p) ==
    /\ Inside(p, "pipe_copyout")
    /\ pfd' = [pfd EXCEPT ![p] = Tail(Head(todo[p]))]
    /\ returns(p)
    /\ UNCHANGED <<fileVars, pipeVars, chan, killed, parent, typed, detached>>

pipe(p) ==
    \/ /\ \/ pipe_file(p) \/ pipe_page(p) \/ pipealloc_bad(p) \/ sys_pipe(p)
          \/ pipe_copyout_fails(p) \/ sys_pipe_bad(p)
       /\ UNCHANGED shellVars
    \/ pipe_copyout(p)
    \/ Inside(p, "pipe_bad") /\ fresh[p] = <<>> /\ panic(p)

\* kwait(): a zombie child is reaped.
kwait(p) ==
    /\ Calls(p, "wait")
    /\ \/ \E c \in Procs :
            /\ parent[c] = p /\ ZOMBIE(c)
            /\ parent' = [parent EXCEPT ![c] = NoProc]
            /\ killed' = [killed EXCEPT ![c] = FALSE]
       \/ /\ killed[p] \/ \A c \in Procs : parent[c] # p
          /\ UNCHANGED <<parent, killed>>
    /\ returns(p)
    /\ UNCHANGED <<fileVars, pipeVars, chan, pfd, typed, detached>>

openFds(p) == Fds \ freeFds(p)

\* kexit() closes the files one by one, and then gives its children to init and
\* its status to its parent.
kexit_files(p) ==
    /\ Calls(p, "exit")
    /\ openFds(p) # {}
    /\ closes(p, Min(openFds(p)))
    /\ UNCHANGED <<todo, shellVars>>

kexit(p) ==
    /\ Calls(p, "exit")
    /\ openFds(p) = {}
    /\ todo' = [todo EXCEPT ![p] = <<>>]
    \* init reaps what it is given
    /\ parent' = [q \in Procs |->
            CASE q = p /\ parent[p] = init -> NoProc
              [] parent[q] = p -> IF ZOMBIE(q) THEN NoProc ELSE init
              [] OTHER -> parent[q]]
    /\ killed' = [q \in Procs |-> killed[q] /\ parent'[q] # NoProc]
    /\ pfd' = [pfd EXCEPT ![p] = <<>>]
    /\ UNCHANGED <<fileVars, pipeVars, chan, typed, detached>>

\* A program may stop before it is done, and usertrap() stops a killed process.
stops(p) ==
    /\ todo[p] # <<>> /\ Head(todo[p])[1] # "exit"
    /\ ff[p] = NoStruct /\ fresh[p] = <<>>
    /\ ~isBlocked(p) /\ done[p] = 0
    /\ killed[p] \/ Head(todo[p])[1] \in {"read", "write"}
    /\ todo' = [todo EXCEPT ![p] = Exit]
    /\ UNCHANGED <<fileVars, pipeVars, chan, killed, shellVars>>

calls(p) ==
    \/ openConsole(p) \/ main(p) \/ kfork(p) \/ open(p) \/ pipe(p)
    \/ kwait(p) \/ kexit_files(p) \/ kexit(p)
    \/ /\ \/ Calls(p, "close") /\ sys_close(p, fdOf(p, Head(todo[p])[2]))
          \/ Calls(p, "dup") /\ sys_dup(p, fdOf(p, Head(todo[p])[2]))
          \/ Calls(p, "read") /\ fileread(p, Head(todo[p])[2], Head(todo[p])[3])
          \/ Calls(p, "write") /\ filewrite(p, Head(todo[p])[2], Head(todo[p])[3])
          \/ pipeclose(p)
       /\ UNCHANGED shellVars

Init ==
    \* the shell is started with some of its descriptors open on the console
    /\ \E n \in Started :
        /\ ofile = [p \in Procs |-> [fd \in Fds |-> IF p = Main /\ fd < n THEN 1 ELSE NoFile]]
        /\ file = [f \in FileIds |-> IF f # 1 THEN NoStruct ELSE
                        [filealloc("DEVICE", TRUE, TRUE, 0) EXCEPT !.ref = n]]
    /\ pipes = [pi \in Pages |-> NoPipe]
    /\ fresh = [p \in Procs |-> <<>>]
    /\ ff = [p \in Procs |-> NoStruct]
    /\ done = [p \in Procs |-> 0]
    /\ chan = [p \in Procs |-> <<>>]
    /\ killed = [p \in Procs |-> FALSE]
    /\ unannounced = {}
    /\ todo = [p \in Procs |-> IF p = Main THEN <<<<"console">>, <<"getcmd">>>> \o Exit ELSE <<>>]
    /\ parent = [p \in Procs |-> IF p = Main THEN init ELSE NoProc]
    /\ pfd = [p \in Procs |-> <<>>]
    /\ typed = 0
    /\ detached = FALSE

kill(p) == kkill(p) /\ detached' = TRUE /\ UNCHANGED <<parent, pfd, typed>>

Next == \E p \in Procs : calls(p) \/ stops(p) \/ kill(p)

\* Every process that is not asleep runs on.
FairSpec == Init /\ [][Next]_vars /\ \A p \in Procs : WF_vars(calls(p))

(***************************************************************************)
(* Properties.                                                             *)
(***************************************************************************)

\* The dup() or open() after a close(fd) of runcmd() gives that very fd: a
\* command's standard input or output is where the line says.
StdRedirected ==
    [][\A p \in Procs :
        (todo[p] # <<>> /\ Head(todo[p])[1] \in {"dup", "open"} /\ todo'[p] = Tail(todo[p])) =>
            LET c == Head(todo[p]) fd == c[Len(c)] IN
            /\ ofile[p][fd] = NoFile /\ ofile'[p][fd] # NoFile
            /\ c[1] = "dup" => ofile'[p][fd] = ofile[p][fdOf(p, c[2])]]_vars

\* When the shell asks for the next line, the processes of the last one are
\* gone, unless one ran in the background, was killed, or ended for want of
\* processes, files or memory.
ForegroundDone ==
    todo[Main] # <<>> /\ Head(todo[Main])[1] = "getcmd" /\ ~detached
    => \A p \in Procs \ {Main} : unused(p)

\* Every process the shell starts ends, and with it the shell: each reader of a
\* pipe sees the end of its input because nobody keeps the other end open.
CommandEnds == <>[](\A p \in Procs : todo[p] = <<>>)

ParsedAsGrammar == ParsesGrammar(AllLines)

\* When the shell reads a line, whichever of AllLines it is, parsecmd() builds the
\* command of the grammar, or panics exactly if there is none.
ParserCorrect == [][typed' # typed => ParsedAsGrammar]_vars
==============================================================================
