-------------------------------- MODULE Files --------------------------------
(***************************************************************************)
(* The file table of kernel/file.c, the descriptors of each process and    *)
(* the pipes of kernel/pipe.c.  A process is a sequence todo of system     *)
(* calls still to make; what a failed call does to it is its program's     *)
(* business (module Shell).                                                *)
(*                                                                         *)
(* A section under ftable.lock or under a pipe's lock is one step.  The    *)
(* byte numbered i of a pipe is the value i, so that what is read tells    *)
(* what was written.                                                       *)
(***************************************************************************)
EXTENDS Integers, Sequences, FiniteSets, FiniteSetsExt, Functions

CONSTANTS
    Procs,          \* the slots of the process table
    NFILE,          \* size of the file table (param.h)
    NOFILE,         \* descriptors of a process (param.h)
    Pages,          \* the pages kalloc() may give to pipes
    PIPESIZE,       \* pipe.c
    UINT,           \* the counters of a pipe count modulo this (2^32)
    MaxKills        \* bound: calls of kkill() in a behaviour

ASSUME FilesAssumption ==
    /\ {NFILE, NOFILE, MaxKills} \subseteq Nat
    /\ PIPESIZE \in Nat \ {0}
    /\ UINT \in Nat /\ UINT % PIPESIZE = 0 /\ UINT > PIPESIZE
    /\ IsFiniteSet(Procs)

VARIABLES
    file,           \* ftable.file
    ofile,          \* p->ofile
    pipes,          \* struct pipe, for the pages in use
    fresh,          \* rf and wf of sys_pipe(), as long as no descriptor has them
    ff,             \* the pipe end that fileclose() copied from the table
    done,           \* i in pipewrite()
    chan, killed,   \* p->chan and p->killed
    unannounced,    \* the pipes with bytes that no wakeup() followed
    todo

fileVars == <<file, ofile, fresh, ff>>
pipeVars == <<pipes, done, unannounced>>
filesVars == <<fileVars, pipeVars, chan, killed, todo>>

FileIds == 1 .. NFILE
Fds == 0 .. NOFILE - 1
NoFile == 0

NoStruct == [ref |-> 0, type |-> "NONE", readable |-> FALSE, writable |-> FALSE, pipe |-> 0]

\* p is at a call, with nothing left over from the one before.
Calls(p, call) ==
    /\ todo[p] # <<>>
    /\ Head(todo[p])[1] = call
    /\ ff[p] = NoStruct /\ fresh[p] = <<>>
    /\ killed[p] => call \in {"read", "write", "wait", "exit"}

Exit == <<<<"exit">>>>

\* A system call returns; usertrap() does not let a killed process go on.
returns(p) == todo' = [todo EXCEPT ![p] = IF killed[p] THEN Exit ELSE Tail(@)]

\* It returns to a program that makes the call again.
returnsToLoop(p) == todo' = [todo EXCEPT ![p] = IF killed[p] THEN Exit ELSE @]

\* The file of a descriptor that a call names.
argfd(p, fd) == IF fd \in Fds THEN ofile[p][fd] ELSE NoFile

\* The descriptors that fdalloc() would take, in order.
freeFds(p) == {fd \in Fds : ofile[p][fd] = NoFile}

freeFiles == {f \in FileIds : file[f].ref = 0}

filealloc(type, readable, writable, pi) ==
    [ref |-> 1, type |-> type, readable |-> readable, writable |-> writable, pipe |-> pi]

filedup(f) == [file EXCEPT ![f].ref = @ + 1]

\* The first free descriptor refers to f.
fdalloc(p, f) == [ofile EXCEPT ![p][Min(freeFds(p))] = f]

sys_dup(p, fd) ==
    /\ LET f == argfd(p, fd) IN
        IF f = NoFile \/ freeFds(p) = {}
        THEN UNCHANGED <<file, ofile>>
        ELSE file' = filedup(f) /\ ofile' = fdalloc(p, f)
    /\ returns(p)
    /\ UNCHANGED <<fresh, ff, pipeVars, chan, killed>>

\* open() of a file or of the console; the inode is not in this model.
sys_open(p, type) ==
    /\ freeFiles # {} /\ freeFds(p) # {}
    /\ LET f == Min(freeFiles) IN
        /\ file' = [file EXCEPT ![f] = filealloc(type, TRUE, TRUE, 0)]
        /\ ofile' = fdalloc(p, f)
    /\ returns(p)
    /\ UNCHANGED <<fresh, ff, pipeVars, chan, killed>>

(***************************************************************************)
(* fileclose() and, for the last reference to the end of a pipe,           *)
(* pipeclose() of the copy.  An inode is put in module FileSys.            *)
(***************************************************************************)
fileclose(p, f) ==
    IF file[f].ref > 1
    THEN file' = [file EXCEPT ![f].ref = @ - 1] /\ UNCHANGED ff
    ELSE /\ ff' = IF file[f].type = "PIPE" THEN [ff EXCEPT ![p] = file[f]] ELSE ff
         /\ file' = [file EXCEPT ![f] = NoStruct]

closes(p, fd) ==
    /\ fileclose(p, ofile[p][fd])
    /\ ofile' = [ofile EXCEPT ![p][fd] = NoFile]
    /\ UNCHANGED <<fresh, pipeVars, chan, killed>>

sys_close(p, fd) ==
    /\ returns(p)
    /\ IF argfd(p, fd) = NoFile THEN UNCHANGED <<fileVars, pipeVars, chan, killed>> ELSE closes(p, fd)

NoPipe == [nread |-> 0, nwrite |-> 0, data |-> [i \in 0 .. PIPESIZE - 1 |-> 0],
           readopen |-> FALSE, writeopen |-> FALSE]

wakeup(c) == [q \in Procs |-> IF chan[q] = c THEN <<>> ELSE chan[q]]

\* The last close frees the page.
pipeclose(p) ==
    /\ ff[p].type = "PIPE"
    /\ LET pi == ff[p].pipe
           left == IF ff[p].writable THEN [pipes[pi] EXCEPT !.writeopen = FALSE]
                   ELSE [pipes[pi] EXCEPT !.readopen = FALSE]
       IN  /\ pipes' = [pipes EXCEPT ![pi] = IF left.readopen \/ left.writeopen THEN left ELSE NoPipe]
           /\ chan' = wakeup(<<IF ff[p].writable THEN "nread" ELSE "nwrite", pi>>)
           /\ unannounced' = IF ff[p].writable THEN unannounced \ {pi} ELSE unannounced
    /\ ff' = [ff EXCEPT ![p] = NoStruct]
    /\ UNCHANGED <<file, ofile, fresh, done, killed, todo>>

(***************************************************************************)
(* sys_pipe().  Two files, a page, two descriptors and the copy of these   *)
(* to the caller, each of which may fail when those before it are there.   *)
(***************************************************************************)
freePages == {pi \in Pages : pipes[pi] = NoPipe}

\* p is at this stage of sys_pipe(), its first being the call itself.
Inside(p, stage) == todo[p] # <<>> /\ Head(todo[p])[1] = stage /\ ff[p] = NoStruct

Goto(p, stage) == todo' = [todo EXCEPT ![p] = <<stage>> \o Tail(@)]

\* pipealloc() is through.
isPipe(p) == Len(fresh[p]) = 2 /\ file[fresh[p][1]].type = "PIPE"

\* pipealloc() calls filealloc() twice,
pipe_file(p) ==
    /\ Inside(p, "pipe")
    /\ Len(fresh[p]) < 2 /\ freeFiles # {}
    /\ LET f == Min(freeFiles) IN
        /\ file' = [file EXCEPT ![f] = filealloc("NONE", FALSE, FALSE, 0)]
        /\ fresh' = [fresh EXCEPT ![p] = Append(@, f)]
    /\ UNCHANGED <<ofile, ff, pipeVars, chan, killed, todo>>

\* and then kalloc(), for the pipe of both.
pipe_page(p) ==
    /\ Inside(p, "pipe")
    /\ Len(fresh[p]) = 2 /\ ~isPipe(p)
    /\ \E pi \in freePages :
        /\ pipes' = [pipes EXCEPT ![pi] = [@ EXCEPT !.readopen = TRUE, !.writeopen = TRUE]]
        /\ file' = [file EXCEPT ![fresh[p][1]] = filealloc("PIPE", TRUE, FALSE, pi),
                                ![fresh[p][2]] = filealloc("PIPE", FALSE, TRUE, pi)]
    /\ UNCHANGED <<ofile, fresh, ff, done, unannounced, chan, killed, todo>>

\* No file is free, or kalloc() has no page, as may happen at any time.
pipealloc_bad(p) ==
    /\ Inside(p, "pipe")
    /\ ~isPipe(p) /\ (Len(fresh[p]) < 2 => freeFiles = {})
    /\ Goto(p, <<"pipe_bad">>)
    /\ UNCHANGED <<fileVars, pipeVars, chan, killed>>

\* Two descriptors.  If there is one, it is given back at once.
sys_pipe(p) ==
    /\ Inside(p, "pipe")
    /\ isPipe(p)
    /\ LET fd0 == Min(freeFds(p)) fd1 == Min(freeFds(p) \ {fd0}) IN
        IF Cardinality(freeFds(p)) >= 2
        THEN /\ ofile' = [ofile EXCEPT ![p] = [@ EXCEPT ![fd0] = fresh[p][1], ![fd1] = fresh[p][2]]]
             /\ fresh' = [fresh EXCEPT ![p] = <<>>]
             /\ Goto(p, <<"pipe_copyout", fd0, fd1>>)
        ELSE Goto(p, <<"pipe_bad">>) /\ UNCHANGED <<ofile, fresh>>
    /\ UNCHANGED <<file, ff, pipeVars, chan, killed>>

pipe_copyout_KeepsFds(p) ==
    /\ Inside(p, "pipe_copyout")
    /\ fresh' = [fresh EXCEPT ![p] = <<ofile[p][Head(todo[p])[2]], ofile[p][Head(todo[p])[3]]>>]
    /\ Goto(p, <<"pipe_bad">>)
    /\ UNCHANGED <<file, ofile, ff, pipeVars, chan, killed>>

\* copyout() fails: the descriptors are cleared.
pipe_copyout_fails(p) ==
    /\ Inside(p, "pipe_copyout")
    /\ LET fd0 == Head(todo[p])[2] fd1 == Head(todo[p])[3] IN
        /\ fresh' = [fresh EXCEPT ![p] = <<ofile[p][fd0], ofile[p][fd1]>>]
        /\ ofile' = [ofile EXCEPT ![p] = [@ EXCEPT ![fd0] = NoFile, ![fd1] = NoFile]]
    /\ Goto(p, <<"pipe_bad">>)
    /\ UNCHANGED <<file, ff, pipeVars, chan, killed>>

\* The files that were taken are closed, one after the other.
sys_pipe_bad(p) ==
    /\ Inside(p, "pipe_bad")
    /\ fresh[p] # <<>>
    /\ fileclose(p, Head(fresh[p]))
    /\ fresh' = [fresh EXCEPT ![p] = Tail(@)]
    /\ UNCHANGED <<ofile, pipeVars, chan, killed, todo>>

(***************************************************************************)
(* Reading and writing pipes.  A process asleep has chan set; it takes its *)
(* next turn when that is cleared.                                         *)
(***************************************************************************)
held(pi) == (pipes[pi].nwrite - pipes[pi].nread) % UINT

full(pi) == pipes[pi].nwrite = (pipes[pi].nread + PIPESIZE) % UINT

empty(pi) == pipes[pi].nread = pipes[pi].nwrite

\* The pipe after k more bytes.
filled(pi, k) ==
    LET w == pipes[pi].nwrite
        new == {(w + i) % UINT : i \in 0 .. k - 1}
    IN  [pipes[pi] EXCEPT
            !.nwrite = (w + k) % UINT,
            !.data = [s \in DOMAIN @ |-> IF \E c \in new : c % PIPESIZE = s
                                         THEN CHOOSE c \in new : c % PIPESIZE = s ELSE @[s]]]

room(pi) == PIPESIZE - held(pi)

isBlocked(p) == chan[p] # <<>>

\* No reader is left, or p is killed: pipewrite() returns at once, even if it
\* has put k bytes into the pipe since it last woke the readers (nobody can tell
\* whether kkill() came before those).
pipewrite_stops(p, pi, n) ==
    /\ ~isBlocked(p)
    /\ \/ pipes[pi].readopen = FALSE /\ UNCHANGED <<pipes, unannounced>>
       \/ /\ killed[p] /\ pipes[pi].readopen
          /\ \E k \in 0 .. room(pi) :
              /\ k < n - done[p]
              /\ pipes' = [pipes EXCEPT ![pi] = filled(pi, k)]
              /\ unannounced' = IF k > 0 THEN unannounced \cup {pi} ELSE unannounced
    /\ done' = [done EXCEPT ![p] = 0]
    /\ returns(p)
    /\ UNCHANGED <<fileVars, chan, killed>>

\* It fills the pipe, wakes the readers and sleeps.
pipewrite_sleeps(p, pi, n) ==
    /\ ~isBlocked(p)
    /\ pipes[pi].readopen /\ ~killed[p]
    /\ n - done[p] > room(pi)
    /\ pipes' = [pipes EXCEPT ![pi] = filled(pi, room(pi))]
    /\ done' = [done EXCEPT ![p] = @ + room(pi)]
    /\ chan' = [wakeup(<<"nread", pi>>) EXCEPT ![p] = <<"nwrite", pi>>]
    /\ unannounced' = unannounced \ {pi}
    /\ UNCHANGED <<fileVars, killed, todo>>

\* It writes the rest, or the k bytes before one that copyin() cannot read.
pipewrite_ends(p, pi, n) ==
    /\ ~isBlocked(p)
    /\ pipes[pi].readopen /\ ~killed[p]
    /\ \E k \in 0 .. room(pi) :
        /\ k <= n - done[p]
        /\ k < room(pi) \/ k = n - done[p]
        /\ pipes' = [pipes EXCEPT ![pi] = filled(pi, k)]
    /\ chan' = wakeup(<<"nread", pi>>)
    /\ unannounced' = unannounced \ {pi}
    /\ done' = [done EXCEPT ![p] = 0]
    /\ returns(p)
    /\ UNCHANGED <<fileVars, killed>>

\* Nothing to read and a writer left: killed() ends the call, or p sleeps.
piperead_waits(p, pi) ==
    /\ ~isBlocked(p)
    /\ empty(pi) /\ pipes[pi].writeopen
    /\ IF killed[p]
       THEN returns(p) /\ UNCHANGED chan
       ELSE chan' = [chan EXCEPT ![p] = <<"nread", pi>>] /\ UNCHANGED todo
    /\ UNCHANGED <<fileVars, pipeVars, killed>>

\* It takes up to n bytes, or the k before one that copyout() cannot store, and
\* wakes the writers.  The caller reads on until there is nothing.
piperead_Silent(p, pi, n) ==
    /\ ~isBlocked(p)
    /\ ~empty(pi) \/ ~pipes[pi].writeopen
    /\ \E k \in 0 .. held(pi) :
        /\ k <= n
        /\ pipes' = [pipes EXCEPT ![pi].nread = (@ + k) % UINT]
        /\ IF k = 0 THEN returns(p) ELSE returnsToLoop(p)
    /\ UNCHANGED <<fileVars, done, unannounced, chan, killed>>

piperead(p, pi, n) ==
    /\ ~isBlocked(p)
    /\ ~empty(pi) \/ ~pipes[pi].writeopen
    /\ \E k \in 0 .. held(pi) :
        /\ k <= n
        /\ pipes' = [pipes EXCEPT ![pi].nread = (@ + k) % UINT]
        /\ IF k = 0 THEN returns(p) ELSE returnsToLoop(p)
    /\ chan' = wakeup(<<"nwrite", pi>>)
    /\ UNCHANGED <<fileVars, done, unannounced, killed>>

fileread(p, fd, n) ==
    LET f == file[argfd(p, fd)] IN
    IF argfd(p, fd) = NoFile \/ ~f.readable \/ f.type # "PIPE"
    THEN returns(p) /\ UNCHANGED <<fileVars, pipeVars, chan, killed>>
    ELSE piperead_waits(p, f.pipe) \/ piperead(p, f.pipe, n)

filewrite(p, fd, n) ==
    LET f == file[argfd(p, fd)] IN
    IF argfd(p, fd) = NoFile \/ ~f.writable \/ f.type # "PIPE"
    THEN returns(p) /\ UNCHANGED <<fileVars, pipeVars, chan, killed>>
    ELSE \/ pipewrite_stops(p, f.pipe, n)
         \/ pipewrite_sleeps(p, f.pipe, n)
         \/ pipewrite_ends(p, f.pipe, n)

\* kkill() wakes a process that is asleep.  One that has looked at killed() and
\* is only on its way into sleep() goes to sleep nevertheless.  Only kills during
\* a read() or write() are modelled (a bound): elsewhere the process ends when its
\* call returns.
kkill(p) ==
    /\ todo[p] # <<>> /\ Head(todo[p])[1] \in {"read", "write"}
    /\ ~killed[p] /\ Cardinality({q \in Procs : killed[q]}) < MaxKills
    /\ killed' = [killed EXCEPT ![p] = TRUE]
    /\ chan' = chan \/ (isBlocked(p) /\ chan' = [chan EXCEPT ![p] = <<>>])
    /\ UNCHANGED <<fileVars, pipeVars, todo>>

(***************************************************************************)
(* Invariants.                                                             *)
(***************************************************************************)

\* The descriptors that refer to f, and the calls of pipe() that have f.
fdsOf(f) == {x \in Procs \X Fds : ofile[x[1]][x[2]] = f}
pipesOf(f) == {p \in Procs : f \in Range(fresh[p])}

refs == [f \in FileIds |-> Cardinality(fdsOf(f)) + Cardinality(pipesOf(f))]

\* f->ref counts the descriptors of all processes that refer to f, and the
\* references of a process in pipe().  A file that
\* is not in use is referred to by none.
RefInv == \A f \in FileIds : file[f].ref = refs[f]

\* s is the end of pipe pi for writing (w) or for reading.
isEnd(s, pi, w) == s.type = "PIPE" /\ s.pipe = pi /\ s.writable = w

\* The files that are this end, and the processes about to close it.
fileEnds(pi, w) == {f \in FileIds : isEnd(file[f], pi, w)}
closingEnds(pi, w) == {p \in Procs : isEnd(ff[p], pi, w)}

isOpen(pi, w) == IF w THEN pipes[pi].writeopen ELSE pipes[pi].readopen

\* A pipe end is open exactly as long as a file for it is, or is being closed:
\* nobody uses a page that was freed, and no page is lost.
PipeOpenInv ==
    \A pi \in Pages, w \in BOOLEAN :
        isOpen(pi, w) <=> fileEnds(pi, w) # {} \/ closingEnds(pi, w) # {}

\* A pipe holds at most PIPESIZE bytes, also when its counters wrap, and those
\* are the bytes last written, in order.
PipeInv ==
    \A pi \in Pages :
        /\ held(pi) <= PIPESIZE
        /\ \A i \in 0 .. held(pi) - 1 :
            LET c == (pipes[pi].nread + i) % UINT IN pipes[pi].data[c % PIPESIZE] = c

\* A process asleep in a pipe has something to wait for: a reader sleeps only on
\* an empty pipe that somebody can write to, unless a writer was killed in the
\* middle of its call; a writer only on a full one that somebody reads.
NoLostPipeWakeup ==
    \A p \in Procs, pi \in Pages :
        /\ chan[p] = <<"nread", pi>> =>
            pipes[pi].writeopen /\ (empty(pi) \/ pi \in unannounced)
        /\ chan[p] = <<"nwrite", pi>> => pipes[pi].readopen /\ full(pi)

\* What file.c and pipe.c keep true together: references are counted, a pipe is open
\* at an end exactly while a file holds that end, and its counts stay in bounds.
FilesInv == RefInv /\ PipeOpenInv /\ PipeInv

==============================================================================
