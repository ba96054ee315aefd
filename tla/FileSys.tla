------------------------------- MODULE FileSys -------------------------------
(***************************************************************************)
(* The file system calls of kernel/sysfile.c and kernel/file.c over the    *)
(* inode table and path lookup of kernel/fs.c, with crashes.               *)
(*                                                                         *)
(* A process has a list of tasks, named after what they model.  A task is  *)
(* one step, or several, between which others run: all that happens under  *)
(* one ilock() is one step.  The log is the atomic disk of module          *)
(* AtomicDisk: what is changed is on disk when the last operation inside   *)
(* ends.                                                                   *)
(***************************************************************************)
EXTENDS Mkfs

CONSTANTS
    Procs, Boot,        \* the processes, and the one that runs fsinit()
    Images,             \* the files that mkfs may have put on the disk
    Calls,              \* the system calls to try, with their arguments
    MaxChunk,           \* units that filewrite() writes in one operation
    MaxCalls, MaxCrashes

VARIABLES
    fs,                 \* the file system, as buffers and inodes have it
    disk,               \* the file system on disk
    ref, valid, lock,   \* of the inodes in memory
    ops,                \* who is between begin_op() and end_op()
    todo, res,          \* the tasks of each process; what the last one returned
    cwd, ofile,         \* the current directory and the open file of each
    calls, crashes

vars == <<fs, disk, ref, valid, lock, ops, todo, res, cwd, ofile, calls, crashes>>
fixed == <<disk, ops, cwd, ofile, calls, crashes>>

None == [ip |-> 0, name |-> <<>>]
NoFile == [ip |-> 0, off |-> 0, writable |-> FALSE]

At(p, task) == todo[p] # <<>> /\ Head(todo[p])[1] = task
Arg(p, k) == Head(todo[p])[k]
Then(p, tasks) == todo' = [todo EXCEPT ![p] = tasks \o Tail(@)]
Finally(p, tasks) == todo' = [todo EXCEPT ![p] = tasks \o <<<<"end_op">>>>]
Returns(p, r) == res' = [res EXCEPT ![p] = r]
Put(i) == <<"iput", i>>

Found(p) == res[p].ip
unlocked(i) == lock[i] = 0
inc(i) == [ref EXCEPT ![i] = @ + 1]
isDir(i) == fs.inode[i].type = "DIR"
nlink(i) == fs.inode[i].nlink

(***************************************************************************)
(* The inode table.                                                        *)
(***************************************************************************)

last_AnyRef(i) == i \in valid /\ nlink(i) = 0

last(i) == ref[i] = 1 /\ i \in valid /\ nlink(i) = 0

\* Whether to free the inode is decided under itable.lock, where it must not
\* sleep for the inode.
iput(p) ==
    /\ At(p, "iput")
    /\ LET i == Arg(p, 2) IN
       IF last(i)
       THEN /\ lock' = [lock EXCEPT ![i] = p]
            /\ fs' = [fs EXCEPT !.panic = @ \/ ~unlocked(i)]
            /\ Then(p, <<<<"iput_trunc", i>>>>)
            /\ UNCHANGED ref
       ELSE /\ ref' = [ref EXCEPT ![i] = @ - 1]
            /\ Then(p, <<>>)
            /\ UNCHANGED <<lock, fs>>
    /\ UNCHANGED <<valid, res, fixed>>

iput_trunc(p) ==
    /\ At(p, "iput_trunc")
    /\ fs' = itrunc(fs, Arg(p, 2))
    /\ valid' = valid \ {Arg(p, 2)}
    /\ lock' = [lock EXCEPT ![Arg(p, 2)] = 0]
    /\ Then(p, <<<<"iput_drop", Arg(p, 2)>>>>)
    /\ UNCHANGED <<ref, res, fixed>>

iput_drop(p) ==
    /\ At(p, "iput_drop")
    /\ ref' = [ref EXCEPT ![Arg(p, 2)] = @ - 1]
    /\ Then(p, <<<<"ifree", Arg(p, 2)>>>>)
    /\ UNCHANGED <<fs, valid, lock, res, fixed>>

ifree(p) ==
    /\ At(p, "ifree")
    /\ fs' = [fs EXCEPT !.inode[Arg(p, 2)].type = "none"]
    /\ Then(p, <<>>)
    /\ UNCHANGED <<ref, valid, lock, res, fixed>>

iunlock(p) ==
    /\ At(p, "iunlock")
    /\ lock' = [lock EXCEPT ![Arg(p, 2)] = 0]
    /\ Then(p, <<>>)
    /\ UNCHANGED <<fs, ref, valid, res, fixed>>

end_op(p) ==
    /\ At(p, "end_op")
    /\ ops' = ops \ {p}
    /\ disk' = IF ops = {p} THEN fs ELSE disk
    /\ Then(p, <<>>)
    /\ UNCHANGED <<fs, ref, valid, lock, res, cwd, ofile, calls, crashes>>

(***************************************************************************)
(* Path lookup.                                                            *)
(***************************************************************************)
start(p, path) == IF path[1] = "/" THEN ROOTINO ELSE cwd[p]
namei(p, path) == <<"namex", path, FALSE, start(p, path)>>
nameiparent(p, path) == <<"namex", path, TRUE, start(p, path)>>

namex_end(p) ==
    /\ At(p, "namex") /\ skipelem(Arg(p, 2)).name = <<>>
    /\ IF Arg(p, 3) THEN Then(p, <<Put(Arg(p, 4))>>) /\ UNCHANGED res
       ELSE Then(p, <<>>) /\ Returns(p, [None EXCEPT !.ip = Arg(p, 4)])
    /\ UNCHANGED <<fs, ref, valid, lock, fixed>>

namex_elem(p) ==
    /\ At(p, "namex")
    /\ \E e \in {skipelem(Arg(p, 2))}, i \in {Arg(p, 4)} :
        /\ e.name # <<>>
        /\ valid' = valid \cup {i}
        /\ IF ~isDir(i) \/ nlink(i) = 0
           THEN Then(p, <<Put(i)>>) /\ UNCHANGED <<ref, res>>
           ELSE IF Arg(p, 3) /\ e.rest = <<>>
           THEN Then(p, <<>>) /\ Returns(p, [ip |-> i, name |-> e.name]) /\ UNCHANGED ref
           ELSE IF dirlookup(fs, i, e.name) = 0
           THEN Then(p, <<Put(i)>>) /\ UNCHANGED <<ref, res>>
           ELSE \E next \in {dirlookup(fs, i, e.name)} :
                /\ Then(p, <<Put(i), <<"namex", e.rest, Arg(p, 3), next>>>>)
                /\ ref' = inc(next)
                /\ UNCHANGED res
    /\ UNCHANGED <<fs, lock, fixed>>

\* A lookup that failed.
notFound(p, task) == At(p, task) /\ Found(p) = 0

call_fails(p) ==
    /\ \E task \in {"link", "unlink", "open", "made", "chdir"} : notFound(p, task)
    /\ Finally(p, <<>>)
    /\ UNCHANGED <<fs, ref, valid, lock, res, fixed>>

has(p, task) == At(p, task) /\ Found(p) # 0

\* The inode that a process locks next, 0 if its task does not lock one.
locks(p) ==
    LET t == Head(todo[p]) IN
    CASE t[1] = "namex" -> IF skipelem(t[2]).name = <<>> THEN 0 ELSE t[4]
      [] t[1] \in {"create_found", "link_bad"} -> t[2]
      [] t[1] = "unlink_ip" -> t[3]
      [] t[1] \in {"filewrite", "fileread"} -> ofile[p].ip
      [] t[1] \in {"create", "open", "made", "link", "link_enter", "unlink", "chdir"} -> Found(p)
      [] OTHER -> 0

\* ilock() waits for the inode.
ready(p) == todo[p] # <<>> /\ (locks(p) # 0 => lock[locks(p)] \in {0, p})

(***************************************************************************)
(* create()                                                                *)
(***************************************************************************)
create_nodir(p) ==
    /\ notFound(p, "create")
    /\ Then(p, <<>>)
    /\ UNCHANGED <<fs, ref, valid, lock, res, fixed>>

mayCreate_Orphan(dp, type) == ~(type = "DIR" /\ nlink(dp) >= NLINK_MAX)

mayCreate(dp, type) == nlink(dp) # 0 /\ ~(type = "DIR" /\ nlink(dp) >= NLINK_MAX)

\* The entries of a new directory, then the one for it, then the link of "..".
entered(r, i, dp, name) == IF r.ok THEN dirlink(r.F, dp, name, i) ELSE r
dotted(r, i, dp) == IF r.ok THEN dirlink(r.F, i, DotDot, dp) ELSE r

counted(r, i, dp, type) ==
    IF ~r.ok THEN [r EXCEPT !.F.inode[i].nlink = 0]
    ELSE IF type = "DIR" THEN [r EXCEPT !.F.inode[dp].nlink = @ + 1] ELSE r

newInode(F, i, dp, name, type) ==
    counted(entered(IF type = "DIR" THEN dotted(dirlink(F, i, Dot, i), i, dp) ELSE [F |-> F, ok |-> TRUE],
                    i, dp, name), i, dp, type)

undone_KeepsParent(ip, dp) == <<Put(ip), Put(dp)>>

undone(ip, dp) == <<Put(ip), <<"iunlock", dp>>, Put(dp)>>

create_new(p, dp, type) ==
    \E new \in {ialloc(fs, type)} :
        IF new.i = 0
        THEN /\ Then(p, <<Put(dp)>>) /\ Returns(p, None)
             /\ UNCHANGED <<fs, ref, lock>>
        ELSE \E r \in {newInode([new.F EXCEPT !.inode[new.i].nlink = 1], new.i, dp, res[p].name, type)} :
             /\ fs' = r.F
             /\ ref' = inc(new.i)
             /\ IF r.ok
                THEN /\ Then(p, <<Put(dp)>>) /\ Returns(p, [None EXCEPT !.ip = new.i])
                     /\ lock' = [lock EXCEPT ![new.i] = p]
                ELSE /\ Then(p, undone(new.i, dp)) /\ Returns(p, None)
                     /\ lock' = [lock EXCEPT ![dp] = p]

create(p) ==
    /\ has(p, "create")
    /\ \E dp \in {Found(p)}, type \in {Arg(p, 2)} :
        IF ~mayCreate(dp, type)
        THEN /\ Then(p, <<Put(dp)>>) /\ Returns(p, None)
             /\ valid' = valid \cup {dp}
             /\ UNCHANGED <<fs, ref, lock>>
        ELSE IF dirlookup(fs, dp, res[p].name) # 0
        THEN \E ip \in {dirlookup(fs, dp, res[p].name)} :
             /\ Then(p, <<Put(dp), <<"create_found", ip, type>>>>) /\ Returns(p, None)
             /\ ref' = inc(ip)
             /\ valid' = valid \cup {dp}
             /\ UNCHANGED <<fs, lock>>
        ELSE create_new(p, dp, type) /\ valid' = valid \cup {dp, ialloc(fs, type).i}
    /\ UNCHANGED fixed

create_found(p) ==
    /\ At(p, "create_found")
    /\ LET ip == Arg(p, 2) IN
       /\ valid' = valid \cup {ip}
       /\ IF Arg(p, 3) = "FILE" /\ fs.inode[ip].type \in {"FILE", "DEVICE"}
          THEN /\ Then(p, <<>>) /\ Returns(p, [None EXCEPT !.ip = ip])
               /\ lock' = [lock EXCEPT ![ip] = p]
          ELSE Then(p, <<Put(ip)>>) /\ UNCHANGED <<res, lock>>
    /\ UNCHANGED <<fs, ref, fixed>>

\* mkdir() and mknod() are done with the inode.
made(p) ==
    /\ has(p, "made")
    /\ lock' = [lock EXCEPT ![Found(p)] = 0]
    /\ Finally(p, <<Put(Found(p))>>) /\ Returns(p, None)
    /\ UNCHANGED <<fs, ref, valid, fixed>>

(***************************************************************************)
(* The other calls.  A process has one open file at most, so that open()   *)
(* fails for want of a file or a descriptor if it has one.                 *)
(***************************************************************************)
\* Of the device number of a device it only matters whether there is such a device.
sys_open(p) ==
    /\ has(p, "open")
    /\ \E noDevice \in {FALSE, fs.inode[Found(p)].type = "DEVICE"} :
       LET ip == Found(p) mode == Arg(p, 2) IN
       /\ valid' = valid \cup {ip}
       /\ lock' = [lock EXCEPT ![ip] = 0]
       /\ IF (isDir(ip) /\ mode # "r") \/ noDevice \/ ofile[p] # NoFile
          THEN Finally(p, <<Put(ip)>>) /\ UNCHANGED <<fs, ofile>>
          ELSE /\ Finally(p, <<>>)
               /\ ofile' = [ofile EXCEPT ![p] = [ip |-> ip, off |-> 0, writable |-> mode # "r"]]
               /\ fs' = IF mode = "trunc" /\ fs.inode[ip].type = "FILE" THEN itrunc(fs, ip) ELSE fs
    /\ Returns(p, None)
    /\ UNCHANGED <<disk, ref, ops, cwd, calls, crashes>>

sys_link(p) ==
    /\ has(p, "link")
    /\ \E ip \in {Found(p)} :
       /\ valid' = valid \cup {ip}
       /\ IF isDir(ip) \/ nlink(ip) >= NLINK_MAX
          THEN Finally(p, <<Put(ip)>>) /\ UNCHANGED <<fs, ref>>
          ELSE /\ fs' = [fs EXCEPT !.inode[ip].nlink = @ + 1]
               /\ ref' = inc(start(p, Arg(p, 2)))
               /\ Then(p, <<nameiparent(p, Arg(p, 2)), <<"link_enter", ip>>>>)
    /\ Returns(p, None)
    /\ UNCHANGED <<lock, fixed>>

link_nodir(p) ==
    /\ notFound(p, "link_enter")
    /\ Then(p, <<<<"link_bad", Arg(p, 2)>>>>)
    /\ UNCHANGED <<fs, ref, valid, lock, res, fixed>>

link_enter(p) ==
    /\ has(p, "link_enter")
    /\ \E dp \in {Found(p)} : \E r \in {dirlink(fs, dp, res[p].name, Arg(p, 2))} :
       /\ valid' = valid \cup {dp}
       /\ IF nlink(dp) = 0
          THEN Then(p, <<Put(dp), <<"link_bad", Arg(p, 2)>>>>) /\ UNCHANGED fs
          ELSE /\ fs' = r.F
               /\ IF r.ok THEN Finally(p, <<Put(dp), Put(Arg(p, 2))>>)
                  ELSE Then(p, <<Put(dp), <<"link_bad", Arg(p, 2)>>>>)
    /\ Returns(p, None)
    /\ UNCHANGED <<ref, lock, fixed>>

link_bad(p) ==
    /\ At(p, "link_bad")
    /\ fs' = [fs EXCEPT !.inode[Arg(p, 2)].nlink = @ - 1]
    /\ Finally(p, <<Put(Arg(p, 2))>>)
    /\ UNCHANGED <<ref, valid, lock, res, fixed>>

sys_unlink(p) ==
    /\ has(p, "unlink")
    /\ \E dp \in {Found(p)}, name \in {res[p].name} :
       /\ valid' = valid \cup {dp}
       /\ IF name \in {Dot, DotDot} \/ dirlookup(fs, dp, name) = 0
          THEN Finally(p, <<Put(dp)>>) /\ UNCHANGED <<ref, lock>>
          ELSE \E ip \in {dirlookup(fs, dp, name)} :
               /\ ref' = inc(ip)
               /\ lock' = [lock EXCEPT ![dp] = p]
               /\ Finally(p, <<<<"unlink_ip", dp, ip, offsetOf(fs, dp, name)>>>>)
    /\ Returns(p, None)
    /\ UNCHANGED <<fs, fixed>>

cleared(F, dp, off, wasDir) ==
    LET w == writei(F, dp, off, <<zero>>)
        G == [w.F EXCEPT !.panic = @ \/ w.n # 1]
    IN  IF wasDir THEN [G EXCEPT !.inode[dp].nlink = @ - 1] ELSE G

notEmpty(p, dp, ip) == Finally(p, undone(ip, dp))

unlink_ip(p) ==
    /\ At(p, "unlink_ip")
    /\ \E dp \in {Arg(p, 2)}, ip \in {Arg(p, 3)}, F \in {[fs EXCEPT !.panic = @ \/ nlink(Arg(p, 3)) < 1]} :
       /\ valid' = valid \cup {ip}
       /\ IF isDir(ip) /\ ~isdirempty(fs, ip)
          THEN notEmpty(p, dp, ip) /\ fs' = F /\ UNCHANGED lock
          ELSE /\ fs' = cleared(F, dp, Arg(p, 4), isDir(ip))
               /\ lock' = [lock EXCEPT ![dp] = 0, ![ip] = p]
               /\ Then(p, <<Put(dp), <<"unlink_dec", ip>>>>)
    /\ UNCHANGED <<ref, res, fixed>>

unlink_dec(p) ==
    /\ At(p, "unlink_dec")
    /\ fs' = [fs EXCEPT !.inode[Arg(p, 2)].nlink = @ - 1]
    /\ lock' = [lock EXCEPT ![Arg(p, 2)] = 0]
    /\ Then(p, <<Put(Arg(p, 2))>>)
    /\ UNCHANGED <<ref, valid, res, fixed>>

\* p->cwd is assigned after end_op(): only p reads it.
sys_chdir(p) ==
    /\ has(p, "chdir")
    /\ LET ip == Found(p) IN
       /\ valid' = valid \cup {ip}
       /\ IF isDir(ip)
          THEN Finally(p, <<Put(cwd[p])>>) /\ cwd' = [cwd EXCEPT ![p] = ip]
          ELSE Finally(p, <<Put(ip)>>) /\ UNCHANGED cwd
    /\ Returns(p, None)
    /\ UNCHANGED <<fs, disk, ref, lock, ops, ofile, calls, crashes>>

\* One operation of the loop in filewrite(); n is what writei() returns.
filewrite(p) ==
    /\ At(p, "filewrite")
    /\ \E now \in {SubSeq(Arg(p, 2), 1, Min({MaxChunk, Len(Arg(p, 2))}))} :
       \E w \in {writei(fs, ofile[p].ip, ofile[p].off, now)} :
       /\ fs' = w.F
       /\ ofile' = [ofile EXCEPT ![p].off = @ + Max({0, w.n})]
       /\ Then(p, <<<<"end_op">>>> \o
                  IF w.n = Len(now) /\ w.n < Len(Arg(p, 2))
                  THEN <<<<"filewrite", SubSeq(Arg(p, 2), w.n + 1, Len(Arg(p, 2)))>>>> ELSE <<>>)
    /\ valid' = valid \cup {ofile[p].ip}
    /\ ops' = ops \cup {p}
    /\ UNCHANGED <<disk, ref, lock, res, cwd, calls, crashes>>

fileread(p) ==
    /\ At(p, "fileread")
    /\ ofile' = [ofile EXCEPT ![p].off = @ + Len(readi(fs, ofile[p].ip, @, Arg(p, 2)))]
    /\ valid' = valid \cup {ofile[p].ip}
    /\ Then(p, <<>>)
    /\ UNCHANGED <<fs, disk, ref, lock, ops, res, cwd, calls, crashes>>

(***************************************************************************)
(* A process makes a call; the machine stops and boots again.              *)
(***************************************************************************)
onInode(p) == ofile[p] # NoFile /\ fs.inode[ofile[p].ip].type # "DEVICE"

tasks(p, c) ==
    CASE c[1] = "open" -> IF c[3] = "create"
                          THEN <<nameiparent(p, c[2]), <<"create", "FILE">>, <<"open", c[3]>>>>
                          ELSE <<namei(p, c[2]), <<"open", c[3]>>>>
      [] c[1] = "mkdir" -> <<nameiparent(p, c[2]), <<"create", "DIR">>, <<"made">>>>
      [] c[1] = "mknod" -> <<nameiparent(p, c[2]), <<"create", "DEVICE">>, <<"made">>>>
      [] c[1] = "link" -> <<namei(p, c[2]), <<"link", c[3]>>>>
      [] c[1] = "unlink" -> <<nameiparent(p, c[2]), <<"unlink">>>>
      [] c[1] = "chdir" -> <<namei(p, c[2]), <<"chdir">>>>

Booting == \E k \in DOMAIN todo[Boot] : todo[Boot][k][1] = "ireclaim"
mayCall(p) == todo[p] = <<>> /\ ~Booting /\ calls < MaxCalls

\* A call with a path, in a transaction; it begins with the directory to start at.
path_call(p) ==
    /\ mayCall(p)
    /\ \E c \in Calls :
        /\ c[1] \notin {"close", "write", "read"}
        /\ todo' = [todo EXCEPT ![p] = tasks(p, c)]
        /\ ref' = inc(start(p, c[2]))
    /\ ops' = ops \cup {p}
    /\ calls' = calls + 1
    /\ UNCHANGED <<fs, disk, valid, lock, res, cwd, ofile, crashes>>

file_call(p) ==
    /\ mayCall(p) /\ onInode(p)
    /\ \E c \in Calls :
        \/ c[1] = "write" /\ ofile[p].writable /\ todo' = [todo EXCEPT ![p] = <<<<"filewrite", c[2]>>>>]
        \/ c[1] = "read" /\ todo' = [todo EXCEPT ![p] = <<<<"fileread", c[2]>>>>]
    /\ calls' = calls + 1
    /\ UNCHANGED <<fs, disk, ref, valid, lock, ops, res, cwd, ofile, crashes>>

fileclose(p) ==
    /\ mayCall(p) /\ ofile[p] # NoFile /\ <<"close">> \in Calls
    /\ todo' = [todo EXCEPT ![p] = <<Put(ofile[p].ip), <<"end_op">>>>]
    /\ ofile' = [ofile EXCEPT ![p] = NoFile]
    /\ ops' = ops \cup {p}
    /\ calls' = calls + 1
    /\ UNCHANGED <<fs, disk, ref, valid, lock, res, cwd, crashes>>

\* The memory of a machine that has booted, but for fsinit().
booted ==
    [ref |-> [i \in Inodes |-> IF i = ROOTINO THEN Cardinality(Procs) ELSE 0],
     lock |-> [i \in Inodes |-> 0],
     res |-> [p \in Procs |-> None],
     cwd |-> [p \in Procs |-> ROOTINO],
     ofile |-> [p \in Procs |-> NoFile],
     todo |-> [p \in Procs |-> IF p = Boot THEN <<<<"ireclaim", 1>>>> ELSE <<>>]]

\* Bound: no call follows a crash.  It would be a call on another image.
crash ==
    /\ crashes < MaxCrashes
    /\ fs' = disk
    /\ ref' = booted.ref /\ valid' = {} /\ lock' = booted.lock /\ ops' = {}
    /\ todo' = booted.todo /\ res' = booted.res /\ cwd' = booted.cwd /\ ofile' = booted.ofile
    /\ crashes' = crashes + 1
    /\ calls' = MaxCalls
    /\ UNCHANGED disk

orphaned_FilesOnly(i) == fs.inode[i].type = "FILE" /\ nlink(i) = 0

orphaned(i) == fs.inode[i].type # "none" /\ nlink(i) = 0

ireclaim(p) ==
    /\ At(p, "ireclaim")
    /\ \E i \in {Arg(p, 2)} :
        \/ i \notin Inodes /\ Then(p, <<>>) /\ UNCHANGED <<ref, valid, ops>>
        \/ /\ i \in Inodes
           /\ IF orphaned(i)
              THEN /\ ref' = inc(i) /\ valid' = valid \cup {i} /\ ops' = ops \cup {p}
                   /\ Then(p, <<Put(i), <<"end_op">>, <<"ireclaim", i + 1>>>>)
              ELSE Then(p, <<<<"ireclaim", i + 1>>>>) /\ UNCHANGED <<ref, valid, ops>>
    /\ UNCHANGED <<fs, disk, lock, res, cwd, ofile, calls, crashes>>

Init ==
    /\ \E files \in Images : fs = mkfs(files) /\ disk = mkfs(files)
    /\ ref = booted.ref /\ valid = {} /\ lock = booted.lock /\ ops = {}
    /\ todo = booted.todo /\ res = booted.res /\ cwd = booted.cwd /\ ofile = booted.ofile
    /\ calls = 0 /\ crashes = 0

task(p) ==
    \/ iput(p) \/ iput_trunc(p) \/ iput_drop(p) \/ ifree(p) \/ iunlock(p) \/ end_op(p)
    \/ namex_end(p) \/ namex_elem(p) \/ call_fails(p)
    \/ create_nodir(p) \/ create(p) \/ create_found(p) \/ made(p)
    \/ sys_open(p) \/ sys_link(p) \/ link_nodir(p) \/ link_enter(p) \/ link_bad(p)
    \/ sys_unlink(p) \/ unlink_ip(p) \/ unlink_dec(p) \/ sys_chdir(p)
    \/ filewrite(p) \/ fileread(p) \/ ireclaim(p)

step(p) == ready(p) /\ task(p)

Next == crash \/ \E p \in Procs : step(p) \/ path_call(p) \/ file_call(p) \/ fileclose(p)

Spec == Init /\ [][Next]_vars

\* A process that can go on does: it is weak fairness of step(p), written with
\* ready(p), which is when step(p) is enabled, and with what only step(p) does to
\* the tasks of a process that has some, but for a crash.
FairSpec ==
    Spec /\ \A p \in Procs : []<>~ready(p) \/ []<><<todo[p] # <<>> /\ todo'[p] # todo[p]>>_vars

(***************************************************************************)
(* Properties.                                                             *)
(***************************************************************************)
live(F) == {i \in Inodes : F.inode[i].type # "none"}

\* The entries in use of directories that are still linked: directory, inode,
\* name and where.
entriesOf(F, i) ==
    {<<i, unitAt(F, i, off)[1], unitAt(F, i, off)[2], off>> :
        off \in {off \in 0 .. F.inode[i].size - 1 : unitAt(F, i, off)[1] # 0}}

entries(F) == UNION {entriesOf(F, i) : i \in {i \in live(F) : F.inode[i].type = "DIR" /\ F.inode[i].nlink > 0}}

\* nlink counts the entries but ".", and for the root not "..", but one more.
counts(e) == e[3] # Dot /\ (e[3] = DotDot => e[1] # ROOTINO)
linksTo(E, i) == Cardinality({e \in E : e[2] = i /\ counts(e)}) + (IF i = ROOTINO THEN 1 ELSE 0)

places(F) == UNION {{<<i, x[1], x[2]>> : x \in placesOf(F, i)} : i \in Inodes}

wholeBlocks(P, used) == {x[3] : x \in P} = used /\ Cardinality(P) = Cardinality(used)
wholeLinks(E, F) ==
    /\ \A e \in E : e[2] \in live(F)
    /\ \A i \in live(F) : F.inode[i].nlink = linksTo(E, i) /\ F.inode[i].nlink <= NLINK_MAX

\* What is on disk at any time, and so what a crash leaves, is a whole file
\* system: the bitmap has the blocks of the inodes, each of them once; entries
\* refer to inodes that are allocated; nlink counts the entries, and those of a
\* directory the ".." below it, and fits its 16 bits.
FsckInv ==
    /\ wholeBlocks(places(disk), disk.used)
    /\ \A i \in Inodes \ live(disk) : disk.inode[i] = NoInode
    /\ wholeLinks(entries(disk), disk)

\* The references of a task.
refsOf(t) ==
    CASE t[1] \in {"iput", "iput_trunc", "iput_drop", "create_found", "link_enter", "link_bad", "unlink_dec"} -> <<t[2]>>
      [] t[1] = "namex" -> <<t[4]>>
      [] t[1] = "unlink_ip" -> <<t[2], t[3]>>
      [] OTHER -> <<>>

refs(p) == FlattenSeq([k \in DOMAIN todo[p] |-> refsOf(todo[p][k])]) \o <<cwd[p], ofile[p].ip, res[p].ip>>
allRefs == FoldSet(LAMBDA p, all : all \o refs(p), <<>>, Procs)
countedBy(all) == \A i \in Inodes : ref[i] = Cardinality({k \in DOMAIN all : all[k] = i})

\* ip->ref counts who has a pointer to the inode, and whoever has one has an
\* allocated inode, so that ilock() finds what it is for: nothing is freed while a
\* path lookup, a file or a current directory has it.  No block is freed twice,
\* unlink() finds what it removes linked and its entry in place (the panics of
\* bfree() and sys_unlink()), and iput() never has to sleep with itable.lock held.
InodeRefInv ==
    /\ ~fs.panic
    /\ countedBy(allRefs)
    /\ \A i \in Inodes : ref[i] > 0 => fs.inode[i].type # "none"

\* An inode without links that nobody has is being freed, or is found by
\* ireclaim() after a crash.
OrphansFreed ==
    \A i \in live(fs) : nlink(i) = 0 =>
        \/ ref[i] > 0
        \/ \E p \in Procs : \E k \in DOMAIN todo[p] :
            LET t == todo[p][k] IN t = <<"ifree", i>> \/ (t[1] = "ireclaim" /\ t[2] <= i)

\* Every call returns: no process waits for ever for an inode.
CallsReturn == \A p \in Procs : todo[p] # <<>> ~> todo[p] = <<>>
==============================================================================
