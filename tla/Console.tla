------------------------------- MODULE Console -------------------------------
(***************************************************************************)
(* The console, the uart and the clock: kernel/console.c, kernel/uart.c,   *)
(* kernel/plic.c, sys_pause() and clockintr(), on the harts of module      *)
(* Harts.                                                                  *)
(***************************************************************************)
EXTENDS Harts

CONSTANTS
    Users,              \* what may happen: calls of each process, keys that are typed,
                        \* harts whose timer interrupts
    INPUT_BUF_SIZE,
    Batch,              \* characters that consolewrite() copies at a time
    WRAP,               \* unsigned numbers are below it
    Fifo                \* characters that the uart can take

Enter == "\n"
EOF == "^D"
Erase == "^H"
Kill == "^U"

ASSUME ConsoleAssumption == WRAP % INPUT_BUF_SIZE = 0 /\ Cardinality(Harts) <= Fifo

Letters == {"a"}

VARIABLES
    user,               \* one of Users
    cons,               \* buf, r, w, e
    ticks,
    tx,                 \* the process that has tx_lock
    uart,               \* out: characters to send; thri: it is done; in: one received
    irq                 \* of the uart, in the interrupt controller

deviceVars == <<user, cons, ticks, tx, uart, irq>>
vars == <<hartVars, deviceVars>>

local == <<reg, lock, cur, state, chan, killed, panic>>

minus(a, b) == (a - b) % WRAP
plus(a) == (a + 1) % WRAP
at(i) == i % INPUT_BUF_SIZE

(***************************************************************************)
(* The uart and the interrupt controller.                                  *)
(***************************************************************************)
line == uart.thri \/ uart.in # <<>>

uart_sends ==
    /\ uart.out > 0
    /\ uart' = [uart EXCEPT !.out = @ - 1, !.thri = @ \/ uart.out = 1]
    /\ UNCHANGED <<hartVars, user, cons, ticks, tx, irq>>

uart_receives ==
    /\ uart.in = <<>>
    /\ \E c \in user.keys : uart' = [uart EXCEPT !.in = <<c>>]
    /\ UNCHANGED <<hartVars, user, cons, ticks, tx, irq>>

plic_raises ==
    /\ line /\ irq = "idle" /\ irq' = "pending"
    /\ UNCHANGED <<hartVars, user, cons, ticks, tx, uart>>

\* Every hart may be interrupted; one of them claims the interrupt.
external_interrupt(h) ==
    /\ interruptible(h) /\ irq = "pending" /\ trap(h, "external", <<<<"plic_claim">>>>)
    /\ UNCHANGED deviceVars

uartintr == <<<<"uart_ack">>, <<"uart_tx">>, <<"uart_rx">>>>

plic_claim(h) ==
    /\ At(h, "plic_claim")
    /\ IF irq = "pending"
       THEN irq' = "claimed" /\ Then(h, uartintr \o <<<<"plic_complete">>>>)
       ELSE Then(h, <<>>) /\ UNCHANGED irq
    /\ UNCHANGED <<local, user, cons, ticks, tx, uart>>

plic_complete(h) ==
    /\ At(h, "plic_complete")
    /\ irq' = "idle"
    /\ Then(h, <<>>)
    /\ UNCHANGED <<local, user, cons, ticks, tx, uart>>

\* To read ISR acknowledges that characters were sent, unless it tells of input.
uart_ack(h) ==
    /\ At(h, "uart_ack")
    /\ uart' = [uart EXCEPT !.thri = @ /\ uart.in # <<>>]
    /\ Then(h, <<>>)
    /\ UNCHANGED <<local, user, cons, ticks, tx, irq>>

uart_tx(h) ==
    /\ At(h, "uart_tx")
    /\ Then(h, IF uart.out = 0 THEN Wakeup("tx") ELSE <<>>)
    /\ UNCHANGED <<local, deviceVars>>

uart_rx(h) ==
    /\ At(h, "uart_rx")
    /\ IF uart.in = <<>> THEN Then(h, <<>>) /\ UNCHANGED uart
       ELSE /\ Then(h, Acquire("cons") \o <<<<"consoleintr", uart.in[1]>>>> \o Release("cons") \o <<<<"uart_rx">>>>)
            /\ uart' = [uart EXCEPT !.in = <<>>]
    /\ UNCHANGED <<local, user, cons, ticks, tx, irq>>

\* A character goes to the uart, which is then no more done.
sent(u) == [u EXCEPT !.out = @ + 1, !.thri = FALSE]

\* It spins until the uart is idle, and then writes.
uartputc_sync(h) ==
    /\ At(h, "uartputc_sync") /\ uart.out = 0
    /\ Then(h, <<<<"write_thr">>>>)
    /\ UNCHANGED <<local, deviceVars>>

write_thr(h) ==
    /\ At(h, "write_thr")
    /\ uart' = sent(uart)
    /\ Then(h, <<>>)
    /\ UNCHANGED <<local, user, cons, ticks, tx, irq>>

(***************************************************************************)
(* Input.                                                                  *)
(***************************************************************************)
echo(n) == [k \in 1 .. n |-> <<"uartputc_sync">>]
erase == echo(3)

\* Characters back from cons.e to cons.w, or to the end of a line.
killable ==
    CHOOSE n \in 0 .. minus(cons.e, cons.w) :
        /\ \A k \in 1 .. n : cons.buf[at(cons.e - k)] # Enter
        /\ n < minus(cons.e, cons.w) => cons.buf[at(cons.e - n - 1)] = Enter

hasRoom_Full(c) == minus(c.e, c.r) <= INPUT_BUF_SIZE

hasRoom(c) == minus(c.e, c.r) < INPUT_BUF_SIZE

consoleintr(h) ==
    /\ At(h, "consoleintr")
    /\ LET c == Arg(h, 2) IN
       CASE c = Kill ->
                /\ Then(h, FlattenSeq([k \in 1 .. killable |-> erase]))
                /\ cons' = [cons EXCEPT !.e = minus(@, killable)]
         [] c = Erase /\ cons.e # cons.w ->
                /\ Then(h, erase)
                /\ cons' = [cons EXCEPT !.e = minus(@, 1)]
         [] c \notin {Kill, Erase} /\ hasRoom(cons) ->
                Then(h, echo(1) \o <<<<"store", c>>>>) /\ UNCHANGED cons
         [] OTHER -> Then(h, <<>>) /\ UNCHANGED cons
    /\ UNCHANGED <<local, user, ticks, tx, uart, irq>>

stored(c, ch) == [c EXCEPT !.buf[at(c.e)] = ch, !.e = plus(@)]
endsLine(c, ch) == ch \in {Enter, EOF} \/ minus(c.e, c.r) = INPUT_BUF_SIZE

store(h) ==
    /\ At(h, "store")
    /\ \E c \in {stored(cons, Arg(h, 2))} :
        IF endsLine(c, Arg(h, 2))
        THEN cons' = [c EXCEPT !.w = c.e] /\ Then(h, Wakeup("cons"))
        ELSE cons' = c /\ Then(h, <<>>)
    /\ UNCHANGED <<local, user, ticks, tx, uart, irq>>

\* read(): n characters are still to be copied, of target.
consoleread(n) == Acquire("cons") \o <<<<"cons_get", n, n>>>> \o Release("cons")

cons_wait(h) ==
    /\ At(h, "cons_get") /\ Arg(h, 2) > 0 /\ cons.r = cons.w
    /\ Then(h, IF killed[cur[h]] THEN <<>>
               ELSE Prepare("cons") \o Release("cons") \o Sleep \o Acquire("cons") \o <<Head(code[cur[h]])>>)
    /\ UNCHANGED <<local, deviceVars>>

cons_done(h) ==
    /\ At(h, "cons_get") /\ Arg(h, 2) = 0
    /\ Then(h, <<>>)
    /\ UNCHANGED <<local, deviceVars>>

\* ^D is left for the next read(), if this one has got something.
keepsEOF(c, n, target) == c = EOF /\ n < target

cons_get(h) ==
    /\ At(h, "cons_get") /\ Arg(h, 2) > 0 /\ cons.r # cons.w
    /\ LET n == Arg(h, 2) c == cons.buf[at(cons.r)] IN
       /\ cons' = IF keepsEOF(c, n, Arg(h, 3)) THEN cons ELSE [cons EXCEPT !.r = plus(@)]
       /\ \E copied \in {c # EOF, FALSE} :
            Then(h, IF copied /\ c # Enter THEN <<<<"cons_get", n - 1, Arg(h, 3)>>>> ELSE <<>>)
    /\ UNCHANGED <<local, user, ticks, tx, uart, irq>>

(***************************************************************************)
(* Output.  uartwrite() sends the characters from i on.                    *)
(***************************************************************************)
acquiresleep == Acquire("tx_lock") \o <<<<"tx_get">>>> \o Release("tx_lock")
releasesleep == Acquire("tx_lock") \o <<<<"tx_put">>>> \o Release("tx_lock")
uartwrite(n) == acquiresleep \o <<<<"tx_loop", n>>>> \o releasesleep

consolewrite(h) ==
    /\ At(h, "consolewrite")
    /\ \E n \in {Min({Batch, Arg(h, 2)})}, copied \in BOOLEAN :
        Then(h, IF n = 0 \/ ~copied THEN <<>>
                ELSE uartwrite(n) \o <<<<"consolewrite", Arg(h, 2) - n>>>>)
    /\ UNCHANGED <<local, deviceVars>>

tx_get(h) ==
    /\ At(h, "tx_get")
    /\ IF tx = Nobody THEN tx' = cur[h] /\ Then(h, <<>>)
       ELSE /\ Then(h, Prepare("tx_lock") \o Release("tx_lock") \o Sleep \o Acquire("tx_lock") \o <<<<"tx_get">>>>)
            /\ UNCHANGED tx
    /\ UNCHANGED <<local, user, cons, ticks, uart, irq>>

tx_put(h) ==
    /\ At(h, "tx_put")
    /\ tx' = Nobody
    /\ Then(h, Wakeup("tx_lock"))
    /\ UNCHANGED <<local, user, cons, ticks, uart, irq>>

\* The process is ready for the wakeup before it looks whether the uart is idle.
turn_LateReady(n) == <<<<"tx_poll", n, Prepare("tx") \o Sleep>>>>

turn(n) == Prepare("tx") \o <<<<"tx_poll", n, Sleep>>>>

tx_loop(h) ==
    /\ At(h, "tx_loop")
    /\ Then(h, IF Arg(h, 2) = 0 THEN <<>> ELSE turn(Arg(h, 2)))
    /\ UNCHANGED <<local, deviceVars>>

tx_poll(h) ==
    /\ At(h, "tx_poll")
    /\ Then(h, IF uart.out = 0 THEN <<<<"tx_write", Arg(h, 2)>>>> ELSE Arg(h, 3) \o <<<<"tx_loop", Arg(h, 2)>>>>)
    /\ UNCHANGED <<local, deviceVars>>

tx_write(h) ==
    /\ At(h, "tx_write")
    /\ uart' = sent(uart)
    /\ Then(h, <<<<"tx_loop", Arg(h, 2) - 1>>>>)
    /\ UNCHANGED <<local, user, cons, ticks, tx, irq>>

(***************************************************************************)
(* The clock.                                                              *)
(***************************************************************************)
clockintr(h) ==
    IF h = Hart0 THEN Acquire("ticks") \o <<<<"tick">>>> \o Wakeup("ticks") \o Release("ticks") ELSE <<>>

tick(h) ==
    /\ At(h, "tick")
    /\ ticks' = plus(ticks)
    /\ Then(h, <<>>)
    /\ UNCHANGED <<local, user, cons, tx, uart, irq>>

sys_pause(n) == Acquire("ticks") \o <<<<"pause", n>>>> \o Release("ticks")

pause_start(h) ==
    /\ At(h, "pause")
    /\ Then(h, <<<<"pause_until", Arg(h, 2), ticks>>>>)
    /\ UNCHANGED <<local, deviceVars>>

pause_until(h) ==
    /\ At(h, "pause_until")
    /\ Then(h, IF minus(ticks, Arg(h, 3)) >= Arg(h, 2) \/ killed[cur[h]] THEN <<>>
               ELSE Prepare("ticks") \o Release("ticks") \o Sleep \o Acquire("ticks") \o <<Head(code[cur[h]])>>)
    /\ UNCHANGED <<local, deviceVars>>

(***************************************************************************)
(* Together.                                                               *)
(***************************************************************************)
timer_interrupt(h) == h \in user.timers /\ interruptible(h) /\ trap(h, "timer", clockintr(h)) /\ UNCHANGED deviceVars

syscall(call) ==
    CASE call[1] = "read" -> consoleread(call[2])
      [] call[1] = "write" -> <<<<"consolewrite", call[2]>>>>
      [] call[1] = "pause" -> sys_pause(call[2])

ecall(h) ==
    /\ InUser(h) /\ \E call \in user.calls[cur[h]] : usertrap(h, "ecall", syscall(call), trapped(h))
    /\ UNCHANGED deviceVars

Init ==
    /\ HartInit
    /\ user \in Users
    /\ cons = [buf |-> [i \in 0 .. INPUT_BUF_SIZE - 1 |-> Enter], r |-> 0, w |-> 0, e |-> 0]
    /\ ticks = 0 /\ tx = Nobody
    /\ uart = [out |-> 0, thri |-> FALSE, in |-> <<>>]
    /\ irq = "idle"

ConsoleStep(h) ==
    \/ external_interrupt(h) \/ plic_claim(h) \/ plic_complete(h)
    \/ uart_ack(h) \/ uart_tx(h) \/ uart_rx(h) \/ uartputc_sync(h) \/ write_thr(h) \/ consoleintr(h) \/ store(h)
    \/ cons_wait(h) \/ cons_done(h) \/ cons_get(h)
    \/ consolewrite(h) \/ tx_get(h) \/ tx_put(h) \/ tx_loop(h) \/ tx_poll(h) \/ tx_write(h)
    \/ tick(h) \/ pause_start(h) \/ pause_until(h) \/ ecall(h) \/ timer_interrupt(h)

Next ==
    \/ uart_sends \/ uart_receives \/ plic_raises
    \/ (\E p \in user.victims : kkill(p)) /\ UNCHANGED deviceVars
    \/ \E h \in user.harts : ConsoleStep(h) \/ (HartStep(h) /\ UNCHANGED deviceVars)

Spec == Init /\ [][Next]_vars

(***************************************************************************)
(* Properties.                                                             *)
(***************************************************************************)
has(t, step) == \E k \in DOMAIN code[t] : code[t][k][1] = step
threads == Harts \cup Procs

\* In a system call interrupts are on, and in a handler off, where no lock is held.
inHandler(t) == has(t, "restore") \/ \E k \in DOMAIN code[t] : code[t][k][1] = "usertrap" /\ code[t][k][2] # "ecall"
inSyscall(t) == has(t, "usertrap") /\ ~inHandler(t)

\* A hart that holds a spinlock has interrupts off, so that no handler spins for
\* ever for a lock of the thread that it interrupts.  When it holds none they are as
\* they were, on whichever hart the thread is by now.  A trap from the kernel
\* never goes to uservec, and one from user mode always does.  An interrupted thread
\* goes on where it was, and no panic of spinlock.c, sched() or trap.c is reached.
\* The uart gets no more than it can hold, though uartwrite() looks at it and then
\* writes, with nothing to stop an echo in between.
InterruptInv ==
    /\ ~panic
    /\ uart.out <= Fifo
    /\ \A h \in Harts :
        /\ (\E l \in DOMAIN lock : lock[l] = h) => ~reg[h].sie
        /\ reg[h].sie /\ ~InUser(h) => reg[h].stvec = "kernelvec"
        /\ InUser(h) => reg[h].stvec = "uservec"
        /\ ~InUser(h) /\ reg[h].noff = 0 => (inSyscall(Ctx(h)) => reg[h].sie) /\ (inHandler(Ctx(h)) => ~reg[h].sie)

waking(ch, p) == \E t \in threads : \E k \in DOMAIN code[t] : code[t][k] = <<"wake", ch, p>>
asleep(p, ch) == state[p] = "SLEEPING" /\ chan[p] = ch
pausing(p) == \A k \in DOMAIN code[p] :
    code[p][k][1] = "pause_until" => minus(ticks, code[p][k][3]) < code[p][k][2]

\* The hart whose spinlock a hart spins for.
spinsFor(h) ==
    IF InUser(h) THEN Nobody
    ELSE LET s == Head(code[Ctx(h)]) IN
         CASE s[1] = "spin" -> lock[s[2]]
           [] s[1] = "wake" -> lock[s[3]]
           [] s[1] \in {"sleep_prepare", "sleep", "yield", "kexit"} -> lock[cur[h]]
           [] OTHER -> Nobody

\* Nobody is left waiting.  Who sleeps for the console has no line to read, who
\* sleeps for the uart has it busy or an interrupt to come, who sleeps for
\* tx_lock finds it held, and who pauses has ticks to wait for, or else a wakeup is
\* on its way; an interrupt that was claimed will be completed.  And harts do not
\* spin for each other's locks.
NoneStuck ==
    /\ \A p \in Procs :
        /\ asleep(p, "cons") => cons.r = cons.w \/ waking("cons", p)
        /\ asleep(p, "tx") =>
            uart.out > 0 \/ uart.thri \/ waking("tx", p) \/ \E t \in threads : has(t, "uart_tx")
        /\ asleep(p, "tx_lock") => tx # Nobody \/ waking("tx_lock", p)
        /\ asleep(p, "ticks") => pausing(p) \/ waking("ticks", p)
    /\ irq = "claimed" => \E t \in threads : has(t, "plic_complete")
    /\ ~\E H \in SUBSET Harts : H # {} /\ \A h \in H : spinsFor(h) \in H

between(i, j) == [k \in 1 .. minus(j, i) |-> cons.buf[at(i + k - 1)]]

Input == INSTANCE Terminal WITH
    Size <- INPUT_BUF_SIZE,
    lines <- between(cons.r, cons.w),
    edit <- between(cons.w, cons.e)

\* The circular buffer is a terminal: what is typed is read once and in order, a line
\* at a time, editing never reaches back into a line that is done, and what does
\* not fit is dropped, also when the indices wrap around.
ImplementsTerminal == Input!TerminalSpec
==============================================================================
