------------------------------ MODULE Console -------------------------------
(***************************************************************************)
(* The console: the keyboard interrupt (consoleintr) and the processes that*)
(* read (consoleread), which meet in the ring buffer, under cons.lock, and *)
(* that write (consolewrite), which takes the same lock.                   *)
(*                                                                         *)
(* An interrupt brings one key.  The indices are unsigned and wrap.  What  *)
(* is on the screen, the characters' codes and the list that ^P prints are *)
(* left out.                                                               *)
(***************************************************************************)
EXTENDS Naturals, Sequences

CONSTANTS
    Readers, NoReader,    \* the processes that read or write the console
    Plain,                \* ordinary keys
    INPUTBUF, UINT,       \* size of the ring, first number an index does not hold
    Wants                 \* lengths asked of read()

Keys == Plain \cup {"newline", "eof", "erase", "eraseline"}

ASSUME ConsoleAssumption ==
    /\ NoReader \notin Readers
    /\ INPUTBUF \in Nat \ {0} /\ UINT \in Nat /\ UINT % INPUTBUF = 0 /\ INPUTBUF < UINT
    /\ Wants \subseteq Nat \ {0}

VARIABLES
    buf, r, w, e,         \* of struct input: ring, read, write and edit index
    conslock,             \* the process that holds cons.lock
    inode,                \* the process that holds the lock of the console's inode
    rd,                   \* where a process is: pc; n and target of consoleread()
    dst,                  \* what it has read
    dead                  \* processes that have been killed

cvars == <<buf, r, w, e, conslock, inode, rd, dst, dead>>

Away == [pc |-> "away", n |-> 0, target |-> 0]

CInit ==
    /\ buf = [k \in 0 .. INPUTBUF - 1 |-> "newline"]
    /\ r = 0 /\ w = 0 /\ e = 0
    /\ conslock = NoReader /\ inode = NoReader
    /\ rd   = [p \in Readers |-> Away]
    /\ dst  = [p \in Readers |-> <<>>]
    /\ dead = {}

Plus(i, k)  == (i + k) % UINT
Minus(i, k) == (i + UINT - k) % UINT
Slot(i)     == i % INPUTBUF

-----------------------------------------------------------------------------
\* consoleintr(); a wakeup() makes every sleeping reader runnable.
WakeAll == rd' = [p \in Readers |-> IF rd[p].pc = "asleep" THEN [rd[p] EXCEPT !.pc = "woken"]
                                    ELSE rd[p]]

OnlyEnds(i) == FALSE                        \* mutant: a full ring enters nothing
RingFull(i) == i = Plus(r, INPUTBUF)

Key(c) ==
    /\ conslock = NoReader
    /\ c \in Plain \cup {"newline", "eof"}
    /\ Minus(e, r) < INPUTBUF
    /\ buf' = [buf EXCEPT ![Slot(e)] = c]
    /\ e' = Plus(e, 1)
    /\ IF c \in {"newline", "eof"} \/ RingFull(Plus(e, 1))
       THEN w' = Plus(e, 1) /\ WakeAll
       ELSE UNCHANGED <<w, rd>>
    /\ UNCHANGED <<r, conslock, inode, dst, dead>>

Erase ==
    /\ conslock = NoReader
    /\ e # w
    /\ e' = Minus(e, 1)
    /\ UNCHANGED <<buf, r, w, conslock, inode, rd, dst, dead>>

\* ^U: back to the last newline that is in the ring, or to w.
EraseLine ==
    /\ conslock = NoReader
    /\ \E k \in 0 .. Minus(e, w) :
          /\ \A j \in 1 .. k : buf[Slot(Minus(e, j))] # "newline"
          /\ k = Minus(e, w) \/ buf[Slot(Minus(e, k + 1))] = "newline"
          /\ e' = Minus(e, k)
    /\ UNCHANGED <<buf, r, w, conslock, inode, rd, dst, dead>>

-----------------------------------------------------------------------------
\* readi() on the console, with the inode locked; consoleread() unlocks it ...
Start(p, n) ==
    /\ rd[p].pc = "away" /\ inode = NoReader
    /\ rd' = [rd EXCEPT ![p] = [pc |-> "enter", n |-> n, target |-> n]]
    /\ inode' = p
    /\ UNCHANGED <<buf, r, w, e, conslock, dst, dead>>

Enter(p) ==
    /\ rd[p].pc = "enter"
    /\ rd' = [rd EXCEPT ![p].pc = "woken"]
    /\ inode' = NoReader
    /\ UNCHANGED <<buf, r, w, e, conslock, dst, dead>>

\* ... takes cons.lock, first or when it wakes up ...
Lock(p) ==
    /\ rd[p].pc = "woken" /\ conslock = NoReader
    /\ conslock' = p
    /\ rd' = [rd EXCEPT ![p].pc = "reading"]
    /\ UNCHANGED <<buf, r, w, e, inode, dst, dead>>

Leave(p) == conslock' = NoReader /\ rd' = [rd EXCEPT ![p].pc = "leave"]

\* ... sleeps while nothing is entered, unless it has been killed; a kill() may
\* come between the look at killed and the sleep, where only cons.lock is held ...
WaitForLine(p) ==
    /\ rd[p].pc = "reading" /\ r = w /\ p \notin dead
    /\ rd' = [rd EXCEPT ![p].pc = "sleep"]
    /\ UNCHANGED <<buf, r, w, e, conslock, inode, dst, dead>>

SleepOn(p) ==
    /\ rd[p].pc = "sleep"
    /\ rd' = [rd EXCEPT ![p].pc = "asleep"]
    /\ conslock' = NoReader
    /\ UNCHANGED <<buf, r, w, e, inode, dst, dead>>

GiveUp(p) ==
    /\ rd[p].pc = "reading" /\ r = w /\ p \in dead
    /\ Leave(p)
    /\ UNCHANGED <<buf, r, w, e, inode, dst, dead>>

\* ... reads up to a newline, an end of input, or the n keys asked for; an end of
\* input that comes after other keys is put back ...
TakeIt(p)   == Plus(r, 1)                   \* mutant: the end of input is not put back
PutBack(p)  == IF rd[p].n < rd[p].target THEN r ELSE Plus(r, 1)

TakeKey(p) ==
    /\ rd[p].pc = "reading" /\ r # w
    /\ LET c == buf[Slot(r)] IN
          IF c = "eof"
          THEN r' = PutBack(p) /\ Leave(p) /\ UNCHANGED dst
          ELSE /\ r' = Plus(r, 1)
               /\ dst' = [dst EXCEPT ![p] = Append(@, c)]
               /\ IF c = "newline" \/ rd[p].n = 1
                  THEN /\ conslock' = NoReader
                       /\ rd' = [rd EXCEPT ![p].pc = "leave", ![p].n = @ - 1]
                  ELSE rd' = [rd EXCEPT ![p].n = @ - 1] /\ UNCHANGED conslock
    /\ UNCHANGED <<buf, w, e, inode, dead>>

\* ... and locks the inode again, for readi() and fileread() to unlock; so does
\* consolewrite() for writei() and filewrite().
Relock(p) ==
    /\ rd[p].pc = "leave" /\ inode = NoReader
    /\ inode' = p
    /\ rd' = [rd EXCEPT ![p].pc = "return"]
    /\ UNCHANGED <<buf, r, w, e, conslock, dst, dead>>

Return(p) ==
    /\ rd[p].pc = "return"
    /\ inode' = NoReader
    /\ rd'  = [rd EXCEPT ![p] = Away]
    /\ dst' = [dst EXCEPT ![p] = <<>>]
    /\ UNCHANGED <<buf, r, w, e, conslock, dead>>

-----------------------------------------------------------------------------
\* writei() on the console, with the inode locked; consolewrite() unlocks it ...
AskWrite(p) ==
    /\ rd[p].pc = "away" /\ inode = NoReader
    /\ rd' = [rd EXCEPT ![p].pc = "put"]
    /\ inode' = p
    /\ UNCHANGED <<buf, r, w, e, conslock, dst, dead>>

EnterWrite(p) ==
    /\ rd[p].pc = "put"
    /\ rd' = [rd EXCEPT ![p].pc = "locking"]
    /\ inode' = NoReader
    /\ UNCHANGED <<buf, r, w, e, conslock, dst, dead>>

\* ... takes cons.lock ...
LockWrite(p) ==
    /\ rd[p].pc = "locking" /\ conslock = NoReader
    /\ conslock' = p
    /\ rd' = [rd EXCEPT ![p].pc = "writing"]
    /\ UNCHANGED <<buf, r, w, e, inode, dst, dead>>

\* ... and has it until its last character is written, whether it is killed or not.
PutAll(p) ==
    /\ rd[p].pc = "writing"
    /\ conslock' = NoReader
    /\ rd' = [rd EXCEPT ![p].pc = "leave"]
    /\ UNCHANGED <<buf, r, w, e, inode, dst, dead>>

-----------------------------------------------------------------------------
\* kill(): a sleeping process is made runnable.  Once it is in user mode again the
\* process exits, and its slot is used for another.
Kill(p) ==
    /\ p \notin dead
    /\ dead' = dead \cup {p}
    /\ rd' = IF rd[p].pc = "asleep" THEN [rd EXCEPT ![p].pc = "woken"] ELSE rd
    /\ UNCHANGED <<buf, r, w, e, conslock, inode, dst>>

Replaced(p) ==
    /\ p \in dead /\ rd[p].pc = "away"
    /\ dead' = dead \ {p}
    /\ UNCHANGED <<buf, r, w, e, conslock, inode, rd, dst>>

-----------------------------------------------------------------------------
Consoleread(p) ==
    \/ Enter(p) \/ Lock(p) \/ WaitForLine(p) \/ SleepOn(p) \/ GiveUp(p) \/ TakeKey(p)
    \/ Relock(p) \/ Return(p)

Consolewrite(p) == EnterWrite(p) \/ LockWrite(p) \/ PutAll(p)

CNext ==
    \/ \E c \in Keys : Key(c)
    \/ Erase \/ EraseLine
    \/ \E p \in Readers :
          \/ \E n \in Wants : Start(p, n)
          \/ AskWrite(p)
          \/ Consoleread(p) \/ Consolewrite(p) \/ Kill(p) \/ Replaced(p)

CSpec == CInit /\ [][CNext]_cvars
=============================================================================
