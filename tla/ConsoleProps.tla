---------------------------- MODULE ConsoleProps ----------------------------
(***************************************************************************)
(* What the console promises.                                              *)
(***************************************************************************)
EXTENDS Console

CTypeOK ==
    /\ buf \in [0 .. INPUTBUF - 1 -> Plain \cup {"newline", "eof"}]
    /\ {r, w, e} \subseteq 0 .. UINT - 1
    /\ conslock \in Readers \cup {NoReader} /\ inode \in Readers \cup {NoReader}
    /\ rd \in [Readers -> [pc : {"away", "enter", "woken", "reading", "sleep", "asleep",
                                 "leave", "return", "put", "locking", "writing"},
                           n : Nat, target : Nat]]
    /\ dst \in [Readers -> Seq(Plain \cup {"newline"})]
    /\ dead \subseteq Readers

\* The indices stay in order around the ring, however often they wrap.
InOrder == Minus(w, r) <= Minus(e, r) /\ Minus(e, r) <= INPUTBUF

\* A reader sleeps only while nothing is entered: no wakeup is lost between its look
\* at the ring and its sleep, or to the other reader.
SleepsForReason == \A p \in Readers : rd[p].pc \in {"sleep", "asleep"} => r = w

\* The ring is never full of keys that nobody can read or erase.
NeverStuck == Minus(e, r) = INPUTBUF => w = e

\* Who has cons.lock, and who the inode: nobody holds the inode while it may sleep
\* for a key or wait for cons.lock, so another process can still write to the console,
\* or close it, and nobody holds cons.lock while it sleeps; a write() has cons.lock from
\* its first character to its last.
OneLock ==
    \A p \in Readers :
        /\ conslock = p <=> rd[p].pc \in {"reading", "sleep", "writing"}
        /\ inode = p <=> rd[p].pc \in {"enter", "put", "return"}

\* A line that is being edited has no end yet: what ends one is entered at once.
Unended ==
    \A k \in 0 .. Minus(e, w) - 1 : buf[Slot(Plus(w, k))] \notin {"newline", "eof"}

\* n is what is still asked for: a reader that goes on has had no newline, and there
\* is room for another key; a writer takes no keys.
Remaining ==
    \A p \in Readers :
        /\ rd[p].pc \in {"away", "put", "locking", "writing"} => dst[p] = <<>>
        /\ rd[p].pc \in {"enter", "woken", "reading", "sleep", "asleep"} =>
              /\ rd[p].n >= 1 /\ Len(dst[p]) = rd[p].target - rd[p].n
              /\ \A k \in DOMAIN dst[p] : dst[p][k] # "newline"

ConsoleIInv ==
    /\ CTypeOK /\ InOrder /\ SleepsForReason /\ NeverStuck /\ OneLock
    /\ Unended /\ Remaining

-----------------------------------------------------------------------------
Keyed(from, to) == [k \in 1 .. Minus(to, from) |-> buf[Slot(Plus(from, k - 1))]]

\* The ring implements Terminal: line between w and e, entered between r and w.
Term == INSTANCE Terminal WITH
    Room <- INPUTBUF, line <- Keyed(w, e), entered <- Keyed(r, w), taken <- dst
TermSpec == Term!TSpec
=============================================================================
