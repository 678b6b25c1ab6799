--------------------------------- MODULE Wish -------------------------------
(***************************************************************************)
(* The shell wish: a line is split at its '&'s by a chain of processes     *)
(* (parallelize), each of which runs one command (executeCmd), and waits.  *)
(*                                                                         *)
(* The program a command starts is a process that ends; a fork() may fail. *)
(* A text is a few letters, "" is the zero that ends it; white space and   *)
(* arguments are left out.  What is in a buffer that malloc() returns is   *)
(* zeros or the buffer that the shell has freed last.                       *)
(***************************************************************************)
EXTENDS Integers, Sequences, SequencesExt, FiniteSets, FiniteSetsExt

CONSTANTS
    Tasks,                \* processes, numbers
    BUFLEN,               \* letters in a line buffer
    Typed                 \* lines: sequences of texts, one for each command

Shell == Min(Tasks)       \* basePid
InitTask == 0             \* the parent of an orphan

ASSUME WishAssumption ==
    /\ Tasks \subseteq Nat \ {0} /\ IsFiniteSet(Tasks) /\ Tasks # {}
    /\ Typed \subseteq Seq(Seq(STRING))
    /\ \A l \in Typed : Len(l) > 0 /\ \A k \in DOMAIN l : Len(l[k]) < BUFLEN

VARIABLES
    at,                   \* where a process is
    mother,               \* its parent
    line, cmd,           \* the line it splits, and the command it is at
    resBuf,               \* the command it runs, with what is behind it
    old                   \* the buffer the shell has freed last

wvars == <<at, mother, line, cmd, resBuf, old>>

Zeros == [k \in 1 .. BUFLEN |-> ""]

WInit ==
    /\ at     = [t \in Tasks |-> IF t = Shell THEN "prompt" ELSE "free"]
    /\ mother = [t \in Tasks |-> InitTask]
    /\ line   = [t \in Tasks |-> <<>>]
    /\ cmd   = [t \in Tasks |-> 0]
    /\ resBuf = [t \in Tasks |-> Zeros]
    /\ old    = Zeros

-----------------------------------------------------------------------------
\* memcpy() of a command over a buffer; the text that a program then sees.
Memcpy(b, text) == [k \in 1 .. BUFLEN |-> IF k <= Len(text) THEN text[k] ELSE b[k]]
TextOf(b)     == LET n == Min({k \in 1 .. BUFLEN : b[k] = ""} \cup {BUFLEN + 1})
                 IN  [k \in 1 .. n - 1 |-> b[k]]
LineBuffer(l) ==
    LET join(s, c) == IF s = <<>> THEN c ELSE s \o <<"&">> \o c
    IN  Memcpy(Zeros, FoldLeft(join, <<>>, l))

Unused      == {t \in Tasks : at[t] = "free"}
Children(t) == {c \in Tasks : mother[c] = t /\ at[c] # "free"}
Zombies(t)  == {c \in Children(t) : at[c] = "zombie"}

\* getcmd() and the start of parallelize(); the end of the input ends the shell.
Prompt ==
    /\ at[Shell] = "prompt"
    /\ \E l \in Typed :
          /\ line' = [line EXCEPT ![Shell] = l]
          /\ \E b \in {Zeros, old} : resBuf' = [resBuf EXCEPT ![Shell] = b]
    /\ cmd' = [cmd EXCEPT ![Shell] = 1]
    /\ at'   = [at EXCEPT ![Shell] = "split"]
    /\ UNCHANGED <<mother, old>>

EndOfInput ==
    /\ at[Shell] = "prompt"
    /\ at' = [at EXCEPT ![Shell] = "gone"]
    /\ UNCHANGED <<mother, line, cmd, resBuf, old>>

\* parallelize(), at the next '&': the child goes on, the parent runs what is in
\* resBuf; so it does when fork() fails.
Command(t) == line[t][cmd[t]]
Copied(t)  == Memcpy(resBuf[t], Command(t))
Freed(t)   == old' = IF t = Shell THEN LineBuffer(line[t]) ELSE old
Splits(t)  == at[t] = "split" /\ cmd[t] < Len(line[t])

SplitFork(t) ==
    /\ Splits(t) /\ Unused # {}
    /\ LET c == Min(Unused) IN
          /\ at'     = [at EXCEPT ![t] = "run", ![c] = "split"]
          /\ mother' = [mother EXCEPT ![c] = t]
          /\ line'   = [line EXCEPT ![c] = line[t]]
          /\ cmd'   = [cmd EXCEPT ![c] = cmd[t] + 1]
          /\ resBuf' = [resBuf EXCEPT ![t] = Copied(t), ![c] = Copied(t)]
          /\ Freed(t)

RunsIt(t) ==
    /\ at'     = [at EXCEPT ![t] = "run"]
    /\ resBuf' = [resBuf EXCEPT ![t] = Copied(t)]
    /\ Freed(t)
    /\ UNCHANGED <<mother, line, cmd>>

SplitFail(t) == Splits(t) /\ RunsIt(t)
SplitLast(t) == at[t] = "split" /\ cmd[t] = Len(line[t]) /\ RunsIt(t)

\* The line and the command are not read again: getcmd() clears the buffer.
Spent(t) ==
    /\ line'   = [line EXCEPT ![t] = <<>>]
    /\ cmd'   = [cmd EXCEPT ![t] = 0]
    /\ resBuf' = [resBuf EXCEPT ![t] = Zeros]

\* Builtin "exit", in the shell or in one of the chain: nobody is waited for.
Gone(t) ==
    /\ at' = [at EXCEPT ![t] = IF t = Shell THEN "gone" ELSE "zombie"]
    /\ mother' = [c \in Tasks |-> IF c \in Children(t) THEN InitTask ELSE mother[c]]

Builtin(t) ==
    /\ at[t] = "run" /\ TextOf(resBuf[t]) = <<"exit">>
    /\ Gone(t) /\ Spent(t)
    /\ UNCHANGED old

\* executeCmd(): the child becomes the program, or, when exec() fails, goes on like
\* its parent.
Execute(t) ==
    /\ at[t] = "run" /\ TextOf(resBuf[t]) # <<"exit">> /\ Unused # {}
    /\ LET c == Min(Unused) IN
          /\ \E what \in {"program", "wait"} : at' = [at EXCEPT ![t] = "wait", ![c] = what]
          /\ mother' = [mother EXCEPT ![c] = t]
    /\ Spent(t)
    /\ UNCHANGED old

ExecuteFail(t) ==
    /\ at[t] = "run" /\ TextOf(resBuf[t]) # <<"exit">>
    /\ at' = [at EXCEPT ![t] = "wait"]
    /\ Spent(t)
    /\ UNCHANGED <<mother, old>>

ProgramEnds(t) ==
    /\ at[t] = "program"
    /\ at' = [at EXCEPT ![t] = "zombie"]
    /\ UNCHANGED <<mother, line, cmd, resBuf, old>>

\* wait(): a zombie child, or at once when there is no child.  The first is in
\* executeCmd(), the second in cleanup() or, for the shell, at the end of the loop.
NoCleanup(t) == "exit"                      \* mutant: cleanup() does not wait
AfterWait(t) == "wait again"

Wait(t) ==
    /\ at[t] \in {"wait", "wait again"}
    /\ LET next == IF at[t] = "wait" THEN AfterWait(t)
                   ELSE IF t = Shell THEN "prompt" ELSE "exit"
       IN  \/ \E c \in Zombies(t) :
                 /\ at'     = [at EXCEPT ![c] = "free", ![t] = next]
                 /\ mother' = [mother EXCEPT ![c] = InitTask]
           \/ Children(t) = {} /\ at' = [at EXCEPT ![t] = next] /\ UNCHANGED mother
    /\ UNCHANGED <<line, cmd, resBuf, old>>

\* cleanup() ends every process but the shell.
Cleanup(t) ==
    /\ at[t] = "exit"
    /\ Gone(t)
    /\ UNCHANGED <<line, cmd, resBuf, old>>

\* init waits for the orphans.
InitWaits(t) ==
    /\ at[t] = "zombie" /\ mother[t] = InitTask
    /\ at' = [at EXCEPT ![t] = "free"]
    /\ UNCHANGED <<mother, line, cmd, resBuf, old>>

WNext ==
    \/ Prompt \/ EndOfInput
    \/ \E t \in Tasks :
          \/ SplitFork(t) \/ SplitFail(t) \/ SplitLast(t)
          \/ Builtin(t) \/ Execute(t) \/ ExecuteFail(t)
          \/ ProgramEnds(t) \/ Wait(t) \/ Cleanup(t) \/ InitWaits(t)

WSpec == WInit /\ [][WNext]_wvars

-----------------------------------------------------------------------------
WTypeOK ==
    /\ at \in [Tasks -> {"free", "prompt", "gone", "split", "run", "program", "wait",
                         "wait again", "exit", "zombie"}]
    /\ mother \in [Tasks -> Tasks \cup {InitTask}]
    /\ \A t \in Tasks : at[t] = "split" => cmd[t] \in DOMAIN line[t]

\* When the shell prompts again, everything the line has started has ended and has
\* been waited for, whichever child each of the wait()s found, also when fork() or
\* exec() failed: neither the shell nor a process that cleanup() ends has children
\* left.  (Those of a builtin "exit" are orphans.)
PromptAfterAll == \A t \in Tasks : at[t] \in {"prompt", "exit"} => Children(t) = {}

\* No process has more children than it waits for.
TwoChildren == \A t \in Tasks : Cardinality(Children(t)) <= 2

WishIInv == WTypeOK /\ PromptAfterAll /\ TwoChildren

\* What is run is what was typed between the '&'s (test 17 of the shell is "Parallel
\* command contains & at the end").
RunsWhatWasTyped ==
    \A t \in Tasks : at[t] = "run" => TextOf(resBuf[t]) = line[t][cmd[t]]
=============================================================================
