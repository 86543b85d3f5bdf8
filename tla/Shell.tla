-------------------------------- MODULE Shell --------------------------------
(***************************************************************************)
(* The shell (user/sh.c): main reads a line, forks a process that runs it  *)
(* (runcmd) and waits for that process.  At ";" the process of the line    *)
(* forks a child for the command read so far, waits for it and goes on     *)
(* with what follows; at "|" it runs the command itself and its child goes *)
(* on with what follows, unwaited for.                                     *)
(*                                                                         *)
(* A line is a sequence of keys.  fork, open, dup2 and exec may fail; a    *)
(* command that was executed runs until it ends.  pipe() is commented out  *)
(* (sh.c:152), so dup2 is given an uninitialised descriptor: it succeeds   *)
(* or fails.  The descriptors themselves are left out.                     *)
(***************************************************************************)
EXTENDS Integers, Sequences, FiniteSets, FiniteSetsExt, SequencesExt

CONSTANTS
    Keys,        \* what can be typed, among the ones below and letters
    MaxKeys,     \* how much is typed
    LineMax,     \* BUFSIZE - 1
    MaxArgs,     \* EXEC_MAX_ARG_NUM
    Cd           \* the word "cd"

VARIABLES
    input,      \* the keys not read yet
    line,       \* the line being run, as main read it, and its number
    ps,         \* process -> its state; process 1 is main
    ran         \* the commands of the line that were executed, in order

shvars == <<input, line, ps, ran>>

NUL == "NUL"
WHITESPACE == {" "}
SYMBOLS == {"<", "|", ">", "&", ";"}
Quote == "q"
Interrupt == "C"
Backspace == "BS"
Newline == "NL"

-----------------------------------------------------------------------------
(* Reading a line                                                          *)

\* readline, the buffer being buf and the keys k.  A key that fits no case
\* (a control key, a key when the buffer is full) is dropped.
RECURSIVE readline(_, _)
readline(buf, k) ==
    CASE k = <<>> -> [ok |-> buf # <<>>, buf |-> buf, rest |-> k]
      [] Head(k) = Interrupt -> [ok |-> FALSE, buf |-> buf, rest |-> Tail(k)]
      [] Head(k) = Newline -> [ok |-> TRUE, buf |-> buf, rest |-> Tail(k)]
      [] Head(k) = Backspace ->
            readline(IF buf = <<>> THEN buf ELSE Front(buf), Tail(k))
      [] OTHER -> readline(IF Len(buf) < LineMax THEN Append(buf, Head(k)) ELSE buf,
                           Tail(k))

Terminated(buf) == Append(buf, NUL)

-----------------------------------------------------------------------------
(* Words                                                                   *)

QuotesIn(s, i, j) == Cardinality({k \in i .. j : s[k] = Quote})

\* gettoken: the next token of cmd from p1 on (0 for NULL), the text changed by
\* cutting it up, and where a word starts.
gettoken(cmd, p1) ==
    LET none(c) == [token |-> "0", cmd |-> c, p1 |-> p1, t |-> 0]
    IN  IF p1 = 0 THEN none(cmd)
        ELSE LET s == Min({k \in p1 .. Len(cmd) : cmd[k] \notin WHITESPACE})
                 cut == [k \in DOMAIN cmd |-> IF k \in p1 .. s - 1 THEN NUL ELSE cmd[k]]
                 symbol == cmd[s] \in SYMBOLS
                 e == IF symbol THEN s + 1
                      ELSE Min({k \in s .. Len(cmd) :
                                  \/ cmd[k] = NUL
                                  \/ /\ QuotesIn(cmd, s, k - 1) % 2 = 0
                                     /\ cmd[k] \in WHITESPACE \cup SYMBOLS})
                 text == [k \in DOMAIN cmd |->
                             CASE k \in s .. e - 1 /\ symbol -> NUL
                               [] k \in s .. e - 1 /\ cmd[k] = Quote -> " "
                               [] OTHER -> cut[k]]
             IN  IF cmd[s] = NUL THEN none(cut)
                 ELSE [token |-> IF symbol THEN cmd[s] ELSE "w", cmd |-> text,
                       p1 |-> IF cmd[e] # NUL THEN e ELSE 0, t |-> s]

\* The string that starts at t.
StringAt(cmd, t) == SubSeq(cmd, t, Min({k \in t .. Len(cmd) : cmd[k] = NUL}) - 1)

-----------------------------------------------------------------------------
(* Processes                                                               *)

main == 1
NewPid == Max(DOMAIN ps) + 1
Alive == {p \in DOMAIN ps : ps[p].pc # "dead"}

Init ==
    /\ input \in UNION {[1 .. n -> Keys] : n \in 0 .. MaxKeys}
    /\ line = [no |-> 0, keys |-> <<>>] /\ ran = <<>>
    /\ ps = [p \in {main} |-> [pc |-> "prompt", of |-> 0, cmd |-> <<>>,
                              p1 |-> 0, argv |-> <<>>, child |-> 0]]

\* The processes with changed p in place and, when q is one, with a child of p.
With(p, changed) == [ps EXCEPT ![p] = changed]
WithChild(p, changed, child) ==
    [q \in DOMAIN ps \cup {NewPid} |->
        IF q = p THEN changed ELSE IF q = NewPid THEN child ELSE ps[q]]
Exited(p) == [ps[p] EXCEPT !.pc = "dead"]

\* main's loop: a line, or its end at readline's NULL.
Prompt ==
    LET r == readline(<<>>, input)
    IN  /\ ps[main].pc = "prompt"
        /\ input' = r.rest
        /\ line' = [no |-> line.no + 1, keys |-> r.buf]
        /\ ps' = With(main, [ps[main] EXCEPT !.pc = IF r.ok THEN "fork" ELSE "dead",
                                             !.cmd = Terminated(r.buf)])
        /\ ran' = <<>>

\* main forks the process of the line; assert(pid >= 0).
ForkLine ==
    /\ ps[main].pc = "fork"
    /\ \/ ps' = WithChild(main, [ps[main] EXCEPT !.pc = "wait", !.child = NewPid],
                          [ps[main] EXCEPT !.pc = "again", !.p1 = 1, !.of = line.no])
       \/ ps' = With(main, Exited(main))
    /\ UNCHANGED <<input, line, ran>>

\* The processes that are left once p has waited: init frees the ones that ended
\* and that nobody waits for.
Left(p) == {main} \cup Alive \cup
           {ps[q].child : q \in {q \in Alive \ {p} : ps[q].pc = "wait"}}

\* At ";" the process goes on without waiting.
WaitEnds_none(p) ==
    /\ ps[p].pc = "wait"
    /\ p # main \/ ps[ps[p].child].pc = "dead"
    /\ ps' = [q \in Left(p) |->
                IF q = p
                THEN [ps[p] EXCEPT !.pc = IF p = main THEN "prompt" ELSE "again",
                                   !.child = 0]
                ELSE ps[q]]
    /\ UNCHANGED <<input, line, ran>>

\* waitpid returns.
WaitEnds(p) ==
    /\ ps[p].pc = "wait"
    /\ ps[ps[p].child].pc = "dead"
    /\ ps' = [q \in Left(p) |->
                IF q = p
                THEN [ps[p] EXCEPT !.pc = IF p = main THEN "prompt" ELSE "again",
                                   !.child = 0]
                ELSE ps[q]]
    /\ UNCHANGED <<input, line, ran>>

\* again: argc = 0
Again(p) ==
    /\ ps[p].pc = "again"
    /\ ps' = With(p, [ps[p] EXCEPT !.pc = "token", !.argv = <<>>])
    /\ UNCHANGED <<input, line, ran>>

\* The process of the line takes a token: the cases of runcmd's switch.
Token(p) ==
    LET g == gettoken(ps[p].cmd, ps[p].p1)
        read == [ps[p] EXCEPT !.cmd = g.cmd, !.p1 = g.p1]
        name == gettoken(g.cmd, g.p1)
        ends == ps' = With(p, [read EXCEPT !.pc = "dead"])
    IN  /\ ps[p].pc = "token"
        /\ \/ /\ g.token = "w"
              /\ IF Len(read.argv) = MaxArgs THEN ends
                 ELSE ps' = With(p, [read EXCEPT !.argv = Append(@, g.t)])
           \/ /\ g.token \in {"<", ">"}
              /\ \/ ends    \* no word, or reopen failed
                 \/ /\ name.token = "w"
                    /\ ps' = With(p, [read EXCEPT !.cmd = name.cmd, !.p1 = name.p1])
           \/ /\ g.token = "|"
              /\ \/ ends    \* fork failed
                 \/ \E mine \in {"runit", "dead"}, its \in {"again", "dead"} :
                       ps' = WithChild(p, [read EXCEPT !.pc = mine],
                                       [read EXCEPT !.pc = its])
           \/ /\ g.token = ";"
              /\ \/ ends
                 \/ ps' = WithChild(p, [read EXCEPT !.pc = "wait", !.child = NewPid],
                                    [read EXCEPT !.pc = "runit"])
           \/ g.token = "0" /\ ps' = With(p, [read EXCEPT !.pc = "runit"])
           \/ g.token = "&" /\ ends
        /\ UNCHANGED <<input, line, ran>>

Words(p) == [i \in DOMAIN ps[p].argv |-> StringAt(ps[p].cmd, ps[p].argv[i])]

\* runit: nothing to run, cd (which only sets shcwd in this process), or exec,
\* which does not return unless testfile or it fails.
Runit(p) ==
    /\ ps[p].pc = "runit"
    /\ \/ /\ ps' = With(p, Exited(p))
          /\ UNCHANGED ran
       \/ /\ ps[p].argv # <<>> /\ Words(p)[1] # Cd
          /\ ps' = With(p, [ps[p] EXCEPT !.pc = "running"])
          /\ ran' = Append(ran, [of |-> ps[p].of, at |-> ps[p].argv[1], words |-> Words(p)])
    /\ UNCHANGED <<input, line>>

\* A command exits.
CommandEnds(p) ==
    /\ ps[p].pc = "running"
    /\ ps' = With(p, Exited(p))
    /\ UNCHANGED <<input, line, ran>>

Next ==
    \/ Prompt
    \/ ForkLine
    \/ \E p \in DOMAIN ps : WaitEnds(p) \/ Again(p) \/ Token(p) \/ Runit(p)
                            \/ CommandEnds(p)

Spec == Init /\ [][Next]_shvars

-----------------------------------------------------------------------------
(* The line, read on its own                                               *)

Typed == line.keys
Quoted(k) == QuotesIn(Typed, 1, k - 1) % 2 = 1
InWord(k) == Quoted(k) \/ Typed[k] \notin WHITESPACE \cup SYMBOLS
WordStart(k) == InWord(k) /\ (k = 1 \/ ~InWord(k - 1))
WordAt(k) ==
    LET e == Max({j \in k .. Len(Typed) : \A i \in k .. j : InWord(i)})
    IN  [i \in 1 .. e - k + 1 |->
            IF Typed[k + i - 1] = Quote THEN " " ELSE Typed[k + i - 1]]

IsSymbol(k, s) == Typed[k] \in s /\ ~Quoted(k)
\* The file of a redirection, not an argument.
FileName(k) ==
    \E j \in 1 .. k - 1 :
        IsSymbol(j, {"<", ">"}) /\ \A i \in j + 1 .. k - 1 : Typed[i] \in WHITESPACE
PipesBetween(i, j) == {k \in i .. j : IsSymbol(k, {"|"})}
\* The arguments of the command that has the word at k in it.
Command(k) ==
    LET ends == {j \in DOMAIN Typed : IsSymbol(j, {";", "|"})}
        from == Max({0} \cup {j \in ends : j < k})
        to == Min({Len(Typed) + 1} \cup {j \in ends : j > k})
        starts == {j \in from + 1 .. to - 1 : WordStart(j) /\ ~FileName(j)}
    IN  [i \in 1 .. Cardinality(starts) |->
            WordAt(CHOOSE j \in starts : Cardinality({l \in starts : l <= j}) = i)]

-----------------------------------------------------------------------------
(* Properties                                                              *)

Ran == SelectSeq(ran, LAMBDA r : r.of = line.no)
Mine == {p \in Alive \ {main} : ps[p].of = line.no}
Running == {p \in Mine : ps[p].pc = "running"}

\* Every command that runs has exactly the words it has in the line, quotes made
\* spaces; no command runs twice; commands with no "|" between them run in the
\* order of the line and never two at a time; and without a "|" the shell
\* prompts only when nothing of the line is left (sh.c:117-215, 234-252).
RunsTheLine ==
    /\ \A i \in DOMAIN Ran : Ran[i].words = Command(Ran[i].at)
    /\ \A i, j \in DOMAIN Ran : i < j =>
           \/ Ran[i].at < Ran[j].at
           \/ Ran[j].at < Ran[i].at /\ PipesBetween(Ran[j].at, Ran[i].at) # {}
    /\ \A p, q \in Running : ps[p].argv[1] < ps[q].argv[1] =>
           PipesBetween(ps[p].argv[1], ps[q].argv[1]) # {}
    /\ ps[main].pc = "prompt" /\ PipesBetween(1, Len(Typed)) = {} => Mine = {}
=============================================================================
