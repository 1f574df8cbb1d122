---- MODULE ShellLine ----
(***************************************************************************)
(* What HalaShell does with one segment of a line: parse it into stages,   *)
(* a redirection and a background mark, run the first command with its     *)
(* output captured, pass the output through the filters over an IPC pipe,  *)
(* and write the rest to a file.  The file tables are those of Vfs.  Only  *)
(* the shell touches its captures, pipe and descriptors, so the calls of a *)
(* stage are one step.  A text is the number of its bytes and of its line  *)
(* ends; buffers have their real sizes.                                    *)
(***************************************************************************)
EXTENDS Integers, Sequences, FiniteSets

CONSTANTS
    Segments,   \* token sequences: words, "|", ">" and a final "&"
    Outputs,    \* word -> the text that it prints as a first command
    Fds, OpenIdx, FileIdx, TmpPaths, Devices, None,    \* as in Vfs
    Objects     \* HOS_MAX_IPC

MaxStages     == 3
CaptureDepth  == 2
PipeBuffer    == 128
RedirectSize  == 96
CatLimit      == 256
IpcData       == 128
FileData      == 96

VARIABLES
    t,          \* the tables of Vfs
    holds,      \* tmpfs file -> its text
    sh          \* the shell: see Init

vars == <<t, holds, sh>>
V == INSTANCE Vfs WITH
        Slots <- {1}, FirstFd <- 3, QaPath <- CHOOSE p \in TmpPaths : TRUE, QaLength <- 8,
        Lengths <- {}, MaxPid <- 3, nextPid <- 3, written <- [f \in FileIdx |-> {}]

Text(bytes, lines) == [bytes |-> bytes, lines |-> lines]
Texts == {x \in [bytes : Nat, lines : Nat] : x.lines <= x.bytes}

ASSUME BufferAssumption ==
    /\ PipeBuffer <= IpcData /\ RedirectSize <= FileData /\ Objects \in Nat
    /\ "unknown" \in DOMAIN Outputs /\ \A w \in DOMAIN Outputs : Outputs[w] \in Texts
\* The sizes and names of the tables.
ASSUME TableAssumption == V!TableAssumption

NoText == Text(0, 0)
Joined(x, y) == Text(x.bytes + y.bytes, x.lines + y.lines)
NewLine == Text(2, 1)

Init ==
    /\ V!Init /\ holds = [f \in FileIdx |-> NoText]
    /\ sh = [pc |-> "read", words |-> <<>>, to |-> None, at |-> 0, input |-> NoText,
             caps |-> <<>>, shown |-> NoText, pipes |-> 0, result |-> 0, failed |-> FALSE]

\* Back to the next segment: the variables of the plan are gone.
Read(s, failed) ==
    [s EXCEPT !.pc = "read", !.words = <<>>, !.to = None, !.at = 0, !.input = NoText,
              !.shown = NoText, !.result = 0, !.failed = failed]

(***************************************************************************)
(* shell_parse_plan.  Words stand for whole commands and paths: quotes,    *)
(* brackets and blanks are inside them.                                    *)
(***************************************************************************)
Marks(seg) == {i \in DOMAIN seg : seg[i] \in {"|", ">"}}
Plain(seg) == IF seg # <<>> /\ seg[Len(seg)] = "&" THEN SubSeq(seg, 1, Len(seg) - 1) ELSE seg
Malformed(seg) ==
    LET pipes == {i \in Marks(seg) : seg[i] = "|"}  redirects == Marks(seg) \ pipes IN
    \/ Cardinality(pipes) >= MaxStages \/ Cardinality(redirects) > 1
    \/ \E r \in redirects, p \in pipes : r < p
    \/ \E i \in Marks(seg) \union {0} : i + 1 \notin DOMAIN seg \/ i + 1 \in Marks(seg)
\* The words of the stages, and the path; the path or the last command is empty
\* when nothing but the mark "&" stands there.  Words and marks take turns.
Stages(seg) ==
    LET s == Plain(seg)
        cut == {i \in DOMAIN s : s[i] = ">"}
        graph == IF cut = {} THEN s ELSE SubSeq(s, 1, (CHOOSE i \in cut : TRUE) - 1)
        words == [k \in 1..((Len(graph) + 1) \div 2) |-> graph[2 * k - 1]]
    IN  IF graph = <<>> \/ graph[Len(graph)] = "|" THEN Append(words, "") ELSE words
Target(seg) ==
    LET s == Plain(seg)  cut == {i \in DOMAIN s : s[i] = ">"} IN
    IF cut = {} THEN None ELSE IF s[Len(s)] = ">" THEN "" ELSE s[Len(s)]
Background(seg) == seg # Plain(seg)
\* Blanks do not end a command: two words never meet.
ASSUME SegmentAssumption ==
    /\ Segments \subseteq Seq(UNION {{seg[i] : i \in DOMAIN seg} : seg \in Segments})
    /\ \A seg \in Segments : \A i \in 1..(Len(Plain(seg)) - 1) :
        {i, i + 1} \cap Marks(Plain(seg)) # {}

(***************************************************************************)
(* Captures                                                                *)
(***************************************************************************)
shell_capture_begin(caps, size) ==
    IF Len(caps) >= CaptureDepth THEN caps
    ELSE Append(caps, [size |-> size, text |-> NoText, overflow |-> FALSE])
\* Mutant: a capture that has overflowed is not ended.
shell_capture_end_full(caps) == IF caps[Len(caps)].overflow THEN caps ELSE SubSeq(caps, 1, Len(caps) - 1)
shell_capture_end(caps) == SubSeq(caps, 1, Len(caps) - 1)
Top(caps) == caps[Len(caps)]

\* Mutant: what does not fit is dropped silently.
Captured_silent(c, x) ==
    IF c.text.bytes + x.bytes <= c.size THEN [c EXCEPT !.text = Joined(@, x)]
    ELSE [c EXCEPT !.text = Text(c.size, @.lines + x.lines)]
Captured(c, x) ==
    IF c.text.bytes + x.bytes <= c.size THEN [c EXCEPT !.text = Joined(@, x)]
    ELSE [c EXCEPT !.text = Text(c.size, @.lines + x.lines), !.overflow = TRUE]

\* out_write: into the innermost capture, or to the console.
out_write(s, x) ==
    IF s.caps = <<>> THEN [s EXCEPT !.shown = Joined(@, x)]
    ELSE [s EXCEPT !.caps[Len(s.caps)] = Captured(@, x)]

(***************************************************************************)
(* Commands and filters                                                    *)
(***************************************************************************)
\* Words that are paths, as first commands, stand for "cat PATH".
shell_vfs_cat(path) ==
    LET O == V!VfsOpen(t, 1, path, FALSE, FALSE)
        i == O.t.fds[1][O.ret]
        text == IF O.t.open[i].node = "tmp" THEN holds[O.t.open[i].file] ELSE NoText
    IN  IF O.ret < 0 THEN [t |-> t, text |-> Outputs["unknown"]]
        ELSE [t |-> V!VfsClose(V!VfsRead(O.t, 1, O.ret, CatLimit).t, 1, O.ret).t,
              text |-> Joined(text, NewLine)]
shell_command(word) ==
    IF word \in TmpPaths THEN shell_vfs_cat(word)
    ELSE [t |-> t, text |-> Outputs[IF word \in DOMAIN Outputs THEN word ELSE "unknown"]]

Digits(n) == IF n < 10 THEN 1 ELSE IF n < 100 THEN 2 ELSE 3
\* What a filter prints; "wc" prints "lines=L bytes=B".
Filters == {"cat", "wc"}
Filtered(word, x) ==
    IF word = "cat" THEN x ELSE Text(15 + Digits(x.lines) + Digits(x.bytes), 1)

Last == sh.at = Len(sh.words)
Fails(s, code) == [s EXCEPT !.pc = "finish", !.result = code]

(***************************************************************************)
(* Actions                                                                 *)
(***************************************************************************)
\* The next segment of a line; one with a syntax error, or with the mark "&" on
\* anything but run, is refused.
shell_execute(seg) ==
    LET start == [sh EXCEPT !.pc = "command", !.words = Stages(seg), !.to = Target(seg),
                            !.at = 1, !.failed = FALSE,
                            !.caps = IF Target(seg) = None THEN @
                                     ELSE shell_capture_begin(@, RedirectSize)]
    IN  /\ sh.pc = "read"
        /\ sh' = IF Malformed(seg) \/ (Background(seg) /\ Stages(seg)[1] # "run")
                 THEN Read(sh, TRUE)
                 ELSE start
        /\ UNCHANGED <<t, holds>>

\* The first command, captured when a filter follows.
FirstCommand ==
    LET R == shell_command(sh.words[1])
        alone == out_write(sh, R.text)
        piped == out_write([sh EXCEPT !.caps = shell_capture_begin(@, PipeBuffer)], R.text)
        ended == [piped EXCEPT !.caps = shell_capture_end(@), !.input = Top(piped.caps).text]
    IN  /\ sh.pc = "command"
        /\ t' = R.t
        /\ sh' = IF Last THEN [alone EXCEPT !.pc = "finish"]
                 ELSE IF Top(piped.caps).overflow THEN Fails(ended, -28)
                 ELSE [ended EXCEPT !.pc = "stage", !.at = 2]
        /\ UNCHANGED holds

\* shell_pipe_stage: a pipe of its own, filled, emptied by the filter, closed.
\* Other holders may have taken all objects.
PipeStage ==
    LET word == sh.words[sh.at]
        held == [sh EXCEPT !.pipes = @ + 1]
        begun == IF Last THEN held
                 ELSE [held EXCEPT !.caps = shell_capture_begin(@, PipeBuffer)]
        code == IF word \in Filters THEN 0 ELSE -22
        ran == IF code = 0 THEN out_write(begun, Filtered(word, sh.input)) ELSE begun
        ended == IF Last THEN ran ELSE [ran EXCEPT !.caps = shell_capture_end(@),
                                                   !.input = Top(ran.caps).text]
        closed == [ended EXCEPT !.pipes = @ - 1]
    IN  /\ sh.pc = "stage"
        /\ \E others \in 0..Objects :
            sh' = IF others + sh.pipes >= Objects THEN Fails(sh, -12)
                  ELSE IF sh.input.bytes > IpcData THEN Fails(sh, -11)
                  ELSE IF ~Last /\ Top(ran.caps).overflow THEN Fails(closed, -28)
                  ELSE IF code # 0 \/ Last THEN Fails(closed, code)
                  ELSE [closed EXCEPT !.at = @ + 1]
        /\ UNCHANGED <<t, holds>>

\* The end of a plan without a redirection.
FinishPlain ==
    /\ sh.pc = "finish" /\ sh.to = None
    /\ sh' = Read(sh, sh.result # 0)
    /\ UNCHANGED <<t, holds>>

\* The end of a plan with a redirection: the file is opened, and cut, when the
\* whole output is there.  A write that is refused leaves the descriptor open.
FinishRedirect ==
    LET top == Top(sh.caps)
        done == [sh EXCEPT !.caps = shell_capture_end(@)]
        O == IF sh.to \in TmpPaths \union Devices THEN V!VfsOpen(t, 1, sh.to, TRUE, TRUE)
             ELSE V!Ret(t, -22)
        i == O.t.fds[1][O.ret]
        W == V!VfsWrite(O.t, 1, O.ret, top.text.bytes)
        whole == O.ret >= 0 /\ W.ret = top.text.bytes
    IN  /\ sh.pc = "finish" /\ sh.to # None
        /\ \/ /\ sh.result # 0 \/ top.overflow
              /\ sh' = Read(done, TRUE) /\ UNCHANGED <<t, holds>>
           \/ /\ sh.result = 0 /\ ~top.overflow
              /\ sh' = Read(done, ~whole)
              /\ t' = IF O.ret < 0 THEN O.t ELSE IF whole THEN V!VfsClose(W.t, 1, O.ret).t ELSE W.t
              /\ holds' = [f \in FileIdx |->
                            IF O.ret >= 0 /\ O.t.open[i].node = "tmp" /\ O.t.open[i].file = f
                            THEN top.text
                            ELSE IF O.t.files[f].size = 0 THEN NoText ELSE holds[f]]

Next ==
    \/ \E seg \in Segments : shell_execute(seg)
    \/ FirstCommand \/ PipeStage \/ FinishPlain \/ FinishRedirect
Spec == Init /\ [][Next]_vars

(***************************************************************************)
(* Properties                                                              *)
(***************************************************************************)
\* Types of the shell's state; the file's size is that of its text.
TypeOK ==
    /\ sh.pc \in {"read", "command", "stage", "finish"}
    /\ Len(sh.caps) \in 0..CaptureDepth /\ sh.pipes \in 0..Objects
    /\ sh.at \in 0..MaxStages /\ sh.failed \in BOOLEAN /\ sh.input.bytes <= IpcData
    /\ \A f \in FileIdx : holds[f].bytes = t.files[f].size

\* A segment gives back what it took: between two segments no capture is
\* open (the next prompt would go into a dead stack buffer), no pipe is held,
\* and the only descriptors left open are those of redirections to nodes that
\* refuse the write, which shell_execute_plan does not close.
SegmentGivesBack ==
    sh.pc = "read" =>
        /\ sh.caps = <<>> /\ sh.pipes = 0
        /\ V!RefsExact /\ V!CountsExact
        /\ \A i \in OpenIdx : t.open[i].used => t.open[i].node \in {"zero", "proc"}

\* The shell's state between segments.
ShellSound == TypeOK /\ SegmentGivesBack

\* The text a pipeline means: the filters, one after the other.
Meaning(words, x) ==
    LET after[j \in 1..Len(words)] ==
            IF j = 1 THEN x ELSE Filtered(words[j], after[j - 1])
    IN  after[Len(words)]

\* A segment whose end reports no error has delivered the whole text its
\* pipeline means, to the console or to the file; one that fails leaves every
\* file as it was, or empty when the open itself failed after cutting it.
\* That holds when a file is read and written by the same segment.
WholeOrReported ==
    [][(sh.pc = "finish" /\ sh'.pc = "read") =>
        LET whole == Meaning(sh.words, shell_command(sh.words[1]).text) IN
        IF sh'.failed
        THEN \A f \in FileIdx : holds'[f] \in {holds[f], NoText}
        ELSE IF sh.to = None THEN sh.shown = whole
        ELSE \A f \in FileIdx :
                holds'[f] = IF t'.files[f].used /\ t'.files[f].path = sh.to THEN whole ELSE holds[f]
      ]_vars
====
