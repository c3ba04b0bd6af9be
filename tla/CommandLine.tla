---------------------------- MODULE CommandLine -----------------------------
(***************************************************************************)
(* What core 0 does with a line that the user enters: ui_process.c takes   *)
(* it apart at ; || and &&, and runs the commands one after the other as   *)
(* the outcome of each allows, or hands the line to the bus syntax (see    *)
(* Syntax).  A script or macro puts its own lines in the place of the one  *)
(* that called it, and runs them in the same way.                          *)
(*                                                                         *)
(* A command is one of a kind, and its outcome the environment's choice;   *)
(* so is the rest of a line, whenever the code looks for it, and the next  *)
(* line of a script.  Left out: parsing of arguments, help, texts, and the *)
(* logic analyzer that follows along.                                      *)
(***************************************************************************)
EXTENDS Syntax

VARIABLES c0,
          hiz,           \* system_config.mode = HIZ
          first,         \* the next command found is the first one of the buffer
          program,       \* the buffer, from its start, may be a program
          delimiter,     \* cp.delimiter
          failed,        \* result.error
          outer,         \* the command that runs a script: its local variables
          status,        \* what ui_process_commands returns: error or not
          ran            \* the last command of this line, and its outcome

buffer == <<first, program, delimiter>>
calls  == <<failed, outer, status>>
vars   == <<c0, hiz, buffer, calls, ran, syntax_io>>

(* "nohiz" is a global command that is refused in HiZ; a command of the    *)
(* display counts as "global"; "blank" has no name, or one that begins     *)
(* with a hyphen.  A line that begins with a delimiter begins with an      *)
(* "unknown" command: the delimiter is taken for its name.                 *)
Kinds == {"global", "nohiz", "mode", "syntax", "unknown", "blank"}
Delimiters == {"end", ";", "||", "&&"}

Nobody == [delimiter |-> ";", failed |-> FALSE]

Init ==
    /\ c0 = "prompt" /\ hiz = TRUE
    /\ first = TRUE /\ program = TRUE /\ delimiter = "end"
    /\ failed = FALSE /\ outer = <<>> /\ status = FALSE
    /\ ran = Nobody
    /\ Empty

-----------------------------------------------------------------------------
(* Plausible slips: each of them breaks a property below.                  *)
DelimiterOfTheScript == delimiter

-----------------------------------------------------------------------------
(* A new line in the buffer, typed or injected by a script.                *)
Entered == first' = TRUE /\ program' = TRUE /\ delimiter' = "end" /\ ran' = Nobody

TypeLine ==
    /\ c0 = "prompt" /\ c0' = "next"
    /\ Entered
    /\ UNCHANGED <<hiz, calls, syntax_io>>

Return(error) == c0' = "return" /\ status' = error /\ UNCHANGED <<failed, outer>>

(* cmdln_find_next_command, and the search for the command's name.  The    *)
(* last command may have a delimiter with nothing behind it.               *)
EndOfLine ==
    /\ c0 = "next"
    /\ Return(FALSE)
    /\ UNCHANGED <<hiz, buffer, ran, syntax_io>>

Find ==
    /\ c0 = "next"
    /\ first \/ delimiter # "end"
    /\ first' = FALSE /\ delimiter' \in Delimiters

Skip ==
    /\ Find
    /\ program' = FALSE
    /\ UNCHANGED <<c0, hiz, calls, ran, syntax_io>>

Refuse(kind) ==
    /\ Find
    /\ kind = "unknown" \/ (hiz /\ kind \in {"nohiz", "mode"})
    /\ Return(TRUE)
    /\ UNCHANGED <<hiz, program, ran, syntax_io>>

Begin ==
    /\ failed' = FALSE /\ program' = FALSE
    /\ ran' = [delimiter |-> delimiter', failed |-> FALSE]
    /\ UNCHANGED <<hiz, outer, status, syntax_io>>

FindGlobal(kind) ==
    /\ Find
    /\ kind = "global" \/ (~hiz /\ kind = "nohiz")
    /\ c0' = "global"
    /\ Begin

FindMode ==
    /\ Find
    /\ ~hiz
    /\ c0' = "mode"
    /\ Begin

(* The compiler begins at the start of the buffer, and a delimiter is no   *)
(* syntax, unless it is quoted in a string, which the search for the end   *)
(* of a command does not look at: a line of several commands is no program.*)
FindSyntax ==
    /\ Find
    /\ c0' = "compile"
    /\ \E quoted \in BOOLEAN : program' = (program /\ (delimiter' = "end" \/ quoted))
    /\ Clear
    /\ failed' = FALSE /\ ran' = Nobody
    /\ UNCHANGED <<hiz, outer, status>>

-----------------------------------------------------------------------------
(* A command sets result.error or not, and a global one may change the     *)
(* mode.  One that prompts leaves its answer in the buffer: what is left   *)
(* of the line is what the answer has at the same place.                   *)
Done(error) ==
    /\ c0' = "after" /\ failed' = error
    /\ ran' = [ran EXCEPT !.failed = error]

MayPrompt == program' \in BOOLEAN /\ UNCHANGED <<first, delimiter>>

RunGlobal ==
    /\ c0 = "global"
    /\ \E error \in BOOLEAN : Done(error)
    /\ MayPrompt
    /\ hiz' \in BOOLEAN
    /\ UNCHANGED <<outer, status, syntax_io>>

RunMode ==
    /\ c0 = "mode"
    /\ \E error \in BOOLEAN : Done(error)
    /\ MayPrompt
    /\ UNCHANGED <<hiz, outer, status, syntax_io>>

(* script_exec, for a command or, at the prompt, for a press of the button.*)
(* A macro is a script of one line whose error counts for nothing.         *)
(* Scripts that run scripts are cut at the first level.                    *)
RunScript ==
    /\ c0 \in {"global", "prompt"} /\ outer = <<>>
    /\ \E abort \in BOOLEAN :
           outer' = <<[delimiter |-> delimiter, abort |-> abort]>>
    /\ c0' = "next" /\ Entered
    /\ UNCHANGED <<hiz, failed, status, syntax_io>>

NextScriptLine ==
    /\ c0 = "return" /\ outer # <<>>
    /\ ~(status /\ outer[1].abort)
    /\ c0' = "next" /\ Entered
    /\ UNCHANGED <<hiz, calls, syntax_io>>

(* The local variables of the outer call are as they were; the buffer has  *)
(* the script's last line.                                                 *)
OwnDelimiter == outer[1].delimiter

EndOfScript ==
    /\ c0 = "return" /\ outer # <<>>
    /\ c0' = "after" /\ failed' = (status /\ outer[1].abort)
    /\ ran' = [delimiter |-> outer[1].delimiter, failed |-> failed']
    /\ delimiter' = OwnDelimiter /\ first' = FALSE /\ program' \in BOOLEAN
    /\ outer' = <<>> /\ status' = FALSE
    /\ UNCHANGED <<hiz, syntax_io>>

(* cmd_ok: what the delimiter makes of the outcome.                        *)
GoesOn ==
    \/ delimiter = ";"
    \/ delimiter = "||" /\ failed
    \/ delimiter = "&&" /\ ~failed

After ==
    /\ c0 = "after"
    /\ IF GoesOn THEN c0' = "next" /\ UNCHANGED calls ELSE Return(FALSE)
    /\ UNCHANGED <<hiz, buffer, ran, syntax_io>>

-----------------------------------------------------------------------------
(* ui_process_syntax                                                       *)
Compile ==
    /\ c0 = "compile" /\ program
    /\ CompileItem \/ CompileString
    /\ UNCHANGED <<c0, hiz, buffer, calls, ran>>

CompileError ==
    /\ c0 = "compile"
    /\ Return(TRUE) /\ Clear
    /\ UNCHANGED <<hiz, buffer, ran>>

(* The messages to core 1 before and after the program are in Monitor.     *)
Compiled ==
    /\ c0 = "compile" /\ program
    /\ c0' = "run"
    /\ UNCHANGED <<hiz, buffer, calls, ran, syntax_io>>

Run ==
    /\ c0 = "run"
    /\ RunItem
    /\ UNCHANGED <<c0, hiz, buffer, calls, ran>>

RunEnds ==
    /\ c0 = "run" /\ Ran
    /\ c0' = "post"
    /\ UNCHANGED <<hiz, buffer, calls, ran, syntax_io>>

(* A program without an item is an error of syntax_run, one without a      *)
(* result an error of syntax_post.                                         *)
PostProcess ==
    /\ c0 = "post"
    /\ Return(out = <<>> \/ in = <<>>)
    /\ Post
    /\ UNCHANGED <<hiz, buffer, ran>>

(* What happens behind an overrun is undefined and not modelled: the       *)
(* device is started again.                                                *)
Restart ==
    /\ c0 = "run" /\ Overrun
    /\ c0' = "prompt" /\ hiz' = TRUE
    /\ failed' = FALSE /\ outer' = <<>> /\ status' = FALSE
    /\ Entered /\ Clear

-----------------------------------------------------------------------------
(* Back to the main loop, which shows an error and then a prompt.  What    *)
(* the line left behind has no effect on the next one; it is forgotten.    *)
Prompt ==
    /\ c0 = "return" /\ outer = <<>>
    /\ c0' = "prompt" /\ status' = FALSE /\ failed' = FALSE
    /\ Entered
    /\ UNCHANGED <<hiz, outer, syntax_io>>

Next ==
    \/ TypeLine \/ EndOfLine \/ Skip \/ \E kind \in Kinds : Refuse(kind) \/ FindGlobal(kind)
    \/ FindMode \/ FindSyntax
    \/ RunGlobal \/ RunMode \/ RunScript \/ NextScriptLine \/ EndOfScript \/ After
    \/ Compile \/ CompileError \/ Compiled \/ Run \/ RunEnds \/ PostProcess \/ Restart
    \/ Prompt

Spec == Init /\ [][Next]_vars

-----------------------------------------------------------------------------
TypeOK ==
    /\ c0 \in {"prompt", "next", "global", "mode", "after", "compile", "run", "post", "return"}
    /\ {hiz, first, program, failed, status} \subseteq BOOLEAN
    /\ delimiter \in Delimiters /\ ran \in [delimiter : Delimiters, failed : BOOLEAN]
    /\ Len(outer) <= 1
    /\ out \in Seq(Item) /\ Len(out) <= MaxItems /\ generated \in 0..MaxLength-1
    /\ pos \in 1..Len(out) + 1
    /\ \A i \in 1..Len(in) : /\ in[i].item \in 1..Len(out)
                             /\ in[i].error \in {"none", "bus", "full"}

(* A program that the compiler accepts has room for its results, and runs  *)
(* to its end, or to an error of the bus ("Performs bounds checking",      *)
(* syntax.h:34).  What the code does not provide for is excluded: a repeat *)
(* of 0, whose result the compiler does not count; a repeat that alone     *)
(* exceeds the buffer, which may wrap the count and be accepted            *)
(* (syntax_compile.c:216); and, for running to the end, a read that is     *)
(* repeated less often than the first item, whose repeat syntax_run_read   *)
(* takes for its own.  The first two may overrun the buffer.               *)
Counted == \A i \in 1..Len(out) : out[i].repeat > 0 /\ Needs(out[i]) < MaxLength

ReadsCountTheirOwn ==
    \A i \in 1..Len(out) : out[i].command = "read" => out[1].repeat <= out[i].repeat

AcceptedProgramsRun ==
    c0 = "run" /\ Counted =>
        /\ Len(in) < MaxLength
        /\ ReadsCountTheirOwn =>
              /\ \A i \in 1..Len(in) : in[i].error # "full"
              /\ Ran /\ out # <<>> =>
                    in # <<>> /\ (Last(in).item = Len(out) \/ Last(in).error = "bus")

(* Of the commands of a line, one is begun only if the one before it ended *)
(* as the delimiter between them demands, also when that one was a script  *)
(* that ran lines of its own ("Chain multiple commands with ; || &&.").    *)
Honoured ==
    /\ ran.delimiter # "end"
    /\ ran.delimiter = "||" => ran.failed
    /\ ran.delimiter = "&&" => ~ran.failed

ChainIsHonoured ==
    [][c0 = "next" /\ c0' \in {"global", "mode", "compile"} => Honoured]_vars

=============================================================================
