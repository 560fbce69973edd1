------------------------------- MODULE Errors -------------------------------
(***************************************************************************)
(* Error values and panics (error.c, panic.c): the construction of an      *)
(* error takes a snapshot of the stack, which a panic with that error      *)
(* prints, possibly much later.  Every allocation may fail.  What          *)
(* libbacktrace can tell depends on the executable:                        *)
(*   debug         file, line and function of every pc                     *)
(*   elfSymbols    the function, from pcinfo (no debug info, ELF)          *)
(*   machoSymbols  the function, from syminfo only (no debug info, Mach-O) *)
(*   nosyms        nothing                                                 *)
(*   unreadable    nothing: the executable cannot be opened                *)
(***************************************************************************)
EXTENDS Mangling

CONSTANTS
    Programs,         \* [exe, stacks, errors]: what the executable holds; the stacks of
                      \* frames [symbol, line], innermost first, on which the program
                      \* constructs errors; and a bound on how many it constructs
    LineNumbers,      \* lines that the compiler passes; 0: none
    PanicCodes,       \* codes that are passed
    MAX_PC_COUNT

VARIABLES
    program,
    btState,          \* the backtrace_state of libbacktrace has been created
    sbt,              \* the SimpleBacktrace and the error that is being constructed
    errors,           \* the error values of the program
    trace,            \* the error that is printed, and the BacktraceStartLine
    stderr,           \* what has been printed, as lines
    errAt

errVars == <<program, btState, sbt, errors, trace, stderr, errAt>>

INITIAL_PC_COUNT == 1
BACKTRACE_START_INDEX == 1
PanicMessages == 1 .. 12

\* A function without a mangled name: of the runtime, or anonymous.
NoSymbol == [org |-> <<>>, names |-> <<>>, identifier |-> <<>>, isPublic |-> FALSE]
FunctionOf(frame) == IF frame.symbol = NoSymbol THEN <<"c">> ELSE mangleInternalSymbol(frame.symbol)

Importable(symbol) ==
    /\ symbol.org = <<>> \/ validImportPart(symbol.org)
    /\ \A i \in DOMAIN symbol.names : validImportPart(symbol.names[i])

NoError == [message |-> 0, lineNumber |-> 0, pcs |-> <<>>, szPCs |-> 0, code |-> "NO_ERROR",
            internal |-> FALSE, stack |-> <<>>, given |-> <<0, 0>>, failed |-> FALSE]
NoTrace == [of |-> NoError, next |-> 0, code |-> "NO_ERROR", lineNumber |-> 0]

-----------------------------------------------------------------------------
(* Construction *)

\* getSimpleBacktrace as far as backtrace_simple; stack, given and failed are
\* for the properties.
getSimpleBacktrace(new, mallocOK, createOK) ==
    /\ sbt' = IF ~mallocOK THEN [new EXCEPT !.code = "OUT_OF_MEMORY", !.failed = TRUE]
              ELSE IF ~btState /\ ~createOK THEN [new EXCEPT !.szPCs = INITIAL_PC_COUNT, !.code = "errno", !.failed = TRUE]
              ELSE [new EXCEPT !.szPCs = INITIAL_PC_COUNT]
    /\ btState' = (btState \/ (mallocOK /\ createOK))
    /\ errAt' = IF mallocOK /\ btState' THEN "walking" ELSE "walked"
    /\ UNCHANGED <<program, errors, trace, stderr>>

_bal_error_construct(message, lineNumber, given, internal, mallocOK, createOK) ==
    /\ \E stack \in program.stacks :
        /\ \A i \in DOMAIN stack : Importable(stack[i].symbol)
        /\ getSimpleBacktrace([NoError EXCEPT !.message = message, !.lineNumber = lineNumber, !.internal = internal,
                                              !.stack = stack, !.given = given], mallocOK, createOK)

\* buildErrorForConstPanic packs the code and the line; _bal_panic_internal
\* passes a code and goes on to panic.
PackedPanic(code, line) == code + 256 * line

_bal_panic_construct(code, line, internal, mallocOK, createOK) ==
    LET err == PackedPanic(code, line)
    IN IF (err % 256) \notin PanicMessages
       THEN errAt' = "badCode" /\ UNCHANGED <<program, btState, sbt, errors, trace, stderr>>
       ELSE _bal_error_construct(err % 256, err \div 256, <<code, line>>, internal, mallocOK, createOK)

Construct(mallocOK, createOK) ==
    /\ errAt = "running" /\ Len(errors) < program.errors
    /\ \/ \E line \in LineNumbers : _bal_error_construct(0, line, <<0, line>>, FALSE, mallocOK, createOK)
       \/ \E code \in PanicCodes, line \in LineNumbers : _bal_panic_construct(code, line, FALSE, mallocOK, createOK)
       \/ \E code \in PanicCodes : _bal_panic_construct(code, 0, TRUE, mallocOK, createOK)

\* Mutant: the array is taken to be full one pc too late.
storePCCB_Late(reallocOK) ==
    LET nPCs == Len(sbt.pcs)
        stored == [sbt EXCEPT !.pcs = Append(@, sbt.stack[nPCs + 1])]
    IN IF nPCs <= MAX_PC_COUNT
       THEN sbt' = stored /\ errAt' = errAt
       ELSE sbt' = [sbt EXCEPT !.code = "EXCEEDS_MAX_PC_COUNT"] /\ errAt' = "walked"

storePCCB(reallocOK) ==
    LET nPCs == Len(sbt.pcs)
        full == nPCs = sbt.szPCs
        code == IF full /\ sbt.szPCs = MAX_PC_COUNT THEN "EXCEEDS_MAX_PC_COUNT"
                ELSE IF full /\ ~reallocOK THEN "OUT_OF_MEMORY"
                ELSE "NO_ERROR"
    IN IF code # "NO_ERROR"
       THEN /\ sbt' = [sbt EXCEPT !.code = code, !.failed = (code = "OUT_OF_MEMORY")]
            /\ errAt' = "walked"
       ELSE /\ sbt' = [sbt EXCEPT !.szPCs = IF full THEN 2 * @ ELSE @,
                                  !.pcs = Append(@, sbt.stack[nPCs + 1])]
            /\ errAt' = errAt

\* backtrace_simple: the callback for every frame until it fails.
Walk(reallocOK) ==
    /\ errAt = "walking"
    /\ IF Len(sbt.pcs) < Len(sbt.stack) THEN storePCCB(reallocOK) ELSE errAt' = "walked" /\ UNCHANGED sbt
    /\ UNCHANGED <<program, btState, errors, trace, stderr>>

-----------------------------------------------------------------------------
(* Panic *)

\* The program ends, or the error is printed from the start index on.
_bal_panic(e) ==
    /\ stderr' = <<[kind |-> "message", message |-> e.message]>>
    /\ trace' = [of |-> e, next |-> BACKTRACE_START_INDEX, code |-> e.code, lineNumber |-> e.lineNumber]
    /\ errAt' = IF BACKTRACE_START_INDEX < Len(e.pcs) THEN "initialPC" ELSE "report"

\* The error value, allocated with its pcs.
EndConstruct(allocOK) ==
    /\ errAt = "walked"
    /\ IF ~allocOK THEN errAt' = "outOfMemory" /\ UNCHANGED <<errors, trace, stderr>>
       ELSE /\ errors' = Append(errors, sbt)
            /\ IF sbt.internal THEN _bal_panic(sbt) ELSE errAt' = "running" /\ UNCHANGED <<trace, stderr>>
    /\ sbt' = NoError
    /\ UNCHANGED <<program, btState>>

PanicWith ==
    /\ errAt = "running"
    /\ \E k \in DOMAIN errors : _bal_panic(errors[k])
    /\ UNCHANGED <<program, btState, sbt, errors>>

printBacktraceLine(function, line) ==
    stderr' = Append(stderr, [kind |-> "line", text |-> _bal_print_mangled_name(function), line |-> line])

\* Mutant: the line number is kept.
printBacktraceLineCB_KeepsLine(function, lineno) ==
    IF StartsWith(function, <<"_", "B">>)
    THEN /\ printBacktraceLine(function, IF trace.lineNumber # 0 THEN trace.lineNumber ELSE lineno)
         /\ trace' = [trace EXCEPT !.next = @ + 1]
    ELSE trace' = [trace EXCEPT !.next = @ + 1] /\ UNCHANGED stderr

printBacktraceLineCB(function, lineno) ==
    IF StartsWith(function, <<"_", "B">>)
    THEN /\ printBacktraceLine(function, IF trace.lineNumber # 0 THEN trace.lineNumber ELSE lineno)
         /\ trace' = [trace EXCEPT !.next = @ + 1, !.lineNumber = 0]
    ELSE trace' = [trace EXCEPT !.next = @ + 1] /\ UNCHANGED stderr

printMissingSymbolsCB(function) ==
    printBacktraceLine(function, trace.lineNumber) /\ trace' = [trace EXCEPT !.next = @ + 1]

\* The error that is first is kept.
storeBacktraceErrorCB(code) ==
    /\ trace' = [trace EXCEPT !.next = @ + 1, !.code = IF @ = "NO_ERROR" THEN code ELSE @]
    /\ UNCHANGED stderr

\* backtrace_syminfo without an error callback: the call of a null pointer
\* when there are no symbols.
NoErrorCallback == errAt' = "nullCall" /\ UNCHANGED <<trace, stderr>>

Frame(k) == trace.of.pcs[k + 1]
Step == errAt' = IF trace.next + 1 < Len(trace.of.pcs) THEN "nextPC" ELSE "report"

\* backtrace_pcinfo
pcinfo(frame) ==
    CASE program.exe = "debug" -> printBacktraceLineCB(FunctionOf(frame), frame.line)
      [] program.exe = "elfSymbols" -> printBacktraceLineCB(FunctionOf(frame), 0)
      [] program.exe = "unreadable" -> storeBacktraceErrorCB("errno")
      [] OTHER -> storeBacktraceErrorCB("NO_DEBUG_INFO")

syminfo(frame) ==
    IF program.exe = "machoSymbols" THEN printMissingSymbolsCB(FunctionOf(frame)) /\ Step ELSE NoErrorCallback

\* The first error of pcinfo is NO_DEBUG_INFO.
FindsNoDebugInfo == program.exe \in {"machoSymbols", "nosyms"} /\ trace.code = "NO_ERROR"

\* With the first pc pcinfo is asked and then, if there is no debug info,
\* syminfo.
processInitialPC ==
    /\ errAt = "initialPC"
    /\ IF FindsNoDebugInfo
       THEN /\ trace' = [trace EXCEPT !.code = "NO_DEBUG_INFO"]
            /\ errAt' = "initialSymbol" /\ UNCHANGED stderr
       ELSE pcinfo(Frame(trace.next)) /\ Step
    /\ UNCHANGED <<program, btState, sbt, errors>>

InitialSymbol ==
    /\ errAt = "initialSymbol"
    /\ syminfo(Frame(trace.next))
    /\ UNCHANGED <<program, btState, sbt, errors>>

processPCs ==
    /\ errAt = "nextPC"
    /\ IF trace.code = "NO_DEBUG_INFO" THEN syminfo(Frame(trace.next)) ELSE pcinfo(Frame(trace.next)) /\ Step
    /\ UNCHANGED <<program, btState, sbt, errors>>

\* The end of _bal_error_backtrace_print, and abort.
Report ==
    /\ errAt = "report"
    /\ stderr' = IF trace.code = "NO_ERROR" THEN stderr
                 ELSE Append(stderr, [kind |-> "notice",
                                      notice |-> CASE trace.code = "EXCEEDS_MAX_PC_COUNT" -> "..."
                                                   [] trace.code = "OUT_OF_MEMORY" -> "out of memory"
                                                   [] OTHER -> "libbacktrace"])
    /\ errAt' = "aborted"
    /\ UNCHANGED <<program, btState, sbt, errors, trace>>

-----------------------------------------------------------------------------
ErrorsInit ==
    /\ program \in Programs
    /\ btState = FALSE /\ sbt = NoError /\ errors = <<>> /\ trace = NoTrace
    /\ stderr = <<>> /\ errAt = "running"

ErrorsNext ==
    \/ \E mallocOK, createOK \in BOOLEAN : Construct(mallocOK, createOK)
    \/ \E reallocOK \in BOOLEAN : Walk(reallocOK)
    \/ \E allocOK \in BOOLEAN : EndConstruct(allocOK)
    \/ PanicWith \/ processInitialPC \/ InitialSymbol \/ processPCs \/ Report

-----------------------------------------------------------------------------
Named(frame) == frame.symbol # NoSymbol
LeastOf(m, n) == IF m <= n THEN m ELSE n

\* The frames that a backtrace shows: those of functions with a name, of the
\* part of the snapshot that is printed.
ShownFrames(e) == SelectSeq(SubSeq(e.pcs, BACKTRACE_START_INDEX + 1, Len(e.pcs)), Named)

PrintedLines == SelectSeq(stderr, LAMBDA l : l.kind = "line")
Notices == SelectSeq(stderr, LAMBDA l : l.kind = "notice")

\* What is said about what is missing: the stack is deeper than the snapshot,
\* memory ran out, or libbacktrace failed, whatever came first.
ExpectedNotice(e) ==
    IF e.failed THEN IF e.code = "errno" THEN "libbacktrace" ELSE "out of memory"
    ELSE IF Len(e.stack) > MAX_PC_COUNT THEN "..."
    ELSE IF program.exe \in {"machoSymbols", "nosyms", "unreadable"} /\ Len(e.pcs) > BACKTRACE_START_INDEX THEN "libbacktrace"
    ELSE "none"

\* A panic prints the message of its code and the stack at the place where
\* the error was constructed: innermost first, every named function once for
\* each call, cut off only at the limit or for want of memory, which the last
\* line says.  The line the compiler passed is that of the first function
\* only (error.c:36), the others have the lines of the debug info.
\* Lines are compared with debug info or ELF symbols only: with symbols that
\* syminfo alone finds, printMissingSymbolsCB repeats the passed line on every
\* one (error.c:219) and only their number is compared; without any symbols the
\* program ends in a null call and does not get here.
BacktraceFaithful ==
    errAt = "aborted" =>
        LET e == trace.of
            shown == ShownFrames(e)
            lines == PrintedLines
            passed(i) == i = 1 /\ e.lineNumber # 0
        IN /\ stderr[1].message = e.given[1] /\ e.lineNumber = e.given[2]
           /\ e.pcs = SubSeq(e.stack, 1, Len(e.pcs))
           /\ ~e.failed => Len(e.pcs) = LeastOf(Len(e.stack), MAX_PC_COUNT)
           /\ program.exe \in {"debug", "elfSymbols"} =>
                /\ Len(lines) = Len(shown)
                /\ \A i \in DOMAIN lines :
                    lines[i].line = IF passed(i) THEN e.lineNumber ELSE IF program.exe = "debug" THEN shown[i].line ELSE 0
           /\ program.exe = "machoSymbols" /\ e.code = "NO_ERROR" => Len(lines) = Len(e.pcs) - LeastOf(Len(e.pcs), BACKTRACE_START_INDEX)
           /\ IF Notices = <<>> THEN ExpectedNotice(e) = "none" ELSE Notices[1].notice = ExpectedNotice(e)

\* The part of an org behind "ballerina" starts with an underscore:
\* delimitName marks a name that starts with a digit by an underscore, which
\* demangleCountedName skips whether or not delimitName wrote it, so
\* ballerina_x is not read back (symbol.bal:28, error.c:368).  The modules
\* that are compiled have no org.
OrgMisread(org) == StartsWith(org, Ballerina \o <<"_">>)

\* The functions in a backtrace are shown by the names they have in the
\* source, with the module of a public one: what symbol.bal encodes, for the
\* names that the parser lets an import have, is what demangle of error.c
\* reads (error.c:290), unless the org is one that is misread.
NamesShown ==
    errAt = "aborted" /\ program.exe \in {"debug", "elfSymbols"} =>
        LET shown == ShownFrames(trace.of)
        IN \A i \in DOMAIN PrintedLines :
            i \in DOMAIN shown /\ ~OrgMisread(shown[i].symbol.org) => PrintedLines[i].text = Shown(shown[i].symbol)
=============================================================================
