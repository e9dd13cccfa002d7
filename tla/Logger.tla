-------------------------------- MODULE Logger -------------------------------
(***************************************************************************)
(* rst::Logger with a FileNameSink or a FilePtrSink: threads log messages, *)
(* made with rst::Format(), to the global logger.  A sink writes a line to *)
(* its FILE and flushes it under a mutex.  The program may end at any time *)
(* and with it what is still in the buffer of a FILE.                      *)
(*                                                                         *)
(* g_logger and level_ are not synchronised: a program sets them, and      *)
(* destroys loggers, while no thread is inside Log().                      *)
(***************************************************************************)
EXTENDS Text, FiniteSets

CONSTANTS
  Threads,
  Loggers,
  SinkKind,     \* the sink of each logger: "FileNameSink", "FilePtrSink" or
                \* "shared", a FilePtrSink that does not close its FILE
  LogLevels,    \* the levels of messages
  SetLevels,    \* the levels of loggers
  Calls,        \* calls of Format() that make messages: [format, values]
  MaxLogs,      \* bound: calls of Log()
  nullptr

\* Logger::Level; its first and last are levels of loggers only.
kAll == 0
kDebug == 1
kFatal == 5
kOff == 6

LevelStr == <<"DEBUG", "INFO", "WARNING", "ERROR", "FATAL">>

ASSUME LoggerAssumption ==
  /\ LogLevels \subseteq kDebug..kFatal
  /\ SetLevels \subseteq kAll..kOff
  /\ Calls \subseteq [format : Seq(STRING), values : Seq(Seq(STRING))]
  /\ MaxLogs \in Nat /\ nullptr \notin Loggers \cup Threads

VARIABLES
  call,      \* the call of Format() that the program makes its messages with
  state,     \* each logger: "none", "alive", "failed" or "destroyed"
  level,     \* level_
  global,    \* g_logger
  pc,        \* where each thread is in Log()
  line,      \* its call: the level, what Format() returned and the logger
  logs,      \* calls of Log() so far
  holder,    \* who has the mutex of each sink
  buffer,    \* the buffer of the FILE of each logger
  file,      \* what the operating system has of it
  flushed,   \* history: the levels of the lines, in the order of fflush()
  running    \* the program has not ended

setupVars == <<call, state, level, global>>
threadVars == <<pc, line, logs>>
sinkVars == <<holder, buffer, file, flushed>>
vars == <<setupVars, threadVars, sinkVars, running>>

NoLine == [level |-> kAll, text |-> <<>>, logger |-> nullptr]

Init ==
  /\ call \in Calls
  /\ state = [l \in Loggers |-> "none"]
  /\ level = [l \in Loggers |-> kAll]
  /\ global = nullptr
  /\ pc = [t \in Threads |-> "idle"]
  /\ line = [t \in Threads |-> NoLine]
  /\ logs = 0
  /\ holder = [l \in Loggers |-> nullptr]
  /\ buffer = [l \in Loggers |-> <<>>]
  /\ file = [l \in Loggers |-> <<>>]
  /\ flushed = [l \in Loggers |-> <<>>]
  /\ running = TRUE

\* No thread is inside Log().
Quiet == \A t \in Threads : pc[t] = "idle"

-----------------------------------------------------------------------------
(* Loggers and their sinks *)

\* FileNameSink::Create(): fopen() may fail, which the LogError says.
CreateFileNameSink(l) ==
  /\ state[l] = "none" /\ SinkKind[l] = "FileNameSink"
  /\ \E outcome \in {"alive", "failed"} : state' = [state EXCEPT ![l] = outcome]
  /\ UNCHANGED <<call, level, global, threadVars, sinkVars, running>>

\* The FILE of a FilePtrSink is open already.
CreateFilePtrSink(l) ==
  /\ state[l] = "none" /\ SinkKind[l] # "FileNameSink"
  /\ state' = [state EXCEPT ![l] = "alive"]
  /\ UNCHANGED <<call, level, global, threadVars, sinkVars, running>>

SetGlobalLogger(l) ==
  /\ Quiet /\ state[l] = "alive"
  /\ global' = l
  /\ UNCHANGED <<call, state, level, threadVars, sinkVars, running>>

set_level(l, new) ==
  /\ Quiet /\ state[l] = "alive"
  /\ level' = [level EXCEPT ![l] = new]
  /\ UNCHANGED <<call, state, global, threadVars, sinkVars, running>>

\* A FILE that the sink owns is closed.  g_logger is left as it is.
Destroy(l) ==
  /\ Quiet /\ state[l] = "alive"
  /\ state' = [state EXCEPT ![l] = "destroyed"]
  /\ IF SinkKind[l] = "shared" THEN UNCHANGED <<buffer, file>>
     ELSE /\ file' = [file EXCEPT ![l] = @ \o buffer[l]]
          /\ buffer' = [buffer EXCEPT ![l] = <<>>]
  /\ UNCHANGED <<call, level, global, threadVars, holder, flushed, running>>

-----------------------------------------------------------------------------
(* Log() *)

Bracket == ")] "

LogFormat ==
  <<"[", LeftBrace, RightBrace, ":", LeftBrace, RightBrace, "(", LeftBrace, RightBrace,
    Bracket, LeftBrace, RightBrace>>

\* Format("[{}:{}({})] {}", {level_str, filename, line, message})
LineOf(lev, message) ==
  Format(LogFormat, <<Arg("string", <<LevelStr[lev]>>), Arg("string", <<"file">>),
                      Arg("int", 10), Arg("string", message)>>)

\* The program makes its message and calls Log(), which returns at once when
\* the level is less than level_.
Log(t, lev) ==
  /\ pc[t] = "idle" /\ logs < MaxLogs
  /\ global # nullptr /\ state[global] = "alive"
  /\ logs' = logs + 1
  /\ \E message \in Format(call.format, call.values) :
       \/ lev < level[global] /\ UNCHANGED <<pc, line>>
       \/ /\ lev >= level[global]
          /\ pc' = [pc EXCEPT ![t] = "lock"]
          /\ \E text \in LineOf(lev, message) :
               line' = [line EXCEPT ![t] = [level |-> lev, text |-> text,
                                            logger |-> global]]
  /\ UNCHANGED <<setupVars, sinkVars, running>>

\* Mutant: the sink has no mutex.
LockNothing(t) ==
  /\ pc[t] = "lock"
  /\ pc' = [pc EXCEPT ![t] = "print"]
  /\ UNCHANGED <<setupVars, line, logs, sinkVars, running>>

\* Log() of the sink: std::lock_guard
Lock(t) ==
  /\ pc[t] = "lock" /\ holder[line[t].logger] = nullptr
  /\ holder' = [holder EXCEPT ![line[t].logger] = t]
  /\ pc' = [pc EXCEPT ![t] = "print"]
  /\ UNCHANGED <<setupVars, line, logs, buffer, file, flushed, running>>

\* What "%.*s" prints of a string: it ends before the first '\0'.
Printed(text) ==
  LET nul == SelectInSeq(text, LAMBDA c : c = "NUL")
  IN  IF nul = 0 THEN text ELSE SubSeq(text, 1, nul - 1)

\* fprintf() fills the buffer with the line and its end, one after the other.
Write(t) ==
  /\ pc[t] \in {"print", "newline"}
  /\ LET part == IF pc[t] = "print" THEN Printed(line[t].text) ELSE <<"\n">>
     IN  buffer' = [buffer EXCEPT ![line[t].logger] = @ \o part]
  /\ pc' = [pc EXCEPT ![t] = IF @ = "print" THEN "newline" ELSE "flush"]
  /\ UNCHANGED <<setupVars, line, logs, holder, file, flushed, running>>

\* Mutant: fflush() is missing.
UnlockUnflushed(t) ==
  /\ pc[t] = "flush"
  /\ LET l == line[t].logger
     IN  /\ flushed' = [flushed EXCEPT ![l] = Append(@, line[t].level)]
         /\ holder' = [holder EXCEPT ![l] = nullptr]
  /\ pc' = [pc EXCEPT ![t] = "check"]
  /\ UNCHANGED <<setupVars, line, logs, buffer, file, running>>

\* fflush(), and the end of the critical section.
Flush(t) ==
  /\ pc[t] = "flush"
  /\ LET l == line[t].logger
     IN  /\ file' = [file EXCEPT ![l] = @ \o buffer[l]]
         /\ buffer' = [buffer EXCEPT ![l] = <<>>]
         /\ flushed' = [flushed EXCEPT ![l] = Append(@, line[t].level)]
         /\ holder' = [holder EXCEPT ![l] = nullptr]
  /\ pc' = [pc EXCEPT ![t] = "check"]
  /\ UNCHANGED <<setupVars, line, logs, running>>

\* RST_CHECK(level != Level::kFatal)
Return(t) ==
  /\ pc[t] = "check"
  /\ running' = (line[t].level # kFatal)
  /\ pc' = [pc EXCEPT ![t] = IF running' THEN "idle" ELSE @]
  /\ line' = [line EXCEPT ![t] = NoLine]
  /\ UNCHANGED <<setupVars, logs, sinkVars>>

-----------------------------------------------------------------------------
(* The C library and the rest of the program *)

\* The library writes what is in a buffer before it is asked to.
Spill(l) ==
  /\ buffer[l] # <<>>
  /\ file' = [file EXCEPT ![l] = @ \o buffer[l]]
  /\ buffer' = [buffer EXCEPT ![l] = <<>>]
  /\ UNCHANGED <<setupVars, threadVars, holder, flushed, running>>

\* The program is ended from outside or by an assertion: of Format(), or the
\* RST_CHECK of what fprintf() and fflush() return.
End == running' = FALSE /\ UNCHANGED <<setupVars, threadVars, sinkVars>>

LogStep(t) == Lock(t) \/ Write(t) \/ Flush(t) \/ Return(t)

Next ==
  /\ running
  /\ \/ \E l \in Loggers :
          \/ CreateFileNameSink(l) \/ CreateFilePtrSink(l) \/ SetGlobalLogger(l)
          \/ Destroy(l) \/ Spill(l)
          \/ \E new \in SetLevels : set_level(l, new)
     \/ \E t \in Threads : LogStep(t) \/ \E lev \in LogLevels : Log(t, lev)
     \/ End

Spec == Init /\ [][Next]_vars

-----------------------------------------------------------------------------

\* The format string cut into {{, }}, {} and other characters: the places
\* where the pairs begin.  Nothing is paired twice and no brace is left over.
Cuts(format) ==
  {pairs \in SUBSET (1..Len(format) - 1) :
     /\ \A i \in pairs :
          /\ format[i] \in {LeftBrace, RightBrace}
          /\ \/ format[i + 1] = format[i]
             \/ format[i] = LeftBrace /\ format[i + 1] = RightBrace
          /\ i + 1 \notin pairs
     /\ \A i \in DOMAIN format :
          format[i] \in {LeftBrace, RightBrace} => i \in pairs \/ i - 1 \in pairs}

Places(format, pairs) == {i \in pairs : format[i] # format[i + 1]}

Expansion(format, pairs, values) ==
  FlattenSeq([i \in DOMAIN format |->
    CASE i \in Places(format, pairs) ->
           values[Cardinality({j \in Places(format, pairs) : j <= i})]
      [] i - 1 \in pairs -> <<>>
      [] OTHER -> <<format[i]>>])

\* What Format() may return: there is one way to cut a format string at most.
Expansions(format, values) ==
  {Expansion(format, pairs, values) :
     pairs \in {p \in Cuts(format) : /\ Cardinality(Places(format, p)) = Len(values)
                                     /\ "NUL" \notin Range(format)}}

\* Format() puts each argument in the place of a {}, whatever the argument is
\* made of, a brace for a {{ or }}, and fits in the string it has sized before.
\* It asserts exactly when the string cannot be cut into such pairs, there is not
\* one {} for each argument or the literal has a '\0' in it.
FormatIsExact ==
  /\ Format(call.format, call.values) = Expansions(call.format, call.values)
  /\ \A out \in Expansions(call.format, call.values) :
       Len(out) <= Room(call.format, call.values)

\* The line that a message at a level should be.
Rendered(lev) ==
  LET message == CHOOSE out \in Expansions(call.format, call.values) : TRUE
  IN  Printed(StrCat(<<<<"[">>, <<LevelStr[lev]>>, <<":">>, <<"file">>, <<"(">>,
                       Arg("int", 10), <<Bracket>>, message>>)) \o <<"\n">>

Lines(l) == FlattenSeq([i \in DOMAIN flushed[l] |-> Rendered(flushed[l][i])])

\* "Thread safe logging function": the lines of several threads come whole and
\* one after the other, up to the line that is being printed.
LinesAreWhole ==
  \A l \in Loggers :
    LET written == file[l] \o buffer[l]
    IN  \/ written = Lines(l)
        \/ \E t \in Threads : /\ pc[t] \in {"newline", "flush"} /\ line[t].logger = l
                              /\ IsPrefix(Lines(l), written)
                              /\ IsPrefix(written, Lines(l) \o Rendered(line[t].level))

\* However the program ends, the file has every line whose Log() got past the
\* sink, that of the fatal message included.
LoggedLinesAreKept == \A l \in Loggers : IsPrefix(Lines(l), file[l])
=============================================================================
